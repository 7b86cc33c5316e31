------------------------ MODULE SharedConnectionProofs ------------------------
(***************************************************************************)
(* SQLite's one connection, for any number of calls: whatever the others   *)
(* do to each other's transactions, a call that began at rest and was not  *)
(* overlapped keeps its index and its bit.                                 *)
(*                                                                         *)
(* The inductive invariant says of such a call while it runs that the      *)
(* connection is in its own transaction (AtRestShape), and afterwards that *)
(* nothing that may still be written or come back is behind it             *)
(* (Respects, of every version, and Heirs, of every open call).            *)
(***************************************************************************)
EXTENDS SharedConnection, TLAPS

Computed == {"saveData", "updateData", "findList", "saveList"}
Body == Computed \cup {"findData", "check", "findPath", "updateList"}
PCs == Body \cup {"idle", "begin", "commit", "rollback", "done"}
Withins == {"call", "data", "list"}
Versions == [index : Nat, revoked : SUBSET Nat]
Frames == [name : Nat, was : Versions]
Bits == [index : Nat, revoked : BOOLEAN]

\* Which locals are set at which statement.
HasList(r) == pc[r] \in {"saveList", "updateList"} \/ within[r] = "list"
HasEntity(r) == r \in Open /\ entity[r] # NoIndex
HasPage(r) == r \in Open /\ HasList(r)

Point(r) ==
    /\ pc[r] \in Computed \cup {"findData"} \/ within[r] = "data" => kind[r] = "issue"
    /\ pc[r] \in {"check", "findPath"} => kind[r] # "issue"
    /\ r \in Open /\ kind[r] # "issue" => target[r] \in Nat
    /\ entity[r] # NoIndex => kind[r] = "issue" /\ entity[r] \in Nat /\ entity[r] > 0
    /\ pc[r] \in {"saveData", "updateData"} \/ within[r] = "data" => entity[r] # NoIndex
    /\ HasPage(r) => page[r] \in SUBSET Nat
    /\ given[r] # NoIndex => pc[r] = "done" /\ given[r] \in Nat
    /\ pc[r] = "idle" => entity[r] = NoIndex /\ within[r] = "call"

Typed ==
    /\ mem \in Versions
    /\ stack \in Seq(Frames)
    /\ depth \in Int /\ active \in BOOLEAN
    /\ pc \in [Requests -> PCs]
    /\ level \in [Requests -> Int]
    /\ within \in [Requests -> Withins]
    /\ kind \in [Requests -> Kinds]
    /\ DOMAIN target = Requests /\ DOMAIN entity = Requests
    /\ DOMAIN page = Requests /\ DOMAIN given = Requests
    /\ alone \in [Requests -> {"no", "yes", "atRest"}]
    /\ settled \in SUBSET Bits

\* A call that nothing overlapped so far is the only one.
Apart == \A q, r \in Open : alone[r] # "no" => q = r

\* One that began at rest runs in the one transaction of the connection, and sees what
\* it wrote.
AtRestShape(r) ==
    /\ pc[r] = "begin" => stack = <<>> /\ depth = 0 /\ active /\ level[r] = 0
    /\ pc[r] \in Body \cup {"commit"} => Len(stack) = 1 /\ depth = 1 /\ active /\ level[r] = 0
    /\ pc[r] # "rollback" => within[r] = "call"
    /\ pc[r] \in {"findList", "saveList", "updateList", "commit"} /\ kind[r] = "issue" =>
           entity[r] = mem.index
    /\ pc[r] = "updateList" /\ kind[r] # "issue" =>
           (target[r] \in page[r]) = (kind[r] = "revoke")
    /\ pc[r] = "commit" /\ kind[r] # "issue" =>
           (target[r] \in mem.revoked) = (kind[r] = "revoke")

\* A version is not behind what serial calls were answered.
Respects(v) ==
    /\ \A r \in Serial : given[r] <= v.index
    /\ \A s \in settled : (s.index \in v.revoked) = s.revoked

\* Nor is what an open call is about to write.
Heir(q) ==
    /\ HasEntity(q) => \A r \in Serial : given[r] < entity[q]
    /\ HasPage(q) => \A s \in settled : (s.index \in page[q]) = s.revoked
    /\ q \in Open /\ kind[q] # "issue" => \A s \in settled : s.index # target[q]

SerialGiven ==
    /\ \A r \in Serial : given[r] > 0
    /\ \A q, r \in Serial : q # r => given[q] # given[r]

SqliteInv ==
    /\ Typed
    /\ \A r \in Requests : Point(r)
    /\ Apart
    /\ \A r \in Open : alone[r] = "atRest" => AtRestShape(r)
    /\ Respects(mem) /\ \A i \in 1..Len(stack) : Respects(stack[i].was)
    /\ \A q \in Requests : Heir(q)
    /\ SerialGiven

-----------------------------------------------------------------------------
(* A step of an open call that is not its answer.                          *)

Sends(r) == \E p \in PCs \ {"idle"}, n \in Int, w \in Withins : Send(r, p, n, w)

LEMMA SerialTyped ==
    ASSUME SqliteInv
    PROVE  \A r \in Serial : r \in Requests /\ r \notin Open /\ given[r] \in Nat
BY DEF SqliteInv, Point, Serial, Open

LEMMA StepKept ==
    ASSUME SqliteInv, NEW r \in Open, Sends(r),
           UNCHANGED <<kind, target, given, history>>,
           DOMAIN entity' = Requests, DOMAIN page' = Requests,
           \A q \in Requests \ {r} : entity'[q] = entity[q] /\ page'[q] = page[q],
           mem' \in Versions, stack' \in Seq(Frames), depth' \in Int, active' \in BOOLEAN,
           Respects(mem'), \A i \in 1..Len(stack') : Respects(stack'[i].was),
           Point(r)', Heir(r)',
           alone[r] = "atRest" /\ r \in Open' => AtRestShape(r)'
    PROVE  SqliteInv'
<1>1. /\ pc' \in [Requests -> PCs] /\ level' \in [Requests -> Int]
      /\ within' \in [Requests -> Withins] /\ pc'[r] # "idle"
      /\ \A q \in Requests \ {r} : /\ pc'[q] = pc[q] /\ within'[q] = within[q]
                                   /\ level'[q] = level[q]
  BY DEF Sends, Send, Goto, SqliteInv, Typed, Open
<1>2. Open' \subseteq Open /\ \A q \in Requests \ {r} : q \in Open' <=> q \in Open
  BY <1>1 DEF Open
<1>3. Typed'
  BY <1>1 DEF SqliteInv, Typed, history
<1>4. Serial' = Serial
  <2>1. given[r] = NoIndex
    BY DEF SqliteInv, Point, Open
  <2> QED
    BY <1>1, <2>1 DEF Serial, history
<1>5. \A q \in Requests : Point(q)'
  BY <1>1, <1>2 DEF SqliteInv, Point, HasPage, HasList
<1>6. Apart'
  BY <1>2 DEF SqliteInv, Apart, history
<1>7. \A q \in Open' : alone'[q] = "atRest" => AtRestShape(q)'
  BY <1>2 DEF SqliteInv, Apart, history
<1>8. Respects(mem)' /\ \A i \in 1..Len(stack') : Respects(stack[i].was)'
  BY <1>4 DEF Respects, history
<1>9. \A q \in Requests : Heir(q)'
  BY <1>1, <1>2, <1>4 DEF SqliteInv, Heir, HasEntity, HasPage, HasList, history
<1>10. SerialGiven'
  BY <1>4 DEF SqliteInv, SerialGiven
<1> QED
  BY <1>3, <1>5, <1>6, <1>7, <1>8, <1>9, <1>10 DEF SqliteInv

\* One that leaves the tables, the transactions and the count alone.
LEMMA QuietKept ==
    ASSUME SqliteInv, NEW r \in Open, Sends(r),
           UNCHANGED <<mem, stack, depth, kind, target, given, history>>,
           active' \in BOOLEAN,
           DOMAIN entity' = Requests, DOMAIN page' = Requests,
           \A q \in Requests \ {r} : entity'[q] = entity[q] /\ page'[q] = page[q],
           Point(r)', Heir(r)',
           alone[r] = "atRest" /\ r \in Open' => AtRestShape(r)'
    PROVE  SqliteInv'
BY StepKept DEF SqliteInv, Typed

\* What a call that keeps its locals and does not answer has to show.
LEMMA SameLocals ==
    ASSUME SqliteInv, NEW r \in Open, UNCHANGED <<kind, target, entity, page, given, history>>,
           NEW p \in PCs \ {"idle"}, NEW n \in Int, NEW w \in Withins, Send(r, p, n, w),
           p \in Computed \cup {"findData"} \/ w = "data" => kind[r] = "issue",
           p \in {"check", "findPath"} => kind[r] # "issue",
           p \in {"saveData", "updateData"} \/ w = "data" => entity[r] # NoIndex,
           p \in {"saveList", "updateList"} \/ w = "list" => HasList(r)
    PROVE  Sends(r) /\ Point(r)' /\ Heir(r)'
<1>1. pc'[r] = p /\ within'[r] = w /\ level'[r] = n /\ r \in Requests
  BY DEF Send, Goto, SqliteInv, Typed, Open
<1>2. given[r] = NoIndex
  BY DEF SqliteInv, Point, Open
<1>3. Point(r)'
  BY <1>1, <1>2 DEF SqliteInv, Point, HasPage, HasList, Open
<1>4. Serial' = Serial
  <2>1. \A q \in Requests : q # r => pc'[q] = pc[q]
    BY DEF Send, Goto, SqliteInv, Typed
  <2> QED
    BY <1>2, <2>1 DEF Serial, history
<1>5. Heir(r)'
  BY <1>1, <1>4 DEF SqliteInv, Heir, HasEntity, HasPage, HasList, Open, history
<1> QED
  BY <1>3, <1>5 DEF Sends

\* An error inside w: the call is at its rollback, or answered.
LEMMA ThrowSends ==
    ASSUME NEW r \in Open, NEW w, NEW a \in BOOLEAN, NEW d \in Int, Throw(r, w, a, d)
    PROVE  \E p \in {"rollback", "done"}, n \in Int, v \in {w, "call"} :
               Send(r, p, n, v) /\ (p = "done" => v = "call")
<1>1. Innermost(d) \in Int
  BY DEF Innermost
<1> QED
  BY <1>1 DEF Throw, Run

LEMMA CommitSends ==
    ASSUME NEW r \in Open, NEW w, NEW a \in BOOLEAN, NEW d \in Int, CommitTransaction(r, w, a, d)
    PROVE  \/ a /\ Send(r, "commit", Innermost(d), w) /\ Innermost(d) \in Int
           \/ ~a /\ Send(r, "done", 0, "call")
BY DEF CommitTransaction, Run, Innermost

\* The call throws, or a save() of it whose transaction is w.
LEMMA ThrowKept ==
    ASSUME SqliteInv, NEW r \in Open, NEW w \in {"call", within[r]},
           Throw(r, w, active, depth),
           UNCHANGED <<mem, stack, runner, request, history>>
    PROVE  SqliteInv'
<1>1. r \in Requests /\ active \in BOOLEAN /\ depth \in Int /\ within[r] \in Withins
  BY DEF Open, SqliteInv, Typed
<1>2. PICK p \in {"rollback", "done"}, n \in Int, v \in {w, "call"} :
          Send(r, p, n, v) /\ (p = "done" => v = "call")
  BY <1>1, ThrowSends
<1>3. p \in PCs \ {"idle"} /\ v \in Withins
  BY <1>1 DEF PCs, Withins
<1>4. v = "data" => kind[r] = "issue" /\ entity[r] # NoIndex
  BY <1>1 DEF SqliteInv, Point
<1>5. v = "list" => HasList(r)
  BY DEF HasList
<1>6. Sends(r) /\ Point(r)' /\ Heir(r)'
  BY <1>2, <1>3, <1>4, <1>5, SameLocals DEF request, Computed
<1>7. pc'[r] = p
  BY <1>1, <1>2 DEF Send, Goto, SqliteInv, Typed
<1>8. r \in Open' => AtRestShape(r)'
  BY <1>7 DEF AtRestShape, Body, Computed, Open
<1> QED
  BY <1>6, <1>8, QuietKept DEF runner, request, SqliteInv, Typed

LEMMA BeganKept ==
    ASSUME SqliteInv, NEW r \in Requests, Began(r)
    PROVE  SqliteInv'
<1>1. r \in Open /\ pc[r] = "begin" /\ level[r] \in Int /\ within[r] \in Withins
  BY DEF Began, Open, SqliteInv, Typed
<1>2. CASE IF level[r] = 0 THEN stack = <<>> ELSE level[r] > 0
  <2> DEFINE p == IF within[r] = "call" THEN Entry(r) ELSE Written[within[r]]
             frame == [name |-> level[r], was |-> mem]
  <2>1. stack' = Append(stack, frame) /\ depth' = depth + 1 /\ Send(r, p, 0, within[r])
    BY <1>2 DEF Began, Run
  <2>2. UNCHANGED <<mem, active, kind, target, entity, page, given, history>>
    BY DEF Began, request
  <2>3. frame \in Frames
    BY <1>1, <1>2 DEF SqliteInv, Typed, Frames
  <2>4. /\ stack' \in Seq(Frames) /\ Len(stack') = Len(stack) + 1
        /\ \A i \in 1..Len(stack') : stack'[i] = IF i \in 1..Len(stack) THEN stack[i] ELSE frame
    BY <2>1, <2>3 DEF SqliteInv, Typed
  <2>5. /\ p \in PCs \ {"idle"}
        /\ \/ p \in {"findData", "check"} /\ within[r] = "call"
           \/ p = "updateData" /\ within[r] = "data"
           \/ p = "updateList" /\ within[r] = "list"
        /\ p = "findData" => kind[r] = "issue"
        /\ p = "check" => kind[r] # "issue"
    BY <1>1 DEF Entry, Written, Withins, PCs, Body, Computed
  <2> HIDE DEF p
  <2>6. within[r] = "data" => kind[r] = "issue" /\ entity[r] # NoIndex
    BY <1>1 DEF SqliteInv, Point
  <2>7. Sends(r) /\ Point(r)' /\ Heir(r)'
    <3>1. /\ p \in Computed \cup {"findData"} \/ within[r] = "data" => kind[r] = "issue"
          /\ p \in {"check", "findPath"} => kind[r] # "issue"
          /\ p \in {"saveData", "updateData"} \/ within[r] = "data" => entity[r] # NoIndex
      <4>1. kind[r] = "issue" \/ within[r] # "data"
        BY <2>6
      <4> QED
        BY <2>5, <2>6, <4>1 DEF Computed
    <3>2. p \in {"saveList", "updateList"} \/ within[r] = "list" => HasList(r)
      BY <2>5 DEF HasList
    <3> QED
      BY <1>1, <2>1, <2>2, <2>5, <3>1, <3>2, SameLocals
  <2>8. alone[r] = "atRest" => AtRestShape(r)'
    <3>1. pc'[r] = p /\ within'[r] = within[r] /\ level'[r] = 0
      BY <2>1 DEF Send, Goto, SqliteInv, Typed
    <3>2. alone[r] = "atRest" =>
              stack = <<>> /\ depth = 0 /\ active /\ within[r] = "call"
      BY <1>1 DEF SqliteInv, AtRestShape
    <3> QED
      BY <2>1, <2>2, <2>4, <2>5, <3>1, <3>2 DEF AtRestShape
  <2>9. \A i \in 1..Len(stack') : Respects(stack'[i].was)
    BY <2>4 DEF SqliteInv
  <2>10. depth' \in Int
    BY <2>1 DEF SqliteInv, Typed
  <2> QED
    BY <1>1, <2>2, <2>4, <2>7, <2>8, <2>9, <2>10, StepKept DEF SqliteInv, Typed
<1>3. CASE ~IF level[r] = 0 THEN stack = <<>> ELSE level[r] > 0
  BY <1>1, <1>3, ThrowKept DEF Began, runner
<1> QED
  BY <1>2, <1>3

-----------------------------------------------------------------------------
(* The statements of a call.                                               *)

\* save() of a changed row.
LEMMA SaveSends ==
    ASSUME SqliteInv, NEW r \in Open, NEW s, NEW w, Save(r, s, w)
    PROVE  /\ \/ active /\ active' = active /\ Send(r, s, 0, "call")
              \/ ~active /\ active' = TRUE /\ Send(r, "begin", depth, w)
           /\ active' \in BOOLEAN /\ depth \in Int
BY DEF Save, Run, StartTransaction, SqliteInv, Typed

LEMMA FindRevocationDataKept ==
    ASSUME SqliteInv, NEW r \in Requests, FindRevocationData(r)
    PROVE  SqliteInv'
<1>1. /\ r \in Open /\ pc[r] = "findData" /\ kind[r] = "issue" /\ mem.index \in Nat
      /\ given[r] = NoIndex
  BY DEF FindRevocationData, Open, SqliteInv, Typed, Versions, Point
<1>2. /\ pc'[r] = "saveData" /\ within'[r] = "call" /\ level'[r] = 0
      /\ entity'[r] = mem.index + 1 /\ entity'[r] \in Nat /\ entity'[r] > 0
      /\ entity'[r] # NoIndex
  BY <1>1 DEF NoIndex, FindRevocationData, Run, Send, Goto, SqliteInv, Typed
<1>3. UNCHANGED <<mem, stack, depth, active, kind, target, page, given, history>>
  BY DEF FindRevocationData, runner
<1>4. Sends(r)
  BY DEF FindRevocationData, Run, Sends, PCs, Body, Computed, Withins
<1>5. Point(r)'
  BY <1>1, <1>2, <1>3 DEF Point, HasPage, HasList
<1>6. Serial' = Serial
  <2>1. \A q \in Requests : q # r => pc'[q] = pc[q]
    BY DEF FindRevocationData, Run, Send, Goto, SqliteInv, Typed
  <2> QED
    BY <1>1, <1>3, <2>1 DEF Serial, history
<1>7. Heir(r)'
  <2>1. \A q \in Serial : given[q] < entity'[r]
    BY <1>1, <1>2, SerialTyped DEF SqliteInv, Respects
  <2> QED
    BY <1>1, <1>2, <1>3, <1>6, <2>1 DEF Heir, HasPage, HasList
<1>8. alone[r] = "atRest" => AtRestShape(r)'
  BY <1>1, <1>2, <1>3 DEF SqliteInv, AtRestShape, Body, Computed
<1> QED
  BY <1>1, <1>3, <1>4, <1>5, <1>7, <1>8, QuietKept DEF FindRevocationData, SqliteInv, Typed

LEMMA SaveRevocationDataKept ==
    ASSUME SqliteInv, NEW r \in Requests, SaveRevocationData(r)
    PROVE  SqliteInv'
<1>1. r \in Open /\ pc[r] = "saveData" /\ kind[r] = "issue" /\ entity[r] # NoIndex
  BY DEF SaveRevocationData, Open, SqliteInv, Point, Computed
<1>2. UNCHANGED <<mem, stack, depth, kind, target, entity, page, given, history>>
  BY DEF SaveRevocationData, request
<1>3. PICK p \in {"findList", "updateData", "begin"}, n \in Int, w \in {"call", "data"} :
          /\ Send(r, p, n, w) /\ active' \in BOOLEAN
          /\ p = "findList" => active' = active /\ n = 0 /\ w = "call" /\ entity[r] = mem.index
          /\ p = "updateData" => active' = active /\ n = 0 /\ w = "call"
          /\ p = "begin" => ~active
  <2>1. CASE entity[r] = mem.index
    BY <2>1 DEF SaveRevocationData, Run, SqliteInv, Typed
  <2>2. CASE entity[r] # mem.index /\ active
    <3>1. Send(r, "updateData", 0, "call") /\ active' = active /\ active' \in BOOLEAN
      BY <1>1, <2>2, SaveSends DEF SaveRevocationData
    <3> QED
      BY <3>1
  <2>3. CASE entity[r] # mem.index /\ ~active
    <3>1. Send(r, "begin", depth, "data") /\ active' \in BOOLEAN /\ depth \in Int
      BY <1>1, <2>3, SaveSends DEF SaveRevocationData
    <3> QED
      BY <2>3, <3>1
  <2> QED
    BY <2>1, <2>2, <2>3
<1>4. Sends(r) /\ Point(r)' /\ Heir(r)'
  BY <1>1, <1>2, <1>3, SameLocals DEF PCs, Body, Computed, Withins
<1>5. alone[r] = "atRest" => AtRestShape(r)'
  <2>1. pc'[r] = p /\ within'[r] = w /\ level'[r] = n
    BY <1>3 DEF Send, Goto, SqliteInv, Typed
  <2>2. alone[r] = "atRest" => Len(stack) = 1 /\ depth = 1 /\ active
    BY <1>1 DEF SqliteInv, AtRestShape, Body, Computed
  <2>3. alone[r] = "atRest" => p # "begin" /\ active' = active /\ n = 0 /\ w = "call"
    BY <1>3, <2>2
  <2> QED
    BY <1>1, <1>2, <1>3, <2>1, <2>2, <2>3 DEF AtRestShape
<1> QED
  BY <1>1, <1>2, <1>3, <1>4, <1>5, QuietKept DEF SqliteInv, Typed

LEMMA UpdateRevocationDataKept ==
    ASSUME SqliteInv, NEW r \in Requests, UpdateRevocationData(r)
    PROVE  SqliteInv'
<1>1. /\ r \in Open /\ pc[r] = "updateData" /\ entity[r] # NoIndex /\ entity[r] \in Nat
      /\ kind[r] = "issue"
  BY DEF UpdateRevocationData, Open, SqliteInv, Point
<1>2. /\ mem' = [mem EXCEPT !.index = entity[r]]
      /\ UNCHANGED <<stack, depth, active, kind, target, entity, page, given, history>>
  BY DEF UpdateRevocationData, runner, request
<1>3. mem' \in Versions /\ mem'.index = entity[r] /\ mem'.revoked = mem.revoked
  BY <1>1, <1>2 DEF SqliteInv, Typed, Versions
<1>4. Respects(mem')
  BY <1>1, <1>3, SerialTyped DEF SqliteInv, Respects, Heir, HasEntity
<1>5. PICK p \in {"findList", "commit", "done"}, n \in Int, w \in {"call", "data"} :
          /\ Send(r, p, n, w)
          /\ w = "data" => within[r] # "call"
          /\ within[r] = "call" => p = "findList" /\ n = 0
  BY <1>1, CommitSends DEF UpdateRevocationData, Run, SqliteInv, Typed
<1>6. w = "data" => kind[r] = "issue"
  BY <1>1
<1>7. Sends(r) /\ Point(r)' /\ Heir(r)'
  BY <1>1, <1>2, <1>5, SameLocals DEF PCs, Body, Computed, Withins
<1>8. alone[r] = "atRest" => AtRestShape(r)'
  <2>1. pc'[r] = p /\ within'[r] = w /\ level'[r] = n
    BY <1>5 DEF Send, Goto, SqliteInv, Typed
  <2>2. alone[r] = "atRest" => Len(stack) = 1 /\ depth = 1 /\ active /\ within[r] = "call"
    BY <1>1 DEF SqliteInv, AtRestShape, Body, Computed
  <2> QED
    BY <1>1, <1>2, <1>3, <1>5, <2>1, <2>2 DEF AtRestShape
<1> QED
  BY <1>1, <1>2, <1>3, <1>4, <1>7, <1>8, StepKept DEF SqliteInv, Typed

LEMMA FindRevocationListKept ==
    ASSUME SqliteInv, NEW r \in Requests, FindRevocationList(r)
    PROVE  SqliteInv'
<1>1. /\ r \in Open /\ pc[r] = "findList" /\ kind[r] = "issue" /\ given[r] = NoIndex
      /\ mem.revoked \in SUBSET Nat
  BY DEF FindRevocationList, Open, SqliteInv, Typed, Versions, Point, Computed
<1>2. /\ pc'[r] = "saveList" /\ within'[r] = "call" /\ level'[r] = 0
      /\ page'[r] = mem.revoked
  BY DEF FindRevocationList, Run, Send, Goto, SqliteInv, Typed
<1>3. UNCHANGED <<mem, stack, depth, active, kind, target, entity, given, history>>
  BY DEF FindRevocationList, runner
<1>4. Sends(r)
  BY DEF FindRevocationList, Run, Sends, PCs, Body, Computed, Withins
<1>5. Point(r)'
  BY <1>1, <1>2, <1>3 DEF SqliteInv, Point, HasPage, HasList
<1>6. Serial' = Serial
  <2>1. \A q \in Requests : q # r => pc'[q] = pc[q]
    BY DEF FindRevocationList, Run, Send, Goto, SqliteInv, Typed
  <2> QED
    BY <1>1, <1>3, <2>1 DEF Serial, history
<1>7. Heir(r)'
  BY <1>1, <1>2, <1>3, <1>6 DEF SqliteInv, Heir, Respects, HasEntity, history
<1>8. alone[r] = "atRest" => AtRestShape(r)'
  BY <1>1, <1>2, <1>3 DEF SqliteInv, AtRestShape, Body, Computed
<1> QED
  BY <1>1, <1>3, <1>4, <1>5, <1>7, <1>8, QuietKept DEF FindRevocationList, SqliteInv, Typed

\* The last statement of a call: at rest it goes to the COMMIT of its transaction.
LEMMA LastShape ==
    ASSUME SqliteInv, NEW r \in Open, pc[r] \in {"saveList", "updateList", "findPath"},
           alone[r] = "atRest"
    PROVE  /\ Len(stack) = 1 /\ depth = 1 /\ active /\ within[r] = "call"
           /\ Innermost(depth) = 0
BY DEF SqliteInv, AtRestShape, Body, Computed, Innermost

LEMMA SaveRevocationListKept ==
    ASSUME SqliteInv, NEW r \in Requests, SaveRevocationList(r)
    PROVE  SqliteInv'
<1>1. r \in Open /\ pc[r] = "saveList" /\ kind[r] = "issue" /\ HasList(r)
  BY DEF SaveRevocationList, Open, SqliteInv, Point, Computed, HasList
<1>2. UNCHANGED <<mem, stack, depth, kind, target, entity, page, given, history>>
  BY DEF SaveRevocationList, request
<1>3. PICK p \in {"commit", "updateList", "begin", "done"}, n \in Int, w \in {"call", "list"} :
          /\ Send(r, p, n, w) /\ active' \in BOOLEAN
          /\ p = "commit" => active' = active /\ n = Innermost(depth) /\ w = "call"
          /\ p = "updateList" => active' = active /\ n = 0 /\ w = "call"
          /\ p \in {"begin", "done"} => ~active
  <2>1. CASE page[r] = mem.revoked /\ active
    <3>1. Send(r, "commit", Innermost(depth), "call") /\ active' = active /\ Innermost(depth) \in Int
      BY <1>1, <2>1, CommitSends DEF SaveRevocationList, SqliteInv, Typed
    <3> QED
      BY <2>1, <3>1
  <2>2. CASE page[r] = mem.revoked /\ ~active
    <3>1. Send(r, "done", 0, "call") /\ active' = active /\ active' \in BOOLEAN
      BY <1>1, <2>2, CommitSends DEF SaveRevocationList, SqliteInv, Typed
    <3> QED
      BY <2>2, <3>1
  <2>3. CASE page[r] # mem.revoked /\ active
    <3>1. Send(r, "updateList", 0, "call") /\ active' = active /\ active' \in BOOLEAN
      BY <1>1, <2>3, SaveSends DEF SaveRevocationList
    <3> QED
      BY <3>1
  <2>4. CASE page[r] # mem.revoked /\ ~active
    <3>1. Send(r, "begin", depth, "list") /\ active' \in BOOLEAN /\ depth \in Int
      BY <1>1, <2>4, SaveSends DEF SaveRevocationList
    <3> QED
      BY <2>4, <3>1
  <2> QED
    BY <2>1, <2>2, <2>3, <2>4
<1>4. Sends(r) /\ Point(r)' /\ Heir(r)'
  BY <1>1, <1>2, <1>3, SameLocals DEF PCs, Body, Computed, Withins
<1>5. alone[r] = "atRest" => AtRestShape(r)'
  <2>1. pc'[r] = p /\ within'[r] = w /\ level'[r] = n
    BY <1>3 DEF Send, Goto, SqliteInv, Typed
  <2>2. alone[r] = "atRest" =>
            /\ Len(stack) = 1 /\ depth = 1 /\ active' = active /\ active
            /\ n = 0 /\ w = "call" /\ p \in {"commit", "updateList"} /\ entity[r] = mem.index
    BY <1>1, <1>3, LastShape DEF SqliteInv, AtRestShape
  <2> QED
    BY <1>1, <1>2, <2>1, <2>2 DEF AtRestShape
<1> QED
  BY <1>1, <1>2, <1>3, <1>4, <1>5, QuietKept DEF SqliteInv, Typed

LEMMA UpdateRevocationListKept ==
    ASSUME SqliteInv, NEW r \in Requests, UpdateRevocationList(r)
    PROVE  SqliteInv'
<1>1. /\ r \in Open /\ pc[r] = "updateList" /\ HasList(r) /\ HasPage(r)
      /\ page[r] \in SUBSET Nat /\ within[r] \in Withins /\ active \in BOOLEAN /\ depth \in Int
  BY DEF UpdateRevocationList, Open, SqliteInv, Typed, Point, HasPage, HasList
<1>2. /\ mem' = [mem EXCEPT !.revoked = page[r]]
      /\ UNCHANGED <<stack, depth, active, kind, target, entity, page, given, history>>
  BY DEF UpdateRevocationList, runner, request
<1>3. mem' \in Versions /\ mem'.revoked = page[r] /\ mem'.index = mem.index
  BY <1>1, <1>2 DEF SqliteInv, Typed, Versions
<1>4. Respects(mem')
  BY <1>1, <1>3 DEF SqliteInv, Respects, Heir
<1>5. \/ active /\ Send(r, "commit", Innermost(depth), within[r]) /\ Innermost(depth) \in Int
      \/ ~active /\ Send(r, "done", 0, "call")
  BY <1>1, CommitSends DEF UpdateRevocationList
<1>6. within[r] = "data" => kind[r] = "issue" /\ entity[r] # NoIndex
  BY <1>1 DEF SqliteInv, Point
<1>7. Sends(r) /\ Point(r)' /\ Heir(r)'
  <2>1. CASE active /\ Send(r, "commit", Innermost(depth), within[r]) /\ Innermost(depth) \in Int
    BY <1>1, <1>2, <1>6, <2>1, SameLocals DEF PCs, Body, Computed
  <2>2. CASE Send(r, "done", 0, "call")
    BY <1>1, <1>2, <2>2, SameLocals DEF PCs, Body, Computed, Withins
  <2> QED
    BY <1>5, <2>1, <2>2
<1>8. alone[r] = "atRest" => AtRestShape(r)'
  <2> SUFFICES ASSUME alone[r] = "atRest" PROVE AtRestShape(r)'
    OBVIOUS
  <2>1. /\ Len(stack) = 1 /\ depth = 1 /\ active /\ within[r] = "call"
        /\ Innermost(depth) = 0
    BY <1>1, LastShape
  <2>2. pc'[r] = "commit" /\ within'[r] = "call" /\ level'[r] = 0
    BY <1>5, <2>1 DEF Send, Goto, SqliteInv, Typed
  <2>3. /\ kind[r] = "issue" => entity[r] = mem'.index
        /\ kind[r] # "issue" => (target[r] \in mem'.revoked) = (kind[r] = "revoke")
    BY <1>1, <1>3 DEF SqliteInv, AtRestShape
  <2> QED
    BY <1>2, <2>1, <2>2, <2>3 DEF AtRestShape
<1> QED
  BY <1>1, <1>2, <1>3, <1>4, <1>7, <1>8, StepKept DEF SqliteInv, Typed

LEMMA CheckStatusKept ==
    ASSUME SqliteInv, NEW r \in Requests, CheckStatus(r)
    PROVE  SqliteInv'
<1>1. r \in Open /\ pc[r] = "check" /\ kind[r] # "issue" /\ active \in BOOLEAN
  BY DEF CheckStatus, Open, SqliteInv, Typed, Point
<1>2. CASE Throw(r, "call", active, depth)
  BY <1>1, <1>2, ThrowKept DEF CheckStatus
<1>3. CASE Run(r, "findPath", "call")
  <2>1. UNCHANGED <<mem, stack, depth, active, kind, target, entity, page, given, history>>
    BY DEF CheckStatus, runner, request
  <2>2. Sends(r) /\ Point(r)' /\ Heir(r)'
    BY <1>1, <1>3, <2>1, SameLocals DEF Run, PCs, Body, Computed, Withins
  <2>3. pc'[r] = "findPath" /\ within'[r] = "call" /\ level'[r] = 0
    BY <1>3 DEF Run, Send, Goto, SqliteInv, Typed
  <2>4. alone[r] = "atRest" => AtRestShape(r)'
    BY <1>1, <2>1, <2>3 DEF SqliteInv, AtRestShape, Body, Computed
  <2> QED
    BY <1>1, <2>1, <2>2, <2>4, QuietKept DEF SqliteInv, Typed
<1> QED
  BY <1>2, <1>3 DEF CheckStatus

LEMMA UpdateRevocationListVCKept ==
    ASSUME SqliteInv, NEW r \in Requests, UpdateRevocationListVC(r)
    PROVE  SqliteInv'
<1>1. /\ r \in Open /\ pc[r] = "findPath" /\ kind[r] # "issue" /\ target[r] \in Nat
      /\ mem.revoked \in SUBSET Nat /\ given[r] = NoIndex /\ entity[r] = NoIndex
  BY DEF UpdateRevocationListVC, Open, SqliteInv, Typed, Versions, Point
<1>2. UNCHANGED <<mem, stack, depth, kind, target, entity, given, history>>
  BY DEF UpdateRevocationListVC
<1>3. /\ page'[r] = IF kind[r] = "revoke" THEN mem.revoked \cup {target[r]}
                                          ELSE mem.revoked \ {target[r]}
      /\ page'[r] \in SUBSET Nat
      /\ (target[r] \in page'[r]) = (kind[r] = "revoke")
  BY <1>1 DEF UpdateRevocationListVC, SqliteInv, Typed
<1>4. PICK p \in {"updateList", "begin"}, n \in Int, w \in {"call", "list"} :
          /\ Send(r, p, n, w) /\ active' \in BOOLEAN
          /\ p = "updateList" => active' = active /\ n = 0 /\ w = "call"
          /\ p = "begin" => ~active /\ w = "list"
  <2>1. CASE active
    <3>1. Send(r, "updateList", 0, "call") /\ active' = active /\ active' \in BOOLEAN
      BY <1>1, <2>1, SaveSends DEF UpdateRevocationListVC
    <3> QED
      BY <3>1
  <2>2. CASE ~active
    <3>1. Send(r, "begin", depth, "list") /\ active' \in BOOLEAN /\ depth \in Int
      BY <1>1, <2>2, SaveSends DEF UpdateRevocationListVC
    <3> QED
      BY <2>2, <3>1
  <2> QED
    BY <2>1, <2>2
<1>5. pc'[r] = p /\ within'[r] = w /\ level'[r] = n /\ r \in Open'
  BY <1>1, <1>4 DEF Send, Goto, SqliteInv, Typed, Open
<1>6. Sends(r)
  BY <1>4 DEF Sends, PCs, Body, Computed, Withins
<1>7. Point(r)'
  BY <1>1, <1>2, <1>3, <1>4, <1>5 DEF Point, Computed
<1>8. Serial' = Serial
  <2>1. \A q \in Requests : q # r => pc'[q] = pc[q]
    BY <1>4 DEF Send, Goto, SqliteInv, Typed
  <2> QED
    BY <1>1, <1>2, <2>1 DEF Serial, history
<1>9. Heir(r)'
  BY <1>1, <1>2, <1>3, <1>5, <1>8 DEF SqliteInv, Heir, Respects, HasEntity, history
<1>10. alone[r] = "atRest" => AtRestShape(r)'
  <2>1. alone[r] = "atRest" =>
            /\ Len(stack) = 1 /\ depth = 1 /\ active' = active /\ active
            /\ n = 0 /\ w = "call" /\ p = "updateList"
    BY <1>1, <1>4, LastShape
  <2> QED
    BY <1>1, <1>2, <1>3, <1>5, <2>1 DEF AtRestShape
<1> QED
  BY <1>1, <1>2, <1>4, <1>6, <1>7, <1>9, <1>10, QuietKept DEF UpdateRevocationListVC, SqliteInv, Typed

-----------------------------------------------------------------------------
(* Commits, rollbacks and restarts.                                        *)

\* What is left of the stack when what is above a place goes.
LEMMA Below ==
    ASSUME SqliteInv, NEW r \in Requests, NEW i \in Ended(r)
    PROVE  /\ i \in 1..Len(stack) /\ stack[i].was \in Versions /\ Respects(stack[i].was)
           /\ \A n \in {i - 1, i} :
                 /\ SubSeq(stack, 1, n) \in Seq(Frames) /\ Len(SubSeq(stack, 1, n)) = n
                 /\ \A j \in 1..n : Respects(SubSeq(stack, 1, n)[j].was)
<1>1. i \in 1..Len(stack) /\ stack[i] \in Frames
  BY DEF Ended, SqliteInv, Typed
<1>2. \A n \in {i - 1, i} :
          /\ SubSeq(stack, 1, n) \in Seq(Frames) /\ Len(SubSeq(stack, 1, n)) = n
          /\ \A j \in 1..n : SubSeq(stack, 1, n)[j] = stack[j] /\ j \in 1..Len(stack)
  BY <1>1 DEF SqliteInv, Typed
<1> QED
  BY <1>1, <1>2 DEF SqliteInv, Frames

LEMMA EndsTyped ==
    ASSUME SqliteInv, NEW r \in Requests, Ends(r)
    PROVE  depth' \in Int /\ active' \in BOOLEAN
BY DEF Ends, SqliteInv, Typed

\* The answer of a call whose transaction was committed.
LEMMA AnswerKept ==
    ASSUME SqliteInv, NEW r \in Open, pc[r] = "commit", within[r] = "call",
           NEW i \in Ended(r), stack' = SubSeq(stack, 1, i - 1), Ends(r), Answer(r),
           UNCHANGED <<mem, kind, target, entity, page, alone>>
    PROVE  SqliteInv'
<1>1. /\ r \in Requests /\ pc'[r] = "done" /\ within'[r] = "call"
      /\ pc' \in [Requests -> PCs] /\ level' \in [Requests -> Int]
      /\ within' \in [Requests -> Withins]
      /\ \A q \in Requests \ {r} : pc'[q] = pc[q] /\ within'[q] = within[q]
  BY DEF Answer, Run, Send, Goto, Open, SqliteInv, Typed, PCs, Withins
<1>2. /\ Open' = Open \ {r} /\ given[r] = NoIndex
      /\ given'[r] = IF kind[r] = "issue" THEN entity[r] ELSE NoIndex
      /\ DOMAIN given' = Requests
      /\ \A q \in Requests \ {r} : given'[q] = given[q]
      /\ entity[r] # NoIndex => kind[r] = "issue" /\ entity[r] \in Nat /\ entity[r] > 0
      /\ kind[r] # "issue" => target[r] \in Nat
  BY <1>1 DEF Answer, Open, SqliteInv, Typed, Point
<1>3. /\ stack' \in Seq(Frames) /\ Len(stack') = i - 1
      /\ \A n \in 1..Len(stack') : Respects(stack'[n].was)
  BY <1>1, Below
<1>4. settled' \in SUBSET Bits
  <2> DEFINE bit == [index |-> target[r], revoked |-> kind[r] = "revoke"]
  <2>1. kind[r] # "issue" => bit \in Bits
    BY <1>2 DEF Bits
  <2>2. \/ settled' = settled
        \/ kind[r] # "issue" /\ settled' = settled \cup {bit}
    BY DEF Answer
  <2> QED
    BY <2>1, <2>2 DEF SqliteInv, Typed
<1>5. Typed'
  BY <1>1, <1>2, <1>3, <1>4, EndsTyped DEF SqliteInv, Typed
<1>6. \A q \in Requests : Point(q)'
  <2>1. Point(r)'
    BY <1>1, <1>2 DEF SqliteInv, Point, HasPage, Computed
  <2>2. \A q \in Requests \ {r} : Point(q)'
    BY <1>1, <1>2 DEF SqliteInv, Point, HasPage, HasList
  <2> QED
    BY <2>1, <2>2
<1>7. Apart'
  BY <1>2 DEF SqliteInv, Apart
<1>8. \A q \in Open' : alone'[q] = "atRest" => AtRestShape(q)'
  BY <1>2 DEF SqliteInv, Apart
<1>9. CASE alone[r] = "atRest"
  <2>1. /\ Open' = {}
        /\ Len(stack) = 1 /\ Len(stack') = 0
        /\ kind[r] = "issue" => entity[r] = mem.index
        /\ kind[r] # "issue" => (target[r] \in mem.revoked) = (kind[r] = "revoke")
    <3>1. Open' = {}
      BY <1>2, <1>9 DEF SqliteInv, Apart
    <3>2. /\ Len(stack) = 1
          /\ kind[r] = "issue" => entity[r] = mem.index
          /\ kind[r] # "issue" => (target[r] \in mem.revoked) = (kind[r] = "revoke")
      BY <1>9 DEF SqliteInv, AtRestShape
    <3>3. i = 1
      BY <1>1, <3>2, Below
    <3> QED
      BY <1>3, <3>1, <3>2, <3>3
  <2>2. mem \in Versions
    BY DEF SqliteInv, Typed
  <2>3. kind[r] = "issue" => given'[r] = mem.index /\ given'[r] \in Nat /\ given'[r] > 0
    BY <1>2, <2>1, <2>2 DEF NoIndex, Versions
  <2>4. Serial' \subseteq Serial \cup {r} /\ (kind[r] # "issue" => Serial' = Serial)
        /\ \A q \in Serial : given'[q] = given[q]
    BY <1>1, <1>2, SerialTyped DEF Serial, Open
  <2>5. kind[r] = "issue" => settled' = settled /\ \A q \in Serial : given[q] < given'[r]
    <3>1. kind[r] = "issue" => settled' = settled
      BY DEF Answer
    <3>2. kind[r] = "issue" => given'[r] = entity[r] /\ entity[r] # NoIndex
      BY <1>2, <2>3 DEF NoIndex
    <3> QED
      BY <1>1, <3>1, <3>2 DEF SqliteInv, Heir, HasEntity
  <2>6. \A s \in settled' : (s.index \in mem.revoked) = s.revoked
    BY <1>9, <2>1, <2>5 DEF Answer, SqliteInv, Respects
  <2>7. \A q \in Serial' : given'[q] <= mem.index
    BY <1>2, <2>2, <2>3, <2>4 DEF SqliteInv, Respects, Versions
  <2>8. Respects(mem)' /\ \A n \in 1..Len(stack') : Respects(stack[n].was)'
    <3>1. Respects(mem)'
      BY <2>6, <2>7 DEF Respects
    <3>2. Len(stack') = 0
      BY <2>1
    <3>3. \A n \in 1..Len(stack') : FALSE
      BY ONLY <3>2
    <3> QED
      BY <3>1, <3>3
  <2>9. SerialGiven'
    BY <1>2, <2>3, <2>4, <2>5, SerialTyped DEF SqliteInv, SerialGiven
  <2>10. \A q \in Requests : Heir(q)'
    BY <2>1 DEF Heir, HasEntity, HasPage
  <2> QED
    BY <1>5, <1>6, <1>7, <1>8, <2>8, <2>9, <2>10 DEF SqliteInv
<1>10. CASE alone[r] # "atRest"
  <2>1. settled' = settled
    BY <1>10 DEF Answer
  <2>2. Serial' = Serial /\ \A q \in Serial : given'[q] = given[q]
    BY <1>1, <1>2, <1>10 DEF Serial
  <2>3. Respects(mem)' /\ \A n \in 1..Len(stack') : Respects(stack[n].was)'
    BY <1>3, <2>1, <2>2 DEF SqliteInv, Respects
  <2>4. SerialGiven'
    BY <2>2 DEF SqliteInv, SerialGiven
  <2>5. \A q \in Requests : Heir(q)'
    BY <1>1, <1>2, <2>1, <2>2 DEF SqliteInv, Heir, HasEntity, HasPage, HasList
  <2> QED
    BY <1>5, <1>6, <1>7, <1>8, <2>3, <2>4, <2>5 DEF SqliteInv
<1> QED
  BY <1>9, <1>10

LEMMA CommittedKept ==
    ASSUME SqliteInv, NEW r \in Requests, Committed(r)
    PROVE  SqliteInv'
<1>1. r \in Open /\ pc[r] = "commit" /\ within[r] \in Withins /\ active \in BOOLEAN
  BY DEF Committed, Open, SqliteInv, Typed
<1>2. CASE Ended(r) = {} /\ Throw(r, within[r], active, depth) /\ UNCHANGED <<stack, runner, given, settled>>
  BY <1>1, <1>2, ThrowKept DEF Committed, request, history
<1>3. ASSUME NEW i \in Ended(r), stack' = SubSeq(stack, 1, i - 1), Ends(r),
             After(r, active', depth')
      PROVE  SqliteInv'
  <2>1. UNCHANGED <<mem, kind, target, entity, page, alone>>
    BY DEF Committed
  <2>2. CASE within[r] = "call" /\ Answer(r)
    BY <1>1, <1>3, <2>1, <2>2, AnswerKept
  <2>3. CASE within[r] # "call" /\ UNCHANGED <<given, settled>>
    <3>1. /\ mem' \in Versions /\ Respects(mem')
          /\ stack' \in Seq(Frames) /\ \A n \in 1..Len(stack') : Respects(stack'[n].was)
      BY <1>3, <2>1, Below DEF SqliteInv, Typed
    <3>2. depth' \in Int /\ active' \in BOOLEAN
      BY <1>3, EndsTyped
    <3>3. PICK p \in {"findList", "commit", "done"}, n \in Int :
              Send(r, p, n, "call") /\ (p = "findList" => within[r] = "data")
      BY <1>1, <1>3, <2>3, <3>2, CommitSends DEF After, Run
    <3>4. within[r] = "data" => kind[r] = "issue"
      BY <1>1 DEF SqliteInv, Point
    <3>5. Sends(r) /\ Point(r)' /\ Heir(r)'
      BY <1>1, <2>1, <2>3, <3>3, <3>4, SameLocals DEF PCs, Body, Computed, Withins, history
    <3>6. alone[r] # "atRest"
      BY <1>1, <2>3 DEF SqliteInv, AtRestShape
    <3> QED
      BY <1>1, <2>1, <2>3, <3>1, <3>2, <3>5, <3>6, StepKept DEF history, SqliteInv, Typed
  <2> QED
    BY <1>3, <2>2, <2>3 DEF After
<1> QED
  BY <1>2, <1>3 DEF Committed

LEMMA RolledBackKept ==
    ASSUME SqliteInv, NEW r \in Requests, RolledBack(r)
    PROVE  SqliteInv'
<1>1. r \in Open /\ pc[r] = "rollback"
  BY DEF RolledBack, Open
<1>2. UNCHANGED <<kind, target, entity, page, given, history>>
  BY DEF RolledBack, request
<1>3. /\ mem' \in Versions /\ Respects(mem') /\ depth' \in Int /\ active' \in BOOLEAN
      /\ stack' \in Seq(Frames) /\ \A n \in 1..Len(stack') : Respects(stack'[n].was)
  <2>1. ASSUME NEW i \in Ended(r), mem' = stack[i].was, Ends(r),
               stack' = IF level[r] = 0 THEN <<>> ELSE SubSeq(stack, 1, i)
        PROVE  <1>3!:
    BY <2>1, Below, EndsTyped
  <2>2. CASE UNCHANGED <<mem, stack, runner>>
    BY <2>2 DEF runner, SqliteInv, Typed
  <2> QED
    BY <2>1, <2>2 DEF RolledBack
<1>4. PICK p \in {"rollback", "done"}, n \in Int : Send(r, p, n, "call")
  <2>1. CASE Run(r, "done", "call")
    BY <2>1 DEF Run
  <2>2. CASE Throw(r, "call", active', depth')
    BY <1>1, <1>3, <2>2, ThrowSends
  <2> QED
    BY <2>1, <2>2 DEF RolledBack
<1>5. Sends(r) /\ Point(r)' /\ Heir(r)'
  BY <1>1, <1>2, <1>4, SameLocals DEF PCs, Computed, Withins
<1>6. pc'[r] = p
  BY <1>4 DEF Send, Goto, SqliteInv, Typed
<1>7. r \in Open' => AtRestShape(r)'
  BY <1>6 DEF AtRestShape, Body, Computed, Open
<1> QED
  BY <1>1, <1>2, <1>3, <1>5, <1>7, StepKept DEF SqliteInv, Typed

LEMMA BeginKept ==
    ASSUME SqliteInv, NEW r \in Requests, NEW k \in Kinds, NEW i, Begin(r, k, i)
    PROVE  SqliteInv'
<1>1. /\ pc[r] = "idle" /\ r \notin Open /\ given[r] = NoIndex /\ entity[r] = NoIndex
      /\ depth \in Int
  BY DEF Begin, Open, SqliteInv, Typed, Point
<1>2. /\ pc'[r] = "begin" /\ level'[r] = depth /\ within'[r] = "call" /\ active' = TRUE
      /\ kind'[r] = k /\ target'[r] = i
      /\ pc' \in [Requests -> PCs] /\ level' \in [Requests -> Int]
      /\ within' \in [Requests -> Withins] /\ kind' \in [Requests -> Kinds]
      /\ DOMAIN target' = Requests
      /\ \A q \in Requests \ {r} : /\ pc'[q] = pc[q] /\ within'[q] = within[q]
                                   /\ kind'[q] = kind[q] /\ target'[q] = target[q]
                                   /\ level'[q] = level[q]
  BY <1>1 DEF Begin, StartTransaction, Send, Goto, SqliteInv, Typed, PCs, Withins
<1>3. UNCHANGED <<mem, stack, depth, entity, page, given>>
  BY DEF Begin
<1>4. k # "issue" => i \in Nat
  <2>1. \A q \in Requests : given[q] \in Nat \cup {NoIndex}
    BY DEF SqliteInv, Point
  <2> QED
    BY <2>1 DEF Begin
<1>5. Open' = Open \cup {r}
  BY <1>2 DEF Open
<1>6. /\ alone'[r] = IF AtRest THEN "atRest" ELSE IF Open = {} THEN "yes" ELSE "no"
      /\ \A q \in Requests \ {r} : alone'[q] = IF q \in Open THEN "no" ELSE alone[q]
      /\ alone' \in [Requests -> {"no", "yes", "atRest"}]
  BY DEF Begin, SqliteInv, Typed
<1>7. settled' \subseteq settled /\ (k # "issue" => \A s \in settled' : s.index # i)
  BY DEF Begin
<1>8. Typed'
  BY <1>2, <1>3, <1>6, <1>7 DEF SqliteInv, Typed
<1>9. \A q \in Requests : Point(q)'
  <2>1. Point(r)'
    BY <1>1, <1>2, <1>3, <1>4 DEF Point, HasPage, HasList, Computed
  <2>2. \A q \in Requests \ {r} : Point(q)'
    BY <1>2, <1>3, <1>5 DEF SqliteInv, Point, HasPage, HasList
  <2> QED
    BY <2>1, <2>2
<1>10. Apart'
  BY <1>1, <1>5, <1>6 DEF Apart, AtRest, Open
<1>11. \A q \in Open' : alone'[q] = "atRest" => AtRestShape(q)'
  <2>1. \A q \in Open' : alone'[q] = "atRest" => q = r
    BY <1>5, <1>6 DEF Open
  <2>2. alone'[r] = "atRest" => AtRestShape(r)'
    BY <1>2, <1>3, <1>6 DEF AtRest, AtRestShape, Body, Computed
  <2> QED
    BY <2>1, <2>2
<1>12. Serial' = Serial
  BY <1>1, <1>2, <1>3, <1>6 DEF Serial, Open
<1>13. Respects(mem)' /\ \A n \in 1..Len(stack') : Respects(stack[n].was)'
  BY <1>3, <1>7, <1>12 DEF SqliteInv, Respects
<1>14. \A q \in Requests : Heir(q)'
  <2>1. Heir(r)'
    BY <1>1, <1>2, <1>3, <1>7 DEF Heir, HasEntity, HasPage, HasList
  <2>2. \A q \in Requests \ {r} : Heir(q)'
    <3> SUFFICES ASSUME NEW q \in Requests \ {r} PROVE Heir(q)'
      OBVIOUS
    <3>1. Heir(q) /\ (q \in Open' <=> q \in Open)
      BY <1>5 DEF SqliteInv
    <3>2. /\ HasEntity(q)' <=> HasEntity(q)
          /\ HasPage(q)' <=> HasPage(q)
      BY <1>2, <1>3, <3>1 DEF HasEntity, HasPage, HasList
    <3> QED
      BY <1>2, <1>3, <1>7, <1>12, <3>1, <3>2 DEF Heir
  <2> QED
    BY <2>1, <2>2
<1>15. SerialGiven'
  BY <1>3, <1>12 DEF SqliteInv, SerialGiven
<1> QED
  BY <1>8, <1>9, <1>10, <1>11, <1>13, <1>14, <1>15 DEF SqliteInv

\* What is on disk is one of the versions.
LEMMA DiskRespects ==
    ASSUME SqliteInv
    PROVE  Disk \in Versions /\ Respects(Disk)
<1>1. CASE stack = <<>>
  BY <1>1 DEF Disk, SqliteInv, Typed
<1>2. CASE stack # <<>>
  <2>1. 1 \in 1..Len(stack) /\ stack[1] \in Frames
    BY <1>2 DEF SqliteInv, Typed
  <2> QED
    BY <1>2, <2>1 DEF Disk, SqliteInv, Frames
<1> QED
  BY <1>1, <1>2

LEMMA RestartKept ==
    ASSUME SqliteInv, Restart
    PROVE  SqliteInv'
<1>1. mem' = Disk /\ stack' = <<>> /\ depth' = 0 /\ active' = FALSE
      /\ UNCHANGED <<level, within, kind, target, entity, page, given, history>>
  BY DEF Restart, request
<1>2. /\ pc' \in [Requests -> PCs] /\ Open' = {}
      /\ \A q \in Requests : pc'[q] = IF q \in Open THEN "done" ELSE pc[q]
  BY DEF Restart, Open, SqliteInv, Typed, PCs
<1>3. Typed'
  <2>1. mem' \in Versions
    BY <1>1, DiskRespects
  <2>2. stack' \in Seq(Frames) /\ depth' \in Int
    BY <1>1
  <2>3. active' \in BOOLEAN
    BY <1>1
  <2> QED
    BY <1>1, <1>2, <2>1, <2>2, <2>3 DEF SqliteInv, Typed, history
<1>4. \A q \in Requests : Point(q)'
  BY <1>1, <1>2 DEF SqliteInv, Point, HasPage, Open, Computed
<1>5. Serial' = Serial
  <2>1. \A q \in Open : given[q] = NoIndex
    BY DEF SqliteInv, Point, Open
  <2> QED
    BY <1>1, <1>2, <2>1 DEF Serial, history
<1>6. Respects(mem)'
  BY <1>1, <1>5, DiskRespects DEF Respects, history
<1>7. 1..Len(stack') = {}
  BY <1>1
<1>8. \A q \in Requests : Heir(q)'
  BY <1>2 DEF Heir, HasEntity, HasPage
<1>9. SerialGiven'
  BY <1>1, <1>5 DEF SqliteInv, SerialGiven
<1> QED
  BY <1>2, <1>3, <1>4, <1>6, <1>7, <1>8, <1>9 DEF SqliteInv, Apart

-----------------------------------------------------------------------------
(* The specification.                                                      *)

LEMMA SqliteInvInit == Init => SqliteInv
<1> SUFFICES ASSUME Init PROVE SqliteInv
  OBVIOUS
<1>1. Open = {} /\ Serial = {} /\ settled = {}
  BY DEF Init, Open, Serial
<1>2. \A r \in Requests : Point(r) /\ Heir(r)
  BY <1>1 DEF Init, Point, Heir, HasEntity, HasPage, HasList, Computed
<1>3. Typed
  <2>1. mem \in Versions /\ stack \in Seq(Frames) /\ settled \in SUBSET Bits
    BY DEF Init, Versions
  <2>2. depth \in Int /\ DOMAIN target = Requests /\ DOMAIN entity = Requests
    BY DEF Init
  <2>3. DOMAIN page = Requests /\ DOMAIN given = Requests
    BY DEF Init
  <2>4. active \in BOOLEAN
    BY DEF Init
  <2>5. /\ pc \in [Requests -> PCs] /\ level \in [Requests -> Int]
        /\ within \in [Requests -> Withins] /\ kind \in [Requests -> Kinds]
        /\ alone \in [Requests -> {"no", "yes", "atRest"}]
    BY DEF Init, PCs, Withins, Kinds
  <2> QED
    BY <2>1, <2>2, <2>3, <2>4, <2>5 DEF Typed
<1>4. 1..Len(stack) = {}
  BY DEF Init
<1> QED
  BY <1>1, <1>2, <1>3, <1>4 DEF SqliteInv, Apart, Respects, SerialGiven

LEMMA SqliteInvNext == SqliteInv /\ [Next]_vars => SqliteInv'
<1> SUFFICES ASSUME SqliteInv, [Next]_vars PROVE SqliteInv'
  OBVIOUS
<1>1. CASE UNCHANGED vars
  BY <1>1 DEF vars, runner, request, history, SqliteInv, Typed, Point, Apart, AtRestShape,
     Respects, Heir, HasEntity, HasPage, HasList, SerialGiven, Serial, Open
<1>2. ASSUME NEW r \in Requests, Begin(r, "issue", NoIndex)
      PROVE  SqliteInv'
  BY <1>2, BeginKept DEF Kinds
<1>3. ASSUME NEW r \in Requests, NEW k \in Kinds \ {"issue"}, NEW i \in Indices, Begin(r, k, i)
      PROVE  SqliteInv'
  BY <1>3, BeginKept
<1>4. ASSUME NEW r \in Requests, Step(r)
      PROVE  SqliteInv'
  BY <1>4, BeganKept, FindRevocationDataKept, SaveRevocationDataKept,
     UpdateRevocationDataKept, FindRevocationListKept, SaveRevocationListKept,
     UpdateRevocationListKept, CheckStatusKept, UpdateRevocationListVCKept, CommittedKept,
     RolledBackKept DEF Step
<1>5. ASSUME NEW r \in Requests, Fail(r)
      PROVE  SqliteInv'
  BY <1>5, ThrowKept DEF Fail, Open
<1>6. CASE Restart
  BY <1>6, RestartKept
<1> QED
  BY <1>1, <1>2, <1>3, <1>4, <1>5, <1>6 DEF Next

LEMMA SqliteInvAlways == Spec => []SqliteInv
BY SqliteInvInit, SqliteInvNext, PTL DEF Spec

\* getRevocationData on the shared connection: the index of a call that began at rest and
\* was not overlapped is on disk, is given to no other such call, and is not lost to the
\* rollbacks, the refused commits and the restarts that come later.
THEOREM SerialIndicesAreKept == Spec => []SerialCallsKeepTheirIndex
<1>1. ASSUME SqliteInv PROVE SerialCallsKeepTheirIndex
  BY <1>1, DiskRespects, SerialTyped
     DEF SqliteInv, SerialGiven, SerialCallsKeepTheirIndex, Respects
<1> QED
  BY <1>1, SqliteInvAlways, PTL

\* revokeCredential and activateCredential on the shared connection: the bit that such a
\* call has changed is on disk until another call for it begins, although issuances and
\* the revocations of other credentials write whole lists back and undo each other.
THEOREM SerialBitsAreKept == Spec => []SerialCallsKeepTheirBit
<1>1. ASSUME SqliteInv PROVE SerialCallsKeepTheirBit
  BY <1>1, DiskRespects DEF SerialCallsKeepTheirBit, Respects
<1> QED
  BY <1>1, SqliteInvAlways, PTL
=============================================================================
