----------------------------- MODULE ServerProofs -----------------------------
(***************************************************************************)
(* Safety of the server's parts, for every value of the constants of       *)
(* Server, each by an invariant of its part alone: every step of the       *)
(* server is one of that part or leaves its variables alone.               *)
(*                                                                         *)
(* The VC API: what was issued and saved is found, and what was deleted is *)
(* gone, however the lookups, deletions and creations of one id            *)
(* interleave.  The documents: the keys of an identifier differ at every   *)
(* moment, so those of the copy that a request has found do too, and its   *)
(* answer follows from them.  The objects: the calls in progress nest,     *)
(* each reached from those around it, so what is kept for a pointer is the *)
(* one object made for it, and what has been worked off needs nothing else *)
(* and not itself.                                                         *)
(***************************************************************************)
EXTENDS Server, SequenceTheorems, TLAPS

PCs == {"idle", "lookup", "delete", "create", "save", "verify", "answered"}

\* Which orders are at which statement.
Point(r) ==
    /\ pc[r] = "lookup" => order[r].kind \in LookupKinds
    /\ pc[r] = "delete" => order[r].kind = "delete"
    /\ pc[r] \in {"create", "save"} => order[r].kind = "create"
    /\ pc[r] = "verify" => order[r].kind = "verify"

Typed ==
    /\ pc \in [Requests -> PCs]
    /\ DOMAIN order = Requests /\ DOMAIN before = Requests
    /\ DOMAIN found = Requests /\ DOMAIN answer = Requests
    /\ \A r \in Requests : Point(r)

\* What had been answered when a request arrived stays so.
BeforeAnswered ==
    \A r \in Requests : \A q \in before[r] :
        pc[r] # "idle" => q \in Requests /\ pc[q] = "answered"

\* Every document was made by a creation, also one that is about to be deleted.
StoredWereMade == \A s \in stored : \E c \in Arrived("create") : s = Document(c)
FoundWereMade ==
    \A r \in Requests : pc[r] = "delete" =>
        \E c \in Arrived("create") : found[r] = Document(c) /\ Subject(c) = Subject(r)

\* What was saved is stored, or someone has asked to delete its id ...
SavedIsStored ==
    \A c \in Arrived("create") :
        pc[c] = "answered" /\ order[c].save /\ answer[c].status = CreatedStatus(c) =>
            Document(c) \in stored \/ \E d \in Arrived("delete") : Subject(d) = Subject(c)

\* ... and what was deleted is not stored again, unless by another creation.
MadeOnce(d) ==
    \A b, c \in Arrived("create") : Subject(b) = Subject(d) /\ Subject(c) = Subject(d) => b = c
DeletedIsRemoved ==
    \A d \in Answered("delete", 202) : MadeOnce(d) =>
        \A c \in Arrived("create") :
            Subject(c) = Subject(d) /\ c \in before[d] => Document(c) \notin stored

ApiInv ==
    /\ Typed /\ BeforeAnswered /\ StoredWereMade /\ FoundWereMade
    /\ SavedIsStored /\ DeletedIsRemoved
    /\ IssuedIsFound /\ DeletedIsGone

-----------------------------------------------------------------------------
(* A request of the VC API that arrives.                                   *)

LEMMA OrderKinds ==
    ASSUME NEW o \in Orders
    PROVE  o.kind \in {"get", "list", "delete", "create", "verify", "stub"}
<1>1. CASE o \in [kind : {"get", "list"}, id : Ids, what : {"credential", "presentation"}]
  BY <1>1
<1>2. CASE o \in [kind : {"delete"}, id : Ids, what : {"credential"}]
  BY <1>2
<1>3. CASE o \in [kind : {"create"}, route : {"issue"}, id : Ids, issuer : Issuers,
                  form : {"lds"}, save : {TRUE}, what : {"credential"}]
  BY <1>3
<1>4. CASE o \in [kind : {"create"}, route : {"agent"}, id : Ids, issuer : Issuers,
                  form : Formats, save : BOOLEAN, what : {"credential"}]
  BY <1>4
<1>5. CASE o \in [kind : {"create"}, route : {"prove"}, id : Ids, issuer : Issuers,
                  form : Formats \ {OA}, save : BOOLEAN, what : {"presentation"}]
  BY <1>5
<1>6. CASE o \in [kind : {"verify"}, form : Formats, what : {"credential", "presentation"}]
  BY <1>6
<1>7. CASE o \in {[kind |-> "stub", what |-> "none"]}
  BY <1>7
<1> QED
  BY <1>1, <1>2, <1>3, <1>4, <1>5, <1>6, <1>7 DEF Orders

LEMMA ArriveKept ==
    ASSUME ApiInv, NEW r \in Requests, NEW o \in Orders, Arrive(r, o)
    PROVE  ApiInv'
<1>1. /\ pc[r] = "idle" /\ UNCHANGED <<stored, found>>
      /\ order' = [order EXCEPT ![r] = o]
      /\ before' = [before EXCEPT ![r] = {q \in Requests : pc[q] = "answered"}]
  BY DEF Arrive
<1>2. PICK where \in PCs \ {"idle"} :
        /\ pc' = [pc EXCEPT ![r] = where]
        /\ where = "answered" => o.kind = "stub"
        /\ where = "lookup" => o.kind \in LookupKinds
        /\ where \notin {"lookup", "answered"} => o.kind = where
        /\ where \notin {"save", "delete"}
  <2>1. o.kind \in {"get", "list", "delete", "create", "verify", "stub"}
    BY OrderKinds
  <2> DEFINE next == IF o.kind = "stub" THEN "answered"
                     ELSE IF o.kind \in LookupKinds THEN "lookup" ELSE o.kind
  <2>2. pc' = [pc EXCEPT ![r] = next]
    BY DEF Arrive, Reply
  <2>3. /\ next \in PCs \ {"idle", "save", "delete"}
        /\ next = "answered" => o.kind = "stub"
        /\ next = "lookup" => o.kind \in LookupKinds
        /\ next \notin {"lookup", "answered"} => o.kind = next
    BY <2>1 DEF LookupKinds, PCs
  <2> HIDE DEF next
  <2> QED
    BY <2>2, <2>3
<1>3. DOMAIN answer' = Requests /\ \A q \in Requests \ {r} : answer'[q] = answer[q]
  BY DEF Arrive, Reply, ApiInv, Typed
<1>4. /\ pc'[r] = where /\ order'[r] = o
      /\ before'[r] = {q \in Requests : pc[q] = "answered"}
      /\ \A q \in Requests \ {r} :
             pc'[q] = pc[q] /\ order'[q] = order[q] /\ before'[q] = before[q]
  BY <1>1, <1>2 DEF ApiInv, Typed
<1>5. \A q \in Requests \ {r} :
        /\ Subject(q)' = Subject(q) /\ Document(q)' = Document(q)
        /\ CreatedStatus(q)' = CreatedStatus(q)
  BY <1>4 DEF Subject, Document, CreatedStatus
<1>6. \A k : /\ Arrived(k) \subseteq Arrived(k)' /\ Arrived(k)' \subseteq Arrived(k) \cup {r}
             /\ r \notin Arrived(k) /\ Arrived(k) \subseteq Requests
  BY <1>1, <1>4 DEF Arrived
<1>7. \A q \in Requests : pc[q] = "answered" => q # r
  BY <1>1
<1>8. Typed'
  <2>1. \A q \in Requests : Point(q)'
    BY <1>2, <1>4 DEF ApiInv, Typed, Point
  <2> QED
    BY <1>1, <1>2, <1>3, <2>1 DEF ApiInv, Typed
<1>9. BeforeAnswered'
  BY <1>4, <1>7 DEF ApiInv, BeforeAnswered
<1>10. StoredWereMade'
  BY <1>1, <1>5, <1>6 DEF ApiInv, StoredWereMade
<1>11. FoundWereMade'
  BY <1>1, <1>2, <1>4, <1>5, <1>6 DEF ApiInv, FoundWereMade
<1>12. SavedIsStored'
  <2> SUFFICES ASSUME NEW c \in Arrived("create")', pc'[c] = "answered", order'[c].save,
                      answer'[c].status = CreatedStatus(c)'
               PROVE  \/ Document(c)' \in stored
                      \/ \E d \in Arrived("delete")' : Subject(d)' = Subject(c)'
    BY <1>1 DEF SavedIsStored
  <2>1. c # r /\ c \in Arrived("create")
    BY <1>2, <1>4, <1>6 DEF Arrived
  <2>2. c \in Requests /\ pc[c] = "answered" /\ order[c].save /\ answer[c].status = CreatedStatus(c)
    BY <1>3, <1>4, <1>5, <1>6, <2>1
  <2>3. Document(c) \in stored \/ \E d \in Arrived("delete") : Subject(d) = Subject(c)
    BY <2>1, <2>2 DEF ApiInv, SavedIsStored
  <2> QED
    BY <1>5, <1>6, <2>1, <2>2, <2>3
<1>13. /\ Answered("delete", 202)' = Answered("delete", 202)
       /\ Answered("get", 200)' = Answered("get", 200)
       /\ Answered("get", 404)' = Answered("get", 404)
  BY <1>2, <1>3, <1>4, <1>7 DEF Answered
<1>14. \A d \in Requests \ {r} : MadeOnce(d)' => MadeOnce(d)
  BY <1>5, <1>6 DEF MadeOnce
<1>15. DeletedIsRemoved'
  <2> SUFFICES ASSUME NEW d \in Answered("delete", 202)', MadeOnce(d)',
                      NEW c \in Arrived("create")', Subject(c)' = Subject(d)', c \in before'[d]
               PROVE  Document(c)' \notin stored
    BY <1>1 DEF DeletedIsRemoved
  <2>1. d \in Answered("delete", 202) /\ d \in Requests \ {r}
    BY <1>7, <1>13 DEF Answered
  <2>2. c \in Requests \ {r} /\ c \in before[d] /\ c \in Arrived("create")
    BY <1>4, <1>6, <1>7, <2>1 DEF ApiInv, BeforeAnswered, Answered
  <2> QED
    BY <1>5, <1>14, <2>1, <2>2 DEF ApiInv, DeletedIsRemoved
<1>16. IssuedIsFound'
  <2> SUFFICES ASSUME NEW g \in Requests, NEW c \in Requests, g \in Answered("get", 404)',
                      c \in before'[g] \cap Arrived("create")', order'[c].save,
                      answer'[c].status = CreatedStatus(c)', Subject(c)' = Subject(g)'
               PROVE  \E d \in Arrived("delete")' : Subject(d)' = Subject(g)'
    BY DEF IssuedIsFound
  <2>1. g \in Answered("get", 404) /\ g # r
    BY <1>7, <1>13 DEF Answered
  <2>2. c \in before[g] /\ c # r /\ c \in Arrived("create")
    BY <1>4, <1>6, <1>7, <2>1 DEF ApiInv, BeforeAnswered, Answered
  <2>3. \E d \in Arrived("delete") : Subject(d) = Subject(g)
    BY <1>3, <1>4, <1>5, <2>1, <2>2 DEF ApiInv, IssuedIsFound
  <2> QED
    BY <1>5, <1>6, <2>1, <2>3
<1>17. DeletedIsGone'
  <2> SUFFICES ASSUME NEW d \in Answered("delete", 202)', MadeOnce(d)',
                      NEW g \in Answered("get", 200)', d \in before'[g], Subject(g)' = Subject(d)'
               PROVE  \E c \in Arrived("create")' : Subject(c)' = Subject(d)' /\ c \notin before'[d]
    BY DEF DeletedIsGone, GoneAfter, MadeOnce
  <2>1. d \in Answered("delete", 202) /\ g \in Answered("get", 200) /\ d # r /\ g # r
        /\ d \in Requests /\ g \in Requests
    BY <1>7, <1>13 DEF Answered
  <2>2. MadeOnce(d) /\ d \in before[g] /\ Subject(g) = Subject(d)
    BY <1>4, <1>5, <1>14, <2>1
  <2>3. \E c \in Arrived("create") : Subject(c) = Subject(d) /\ c \notin before[d]
    BY <2>1, <2>2 DEF ApiInv, DeletedIsGone, GoneAfter, MadeOnce
  <2> QED
    BY <1>4, <1>5, <1>6, <2>1, <2>3
<1> QED
  BY <1>8, <1>9, <1>10, <1>11, <1>12, <1>15, <1>16, <1>17 DEF ApiInv

-----------------------------------------------------------------------------
(* A step of a request.  It may store the request's own document, or one   *)
(* document goes, whose id a request asked to delete.                      *)

\* The request, and no other, moves on.
Moves(r, where) ==
    /\ pc[r] \notin {"idle", "answered"}
    /\ pc' = [pc EXCEPT ![r] = where]
    /\ UNCHANGED <<order, before>>
    /\ DOMAIN found' = Requests /\ \A q \in Requests \ {r} : found'[q] = found[q]
    /\ DOMAIN answer' = Requests /\ \A q \in Requests \ {r} : answer'[q] = answer[q]

StoresOwn(r) ==
    /\ \A s \in stored' : s \in stored \/ (s = Document(r) /\ order[r].kind = "create")
    /\ \A s \in stored \ stored' : \E d \in Arrived("delete") : Subject(d) = <<s.what, s.id>>

\* What an answer says is so when it is given.
Says(r, kind, status) == order[r].kind = kind /\ answer'[r].status = status
CreatedIsStored(r) ==
    Says(r, "create", CreatedStatus(r)) /\ order[r].save => Document(r) \in stored'
DeletedWasFound(r) ==
    Says(r, "delete", 202) =>
        \E c \in Arrived("create") : Document(c) \notin stored' /\ Subject(c) = Subject(r)
GetIsTrue(r) ==
    /\ Says(r, "get", 404) => \A s \in stored : <<s.what, s.id>> # Subject(r)
    /\ Says(r, "get", 200) => \E s \in stored : <<s.what, s.id>> = Subject(r)
TrueAnswer(r) == CreatedIsStored(r) /\ DeletedWasFound(r) /\ GetIsTrue(r)

LEMMA StepKept ==
    ASSUME ApiInv, NEW r \in Requests, NEW where \in {"delete", "save", "answered"},
           Moves(r, where), StoresOwn(r), Point(r)',
           where = "delete" =>
               \E c \in Arrived("create") : found'[r] = Document(c) /\ Subject(c) = Subject(r),
           where = "answered" => TrueAnswer(r)
    PROVE  ApiInv'
<1> USE DEF Moves, StoresOwn
<1>1. pc'[r] = where /\ \A q \in Requests \ {r} : pc'[q] = pc[q]
  BY DEF ApiInv, Typed
<1>2. \A q : /\ Subject(q)' = Subject(q) /\ Document(q)' = Document(q)
             /\ CreatedStatus(q)' = CreatedStatus(q)
  BY DEF Subject, Document, CreatedStatus
<1>3. Arrived("create")' = Arrived("create") /\ Arrived("delete")' = Arrived("delete")
  BY <1>1 DEF Arrived
<1>4. \A c : Subject(c) = <<Document(c).what, Document(c).id>> /\ Document(c).copy = c
  BY DEF Subject, Document
<1>5. \A q \in Requests : pc[q] = "answered" => q # r /\ pc'[q] = "answered"
  BY <1>1
<1>6. Arrived("create") \subseteq Requests /\ Arrived("delete") \subseteq Requests
  BY DEF Arrived
<1>7. Typed'
  <2>1. \A q \in Requests \ {r} : Point(q)'
    BY <1>1 DEF ApiInv, Typed, Point
  <2>2. pc' \in [Requests -> PCs]
    BY DEF ApiInv, Typed, PCs
  <2> QED
    BY <2>1, <2>2 DEF ApiInv, Typed
<1>8. BeforeAnswered'
  BY <1>1, <1>5 DEF ApiInv, BeforeAnswered
<1>9. StoredWereMade'
  <2>1. order[r].kind = "create" => r \in Arrived("create")
    BY DEF Arrived
  <2> QED
    BY <1>2, <1>3, <2>1 DEF ApiInv, StoredWereMade
<1>10. FoundWereMade'
  BY <1>1, <1>2, <1>3 DEF ApiInv, FoundWereMade
<1>11. SavedIsStored'
  <2> SUFFICES ASSUME NEW c \in Arrived("create"), pc'[c] = "answered", order[c].save,
                      answer'[c].status = CreatedStatus(c)
               PROVE  \/ Document(c) \in stored'
                      \/ \E d \in Arrived("delete") : Subject(d) = Subject(c)
    BY <1>2, <1>3 DEF SavedIsStored
  <2>1. CASE c = r
    BY <1>1, <2>1 DEF Arrived, TrueAnswer, CreatedIsStored, Says
  <2>2. CASE c # r
    <3>1. Document(c) \in stored \/ \E d \in Arrived("delete") : Subject(d) = Subject(c)
      BY <1>1, <1>6, <2>2 DEF ApiInv, SavedIsStored
    <3> QED
      BY <1>4, <3>1
  <2> QED
    BY <2>1, <2>2
<1>12. \A d : MadeOnce(d)' => MadeOnce(d)
  BY <1>2, <1>3 DEF MadeOnce
<1>13. \A d \in Requests : d \in Answered("delete", 202)' =>
         d \in Answered("delete", 202) \/ d = r
  BY <1>1 DEF Answered
<1>14. DeletedIsRemoved'
  <2> SUFFICES ASSUME NEW d \in Answered("delete", 202)', MadeOnce(d),
                      NEW c \in Arrived("create"), Subject(c) = Subject(d), c \in before[d]
               PROVE  Document(c) \notin stored'
    BY <1>2, <1>3, <1>12 DEF DeletedIsRemoved
  <2>0. d \in Requests
    BY DEF Answered
  <2>1. CASE d = r
    <3>1. where = "answered" /\ order[r].kind = "delete" /\ answer'[r].status = 202
      BY <1>1, <2>1 DEF Answered
    <3>2. PICK b \in Arrived("create") : Document(b) \notin stored' /\ Subject(b) = Subject(r)
      BY <3>1 DEF TrueAnswer, DeletedWasFound, Says
    <3> QED
      BY <2>1, <3>2 DEF MadeOnce
  <2>2. CASE d # r
    <3>1. d \in Answered("delete", 202)
      BY <1>13, <2>0, <2>2
    <3>2. Document(c) \notin stored
      BY <3>1 DEF ApiInv, DeletedIsRemoved
    <3>3. c # r
      BY <1>5, <2>0, <3>1 DEF ApiInv, BeforeAnswered, Answered
    <3> QED
      BY <1>4, <3>2, <3>3
  <2> QED
    BY <2>1, <2>2
<1>15. IssuedIsFound'
  <2> SUFFICES ASSUME NEW g \in Requests, NEW c \in Requests, g \in Answered("get", 404)',
                      c \in before[g], c \in Arrived("create"), order[c].save,
                      answer'[c].status = CreatedStatus(c), Subject(c) = Subject(g)
               PROVE  \E d \in Arrived("delete") : Subject(d) = Subject(g)
    BY <1>2, <1>3 DEF IssuedIsFound
  <2>1. CASE g = r
    <3>1. pc[c] = "answered" /\ c # r /\ answer[c].status = CreatedStatus(c)
      BY <1>5, <2>1 DEF ApiInv, BeforeAnswered
    <3>2. Document(c) \in stored \/ \E d \in Arrived("delete") : Subject(d) = Subject(c)
      BY <3>1 DEF ApiInv, SavedIsStored
    <3>3. \A s \in stored : <<s.what, s.id>> # Subject(r)
      BY <1>1, <2>1 DEF Answered, TrueAnswer, GetIsTrue, Says
    <3> QED
      BY <1>4, <2>1, <3>2, <3>3
  <2>2. CASE g # r
    <3>1. g \in Answered("get", 404)
      BY <1>1, <2>2 DEF Answered
    <3>2. c # r
      BY <1>5, <3>1 DEF ApiInv, BeforeAnswered, Answered
    <3> QED
      BY <3>1, <3>2 DEF ApiInv, IssuedIsFound
  <2> QED
    BY <2>1, <2>2
<1>16. DeletedIsGone'
  <2> SUFFICES ASSUME NEW d \in Answered("delete", 202)', MadeOnce(d),
                      NEW g \in Answered("get", 200)', d \in before[g], Subject(g) = Subject(d)
               PROVE  \E c \in Arrived("create") : Subject(c) = Subject(d) /\ c \notin before[d]
    BY <1>2, <1>3, <1>12 DEF DeletedIsGone, GoneAfter, MadeOnce
  <2>1. d \in Requests /\ g \in Requests
    BY DEF Answered
  <2>2. d # r /\ d \in Answered("delete", 202)
    <3>1. pc[g] # "idle"
      BY <1>1, <2>1 DEF Answered
    <3>2. pc[d] = "answered"
      BY <2>1, <3>1 DEF ApiInv, BeforeAnswered
    <3> QED
      BY <1>5, <1>13, <2>1, <3>2
  <2>3. CASE g = r
    <3>1. PICK s \in stored : <<s.what, s.id>> = Subject(r)
      BY <1>1, <2>3 DEF Answered, TrueAnswer, GetIsTrue, Says
    <3>2. PICK c \in Arrived("create") : s = Document(c)
      BY DEF ApiInv, StoredWereMade
    <3>3. Subject(c) = Subject(d)
      BY <1>4, <2>3, <3>1, <3>2
    <3>4. c \notin before[d]
      BY <2>2, <3>2, <3>3 DEF ApiInv, DeletedIsRemoved
    <3> QED
      BY <3>3, <3>4
  <2>4. CASE g # r
    <3>1. g \in Answered("get", 200)
      BY <1>1, <2>1, <2>4 DEF Answered
    <3> QED
      BY <2>2, <3>1 DEF ApiInv, DeletedIsGone, GoneAfter, MadeOnce
  <2> QED
    BY <2>3, <2>4
<1> QED
  BY <1>7, <1>8, <1>9, <1>10, <1>11, <1>14, <1>15, <1>16 DEF ApiInv

\* The errors have no status that says a request was done.
LEMMA ErrorsAreNotDone ==
    \A message : ErrorStatus(message) \in {404, 500, 501}
BY DEF ErrorStatus

LEMMA ThrowFacts ==
    ASSUME NEW r \in Requests, NEW message, Throw(r, message), DOMAIN answer = Requests
    PROVE  /\ pc' = [pc EXCEPT ![r] = "answered"]
           /\ DOMAIN answer' = Requests /\ \A q \in Requests \ {r} : answer'[q] = answer[q]
           /\ answer'[r].status \in {404, 500, 501}
<1> DEFINE status == ErrorStatus(IF order[r].kind = "verify"
                                    \/ (order[r].kind = "create" /\ order[r].route # "prove")
                                 THEN Rewrapped(message) ELSE message)
<1>1. status \in {404, 500, 501}
  BY ErrorsAreNotDone
<1>2. Reply(r, status, None)
  BY DEF Throw
<1> HIDE DEF status
<1> QED
  BY <1>1, <1>2 DEF Reply

\* A reply that neither stores nor deletes anything and claims nothing of what is stored.
LEMMA ReplyKept ==
    ASSUME ApiInv, NEW r \in Requests, Moves(r, "answered"), UNCHANGED stored,
           order[r].kind = "create" /\ order[r].save => answer'[r].status \in {404, 500, 501},
           order[r].kind = "delete" => answer'[r].status # 202,
           order[r].kind # "get"
    PROVE  ApiInv'
<1>1. Point(r)'
  BY DEF Moves, ApiInv, Typed, Point
<1>2. CreatedStatus(r) \in {200, 201}
  BY DEF CreatedStatus
<1>3. StoresOwn(r)
  BY DEF StoresOwn
<1>4. CreatedIsStored(r)
  BY <1>2 DEF CreatedIsStored, Says
<1>5. TrueAnswer(r)
  BY <1>4 DEF TrueAnswer, DeletedWasFound, GetIsTrue, Says
<1> QED
  BY <1>1, <1>3, <1>5, StepKept

LEMMA ReplyMoves ==
    ASSUME ApiInv, NEW r \in Requests, NEW status, NEW result, Reply(r, status, result),
           pc[r] \notin {"idle", "answered"}, UNCHANGED <<order, before>>,
           DOMAIN found' = Requests, \A q \in Requests \ {r} : found'[q] = found[q]
    PROVE  Moves(r, "answered") /\ answer'[r].status = status
BY DEF Reply, Moves, ApiInv, Typed

LEMMA LookupKept ==
    ASSUME ApiInv, NEW r \in Requests, Lookup(r)
    PROVE  ApiInv'
<1> DEFINE o == order[r]
<1>1. pc[r] = "lookup" /\ o.kind \in LookupKinds /\ UNCHANGED <<stored, order, before>>
  BY DEF Lookup, ApiInv, Typed, Point
<1>2. StoresOwn(r)
  BY <1>1 DEF StoresOwn
<1>3. \A s : s \in Matching(o) => s \in stored /\ (o.kind # "list" => <<s.what, s.id>> = Subject(r))
  BY DEF Matching, Subject
<1>4. CASE Matching(o) = {}
  <2>1. o.kind # "list" => \A s \in stored : <<s.what, s.id>> # Subject(r)
    BY <1>4 DEF Matching, Subject
  <2>2. Moves(r, "answered") /\ (o.kind = "delete" => answer'[r].status # 202)
                             /\ (o.kind = "get" => answer'[r].status = 404)
    <3>1. DOMAIN found' = Requests /\ (\A q \in Requests \ {r} : found'[q] = found[q])
      BY <1>4 DEF Lookup, ApiInv, Typed
    <3>2. CASE o.kind = "delete"
      <4>1. PICK message : Throw(r, message)
        BY <1>4, <3>2 DEF Lookup
      <4>2. /\ pc' = [pc EXCEPT ![r] = "answered"]
            /\ DOMAIN answer' = Requests /\ \A q \in Requests \ {r} : answer'[q] = answer[q]
            /\ answer'[r].status \in {404, 500, 501}
        BY <4>1, ThrowFacts DEF ApiInv, Typed
      <4> QED
        BY <1>1, <3>1, <3>2, <4>2 DEF Moves
    <3>3. CASE o.kind = "list"
      <4>1. Reply(r, 410, None)
        BY <1>4, <3>3 DEF Lookup
      <4> QED
        BY <1>1, <3>1, <3>3, <4>1, ReplyMoves
    <3>4. CASE o.kind = "get"
      <4>1. Reply(r, 404, None)
        BY <1>4, <3>4 DEF Lookup
      <4> QED
        BY <1>1, <3>1, <3>4, <4>1, ReplyMoves
    <3> QED
      BY <1>1, <3>2, <3>3, <3>4 DEF LookupKinds
  <2>3. TrueAnswer(r)
    BY <1>1, <2>1, <2>2 DEF TrueAnswer, CreatedIsStored, DeletedWasFound, GetIsTrue, Says, LookupKinds
  <2>4. Point(r)'
    BY <2>2 DEF Moves, ApiInv, Typed, Point
  <2> QED
    BY <1>2, <2>2, <2>3, <2>4, StepKept
<1>5. CASE Matching(o) # {} /\ o.kind # "delete"
  <2>1. Moves(r, "answered") /\ answer'[r].status = 200
    <3>1. Reply(r, 200, None)
      BY <1>1, <1>5 DEF Lookup, LookupKinds
    <3>2. DOMAIN found' = Requests /\ (\A q \in Requests \ {r} : found'[q] = found[q])
      BY <1>1, <1>5 DEF Lookup, LookupKinds, ApiInv, Typed
    <3> QED
      BY <1>1, <3>1, <3>2, ReplyMoves
  <2>2. o.kind # "list" => \E s \in stored : <<s.what, s.id>> = Subject(r)
    BY <1>3, <1>5
  <2>3. TrueAnswer(r)
    BY <1>1, <1>5, <2>1, <2>2
       DEF TrueAnswer, CreatedIsStored, DeletedWasFound, GetIsTrue, Says, LookupKinds
  <2>4. Point(r)'
    BY <2>1 DEF Moves, ApiInv, Typed, Point
  <2> QED
    BY <1>2, <2>1, <2>3, <2>4, StepKept
<1>6. CASE Matching(o) # {} /\ o.kind = "delete"
  <2>1. PICK s \in Matching(o) : found' = [found EXCEPT ![r] = s]
    BY <1>6 DEF Lookup
  <2>2. Moves(r, "delete") /\ found'[r] = s
    BY <1>1, <1>6, <2>1 DEF Lookup, Moves, ApiInv, Typed
  <2>3. PICK c \in Arrived("create") : s = Document(c)
    BY <1>3 DEF ApiInv, StoredWereMade
  <2>4. Subject(c) = Subject(r)
    BY <1>3, <1>6, <2>3 DEF Document, Subject
  <2>5. Point(r)'
    BY <1>6, <2>2 DEF Moves, ApiInv, Typed, Point
  <2> QED
    BY <1>2, <2>2, <2>3, <2>4, <2>5, StepKept
<1> QED
  BY <1>4, <1>5, <1>6

LEMMA DeleteKept ==
    ASSUME ApiInv, NEW r \in Requests, Delete(r)
    PROVE  ApiInv'
<1>1. pc[r] = "delete" /\ order[r].kind = "delete" /\ r \in Arrived("delete")
  BY DEF Delete, ApiInv, Typed, Point, Arrived
<1>2. Moves(r, "answered") /\ stored' = stored \ {found[r]}
  BY <1>1 DEF Delete, Reply, Moves, ApiInv, Typed
<1>3. PICK c \in Arrived("create") : found[r] = Document(c) /\ Subject(c) = Subject(r)
  BY <1>1 DEF ApiInv, FoundWereMade
<1>4. <<found[r].what, found[r].id>> = Subject(r)
  BY <1>3 DEF Document, Subject
<1>5. StoresOwn(r)
  BY <1>1, <1>2, <1>4 DEF StoresOwn
<1>6. TrueAnswer(r)
  BY <1>1, <1>2, <1>3 DEF TrueAnswer, CreatedIsStored, DeletedWasFound, GetIsTrue, Says
<1>7. Point(r)'
  BY <1>2 DEF Moves, ApiInv, Typed, Point
<1> QED
  BY <1>2, <1>5, <1>6, <1>7, StepKept

LEMMA CreateKept ==
    ASSUME ApiInv, NEW r \in Requests, Create(r)
    PROVE  ApiInv'
<1>1. pc[r] = "create" /\ order[r].kind = "create" /\ UNCHANGED <<stored, order, before, found>>
  BY DEF Create, ApiInv, Typed, Point
<1>2. \/ \E message : Throw(r, message)
      \/ order[r].save /\ pc' = [pc EXCEPT ![r] = "save"] /\ UNCHANGED answer
      \/ ~order[r].save /\ Reply(r, CreatedStatus(r), None)
  BY DEF Create
<1>3. CASE \E message : Throw(r, message)
  <2>1. Moves(r, "answered") /\ answer'[r].status \in {404, 500, 501}
    BY <1>1, <1>3, ThrowFacts DEF Moves, ApiInv, Typed
  <2> QED
    BY <1>1, <2>1, ReplyKept
<1>4. CASE order[r].save /\ pc' = [pc EXCEPT ![r] = "save"] /\ UNCHANGED answer
  <2>1. Moves(r, "save")
    BY <1>1, <1>4 DEF Moves, ApiInv, Typed
  <2>2. Point(r)' /\ StoresOwn(r)
    BY <1>1, <2>1 DEF Moves, ApiInv, Typed, Point, StoresOwn
  <2> QED
    BY <2>1, <2>2, StepKept
<1>5. CASE ~order[r].save /\ Reply(r, CreatedStatus(r), None)
  <2>1. Moves(r, "answered")
    BY <1>1, <1>5 DEF Reply, Moves, ApiInv, Typed
  <2> QED
    BY <1>1, <1>5, <2>1, ReplyKept
<1> QED
  BY <1>2, <1>3, <1>4, <1>5

LEMMA SaveKept ==
    ASSUME ApiInv, NEW r \in Requests, Save(r)
    PROVE  ApiInv'
<1>1. pc[r] = "save" /\ order[r].kind = "create" /\ UNCHANGED <<order, before, found>>
  BY DEF Save, ApiInv, Typed, Point
<1>2. CASE stored' = stored \cup {Document(r)} /\ Reply(r, CreatedStatus(r), None)
  <2>1. Moves(r, "answered")
    BY <1>1, <1>2 DEF Reply, Moves, ApiInv, Typed
  <2>2. Point(r)' /\ StoresOwn(r)
    BY <1>1, <1>2, <2>1 DEF Moves, ApiInv, Typed, Point, StoresOwn
  <2>3. TrueAnswer(r)
    BY <1>1, <1>2 DEF TrueAnswer, CreatedIsStored, DeletedWasFound, GetIsTrue, Says
  <2> QED
    BY <2>1, <2>2, <2>3, StepKept
<1>3. CASE UNCHANGED stored /\ Throw(r, <<"SQLITE_BUSY">>)
  <2>1. Moves(r, "answered") /\ answer'[r].status \in {404, 500, 501}
    BY <1>1, <1>3, ThrowFacts DEF Moves, ApiInv, Typed
  <2> QED
    BY <1>1, <1>3, <2>1, ReplyKept
<1> QED
  BY <1>2, <1>3 DEF Save

LEMMA VerifyKept ==
    ASSUME ApiInv, NEW r \in Requests, Verify(r)
    PROVE  ApiInv'
<1>1. pc[r] = "verify" /\ order[r].kind = "verify" /\ UNCHANGED <<stored, order, before, found>>
  BY DEF Verify, ApiInv, Typed, Point
<1>2. (\E message : Throw(r, message)) \/ (\E status, result : Reply(r, status, result))
  BY DEF Verify
<1>3. Moves(r, "answered")
  <2>1. CASE \E message : Throw(r, message)
    BY <1>1, <2>1, ThrowFacts DEF Moves, ApiInv, Typed
  <2>2. CASE \E status, result : Reply(r, status, result)
    BY <1>1, <2>2 DEF Reply, Moves, ApiInv, Typed
  <2> QED
    BY <1>2, <2>1, <2>2
<1> QED
  BY <1>1, <1>3, ReplyKept

-----------------------------------------------------------------------------
(* The VC API, whatever else the server does.                              *)

LEMMA ApiInvInit == Init => ApiInv
<1> SUFFICES ASSUME Init
             PROVE  ApiInv
  OBVIOUS
<1>1. \A k, n : Arrived(k) = {} /\ Answered(k, n) = {}
  BY DEF Init, Arrived, Answered
<1>2. Typed
  BY DEF Init, Typed, Point, PCs
<1> QED
  BY <1>1, <1>2 DEF ApiInv, Init, BeforeAnswered, StoredWereMade, FoundWereMade, SavedIsStored,
     DeletedIsRemoved, IssuedIsFound, DeletedIsGone

LEMMA ApiInvNext == ApiInv /\ [Next]_vars => ApiInv'
<1> SUFFICES ASSUME ApiInv, [Next]_vars
             PROVE  ApiInv'
  OBVIOUS
<1>1. CASE UNCHANGED vars
  <2>1. UNCHANGED <<stored, pc, order, before, found, answer>>
    BY <1>1 DEF vars
  <2>2. (Typed /\ BeforeAnswered /\ StoredWereMade /\ FoundWereMade)'
    BY <2>1 DEF ApiInv, Typed, Point, BeforeAnswered, StoredWereMade, FoundWereMade,
       Arrived, Document, Subject
  <2>3. (SavedIsStored /\ IssuedIsFound)'
    BY <2>1 DEF ApiInv, SavedIsStored, IssuedIsFound, Arrived, Answered, Document,
       Subject, CreatedStatus
  <2>4. (DeletedIsRemoved /\ DeletedIsGone)'
    BY <2>1 DEF ApiInv, DeletedIsRemoved, DeletedIsGone, GoneAfter, MadeOnce, Arrived,
       Answered, Document, Subject
  <2> QED
    BY <2>2, <2>3, <2>4 DEF ApiInv
<1>2. ASSUME NEW r \in Requests, Step(r)
      PROVE  ApiInv'
  BY <1>2, LookupKept, DeleteKept, CreateKept, SaveKept, VerifyKept DEF Step
<1>3. ASSUME NEW r \in Requests, NEW o \in Orders, Arrive(r, o)
      PROVE  ApiInv'
  BY <1>3, ArriveKept
<1> QED
  BY <1>1, <1>2, <1>3 DEF Next

LEMMA ApiInvAlways == ServerSpec => []ApiInv
<1>1. ServerInit => ApiInv
  BY ApiInvInit DEF ServerInit
<1>2. [ServerNext]_serverVars => [Next]_vars
  BY DEF ServerNext, serverVars
<1>3. ApiInv /\ [ServerNext]_serverVars => ApiInv'
  BY <1>2, ApiInvNext
<1> QED
  BY <1>1, <1>3, PTL DEF ServerSpec

\* POST /credentials/issue and GET /credentials/:id: what a caller was told is issued and
\* saved is found by every later request, unless its id was asked to be deleted.
THEOREM IssuedStaysFound == ServerSpec => []IssuedIsFound
<1>1. ApiInv => IssuedIsFound
  BY DEF ApiInv
<1> QED
  BY <1>1, ApiInvAlways, PTL

\* DELETE /credentials/:id looks up by id and deletes by hash, in two calls: nothing that
\* overlaps brings a deleted credential back, if its id was given to one only.
THEOREM DeletedStaysGone == ServerSpec => []DeletedIsGone
<1>1. ApiInv => DeletedIsGone
  BY DEF ApiInv
<1> QED
  BY <1>1, ApiInvAlways, PTL

-----------------------------------------------------------------------------
(* The did:web documents.                                                  *)

Names == Hosts \cup {BaseName}

\* The keys of an identifier differ, and a document is that of the identifier as it was found.
KeysDiffer(i) == i # None => \A a, b \in DOMAIN i.keys : i.keys[a] = i.keys[b] => a = b

RequestInv(r) ==
    /\ DOMAIN requests[r] = {"phase", "host", "found", "doc"}
    /\ requests[r].found \in {None} \cup Documents!Identifiers
    /\ KeysDiffer(requests[r].found)
    /\ requests[r].phase = "refused" => Documents!Refuses(r)
    /\ requests[r].phase = "answered" =>
           ~Documents!Refuses(r) /\ (Documents!OneWebKey(r) => Documents!OwnMethods(r))

IdentifiersInv ==
    /\ identifiers \in [Names -> {None} \cup Documents!Identifiers]
    /\ \A h \in Names : KeysDiffer(identifiers[h])

RequestsInv ==
    /\ DOMAIN requests = DocRequests
    /\ \A r \in DocRequests : RequestInv(r)

\* Where the start-up stands, and what it has done by then.
DefaultInv ==
    /\ init \in {"identifier", "#msg", "#msg-didcomm", "done"}
    /\ init # "identifier" => identifiers[BaseName] # None
    /\ init \in {"#msg-didcomm", "done"} => "#msg" \in identifiers[BaseName].services
    /\ init = "done" => "#msg-didcomm" \in identifiers[BaseName].services

DocumentsInv == IdentifiersInv /\ RequestsInv /\ DefaultInv

-----------------------------------------------------------------------------
(* The document of an identifier whose keys differ.                        *)

LEMMA RemovedKeysDiffer ==
    ASSUME NEW S, NEW q \in Seq(S), NEW i \in DOMAIN q,
           \A a, b \in DOMAIN q : q[a] = q[b] => a = b
    PROVE  /\ Documents!RemoveAt(q, i) \in Seq(S)
           /\ \A a, b \in DOMAIN Documents!RemoveAt(q, i) :
                 Documents!RemoveAt(q, i)[a] = Documents!RemoveAt(q, i)[b] => a = b
<1> DEFINE l == SubSeq(q, 1, i - 1)
           u == SubSeq(q, i + 1, Len(q))
           s == l \o u
<1>1. Documents!RemoveAt(q, i) = s
  BY DEF Documents!RemoveAt
<1>2. DOMAIN q = 1..Len(q) /\ Len(q) \in Nat /\ i \in 1..Len(q) /\ \A a \in 1..Len(q) : q[a] \in S
  BY LenProperties, ElementOfSeq
<1>3. /\ l \in Seq(S) /\ Len(l) = i - 1
      /\ \A a \in 1..(i - 1) : l[a] = q[a]
  <2>1. 1 \in Int /\ i - 1 \in Int /\ \A a \in 1..(i - 1) : q[a] \in S
    BY <1>2
  <2> QED
    BY <2>1, <1>2, SubSeqProperties
<1>4. /\ u \in Seq(S) /\ Len(u) = Len(q) - i
      /\ \A a \in 1..(Len(q) - i) : u[a] = q[i + a]
  <2>1. i + 1 \in Int /\ Len(q) \in Int /\ \A a \in (i + 1)..Len(q) : q[a] \in S
    BY <1>2
  <2> QED
    BY <2>1, <1>2, SubSeqProperties
<1>5. /\ s \in Seq(S) /\ Len(s) = Len(q) - 1
      /\ \A a \in 1..(Len(q) - 1) : s[a] = IF a <= i - 1 THEN q[a] ELSE q[a + 1]
  <2> HIDE DEF l, u
  <2>1. /\ s \in Seq(S) /\ Len(s) = Len(l) + Len(u)
        /\ \A a \in 1..(Len(l) + Len(u)) : s[a] = IF a <= Len(l) THEN l[a] ELSE u[a - Len(l)]
    BY <1>3, <1>4, ConcatProperties
  <2> HIDE DEF s
  <2>2. Len(l) + Len(u) = Len(q) - 1
    BY <1>2, <1>3, <1>4
  <2>3. ASSUME NEW a \in 1..(Len(q) - 1) PROVE s[a] = IF a <= i - 1 THEN q[a] ELSE q[a + 1]
    <3>1. CASE a <= i - 1
      BY <3>1, <2>1, <2>2, <1>2, <1>3
    <3>2. CASE ~(a <= i - 1)
      <4>1. a - Len(l) \in 1..(Len(q) - i) /\ i + (a - Len(l)) = a + 1
        BY <3>2, <1>2, <1>3
      <4>2. s[a] = u[a - Len(l)]
        BY <3>2, <2>1, <2>2, <1>2, <1>3
      <4> QED
        BY <3>2, <4>1, <4>2, <1>4
    <3> QED
      BY <3>1, <3>2
  <2> QED
    BY <2>1, <2>2, <2>3
<1>6. DOMAIN s = 1..(Len(q) - 1)
  BY <1>5, LenProperties
<1>7. ASSUME NEW a \in DOMAIN s, NEW b \in DOMAIN s, s[a] = s[b] PROVE a = b
  <2> HIDE DEF s
  <2> DEFINE old(c) == IF c <= i - 1 THEN c ELSE c + 1
  <2>1. \A c \in DOMAIN s : old(c) \in DOMAIN q /\ s[c] = q[old(c)]
    BY <1>2, <1>5, <1>6
  <2>2. old(a) = old(b)
    <3> HIDE DEF old
    <3> QED
      BY <2>1, <1>7
  <2> QED
    BY <2>2, <1>6, <1>2
<1> QED
  BY <1>1, <1>5, <1>7

LEMMA AddedKeysDiffer ==
    ASSUME NEW S, NEW q \in Seq(S), NEW k \in S, k \notin Documents!ToSet(q),
           \A a, b \in DOMAIN q : q[a] = q[b] => a = b
    PROVE  /\ Append(q, k) \in Seq(S)
           /\ \A a, b \in DOMAIN Append(q, k) : Append(q, k)[a] = Append(q, k)[b] => a = b
<1> DEFINE s == Append(q, k)
<1>1. /\ s \in Seq(S) /\ Len(q) \in Nat
      /\ DOMAIN q = 1..Len(q) /\ DOMAIN s = 1..(Len(q) + 1)
  BY LenProperties
<1>2. \A a \in DOMAIN q : s[a] = q[a] /\ q[a] # k
  BY DEF Documents!ToSet
<1>3. s[Len(q) + 1] = k
  OBVIOUS
<1>4. ASSUME NEW a \in DOMAIN s, NEW b \in DOMAIN s, s[a] = s[b] PROVE a = b
  <2> HIDE DEF s
  <2>1. \A c \in DOMAIN s : c \in DOMAIN q \/ c = Len(q) + 1
    BY <1>1
  <2> QED
    BY <1>2, <1>3, <1>4, <2>1
<1> QED
  BY <1>1, <1>4

IsWebKey(k) == keyMapping[KeyType[k]] = "JsonWebKey2020"

\* What is published at a place: a key under its own id, or one of the derived pair.
LEMMA MethodAt ==
    ASSUME NEW keys, NEW p \in Documents!Places(keys)
    PROVE  LET m == Documents!Methods(keys)[p]
               k == keys[p[1]]
           IN  /\ p[1] \in DOMAIN keys /\ p = <<p[1], p[2]>>
               /\ IF IsWebKey(k)
                  THEN p[2] \in {1, 2} /\ m.id = <<Documents!FirstEd25519(keys), p[2] - 1>>
                  ELSE p[2] = 1 /\ m.id = <<k>>
<1>1. p \in (DOMAIN keys) \X {1, 2} /\ p[2] \in DOMAIN Documents!MethodsOf(keys[p[1]], keys)
  BY DEF Documents!Places
<1>2. p[1] \in DOMAIN keys /\ p = <<p[1], p[2]>> /\ p[2] \in {1, 2}
  BY <1>1
<1>3. Documents!Methods(keys)[p] = Documents!MethodsOf(keys[p[1]], keys)[p[2]]
  BY DEF Documents!Methods
<1>4. CASE IsWebKey(keys[p[1]])
  BY <1>2, <1>3, <1>4 DEF IsWebKey, Documents!MethodsOf, Documents!WebKeys, Documents!Method
<1>5. CASE ~IsWebKey(keys[p[1]])
  <2>1. p[2] = 1
    BY <1>1, <1>2, <1>5 DEF IsWebKey, Documents!MethodsOf
  <2> QED
    BY <2>1, <1>2, <1>3, <1>5 DEF IsWebKey, Documents!MethodsOf, Documents!Method
<1> QED
  BY <1>2, <1>4, <1>5

\* No id twice, as long as the derived pair is published for one key at most.
LEMMA IdsDiffer ==
    ASSUME NEW keys,
           \A a, b \in DOMAIN keys : keys[a] = keys[b] => a = b,
           \A a, b \in DOMAIN keys : IsWebKey(keys[a]) /\ IsWebKey(keys[b]) => a = b,
           NEW p \in Documents!Places(keys), NEW q \in Documents!Places(keys),
           Documents!Methods(keys)[p].id = Documents!Methods(keys)[q].id
    PROVE  p = q
<1> DEFINE k == keys[p[1]]
           j == keys[q[1]]
<1>1. CASE IsWebKey(k) /\ IsWebKey(j)
  <2>1. p[1] = q[1] /\ <<Documents!FirstEd25519(keys), p[2] - 1>> = <<Documents!FirstEd25519(keys), q[2] - 1>>
    BY <1>1, MethodAt
  <2>2. p[2] - 1 = q[2] - 1 /\ p[2] \in Nat /\ q[2] \in Nat
    BY <1>1, <2>1, MethodAt
  <2> QED
    BY <2>1, <2>2, MethodAt
<1>2. CASE ~IsWebKey(k) /\ ~IsWebKey(j)
  <2>1. <<k>> = <<j>> /\ p[2] = q[2] /\ p[1] \in DOMAIN keys /\ q[1] \in DOMAIN keys
    BY <1>2, MethodAt
  <2> QED
    BY <2>1, MethodAt
<1>3. CASE IsWebKey(k) /\ ~IsWebKey(j)
  <2>1. <<Documents!FirstEd25519(keys), p[2] - 1>> = <<j>>
    BY <1>3, MethodAt
  <2> QED
    BY <2>1
<1>4. CASE ~IsWebKey(k) /\ IsWebKey(j)
  <2>1. <<k>> = <<Documents!FirstEd25519(keys), q[2] - 1>>
    BY <1>4, MethodAt
  <2> QED
    BY <2>1
<1> QED
  BY <1>1, <1>2, <1>3, <1>4

\* An Ed25519 key is published as itself, or as the first of the derived pair.
LEMMA Ed25519IsListed ==
    ASSUME NEW keys \in Seq(Keys), NEW a \in DOMAIN keys, KeyType[keys[a]] = "Ed25519",
           \A b, c \in DOMAIN keys : IsWebKey(keys[b]) /\ IsWebKey(keys[c]) => b = c
    PROVE  \E p \in Documents!Places(keys) :
               Documents!Methods(keys)[p].key = keys[a] /\ Documents!Methods(keys)[p].use = "sign"
<1> DEFINE p == <<a, 1>>
<1>1. 1 \in DOMAIN Documents!MethodsOf(keys[a], keys)
  BY DEF Documents!MethodsOf, Documents!WebKeys
<1>2. p \in Documents!Places(keys)
  BY <1>1 DEF Documents!Places
<1>3. Documents!Methods(keys)[p] = Documents!MethodsOf(keys[a], keys)[1]
  BY <1>2 DEF Documents!Methods
<1>4. CASE IsWebKey(keys[a])
  <2>1. Documents!Ed25519(keys) = {a}
    BY <1>4 DEF Documents!Ed25519, IsWebKey
  <2>2. a <= a
    BY LenProperties
  <2>3. (CHOOSE b \in Documents!Ed25519(keys) : \A c \in Documents!Ed25519(keys) : b <= c) = a
    BY <2>1, <2>2
  <2>4. Documents!FirstEd25519(keys) = keys[a]
    BY <2>3 DEF Documents!FirstEd25519
  <2> QED
    BY <1>2, <1>3, <1>4, <2>4 DEF IsWebKey, Documents!MethodsOf, Documents!WebKeys, Documents!Method
<1>5. CASE ~IsWebKey(keys[a])
  BY <1>2, <1>3, <1>5 DEF IsWebKey, Documents!MethodsOf, Documents!Method
<1> QED
  BY <1>4, <1>5

LEMMA DocumentListsKeys ==
    ASSUME NEW f \in Documents!Identifiers,
           \A a, b \in DOMAIN f.keys : f.keys[a] = f.keys[b] => a = b,
           \A a, b \in DOMAIN f.keys : IsWebKey(f.keys[a]) /\ IsWebKey(f.keys[b]) => a = b,
           NEW doc, doc = Documents!DidDoc(f)
    PROVE  /\ \A k \in Documents!ToSet(f.keys) : KeyType[k] = "Ed25519" =>
                  \E m \in Documents!Range(doc.methods) : m.key = k /\ m.use = "sign"
           /\ \A p, q \in DOMAIN doc.methods : doc.methods[p].id = doc.methods[q].id => p = q
<1>1. doc.methods = Documents!Methods(f.keys) /\ f.keys \in Seq(Keys)
  BY DEF Documents!DidDoc, Documents!Identifiers
<1>2. DOMAIN Documents!Methods(f.keys) = Documents!Places(f.keys)
  BY DEF Documents!Methods
<1>3. ASSUME NEW k \in Documents!ToSet(f.keys), KeyType[k] = "Ed25519"
      PROVE  \E m \in Documents!Range(doc.methods) : m.key = k /\ m.use = "sign"
  <2>1. PICK a \in DOMAIN f.keys : f.keys[a] = k
    BY DEF Documents!ToSet
  <2>2. PICK p \in Documents!Places(f.keys) :
            Documents!Methods(f.keys)[p].key = k /\ Documents!Methods(f.keys)[p].use = "sign"
    BY <1>1, <1>3, <2>1, Ed25519IsListed
  <2>3. Documents!Methods(f.keys)[p] \in Documents!Range(doc.methods)
    BY <1>1, <1>2 DEF Documents!Range
  <2> QED
    BY <2>2, <2>3
<1>4. ASSUME NEW p \in DOMAIN doc.methods, NEW q \in DOMAIN doc.methods,
             doc.methods[p].id = doc.methods[q].id
      PROVE  p = q
  BY <1>1, <1>2, <1>4, IdsDiffer
<1> QED
  BY <1>3, <1>4

LEMMA DocumentsAnswer ==
    ASSUME RequestsInv
    PROVE  KeysAreListed
<1> SUFFICES ASSUME NEW r \in DocRequests
             PROVE  LET unpublishable == \/ requests[r].found = None
                                         \/ Documents!AsWebKeys(r) # {} /\ ~Documents!HasEd25519(r)
                    IN  /\ requests[r].phase = "refused" => unpublishable
                        /\ requests[r].phase = "answered" =>
                               ~unpublishable /\ (Documents!OneWebKey(r) => Documents!OwnMethods(r))
  BY DEF KeysAreListed, Documents!KeysAreListed
<1>1. RequestInv(r)
  BY DEF RequestsInv
<1>2. Documents!Refuses(r) <=> \/ requests[r].found = None
                               \/ Documents!AsWebKeys(r) # {} /\ ~Documents!HasEd25519(r)
  BY DEF Documents!Refuses, Documents!NoWebKey, Documents!AsWebKeys, Documents!HasEd25519, Documents!Ed25519
<1> QED
  BY <1>1, <1>2 DEF RequestInv

-----------------------------------------------------------------------------
(* Steps of the documents.                                                 *)

LEMMA FreshIsTyped ==
    ASSUME NEW k \in Keys
    PROVE  /\ Documents!Fresh(k) \in Documents!Identifiers /\ Documents!Fresh(k) # None
           /\ KeysDiffer(Documents!Fresh(k))
<1>1. <<k>> \in Seq(Keys) /\ Documents!Fresh(k) = [keys |-> <<k>>, services |-> {}]
  BY DEF Documents!Fresh
<1>2. Documents!Fresh(k) \in Documents!Identifiers
  BY <1>1 DEF Documents!Identifiers
<1>3. KeysDiffer(Documents!Fresh(k))
  BY <1>1 DEF KeysDiffer
<1> QED
  BY <1>2, <1>3, DocumentsAssumption DEF DocumentsAssumption

\* Identifiers stay, and so do their services.
IdentifiersStay ==
    \A h \in Names :
        identifiers[h] # None =>
            identifiers'[h] # None /\ identifiers[h].services \subseteq identifiers'[h].services

LEMMA ReplacedIdentifier ==
    ASSUME IdentifiersInv, NEW h \in Names, NEW new \in Documents!Identifiers, KeysDiffer(new),
           identifiers[h] # None => identifiers[h].services \subseteq new.services,
           identifiers' = [identifiers EXCEPT ![h] = new]
    PROVE  IdentifiersInv' /\ IdentifiersStay
<1>1. identifiers' \in [Names -> {None} \cup Documents!Identifiers]
  BY DEF IdentifiersInv
<1>2. \A g \in Names : identifiers'[g] = IF g = h THEN new ELSE identifiers[g]
  BY DEF IdentifiersInv
<1>3. new # None
  BY DocumentsAssumption DEF DocumentsAssumption
<1>4. ASSUME NEW g \in Names PROVE KeysDiffer(identifiers'[g])
  BY <1>2 DEF IdentifiersInv
<1> QED
  BY <1>1, <1>2, <1>3, <1>4 DEF IdentifiersInv, IdentifiersStay, KeysDiffer

LEMMA AddKeyKeepsIdentifiers ==
    ASSUME IdentifiersInv, NEW h \in Names, NEW k \in Keys, Documents!AddKey(h, k)
    PROVE  IdentifiersInv' /\ IdentifiersStay
<1> DEFINE q == identifiers[h].keys
           new == [identifiers[h] EXCEPT !.keys = Append(q, k)]
<1>1. identifiers[h] \in Documents!Identifiers /\ KeysDiffer(identifiers[h]) /\ k \notin Documents!ToSet(q)
  BY DEF IdentifiersInv, Documents!AddKey
<1>2. q \in Seq(Keys) /\ \A a, b \in DOMAIN q : q[a] = q[b] => a = b
  BY <1>1 DEF KeysDiffer, Documents!Identifiers, Documents!AddKey
<1>3. /\ Append(q, k) \in Seq(Keys)
      /\ \A a, b \in DOMAIN Append(q, k) : Append(q, k)[a] = Append(q, k)[b] => a = b
  BY <1>1, <1>2, AddedKeysDiffer
<1>4. new \in Documents!Identifiers /\ new.keys = Append(q, k) /\ new.services = identifiers[h].services
  BY <1>1, <1>3 DEF Documents!Identifiers
<1>5. KeysDiffer(new)
  BY <1>3, <1>4 DEF KeysDiffer
<1>6. identifiers' = [identifiers EXCEPT ![h] = new]
  BY DEF Documents!AddKey
<1> HIDE DEF new
<1> QED
  BY <1>4, <1>5, <1>6, ReplacedIdentifier

LEMMA RemoveKeyKeepsIdentifiers ==
    ASSUME IdentifiersInv, NEW h \in Names, NEW i, Documents!RemoveKey(h, i)
    PROVE  IdentifiersInv' /\ IdentifiersStay
<1> DEFINE q == identifiers[h].keys
           new == [identifiers[h] EXCEPT !.keys = Documents!RemoveAt(q, i)]
<1>1. identifiers[h] \in Documents!Identifiers /\ KeysDiffer(identifiers[h]) /\ i \in DOMAIN q
  BY DEF IdentifiersInv, Documents!RemoveKey
<1>2. q \in Seq(Keys) /\ \A a, b \in DOMAIN q : q[a] = q[b] => a = b
  BY <1>1 DEF KeysDiffer, Documents!Identifiers, Documents!RemoveKey
<1>3. /\ Documents!RemoveAt(q, i) \in Seq(Keys)
      /\ \A a, b \in DOMAIN Documents!RemoveAt(q, i) :
             Documents!RemoveAt(q, i)[a] = Documents!RemoveAt(q, i)[b] => a = b
  BY <1>1, <1>2, RemovedKeysDiffer
<1>4. /\ new \in Documents!Identifiers /\ new.keys = Documents!RemoveAt(q, i)
      /\ new.services = identifiers[h].services
  BY <1>1, <1>3 DEF Documents!Identifiers
<1>5. KeysDiffer(new)
  BY <1>3, <1>4 DEF KeysDiffer
<1>6. identifiers' = [identifiers EXCEPT ![h] = new]
  BY DEF Documents!RemoveKey
<1> HIDE DEF new
<1> QED
  BY <1>4, <1>5, <1>6, ReplacedIdentifier

LEMMA MessagingKeepsIdentifiers ==
    ASSUME IdentifiersInv, Documents!AddMessaging
    PROVE  IdentifiersInv' /\ IdentifiersStay /\ init \in identifiers'[BaseName].services
<1> DEFINE old == identifiers[BaseName]
           new == [old EXCEPT !.services = @ \cup {init}]
<1>1. old \in Documents!Identifiers /\ KeysDiffer(old) /\ old # None /\ BaseName \in Names
  BY DEF IdentifiersInv, Documents!AddMessaging, Names
<1>2. new \in Documents!Identifiers /\ new.keys = old.keys /\ new.services = old.services \cup {init}
  BY <1>1 DEF Documents!Identifiers, Documents!AddMessaging, Documents!Services
<1>3. KeysDiffer(new)
  BY <1>1, <1>2 DEF KeysDiffer
<1>4. identifiers' = [identifiers EXCEPT ![BaseName] = new]
  BY DEF Documents!AddMessaging
<1> HIDE DEF new
<1>5. IdentifiersInv' /\ IdentifiersStay
  BY <1>1, <1>2, <1>3, <1>4, ReplacedIdentifier
<1> QED
  BY <1>1, <1>2, <1>4, <1>5 DEF IdentifiersInv

LEMMA StepsKeepIdentifiers ==
    ASSUME IdentifiersInv, [Documents!Next]_documentVars
    PROVE  IdentifiersInv' /\ IdentifiersStay
<1>1. CASE UNCHANGED identifiers
  BY <1>1 DEF IdentifiersInv, IdentifiersStay, KeysDiffer
<1>2. ASSUME NEW k \in Keys, NEW h \in Names,
             identifiers[h] = None, identifiers' = [identifiers EXCEPT ![h] = Documents!Fresh(k)]
      PROVE  IdentifiersInv' /\ IdentifiersStay
  BY <1>2, FreshIsTyped, ReplacedIdentifier
<1>3. ASSUME NEW k \in Keys, Documents!GetOrCreate(k)
      PROVE  IdentifiersInv' /\ IdentifiersStay
  BY <1>1, <1>2, <1>3 DEF Documents!GetOrCreate, Names
<1>4. ASSUME NEW k \in Keys, NEW h \in Names, Documents!Create(h, k)
      PROVE  IdentifiersInv' /\ IdentifiersStay
  BY <1>2, <1>4 DEF Documents!Create
<1>5. ASSUME NEW r, Documents!Answer(r) \/ \E h \in Hosts : Documents!Get(r, h)
      PROVE  UNCHANGED identifiers
  BY <1>5 DEF Documents!Answer, Documents!Get
<1>6. Documents!Restart => UNCHANGED identifiers
  BY DEF Documents!Restart
<1> QED
  BY <1>1, <1>3, <1>4, <1>5, <1>6, AddKeyKeepsIdentifiers, RemoveKeyKeepsIdentifiers,
     MessagingKeepsIdentifiers DEF Documents!Next, documentVars, Names

\* What a request has found stays as it was, whatever becomes of the identifier.
LEMMA RequestStays ==
    ASSUME NEW r \in DocRequests, RequestInv(r), requests'[r] = requests[r], UNCHANGED keyMapping
    PROVE  RequestInv(r)'
BY DEF RequestInv, KeysDiffer, Documents!Refuses, Documents!NoWebKey, Documents!Ed25519,
   Documents!OneWebKey, Documents!AsWebKeys, Documents!OwnMethods, Documents!MethodsIn

LEMMA GetKeepsRequests ==
    ASSUME RequestsInv, IdentifiersInv, NEW r \in DocRequests, NEW h \in Hosts, Documents!Get(r, h)
    PROVE  RequestsInv'
<1>1. DOMAIN requests' = DocRequests /\ UNCHANGED keyMapping
  BY DEF RequestsInv, Documents!Get
<1>2. requests'[r] = [phase |-> "fetched", host |-> h, found |-> identifiers[h], doc |-> None]
  BY DEF RequestsInv, Documents!Get
<1>3. identifiers[h] \in {None} \cup Documents!Identifiers /\ KeysDiffer(identifiers[h])
  BY DEF IdentifiersInv, Names
<1>4. RequestInv(r)'
  BY <1>2, <1>3 DEF RequestInv, KeysDiffer
<1>5. \A q \in DocRequests \ {r} : requests'[q] = requests[q]
  BY DEF RequestsInv, Documents!Get
<1> QED
  BY <1>1, <1>4, <1>5, RequestStays DEF RequestsInv

LEMMA AnswerKeepsRequests ==
    ASSUME RequestsInv, NEW r \in DocRequests, Documents!Answer(r)
    PROVE  RequestsInv'
<1>1. DOMAIN requests' = DocRequests /\ UNCHANGED keyMapping
  BY DEF RequestsInv, Documents!Answer
<1>2. requests'[r] = IF Documents!Refuses(r) THEN [requests[r] EXCEPT !.phase = "refused"]
                     ELSE [requests[r] EXCEPT !.phase = "answered",
                                              !.doc = Documents!DidDoc(requests[r].found)]
  BY DEF RequestsInv, Documents!Answer
<1>3. RequestInv(r)
  BY DEF RequestsInv
<1>4. /\ DOMAIN requests'[r] = {"phase", "host", "found", "doc"}
      /\ requests'[r].found = requests[r].found
      /\ requests'[r].phase = IF Documents!Refuses(r) THEN "refused" ELSE "answered"
      /\ ~Documents!Refuses(r) => requests'[r].doc = Documents!DidDoc(requests[r].found)
  BY <1>2, <1>3 DEF RequestInv
<1>5. Documents!Refuses(r)' <=> Documents!Refuses(r)
  BY <1>1, <1>4 DEF Documents!Refuses, Documents!NoWebKey, Documents!Ed25519
<1>6. ASSUME ~Documents!Refuses(r), Documents!OneWebKey(r)'
      PROVE  Documents!OwnMethods(r)'
  <2> DEFINE f == requests[r].found
             doc == requests'[r].doc
  <2>1. f \in Documents!Identifiers /\ \A a, b \in DOMAIN f.keys : f.keys[a] = f.keys[b] => a = b
    BY <1>3, <1>6 DEF RequestInv, KeysDiffer, Documents!Refuses
  <2>2. \A a, b \in DOMAIN f.keys : IsWebKey(f.keys[a]) /\ IsWebKey(f.keys[b]) => a = b
    BY <1>1, <1>4, <1>6 DEF Documents!OneWebKey, Documents!AsWebKeys, IsWebKey
  <2>3. doc = Documents!DidDoc(f)
    BY <1>4, <1>6
  <2> HIDE DEF doc
  <2>4. /\ \A k \in Documents!ToSet(f.keys) : KeyType[k] = "Ed25519" =>
               \E m \in Documents!Range(doc.methods) : m.key = k /\ m.use = "sign"
        /\ \A p, q \in DOMAIN doc.methods : doc.methods[p].id = doc.methods[q].id => p = q
    BY <2>1, <2>2, <2>3, DocumentListsKeys
  <2> QED
    BY <1>4, <2>4 DEF Documents!OwnMethods, Documents!MethodsIn, doc
<1>7. RequestInv(r)'
  BY <1>3, <1>4, <1>5, <1>6 DEF RequestInv, KeysDiffer
<1>8. \A q \in DocRequests \ {r} : requests'[q] = requests[q]
  BY DEF RequestsInv, Documents!Answer
<1> QED
  BY <1>1, <1>7, <1>8, RequestStays DEF RequestsInv

LEMMA StepsKeepRequests ==
    ASSUME RequestsInv, IdentifiersInv, [Documents!Next]_documentVars
    PROVE  RequestsInv'
<1>1. CASE UNCHANGED <<keyMapping, requests>>
  BY <1>1, RequestStays DEF RequestsInv
<1> QED
  BY <1>1, GetKeepsRequests, AnswerKeepsRequests
  DEF Documents!Next, documentVars, Documents!GetOrCreate, Documents!AddMessaging,
      Documents!Restart, Documents!Create, Documents!AddKey, Documents!RemoveKey

LEMMA StepsKeepDefault ==
    ASSUME DefaultInv, IdentifiersInv, [Documents!Next]_documentVars
    PROVE  DefaultInv'
<1>1. IdentifiersInv' /\ IdentifiersStay /\ BaseName \in Names
  BY StepsKeepIdentifiers DEF Names
<1>2. CASE UNCHANGED init
  BY <1>1, <1>2 DEF DefaultInv, IdentifiersStay
<1>3. ASSUME NEW k \in Keys, Documents!GetOrCreate(k)
      PROVE  DefaultInv'
  <2>1. identifiers'[BaseName] # None
    BY <1>1, <1>3, FreshIsTyped DEF Documents!GetOrCreate, IdentifiersInv, IdentifiersStay
  <2> QED
    BY <1>3, <2>1 DEF DefaultInv, Documents!GetOrCreate
<1>4. ASSUME Documents!AddMessaging
      PROVE  DefaultInv'
  <2>1. init \in identifiers'[BaseName].services
    BY <1>4, MessagingKeepsIdentifiers
  <2> QED
    BY <1>1, <1>4, <2>1 DEF DefaultInv, Documents!AddMessaging, IdentifiersStay
<1>5. Documents!Restart => DefaultInv'
  BY DEF DefaultInv, Documents!Restart
<1> QED
  BY <1>2, <1>3, <1>4, <1>5
  DEF Documents!Next, documentVars, Documents!Get, Documents!Answer,
      Documents!Create, Documents!AddKey, Documents!RemoveKey

LEMMA DocumentsInvInit ==
    ASSUME Documents!Init PROVE DocumentsInv
<1>1. IdentifiersInv
  BY DEF Documents!Init, IdentifiersInv, KeysDiffer, Names
<1>2. RequestsInv
  BY DEF Documents!Init, RequestsInv, RequestInv, KeysDiffer
<1>3. DefaultInv
  BY DEF Documents!Init, DefaultInv
<1> QED
  BY <1>1, <1>2, <1>3 DEF DocumentsInv

\* Every step of the server is one of the documents', or leaves them alone.
LEMMA ServerStepsDocuments == [ServerNext]_serverVars => [Documents!Next]_documentVars
BY DEF ServerNext, serverVars, documentVars

\* The document router: however keys come and go between a request's reads, it refuses only
\* what it cannot publish, and else lists each Ed25519 key of the identifier, no id twice, as
\* long as at most one key is published as JsonWebKey2020.
THEOREM KeysStayListed == ServerSpec => []KeysAreListed
<1>1. ServerInit => DocumentsInv
  BY DocumentsInvInit DEF ServerInit
<1>2. DocumentsInv /\ [ServerNext]_serverVars => DocumentsInv'
  BY ServerStepsDocuments, StepsKeepIdentifiers, StepsKeepRequests, StepsKeepDefault DEF DocumentsInv
<1>3. DocumentsInv => KeysAreListed
  BY DocumentsAnswer DEF DocumentsInv
<1> QED
  BY <1>1, <1>2, <1>3, PTL DEF ServerSpec

\* createMediatorAndDefaultDID: a start-up that comes to its end leaves the default
\* identifier with both messaging services, whatever requests did to it meanwhile.
THEOREM DefaultStaysComplete == ServerSpec => []DefaultComplete
<1>1. ServerInit => DocumentsInv
  BY DocumentsInvInit DEF ServerInit
<1>2. DocumentsInv /\ [ServerNext]_serverVars => DocumentsInv'
  BY ServerStepsDocuments, StepsKeepIdentifiers, StepsKeepRequests, StepsKeepDefault DEF DocumentsInv
<1>3. DocumentsInv => DefaultComplete
  BY DEF DocumentsInv, IdentifiersInv, DefaultInv, DefaultComplete, Documents!DefaultComplete,
     Names, Documents!Identifiers, Documents!Services
<1> QED
  BY <1>1, <1>2, <1>3, PTL DEF ServerSpec

-----------------------------------------------------------------------------
(* The objects of a configuration.                                         *)

\* The items below a path, and the paths that are reached from a path, as relations.
Holds ==
    {a \in (Paths \cup {None}) \X Config!Items :
        \E k \in DOMAIN config[a[1]].items : config[a[1]].items[k] = a[2]}
Reaches == {a \in (Paths \cup {None}) \X Paths : a[2] \in Config!Reached(a[1])}

Frames ==
    [path : Paths \cup {None}, ref : BOOLEAN, todo : Seq(Config!Items),
     kids : [Paths -> Nat \cup {None}]]

ObjectsTyped ==
    /\ config \in Configs
    /\ made \in Seq([of : Paths \cup {None}, whole : BOOLEAN])
    /\ memo \in [Paths -> Nat \cup {None}]
    /\ stack \in Seq(Frames) /\ stack # <<>>

\* The calls in progress: each is at the head of what its caller has to do, is reached from
\* all its callers, and no pointer is followed within itself.
CallsNest ==
    /\ stack[1].path = None /\ ~stack[1].ref
    /\ \A i \in 1..Len(stack) : \A k \in DOMAIN stack[i].todo :
           <<stack[i].path, stack[i].todo[k]>> \in Holds
    /\ \A i \in 1..Len(stack) : stack[i].ref =>
           /\ stack[i].path \in Config!Named
           /\ config[stack[i].path].kind # "falsy"
           /\ memo[stack[i].path] \in {None, 0}
    /\ \A i, j \in 1..Len(stack) : i < j =>
           /\ <<stack[i].path, stack[j].path>> \in Reaches
           /\ stack[i].ref /\ stack[j].ref => stack[i].path # stack[j].path
    /\ \A i \in 1..(Len(stack) - 1) :
           /\ stack[i].todo # <<>>
           /\ stack[i + 1].path = Head(stack[i].todo).path
           /\ stack[i + 1].ref = Head(stack[i].todo).ref

\* What is kept for a pointer: nothing, also not of its parts, or the value of it.
Kept(p) ==
    \/ memo[p] = None /\ \A q \in Config!Children(p) : memo[q] = None
    \/ memo[p] = 0 /\ Config!Undefined(p)
    \/ /\ memo[p] \in 1..Len(made) /\ ~Config!Undefined(p)
       /\ made[memo[p]] = [of |-> p, whole |-> TRUE]

AllKept ==
    /\ \A p \in Config!Named : Kept(p)
    /\ \A a \in got : a[1] \in Config!Named /\ a[2] = memo[a[1]] /\ a[2] # None

\* D are paths that have been worked off: they need no others, and not themselves, and no
\* pointer in them is falsy.
ItemDone(D, x) == x.path \in D /\ (x.ref => config[x.path].kind # "falsy")
WorkedOff(D) ==
    /\ D \subseteq Paths
    /\ \A q \in D : <<q, q>> \notin Reaches
    /\ \A a \in Holds : a[1] \in D => ItemDone(D, a[2])
FramesLeft(D) ==
    \A i \in 1..Len(stack) : \A a \in Holds :
        a[1] = stack[i].path =>
            (\E k \in DOMAIN stack[i].todo : stack[i].todo[k] = a[2]) \/ ItemDone(D, a[2])
KeptDone(D) == \A p \in Config!Named : memo[p] # None => p \in D /\ config[p].kind # "falsy"
Progressed == \E D \in SUBSET Paths : WorkedOff(D) /\ FramesLeft(D) /\ KeptDone(D)

Circular == \E p \in Config!Named : p \in Config!Reached(p)

Judged == /\ outcome \in {"running", "error", "endless", "done"}
          /\ outcome = "error" => Config!Fails
          /\ outcome = "endless" => Circular
          /\ outcome = "done" => ~Config!Fails

ObjectsInv ==
    Config!Separate => ObjectsTyped /\ CallsNest /\ AllKept /\ Progressed /\ Judged

-----------------------------------------------------------------------------
(* What a configuration needs.                                             *)

LEMMA ConfigFacts ==
    ASSUME config \in Configs
    PROVE  /\ \A p \in Paths \cup {None} : config[p].items \in Seq(Config!Items)
           /\ \A p \in Paths : Config!Parts(config[p].items) = Config!Children(p)
           /\ None \notin Paths
BY ConfigAssumption DEF Config!WellFormed

LEMMA HeldIsNeeded ==
    ASSUME config \in Configs, NEW p \in Paths \cup {None}
    PROVE  Config!Needs(p) = {a[2].path : a \in {b \in Holds : b[1] = p}}
<1> DEFINE s == config[p].items
<1>1. s \in Seq(Config!Items)
  BY ConfigFacts
<1> HIDE DEF s
<1>2. \A k \in DOMAIN s : s[k] \in Config!Items /\ s[k].ref \in BOOLEAN
  <2>1. \A k \in DOMAIN s : s[k] \in Config!Items
    BY <1>1
  <2> QED
    BY <2>1 DEF Config!Items
<1> USE DEF s
<1>3. Config!Needs(p) = {s[k].path : k \in DOMAIN s}
  BY <1>2 DEF Config!Needs, Config!RefsIn, Config!Parts
<1>4. \A k \in DOMAIN s : <<p, s[k]>> \in Holds
  BY <1>2 DEF Holds
<1>5. \A a \in Holds : a[1] = p => \E k \in DOMAIN s : a[2] = s[k]
  BY DEF Holds
<1> QED
  BY <1>3, <1>4, <1>5

LEMMA NeedsArePaths ==
    ASSUME config \in Configs, NEW a \in Holds
    PROVE  /\ a[1] \in Paths \cup {None} /\ a[2] \in Config!Items /\ a[2].path \in Paths
           /\ a[2].ref \in BOOLEAN /\ a[2].path \in Config!Needs(a[1])
<1>1. a[1] \in Paths \cup {None} /\ a[2] \in Config!Items
  BY DEF Holds
<1> QED
  BY <1>1, HeldIsNeeded DEF Config!Items

LEMMA HeldIsReached ==
    ASSUME config \in Configs, NEW a \in Holds
    PROVE  <<a[1], a[2].path>> \in Reaches
<1>1. a[2].path \in Config!Reached(a[1])
  BY NeedsArePaths DEF Config!Reached
<1> QED
  BY <1>1, NeedsArePaths DEF Reaches

LEMMA ReachesOn ==
    ASSUME NEW p, NEW q, NEW r, <<p, q>> \in Reaches, <<q, r>> \in Reaches
    PROVE  <<p, r>> \in Reaches
<1>1. /\ q \in Config!Reached(p) /\ r \in Config!Reached(q)
      /\ p \in Paths \cup {None} /\ q \in Paths /\ r \in Paths
  BY DEF Reaches
<1>2. ASSUME NEW S \in SUBSET Paths, Config!Needs(p) \subseteq S, Config!Closed(S)
      PROVE  r \in S
  <2>1. q \in S
    BY <1>1, <1>2 DEF Config!Reached
  <2>2. Config!Needs(q) \subseteq S
    BY <1>2, <2>1 DEF Config!Closed
  <2> QED
    BY <1>1, <1>2, <2>2 DEF Config!Reached
<1>3. r \in Config!Reached(p)
  BY <1>1, <1>2 DEF Config!Reached
<1> QED
  BY <1>1, <1>3 DEF Reaches

\* A named path is that of a pointer in what createObjects reaches.
LEMMA NamedIsHeld ==
    ASSUME config \in Configs
    PROVE  \A q : q \in Config!Named <=>
               \E a \in Holds : /\ a[2].ref /\ a[2].path = q
                                /\ a[1] = None \/ <<None, a[1]>> \in Reaches
<1> DEFINE From == Config!Reached(None) \cup {None}
<1>1. From \subseteq Paths \cup {None}
  BY DEF Config!Reached
<1>2. \A p \in From : p = None \/ <<None, p>> \in Reaches
  BY DEF Reaches, Config!Reached
<1>3. \A p : p = None \/ <<None, p>> \in Reaches => p \in From
  BY DEF Reaches
<1>4. ASSUME NEW p \in From, NEW q
      PROVE  q \in Config!RefsIn(config[p].items) <=>
                 \E a \in Holds : a[1] = p /\ a[2].ref /\ a[2].path = q
  <2> DEFINE s == config[p].items
  <2>1. s \in Seq(Config!Items)
    BY <1>1, ConfigFacts
  <2>2. \A k \in DOMAIN s : <<p, s[k]>> \in Holds
    BY <1>1, <2>1 DEF Holds
  <2>3. \A a \in Holds : a[1] = p => \E k \in DOMAIN s : a[2] = s[k]
    BY DEF Holds
  <2> QED
    BY <2>2, <2>3 DEF Config!RefsIn
<1>5. \A q : q \in Config!Named <=> \E p \in From : q \in Config!RefsIn(config[p].items)
  BY DEF Config!Named
<1> HIDE DEF From
<1>6. \A p : p \in From <=> p = None \/ <<None, p>> \in Reaches
  BY <1>2, <1>3
<1>7. \A a \in Holds : a[1] \in From => a[1] = None \/ <<None, a[1]>> \in Reaches
  BY <1>6
<1> SUFFICES ASSUME NEW q
             PROVE  q \in Config!Named <=>
                        \E a \in Holds : /\ a[2].ref /\ a[2].path = q
                                         /\ a[1] = None \/ <<None, a[1]>> \in Reaches
  OBVIOUS
<1>8. ASSUME q \in Config!Named
      PROVE  \E a \in Holds : /\ a[2].ref /\ a[2].path = q
                              /\ a[1] = None \/ <<None, a[1]>> \in Reaches
  <2>1. PICK p \in From : q \in Config!RefsIn(config[p].items)
    BY <1>5, <1>8
  <2>2. PICK a \in Holds : a[1] = p /\ a[2].ref /\ a[2].path = q
    BY <1>4, <2>1
  <2> QED
    BY <1>7, <2>2
<1>9. ASSUME NEW a \in Holds, a[2].ref, a[2].path = q, a[1] = None \/ <<None, a[1]>> \in Reaches
      PROVE  q \in Config!Named
  <2>1. a[1] \in From
    BY <1>6, <1>9
  <2>2. q \in Config!RefsIn(config[a[1]].items)
    BY <1>4, <1>9, <2>1
  <2> QED
    BY <1>5, <2>1, <2>2
<1> QED
  BY <1>8, <1>9

LEMMA NamedIsPath ==
    ASSUME config \in Configs, NEW q \in Config!Named
    PROVE  q \in Paths
<1>1. PICK a \in Holds : a[2].path = q
  BY NamedIsHeld
<1> QED
  BY <1>1, NeedsArePaths

\* Of two named paths, none is a part of the other.
LEMMA NamedAreApart ==
    ASSUME config \in Configs, Config!Separate, NEW p \in Config!Named, NEW q \in Config!Named
    PROVE  Parent[q] # p
<1> SUFFICES ASSUME Parent[q] = p
             PROVE  FALSE
  OBVIOUS
<1>1. p \in Paths /\ q \in Paths
  BY NamedIsPath
<1>2. q \in Config!Needs(p)
  BY <1>1, ConfigFacts DEF Config!Children, Config!Needs
<1>3. q \in Config!Reached(p)
  BY <1>1, <1>2 DEF Config!Reached
<1> QED
  BY <1>3 DEF Config!Separate

\* The configuration does not change, nor what is derived from it.
LEMMA ConfigStays ==
    ASSUME config' = config
    PROVE  /\ Holds' = Holds /\ Reaches' = Reaches
           /\ Config!Named' = Config!Named
           /\ Config!Separate' <=> Config!Separate
           /\ Config!Fails' <=> Config!Fails
           /\ Circular' <=> Circular
<1>1. \A p : Config!Needs(p)' = Config!Needs(p)
  BY DEF Config!Needs
<1>2. \A S : Config!Closed(S)' <=> Config!Closed(S)
  BY <1>1 DEF Config!Closed
<1>3. \A p : Config!Reached(p)' = Config!Reached(p)
  BY <1>1, <1>2 DEF Config!Reached
<1>4. Config!Named' = Config!Named
  BY <1>3 DEF Config!Named
<1>5. Holds' = Holds /\ Reaches' = Reaches
  BY <1>3 DEF Holds, Reaches
<1>6. Config!Separate' <=> Config!Separate
  BY <1>3, <1>4 DEF Config!Separate
<1>7. Config!Fails' <=> Config!Fails
  BY <1>3, <1>4 DEF Config!Fails
<1>8. Circular' <=> Circular
  BY <1>3, <1>4 DEF Circular
<1> QED
  BY <1>4, <1>5, <1>6, <1>7, <1>8

-----------------------------------------------------------------------------
(* Calls that go on.                                                       *)

LEMMA TopOfStack ==
    ASSUME NEW S, NEW s \in Seq(S), s # <<>>
    PROVE  /\ Config!Last(s) = s[Len(s)] /\ s[Len(s)] \in S
           /\ Config!Front(s) \in Seq(S) /\ Len(Config!Front(s)) = Len(s) - 1
           /\ \A i \in 1..(Len(s) - 1) : Config!Front(s)[i] = s[i]
<1>1. Len(s) \in Nat \ {0} /\ s[Len(s)] \in S /\ Len(s) - 1 \in Nat
  OBVIOUS
<1>2. Config!Last(s) = s[Len(s)]
  BY DEF Config!Last
<1>3. Config!Front(s) = SubSeq(s, 1, Len(s) - 1)
  BY DEF Config!Front
<1>4. /\ SubSeq(s, 1, Len(s) - 1) \in Seq(S)
      /\ Len(SubSeq(s, 1, Len(s) - 1)) = Len(s) - 1
      /\ \A i \in 1..(Len(s) - 1) : SubSeq(s, 1, Len(s) - 1)[i] = s[i]
  <2>1. \A i \in 1..(Len(s) - 1) : s[i] \in S
    OBVIOUS
  <2>2. Len(s) - 1 \in Int /\ 1 \in Int
    BY <1>1
  <2> DEFINE k == Len(s) - 1
             u == SubSeq(s, 1, k)
  <2>3. /\ u \in Seq(S) /\ Len(u) = IF 1 <= k THEN k - 1 + 1 ELSE 0
        /\ \A i \in 1..(k - 1 + 1) : u[i] = s[1 + i - 1]
    <3> HIDE DEF k
    <3> QED
      BY <2>1, <2>2, SubSeqProperties DEF k
  <2>4. Len(u) = k
    <3>1. k \in Nat
      BY <1>1
    <3> HIDE DEF k, u
    <3> QED
      BY <2>3, <3>1
  <2>5. \A i \in 1..k : u[i] = s[i]
    BY <1>1, <2>3
  <2> QED
    BY <2>3, <2>4, <2>5
<1> QED
  BY <1>1, <1>2, <1>3, <1>4

\* The last frame of s has done the first of what it had to do.
Advanced(s, t) ==
    /\ t \in Seq(Frames) /\ Len(t) = Len(s)
    /\ \A i \in 1..Len(s) : t[i].path = s[i].path /\ t[i].ref = s[i].ref
    /\ \A i \in 1..(Len(s) - 1) : t[i].todo = s[i].todo
    /\ t[Len(s)].todo = Tail(s[Len(s)].todo)

LEMMA AdvanceIs ==
    ASSUME NEW s \in Seq(Frames), s # <<>>, s[Len(s)].todo # <<>>,
           NEW kids \in [Paths -> Nat \cup {None}]
    PROVE  Advanced(s, Config!Advance(s, kids))
<1> DEFINE n == Len(s)
           b == Config!Last(s)
           f == [b EXCEPT !.todo = Tail(@), !.kids = kids]
           r == Config!Front(s)
<1>1. b = s[n] /\ b \in Frames /\ r \in Seq(Frames) /\ Len(r) = n - 1 /\ n \in Nat \ {0}
  BY TopOfStack
<1>2. \A i \in 1..(n - 1) : r[i] = s[i]
  BY TopOfStack
<1>3. /\ f \in Frames /\ f.path = s[n].path /\ f.ref = s[n].ref /\ f.todo = Tail(s[n].todo)
  <2> HIDE DEF b
  <2>1. PICK p \in Paths \cup {None}, e \in BOOLEAN, t \in Seq(Config!Items),
             c \in [Paths -> Nat \cup {None}] :
          b = [path |-> p, ref |-> e, todo |-> t, kids |-> c]
    BY <1>1 DEF Frames
  <2>2. t # <<>>
    BY <1>1, <2>1
  <2>3. Tail(t) \in Seq(Config!Items)
    BY <2>2
  <2>4. f = [path |-> p, ref |-> e, todo |-> Tail(t), kids |-> kids]
    <3> HIDE DEF f
    <3>1. f = [b EXCEPT !.todo = Tail(@), !.kids = kids]
      BY DEF f
    <3> QED
      BY <2>1, <3>1
  <2> QED
    BY <1>1, <2>1, <2>3, <2>4 DEF Frames
<1>4. Config!Advance(s, kids) = Append(r, f)
  BY DEF Config!Advance
<1> HIDE DEF b, f, r
<1>5. /\ Append(r, f) \in Seq(Frames) /\ Len(Append(r, f)) = n
      /\ \A i \in 1..(n - 1) : Append(r, f)[i] = s[i]
      /\ Append(r, f)[n] = f
  BY <1>1, <1>2, <1>3
<1> QED
  BY <1>1, <1>3, <1>4, <1>5 DEF Advanced

\* Calls stay nested when the one at m goes on and those above it are gone.
LEMMA AdvanceKeepsNest ==
    ASSUME ObjectsTyped, CallsNest, config' = config,
           NEW m \in 1..Len(stack), stack[m].todo # <<>>,
           NEW s, s \in Seq(Frames), Len(s) = m, \A i \in 1..m : s[i] = stack[i],
           Advanced(s, stack'),
           \A i \in 1..m : stack[i].ref => memo'[stack[i].path] \in {None, 0}
    PROVE  CallsNest'
<1>1. /\ Holds' = Holds /\ Reaches' = Reaches /\ Config!Named' = Config!Named
  BY ConfigStays
<1>2. /\ Len(stack') = m /\ m \in Nat /\ Len(stack) \in Nat
      /\ \A i \in 1..m : stack'[i].path = stack[i].path /\ stack'[i].ref = stack[i].ref
      /\ \A i \in 1..(m - 1) : stack'[i].todo = stack[i].todo
      /\ stack'[m].todo = Tail(stack[m].todo)
  <2>1. Len(stack) \in Nat /\ m \in Nat /\ m \in 1..m
    BY DEF ObjectsTyped
  <2>2. \A i \in 1..(m - 1) : i \in 1..m
    BY <2>1
  <2> QED
    BY <2>1, <2>2 DEF Advanced
<1>3. /\ stack'[1].path = None /\ ~stack'[1].ref
  BY <1>2 DEF CallsNest
<1>4. stack[m].todo \in Seq(Config!Items)
  <2>1. stack[m] \in Frames
    BY DEF ObjectsTyped
  <2> QED
    BY <2>1 DEF Frames
<1>5. \A k \in DOMAIN Tail(stack[m].todo) :
          k + 1 \in DOMAIN stack[m].todo /\ Tail(stack[m].todo)[k] = stack[m].todo[k + 1]
  BY <1>4
<1>6. ASSUME NEW i \in 1..m, NEW k \in DOMAIN stack'[i].todo
      PROVE  <<stack'[i].path, stack'[i].todo[k]>> \in Holds
  <2>1. CASE i = m
    <3>1. k \in DOMAIN Tail(stack[m].todo)
      BY <1>2, <1>6, <2>1
    <3>2. <<stack[m].path, stack[m].todo[k + 1]>> \in Holds
      BY <1>5, <3>1 DEF CallsNest
    <3> QED
      BY <1>2, <1>5, <2>1, <3>1, <3>2
  <2>2. CASE i # m
    <3>1. i \in 1..(m - 1) /\ i \in 1..Len(stack)
      BY <1>2, <2>2
    <3> QED
      BY <1>2, <1>6, <3>1 DEF CallsNest
  <2> QED
    BY <2>1, <2>2
<1>7. ASSUME NEW i \in 1..m, stack'[i].ref
      PROVE  /\ stack'[i].path \in Config!Named
             /\ config[stack'[i].path].kind # "falsy"
             /\ memo'[stack'[i].path] \in {None, 0}
  <2>1. stack[i].ref /\ stack'[i].path = stack[i].path /\ i \in 1..Len(stack)
    BY <1>2, <1>7
  <2> QED
    BY <2>1 DEF CallsNest
<1>8. ASSUME NEW i \in 1..m, NEW j \in 1..m, i < j
      PROVE  /\ <<stack'[i].path, stack'[j].path>> \in Reaches
             /\ stack'[i].ref /\ stack'[j].ref => stack'[i].path # stack'[j].path
  <2>1. i \in 1..Len(stack) /\ j \in 1..Len(stack)
    BY <1>2
  <2>2. /\ <<stack[i].path, stack[j].path>> \in Reaches
        /\ stack[i].ref /\ stack[j].ref => stack[i].path # stack[j].path
    BY <1>8, <2>1 DEF CallsNest
  <2> QED
    BY <1>2, <2>2
<1>9. ASSUME NEW i \in 1..(m - 1)
      PROVE  /\ stack'[i].todo # <<>>
             /\ stack'[i + 1].path = Head(stack'[i].todo).path
             /\ stack'[i + 1].ref = Head(stack'[i].todo).ref
  <2>1. i \in 1..(Len(stack) - 1) /\ i + 1 \in 1..m /\ i \in 1..m
    BY <1>2
  <2>2. /\ stack[i].todo # <<>>
        /\ stack[i + 1].path = Head(stack[i].todo).path
        /\ stack[i + 1].ref = Head(stack[i].todo).ref
    BY <2>1 DEF CallsNest
  <2> QED
    BY <1>2, <2>1, <2>2
<1>10. \A i \in 1..m : \A k \in DOMAIN stack'[i].todo :
           <<stack'[i].path, stack'[i].todo[k]>> \in Holds'
  BY <1>1, <1>6
<1>11. \A i \in 1..m : stack'[i].ref =>
           /\ stack'[i].path \in Config!Named'
           /\ config'[stack'[i].path].kind # "falsy"
           /\ memo'[stack'[i].path] \in {None, 0}
  BY <1>1, <1>7
<1>12. \A i, j \in 1..m : i < j =>
           /\ <<stack'[i].path, stack'[j].path>> \in Reaches'
           /\ stack'[i].ref /\ stack'[j].ref => stack'[i].path # stack'[j].path
  BY <1>1, <1>8
<1> QED
  BY <1>2, <1>3, <1>9, <1>10, <1>11, <1>12 DEF CallsNest

\* ... and what they have left is in E when the first of what the one at m had to do is.
LEMMA AdvanceKeepsLeft ==
    ASSUME ObjectsTyped, config' = config, NEW D, NEW E, D \subseteq E, FramesLeft(D),
           NEW m \in 1..Len(stack), stack[m].todo # <<>>, ItemDone(E, Head(stack[m].todo)),
           NEW s, s \in Seq(Frames), Len(s) = m, \A i \in 1..m : s[i] = stack[i],
           Advanced(s, stack')
    PROVE  FramesLeft(E)'
<1>1. /\ Len(stack') = m /\ m \in Nat /\ Len(stack) \in Nat
      /\ \A i \in 1..m : stack'[i].path = stack[i].path
      /\ \A i \in 1..(m - 1) : stack'[i].todo = stack[i].todo
      /\ stack'[m].todo = Tail(stack[m].todo)
  <2>1. Len(stack) \in Nat /\ m \in Nat /\ m \in 1..m
    BY DEF ObjectsTyped
  <2>2. \A i \in 1..(m - 1) : i \in 1..m
    BY <2>1
  <2> QED
    BY <2>1, <2>2 DEF Advanced
<1>2. Holds' = Holds /\ \A x : ItemDone(E, x)' <=> ItemDone(E, x)
  BY ConfigStays DEF ItemDone
<1>3. \A x : ItemDone(D, x) => ItemDone(E, x)
  BY DEF ItemDone
<1>4. stack[m].todo \in Seq(Config!Items)
  <2>1. stack[m] \in Frames
    BY DEF ObjectsTyped
  <2> QED
    BY <2>1 DEF Frames
<1>5. \A k \in DOMAIN stack[m].todo :
          \/ stack[m].todo[k] = Head(stack[m].todo)
          \/ k - 1 \in DOMAIN Tail(stack[m].todo) /\ Tail(stack[m].todo)[k - 1] = stack[m].todo[k]
  BY <1>4
<1>6. ASSUME NEW i \in 1..m, NEW a \in Holds, a[1] = stack'[i].path
      PROVE  (\E k \in DOMAIN stack'[i].todo : stack'[i].todo[k] = a[2]) \/ ItemDone(E, a[2])
  <2>1. i \in 1..Len(stack) /\ a[1] = stack[i].path
    BY <1>1, <1>6
  <2>2. (\E k \in DOMAIN stack[i].todo : stack[i].todo[k] = a[2]) \/ ItemDone(D, a[2])
    BY <2>1 DEF FramesLeft
  <2>3. CASE i = m
    <3>1. CASE ItemDone(D, a[2])
      BY <1>3, <3>1
    <3>2. ASSUME NEW k \in DOMAIN stack[m].todo, stack[m].todo[k] = a[2]
          PROVE  (\E l \in DOMAIN stack'[i].todo : stack'[i].todo[l] = a[2]) \/ ItemDone(E, a[2])
      <4>1. CASE stack[m].todo[k] = Head(stack[m].todo)
        BY <3>2, <4>1
      <4>2. CASE k - 1 \in DOMAIN Tail(stack[m].todo) /\ Tail(stack[m].todo)[k - 1] = stack[m].todo[k]
        <5>1. stack'[i].todo = Tail(stack[m].todo)
          BY <1>1, <2>3
        <5> QED
          BY <3>2, <4>2, <5>1
      <4> QED
        BY <1>5, <3>2, <4>1, <4>2
    <3> QED
      BY <2>2, <2>3, <3>1, <3>2
  <2>4. CASE i # m
    BY <1>1, <1>3, <2>2, <2>4
  <2> QED
    BY <2>3, <2>4
<1> QED
  BY <1>1, <1>2, <1>6 DEF FramesLeft

-----------------------------------------------------------------------------
(* The steps.                                                              *)

LEMMA TopIs ==
    ASSUME ObjectsTyped
    PROVE  /\ Len(stack) \in Nat \ {0} /\ Config!Top = stack[Len(stack)]
           /\ \A i \in 1..Len(stack) : stack[i] \in Frames /\ stack[i].ref \in BOOLEAN
                  /\ stack[i].path \in Paths \cup {None} /\ stack[i].todo \in Seq(Config!Items)
                  /\ stack[i].kids \in [Paths -> Nat \cup {None}]
<1>1. Len(stack) \in Nat \ {0} /\ \A i \in 1..Len(stack) : stack[i] \in Frames
  BY DEF ObjectsTyped
<1>2. Config!Top = stack[Len(stack)]
  BY DEF Config!Top, Config!Last
<1> QED
  BY <1>1, <1>2 DEF Frames

LEMMA ItemIs ==
    ASSUME ObjectsTyped, Config!Top.todo # <<>>
    PROVE  /\ Config!Item = stack[Len(stack)].todo[1] /\ 1 \in DOMAIN stack[Len(stack)].todo
           /\ Config!Item = Head(stack[Len(stack)].todo)
           /\ Config!Item \in Config!Items /\ Config!Item.path \in Paths
           /\ Config!Item.ref \in BOOLEAN
<1> DEFINE t == stack[Len(stack)].todo
<1>1. t \in Seq(Config!Items) /\ t # <<>> /\ Config!Item = Head(t)
  BY TopIs DEF Config!Item
<1> HIDE DEF t
<1>2. Config!Item = t[1] /\ 1 \in DOMAIN t /\ t[1] \in Config!Items
  BY <1>1
<1> QED
  BY <1>1, <1>2 DEF t, Config!Items

\* What the innermost call is to do next is held there, and a pointer in it is named.
LEMMA ItemIsHeld ==
    ASSUME ObjectsTyped, CallsNest, Config!Top.todo # <<>>
    PROVE  /\ <<stack[Len(stack)].path, Config!Item>> \in Holds
           /\ <<stack[Len(stack)].path, Config!Item.path>> \in Reaches
           /\ Config!Item.ref => Config!Item.path \in Config!Named
<1> DEFINE n == Len(stack)
           a == <<stack[n].path, Config!Item>>
<1>1. n \in 1..Len(stack) /\ n \in Nat \ {0} /\ config \in Configs
  BY TopIs DEF ObjectsTyped
<1>2. a \in Holds
  BY <1>1, ItemIs DEF CallsNest
<1>3. <<stack[n].path, Config!Item.path>> \in Reaches
  BY <1>1, <1>2, HeldIsReached
<1>4. stack[n].path = None \/ <<None, stack[n].path>> \in Reaches
  <2>1. CASE n = 1
    BY <2>1 DEF CallsNest
  <2>2. CASE n > 1
    <3>1. 1 \in 1..Len(stack)
      BY <1>1
    <3>2. <<stack[1].path, stack[n].path>> \in Reaches /\ stack[1].path = None
      BY <1>1, <2>2, <3>1 DEF CallsNest
    <3> QED
      BY <3>2
  <2>3. n = 1 \/ n > 1
    <3>1. n \in Nat \ {0}
      BY <1>1
    <3> HIDE DEF n
    <3> QED
      BY <3>1
  <2> QED
    BY <2>1, <2>2, <2>3
<1>5. Config!Item.ref => Config!Item.path \in Config!Named
  BY <1>1, <1>2, <1>4, NamedIsHeld
<1> QED
  BY <1>2, <1>3, <1>5

LEMMA StackAdvances ==
    ASSUME ObjectsTyped, Config!Top.todo # <<>>,
           stack' = Config!Advance(stack, Config!Top.kids)
    PROVE  Advanced(stack, stack')
<1>1. stack \in Seq(Frames) /\ stack # <<>>
  BY DEF ObjectsTyped
<1>2. Config!Top.kids \in [Paths -> Nat \cup {None}] /\ stack[Len(stack)].todo # <<>>
  BY TopIs
<1> QED
  BY <1>1, <1>2, AdvanceIs

LEMMA ReuseKeeps ==
    ASSUME ObjectsInv, Config!Separate, Config!Reuse
    PROVE  ObjectsInv'
<1> DEFINE n == Len(stack)
           p == Config!Item.path
<1>1. /\ ObjectsTyped /\ Config!Top.todo # <<>> /\ config' = config /\ memo' = memo
      /\ outcome' = outcome /\ config \in Configs
  BY DEF Config!Reuse, ObjectsInv, ObjectsTyped
<1>2. Advanced(stack, stack')
  BY <1>1, StackAdvances DEF Config!Reuse
<1>3. p \in Paths /\ n \in Nat \ {0} /\ n \in 1..Len(stack)
  BY <1>1, ItemIs, TopIs
<1>4. ObjectsTyped'
  <2>1. made' \in Seq([of : Paths \cup {None}, whole : BOOLEAN])
    <3> DEFINE M == [of : Paths \cup {None}, whole : BOOLEAN]
    <3>1. [of |-> p, whole |-> FALSE] \in M
      BY <1>3
    <3>2. made \in Seq(M)
      BY <1>1 DEF ObjectsTyped
    <3>3. made' = made \/ made' = Append(made, [of |-> p, whole |-> FALSE])
      BY DEF Config!Reuse
    <3> HIDE DEF M
    <3>4. made' \in Seq(M)
      BY <3>1, <3>2, <3>3
    <3> QED
      BY <3>4 DEF M
  <2>2. stack' \in Seq(Frames) /\ stack' # <<>>
    BY <1>2, <1>3 DEF Advanced
  <2> QED
    BY <1>1, <2>1, <2>2 DEF ObjectsTyped
<1>5. CallsNest' /\ AllKept' /\ Progressed' /\ Judged'
  <2>1. CallsNest /\ AllKept /\ Progressed /\ Judged
    BY DEF ObjectsInv
  <2>2. p \in Config!Named /\ Config!Item.ref
    BY <1>1, <2>1, ItemIsHeld DEF Config!Reuse
  <2>3. Kept(p)
    BY <2>1, <2>2 DEF AllKept
  <2>4. ~Config!HasParts(p)
    BY <2>3, <1>3, ConfigAssumption DEF Kept, Config!HasParts, ObjectsTyped
  <2>5. memo[p] # None /\ memo[p] # 0
    BY <2>4 DEF Config!Reuse, Config!Found
  <2>6. made' = made /\ got' = got \cup {<<p, memo[p]>>}
    BY <2>4 DEF Config!Reuse
  <2>7. CallsNest'
    <3>1. \A i \in 1..n : stack[i].ref => memo'[stack[i].path] \in {None, 0}
      BY <1>1, <2>1 DEF CallsNest
    <3>2. stack \in Seq(Frames) /\ stack[n].todo # <<>>
      BY <1>1, TopIs DEF ObjectsTyped
    <3> QED
      BY <1>1, <1>2, <1>3, <2>1, <3>1, <3>2, AdvanceKeepsNest
  <2>8. AllKept'
    <3>1. Config!Named' = Config!Named
      BY <1>1, ConfigStays
    <3>2. \A q : Kept(q) => Kept(q)'
      BY <1>1, <2>6 DEF Kept, Config!Children, Config!Undefined
    <3>3. \A a \in got' : a[1] \in Config!Named /\ a[2] = memo[a[1]] /\ a[2] # None
      BY <2>1, <2>2, <2>5, <2>6 DEF AllKept
    <3> QED
      BY <1>1, <2>1, <3>1, <3>2, <3>3 DEF AllKept
  <2>9. Progressed'
    <3>1. PICK D \in SUBSET Paths : WorkedOff(D) /\ FramesLeft(D) /\ KeptDone(D)
      BY <2>1 DEF Progressed
    <3>2. ItemDone(D, Head(stack[n].todo))
      BY <1>1, <2>2, <2>5, <3>1, ItemIs DEF KeptDone, ItemDone
    <3>3. stack \in Seq(Frames) /\ stack[n].todo # <<>>
      BY <1>1, TopIs DEF ObjectsTyped
    <3>4. FramesLeft(D)'
      BY <1>1, <1>2, <1>3, <3>1, <3>2, <3>3, AdvanceKeepsLeft
    <3>5. WorkedOff(D)' /\ KeptDone(D)'
      BY <1>1, <3>1, ConfigStays DEF WorkedOff, KeptDone, ItemDone
    <3> QED
      BY <3>4, <3>5 DEF Progressed
  <2>10. Judged'
    BY <1>1, <2>1, ConfigStays DEF Judged
  <2> QED
    BY <2>7, <2>8, <2>9, <2>10
<1> QED
  BY <1>1, <1>4, <1>5, ConfigStays DEF ObjectsInv

LEMMA RejectKeeps ==
    ASSUME ObjectsInv, Config!Separate, Config!Reject \/ Config!Recurse
    PROVE  ObjectsInv'
<1> DEFINE n == Len(stack)
           p == Config!Item.path
<1>1. /\ ObjectsTyped /\ Config!Top.todo # <<>> /\ config' = config /\ memo' = memo
      /\ config \in Configs
      /\ stack' = stack /\ made' = made /\ got' = got
  BY DEF Config!Reject, Config!Recurse, ObjectsInv, ObjectsTyped
<1>2. ObjectsTyped'
  BY <1>1 DEF ObjectsTyped
<1>3. CallsNest' /\ AllKept' /\ Progressed' /\ Judged'
  <2>1. CallsNest /\ AllKept /\ Progressed /\ Judged
    BY DEF ObjectsInv
  <2>2. CallsNest' /\ AllKept'
    BY <1>1, <2>1, ConfigStays DEF CallsNest, AllKept, Kept, Config!Children, Config!Undefined
  <2>3. Progressed'
    BY <1>1, <2>1, ConfigStays DEF Progressed, WorkedOff, FramesLeft, KeptDone, ItemDone
  <2>4. p \in Config!Named /\ Config!Item.ref /\ <<stack[n].path, p>> \in Reaches
    BY <1>1, <2>1, ItemIsHeld DEF Config!Reject, Config!Recurse
  <2>5. ASSUME Config!Missing(p)
        PROVE  Config!Fails
    BY <2>4, <2>5 DEF Config!Fails, Config!Missing
  <2>6. ASSUME Config!InProgress(p)
        PROVE  Circular
    <3>1. PICK i \in 1..n : stack[i].ref /\ stack[i].path = p
      BY <1>1, <2>6 DEF Config!InProgress, ObjectsTyped
    <3>2. <<p, p>> \in Reaches
      <4>1. CASE i = n
        BY <2>4, <3>1, <4>1
      <4>2. CASE i # n
        <5>1. <<p, stack[n].path>> \in Reaches
          BY <1>1, <2>1, <3>1, <4>2, TopIs DEF CallsNest
        <5> QED
          BY <2>4, <5>1, ReachesOn
      <4> QED
        BY <4>1, <4>2
    <3> QED
      BY <2>4, <3>2 DEF Circular, Reaches
  <2>7. Judged'
    <3>1. Circular => Config!Fails
      BY DEF Circular, Config!Fails
    <3>2. (Circular' <=> Circular) /\ (Config!Fails' <=> Config!Fails)
      BY <1>1, ConfigStays
    <3>3. CASE Config!Reject
      BY <2>5, <3>2, <3>3 DEF Judged, Config!Reject
    <3>4. CASE Config!Recurse
      <4>1. outcome' \in {"endless", "error"}
        BY <3>4 DEF Config!Recurse
      <4> QED
        BY <2>6, <3>1, <3>2, <3>4, <4>1 DEF Judged, Config!Recurse
    <3> QED
      BY <3>3, <3>4
  <2> QED
    BY <2>2, <2>3, <2>7
<1> QED
  BY <1>1, <1>2, <1>3, ConfigStays DEF ObjectsInv

LEMMA EnterKeeps ==
    ASSUME ObjectsInv, Config!Separate, Config!Enter
    PROVE  ObjectsInv'
<1> DEFINE n == Len(stack)
           p == Config!Item.path
           f == Config!Frame(Config!Item, config[p].items)
<1>1. /\ ObjectsTyped /\ Config!Top.todo # <<>> /\ config' = config /\ memo' = memo
      /\ outcome' = outcome /\ config \in Configs /\ made' = made /\ got' = got
      /\ stack' = Append(stack, f)
  BY DEF Config!Enter, ObjectsInv, ObjectsTyped
<1>2. /\ p \in Paths /\ n \in Nat \ {0} /\ n \in 1..Len(stack)
      /\ Config!Item.ref \in BOOLEAN /\ config[p].items \in Seq(Config!Items)
  BY <1>1, ItemIs, TopIs, ConfigFacts
<1>3. /\ f.path = p /\ f.ref = Config!Item.ref /\ f.todo = config[p].items /\ f \in Frames
  BY <1>2 DEF Config!Frame, Frames
<1> HIDE DEF f
<1>4. /\ stack' \in Seq(Frames) /\ Len(stack') = n + 1 /\ stack'[n + 1] = f
      /\ \A i \in 1..n : stack'[i] = stack[i]
      /\ stack \in Seq(Frames)
  BY <1>1, <1>3 DEF ObjectsTyped
<1>5. ObjectsTyped'
  <2>1. stack' # <<>>
    BY <1>2, <1>4
  <2> QED
    BY <1>1, <1>4, <2>1 DEF ObjectsTyped
<1>6. CallsNest' /\ AllKept' /\ Progressed' /\ Judged'
  <2>1. CallsNest /\ AllKept /\ Progressed /\ Judged
    BY DEF ObjectsInv
  <2>2. <<stack[n].path, p>> \in Reaches /\ (f.ref => p \in Config!Named)
    BY <1>1, <1>3, <2>1, ItemIsHeld
  <2>3. /\ Holds' = Holds /\ Reaches' = Reaches /\ Config!Named' = Config!Named
    BY <1>1, ConfigStays
  <2>4. \A i \in 1..(n + 1) : i = n + 1 \/ i \in 1..n
    BY <1>2
  <2>5. stack'[1].path = None /\ ~stack'[1].ref
    BY <1>2, <1>4, <2>1 DEF CallsNest
  <2>6. ASSUME NEW i \in 1..(n + 1), NEW k \in DOMAIN stack'[i].todo
        PROVE  <<stack'[i].path, stack'[i].todo[k]>> \in Holds
    <3>1. CASE i = n + 1
      <4>1. config[p].items[k] \in Config!Items
        BY <1>2, <1>3, <1>4, <2>6, <3>1
      <4> QED
        BY <1>2, <1>3, <1>4, <2>6, <3>1, <4>1 DEF Holds
    <3>2. CASE i \in 1..n
      BY <1>4, <2>1, <2>6, <3>2 DEF CallsNest
    <3> QED
      BY <2>4, <3>1, <3>2
  <2>7. ASSUME NEW i \in 1..(n + 1), stack'[i].ref
        PROVE  /\ stack'[i].path \in Config!Named
               /\ config[stack'[i].path].kind # "falsy"
               /\ memo[stack'[i].path] \in {None, 0}
    <3>1. CASE i = n + 1
      BY <1>3, <1>4, <2>2, <2>7, <3>1 DEF Config!Enter, Config!Found, Config!Missing
    <3>2. CASE i \in 1..n
      BY <1>4, <2>1, <2>7, <3>2 DEF CallsNest
    <3> QED
      BY <2>4, <3>1, <3>2
  <2>8. ASSUME NEW i \in 1..(n + 1), NEW j \in 1..(n + 1), i < j
        PROVE  /\ <<stack'[i].path, stack'[j].path>> \in Reaches
               /\ stack'[i].ref /\ stack'[j].ref => stack'[i].path # stack'[j].path
    <3>1. i \in 1..n
      BY <1>2, <2>8
    <3>2. CASE j = n + 1
      <4>1. <<stack[i].path, p>> \in Reaches
        <5>1. CASE i = n
          BY <2>2, <5>1
        <5>2. CASE i # n
          <6>1. <<stack[i].path, stack[n].path>> \in Reaches
            BY <1>2, <2>1, <3>1, <5>2 DEF CallsNest
          <6> QED
            BY <2>2, <6>1, ReachesOn
        <5> QED
          BY <5>1, <5>2
      <4>2. f.ref => ~Config!InProgress(p)
        BY <1>3 DEF Config!Enter
      <4>3. f.ref /\ stack[i].ref => stack[i].path # p
        BY <1>4, <3>1, <4>2 DEF Config!InProgress
      <4> QED
        BY <1>3, <1>4, <3>1, <3>2, <4>1, <4>3
    <3>3. CASE j \in 1..n
      <4>1. /\ <<stack[i].path, stack[j].path>> \in Reaches
            /\ stack[i].ref /\ stack[j].ref => stack[i].path # stack[j].path
        BY <2>1, <2>8, <3>1, <3>3 DEF CallsNest
      <4> QED
        BY <1>4, <3>1, <3>3, <4>1
    <3> QED
      BY <2>4, <3>2, <3>3
  <2>9. ASSUME NEW i \in 1..n
        PROVE  /\ stack'[i].todo # <<>>
               /\ stack'[i + 1].path = Head(stack'[i].todo).path
               /\ stack'[i + 1].ref = Head(stack'[i].todo).ref
    <3>1. CASE i = n
      <4>1. Config!Item = Head(stack[n].todo) /\ stack[n].todo # <<>>
        BY <1>1, ItemIs, TopIs
      <4> QED
        BY <1>2, <1>3, <1>4, <3>1, <4>1
    <3>2. CASE i # n
      <4>1. i \in 1..(n - 1) /\ i + 1 \in 1..n
        BY <1>2, <3>2
      <4>2. /\ stack[i].todo # <<>>
            /\ stack[i + 1].path = Head(stack[i].todo).path
            /\ stack[i + 1].ref = Head(stack[i].todo).ref
        BY <2>1, <4>1 DEF CallsNest
      <4> QED
        BY <1>4, <4>1, <4>2
    <3> QED
      BY <3>1, <3>2
  <2>10. CallsNest'
    <3>1. 1..Len(stack') = 1..(n + 1) /\ 1..(Len(stack') - 1) = 1..n
      BY <1>2, <1>4
    <3>2. \A i \in 1..(n + 1) : \A k \in DOMAIN stack'[i].todo :
              <<stack'[i].path, stack'[i].todo[k]>> \in Holds'
      BY <2>3, <2>6
    <3>3. \A i \in 1..(n + 1) : stack'[i].ref =>
              /\ stack'[i].path \in Config!Named'
              /\ config'[stack'[i].path].kind # "falsy"
              /\ memo'[stack'[i].path] \in {None, 0}
      BY <1>1, <2>3, <2>7
    <3>4. \A i, j \in 1..(n + 1) : i < j =>
              /\ <<stack'[i].path, stack'[j].path>> \in Reaches'
              /\ stack'[i].ref /\ stack'[j].ref => stack'[i].path # stack'[j].path
      BY <2>3, <2>8
    <3>5. \A i \in 1..n :
              /\ stack'[i].todo # <<>>
              /\ stack'[i + 1].path = Head(stack'[i].todo).path
              /\ stack'[i + 1].ref = Head(stack'[i].todo).ref
      BY <2>9
    <3> HIDE DEF n
    <3> QED
      BY <2>5, <3>1, <3>2, <3>3, <3>4, <3>5 DEF CallsNest
  <2>11. AllKept'
    BY <1>1, <2>1, <2>3 DEF AllKept, Kept, Config!Children, Config!Undefined
  <2>12. Progressed'
    <3>1. PICK D \in SUBSET Paths : WorkedOff(D) /\ FramesLeft(D) /\ KeptDone(D)
      BY <2>1 DEF Progressed
    <3>2. WorkedOff(D)' /\ KeptDone(D)' /\ \A x : ItemDone(D, x)' <=> ItemDone(D, x)
      BY <1>1, <3>1, <2>3 DEF WorkedOff, KeptDone, ItemDone
    <3>3. ASSUME NEW i \in 1..(n + 1), NEW a \in Holds, a[1] = stack'[i].path
          PROVE  (\E k \in DOMAIN stack'[i].todo : stack'[i].todo[k] = a[2]) \/ ItemDone(D, a[2])
      <4>1. CASE i = n + 1
        <5>1. a[1] = p
          BY <1>3, <1>4, <3>3, <4>1
        <5>2. \E k \in DOMAIN config[p].items : config[p].items[k] = a[2]
          BY <5>1 DEF Holds
        <5> QED
          BY <1>3, <1>4, <4>1, <5>2
      <4>2. CASE i \in 1..n
        BY <1>4, <3>1, <3>3, <4>2 DEF FramesLeft
      <4> QED
        BY <2>4, <4>1, <4>2
    <3>4. FramesLeft(D)'
      BY <1>4, <2>3, <3>2, <3>3 DEF FramesLeft
    <3> QED
      BY <3>2, <3>4 DEF Progressed
  <2>13. Judged'
    BY <1>1, <2>1, ConfigStays DEF Judged
  <2> QED
    BY <2>10, <2>11, <2>12, <2>13
<1> QED
  BY <1>1, <1>5, <1>6, ConfigStays DEF ObjectsInv

\* The path that is made needs only what has been worked off, and is not among it.
LEMMA MadeIsWorkedOff ==
    ASSUME config \in Configs, NEW D \in SUBSET Paths, WorkedOff(D), NEW p \in Paths,
           \A a \in Holds : a[1] = p => ItemDone(D, a[2])
    PROVE  WorkedOff(D \cup {p})
<1>1. Config!Needs(p) \subseteq D
  BY HeldIsNeeded DEF ItemDone
<1>2. Config!Closed(D)
  <2>1. \A q \in D : Config!Needs(q) \subseteq D
    BY HeldIsNeeded DEF WorkedOff, ItemDone
  <2> QED
    BY <2>1 DEF Config!Closed
<1>3. <<p, p>> \notin Reaches
  <2>1. p \in Config!Reached(p) => p \in D
    BY <1>1, <1>2 DEF Config!Reached
  <2> QED
    BY <2>1 DEF WorkedOff, Reaches
<1> QED
  BY <1>3 DEF WorkedOff, ItemDone

\* What is set for a named path is not what is kept for another.
LEMMA SetKeepsOthers ==
    ASSUME ObjectsTyped, Config!Separate, NEW p \in Config!Named, NEW v, NEW kids,
           memo' = Config!Set(p, v, kids)
    PROVE  /\ memo'[p] = v
           /\ \A q \in Config!Named : q # p =>
                  /\ memo'[q] = memo[q]
                  /\ \A r \in Config!Children(q) : memo'[r] = memo[r]
<1>1. p \in Paths /\ config \in Configs
  BY NamedIsPath DEF ObjectsTyped
<1>2. memo'[p] = v
  <2>1. Parent[p] # p
    BY <1>1, NamedAreApart
  <2> QED
    BY <1>1, <2>1 DEF Config!Set
<1>3. ASSUME NEW q \in Config!Named, q # p
      PROVE  /\ memo'[q] = memo[q]
             /\ \A r \in Config!Children(q) : memo'[r] = memo[r]
  <2>1. q \in Paths /\ Parent[q] # p /\ Parent[p] # q
    BY <1>1, NamedIsPath, NamedAreApart
  <2>2. \A r \in Config!Children(q) : r \in Paths /\ r # p /\ Parent[r] # p
    BY <1>3, <2>1 DEF Config!Children
  <2> QED
    BY <1>3, <2>1, <2>2 DEF Config!Set
<1> QED
  BY <1>2, <1>3

\* Where the step Make leaves the stack: the call below, one of m, goes on.
LEMMA MakeAdvances ==
    ASSUME ObjectsTyped, CallsNest, Config!Make, NEW m, m = Len(stack) - 1,
           NEW s, s = Config!Front(stack)
    PROVE  /\ m \in 1..Len(stack) /\ m \in Nat \ {0} /\ Len(stack) = m + 1
           /\ s \in Seq(Frames) /\ Len(s) = m /\ \A i \in 1..m : s[i] = stack[i]
           /\ stack[m].todo # <<>> /\ Head(stack[m].todo).path = stack[m + 1].path
           /\ Head(stack[m].todo).ref = stack[m + 1].ref
           /\ Advanced(s, stack')
<1> DEFINE p == Config!Top.path
           v == IF Config!Undefined(p) THEN 0 ELSE Len(made) + 1
<1>1. stack \in Seq(Frames) /\ stack # <<>> /\ Len(stack) > 1 /\ Len(stack) \in Nat
  BY DEF ObjectsTyped, Config!Make
<1>2. m \in 1..Len(stack) /\ m \in Nat \ {0} /\ m \in 1..(Len(stack) - 1) /\ Len(stack) = m + 1
  <2>1. \A n \in Nat : n > 1 => /\ n - 1 \in 1..n /\ n - 1 \in Nat \ {0}
                                /\ n - 1 \in 1..(n - 1) /\ n = (n - 1) + 1
    OBVIOUS
  <2> QED
    BY <1>1, <2>1, Zenon
<1>3. s \in Seq(Frames) /\ Len(s) = m /\ \A i \in 1..m : s[i] = stack[i]
  BY <1>1, TopOfStack
<1>4. /\ stack[m].todo # <<>> /\ Head(stack[m].todo).path = stack[m + 1].path
      /\ Head(stack[m].todo).ref = stack[m + 1].ref
  BY <1>2 DEF CallsNest
<1>5. s # <<>> /\ s[m] = stack[m] /\ Config!Last(s) = stack[m]
  BY <1>2, <1>3, TopOfStack
<1>6. stack[m].kids \in [Paths -> Nat \cup {None}]
  BY <1>2, TopIs
<1>7. v \in Nat
  BY DEF ObjectsTyped
<1>8. PICK kids \in [Paths -> Nat \cup {None}] : stack' = Config!Advance(s, kids)
  <2>1. [stack[m].kids EXCEPT ![p] = v] \in [Paths -> Nat \cup {None}]
    <3> HIDE DEF v, p
    <3> QED
      BY <1>6, <1>7
  <2>2. CASE Config!Top.ref
    BY <1>5, <1>6, <2>2 DEF Config!Make
  <2>3. CASE ~Config!Top.ref
    BY <1>5, <2>1, <2>3 DEF Config!Make
  <2> QED
    BY <2>2, <2>3
<1>9. Advanced(s, stack')
  BY <1>3, <1>4, <1>5, <1>8, AdvanceIs
<1> QED
  BY <1>2, <1>3, <1>4, <1>9

LEMMA MakeKeeps ==
    ASSUME ObjectsInv, Config!Separate, Config!Make
    PROVE  ObjectsInv'
<1> DEFINE m == Len(stack) - 1
           s == Config!Front(stack)
           p == Config!Top.path
           v == IF Config!Undefined(p) THEN 0 ELSE Len(made) + 1
           M == [of : Paths \cup {None}, whole : BOOLEAN]
<1>1. /\ ObjectsTyped /\ CallsNest /\ AllKept /\ Progressed /\ Judged
      /\ config' = config /\ outcome' = outcome /\ config \in Configs /\ Config!Top.todo = <<>>
  BY DEF Config!Make, ObjectsInv, ObjectsTyped
<1>2. /\ m \in 1..Len(stack) /\ m \in Nat \ {0} /\ Len(stack) = m + 1
      /\ s \in Seq(Frames) /\ Len(s) = m /\ \A i \in 1..m : s[i] = stack[i]
      /\ stack[m].todo # <<>> /\ Head(stack[m].todo).path = stack[m + 1].path
      /\ Head(stack[m].todo).ref = stack[m + 1].ref
      /\ Advanced(s, stack')
  BY <1>1, MakeAdvances
<1>3. /\ Config!Top = stack[m + 1] /\ p = stack[m + 1].path /\ stack[m + 1].todo = <<>>
      /\ m + 1 \in 1..Len(stack)
  BY <1>1, <1>2, TopIs
<1>4. p \in Paths
  <2>1. <<stack[m].path, stack[m + 1].path>> \in Reaches
    BY <1>1, <1>2, <1>3 DEF CallsNest
  <2> QED
    BY <1>3, <2>1 DEF Reaches
<1>5. Config!Top.ref \in BOOLEAN /\ (Config!Top.ref =>
          /\ p \in Config!Named /\ config[p].kind # "falsy" /\ memo[p] \in {None, 0})
  BY <1>1, <1>3, TopIs DEF CallsNest
<1>6. v \in Nat /\ made \in Seq(M) /\ [of |-> p, whole |-> TRUE] \in M
  BY <1>1, <1>4 DEF ObjectsTyped
<1>7. made' = IF Config!Undefined(p) THEN made ELSE Append(made, [of |-> p, whole |-> TRUE])
  BY DEF Config!Make
<1>8. Config!Top.ref => memo' = Config!Set(p, v, Config!Top.kids) /\ got' = got \cup {<<p, v>>}
  BY DEF Config!Make
<1>9. ~Config!Top.ref => memo' = memo /\ got' = got
  BY DEF Config!Make
<1> HIDE DEF m, s, p, v, M
<1>10. made' \in Seq(M) /\ Len(made) \in Nat /\ Len(made') \in Nat
       /\ Len(made) <= Len(made') /\ \A k \in 1..Len(made) : made'[k] = made[k]
  BY <1>6, <1>7
<1>11. IF Config!Undefined(p) THEN v = 0
       ELSE v \in 1..Len(made') /\ made'[v] = [of |-> p, whole |-> TRUE]
  BY <1>6, <1>7 DEF v
<1>12. \A q \in Config!Named :
           (Config!Top.ref => q # p) =>
               /\ memo'[q] = memo[q]
               /\ \A r \in Config!Children(q) : memo'[r] = memo[r]
  BY <1>1, <1>5, <1>8, <1>9, SetKeepsOthers
<1>13. Config!Top.ref => memo'[p] = v
  BY <1>1, <1>5, <1>8, SetKeepsOthers
<1>14. /\ Config!Named' = Config!Named /\ Config!Separate' = Config!Separate
       /\ \A q : Config!Children(q)' = Config!Children(q)
       /\ \A q : Config!Undefined(q)' <=> Config!Undefined(q)
  BY <1>1, ConfigStays DEF Config!Children, Config!Undefined
<1>15. ObjectsTyped'
  <2>1. memo' \in [Paths -> Nat \cup {None}]
    <3>1. memo \in [Paths -> Nat \cup {None}] /\ Config!Top.kids \in [Paths -> Nat \cup {None}]
      BY <1>1, <1>3, TopIs DEF ObjectsTyped
    <3>2. Config!Set(p, v, Config!Top.kids) \in [Paths -> Nat \cup {None}]
      <4>1. \A q \in Paths : Config!Set(p, v, Config!Top.kids)[q] \in Nat \cup {None}
        <5>1. ASSUME NEW q \in Paths
              PROVE  /\ memo[q] \in Nat \cup {None}
                     /\ Config!Top.kids[q] \in Nat \cup {None}
          BY <3>1
        <5> QED
          BY <1>6, <5>1 DEF Config!Set
      <4> QED
        BY <4>1 DEF Config!Set
    <3> QED
      BY <1>5, <1>8, <1>9, <3>1, <3>2
  <2>2. stack' \in Seq(Frames) /\ stack' # <<>>
    BY <1>2 DEF Advanced
  <2> QED
    BY <1>1, <1>10, <2>1, <2>2 DEF ObjectsTyped, M
<1>16. CallsNest'
  <2>1. ASSUME NEW i \in 1..m, stack[i].ref
        PROVE  memo'[stack[i].path] \in {None, 0}
    <3>1. i \in 1..Len(stack) /\ i < m + 1
      BY <1>2
    <3>2. stack[i].path \in Config!Named /\ memo[stack[i].path] \in {None, 0}
      BY <1>1, <2>1, <3>1 DEF CallsNest
    <3>3. Config!Top.ref => stack[i].path # p
      BY <1>1, <1>3, <2>1, <3>1 DEF CallsNest
    <3> QED
      BY <1>12, <3>2, <3>3
  <2> QED
    BY <1>1, <1>2, <2>1, AdvanceKeepsNest
<1>17. AllKept'
  <2>1. ASSUME NEW q \in Config!Named
        PROVE  Kept(q)'
    <3>1. Kept(q)
      BY <1>1 DEF AllKept
    <3>2. CASE Config!Top.ref /\ q = p
      BY <1>11, <1>13, <1>14, <3>2 DEF Kept
    <3>3. CASE Config!Top.ref => q # p
      <4>1. memo'[q] = memo[q] /\ \A r \in Config!Children(q) : memo'[r] = memo[r]
        BY <1>12, <3>3
      <4>2. memo[q] \in 1..Len(made) =>
                memo[q] \in 1..Len(made') /\ made'[memo[q]] = made[memo[q]]
        BY <1>10
      <4> QED
        BY <1>14, <3>1, <4>1, <4>2 DEF Kept
    <3> QED
      BY <3>2, <3>3
  <2>2. ASSUME NEW a \in got'
        PROVE  a[1] \in Config!Named /\ a[2] = memo'[a[1]] /\ a[2] # None
    <3>1. CASE a \in got
      <4>1. a[1] \in Config!Named /\ a[2] = memo[a[1]] /\ a[2] # None
        BY <1>1, <3>1 DEF AllKept
      <4>2. CASE Config!Top.ref /\ a[1] = p
        <5>1. a[2] = 0 /\ memo[p] = 0 /\ p \in Config!Named
          BY <1>5, <4>1, <4>2
        <5>2. Config!Undefined(p)
          <6>1. Kept(p) /\ memo[p] # None /\ ~(memo[p] \in 1..Len(made))
            BY <1>1, <1>10, <4>1, <4>2, <5>1 DEF AllKept
          <6> QED
            BY <6>1 DEF Kept
        <5> QED
          BY <1>11, <1>13, <4>1, <4>2, <5>1, <5>2
      <4>3. CASE Config!Top.ref => a[1] # p
        BY <1>12, <4>1, <4>3
      <4> QED
        BY <4>2, <4>3
    <3>2. CASE Config!Top.ref /\ a = <<p, v>>
      BY <1>5, <1>6, <1>13, <3>2, ConfigAssumption
    <3> QED
      BY <1>5, <1>8, <1>9, <2>2, <3>1, <3>2
  <2> QED
    BY <1>14, <2>1, <2>2 DEF AllKept
<1>18. Progressed'
  <2>1. PICK D \in SUBSET Paths : WorkedOff(D) /\ FramesLeft(D) /\ KeptDone(D)
    BY <1>1 DEF Progressed
  <2> PICK E : E = D \cup {p}
    OBVIOUS
  <2>2. \A a \in Holds : a[1] = p => ItemDone(D, a[2])
    BY <1>3, <2>1 DEF FramesLeft
  <2>3. WorkedOff(E)
    BY <1>1, <1>4, <2>1, <2>2, MadeIsWorkedOff
  <2>4. ItemDone(E, Head(stack[m].todo))
    BY <1>2, <1>3, <1>5 DEF ItemDone
  <2>5. FramesLeft(E)'
    <3>1. D \subseteq E
      OBVIOUS
    <3> QED
      BY <1>1, <1>2, <2>1, <2>4, <3>1, AdvanceKeepsLeft
  <2>6. WorkedOff(E)'
    BY <1>1, <2>3, ConfigStays DEF WorkedOff, ItemDone
  <2>7. ASSUME NEW q \in Config!Named, memo'[q] # None
        PROVE  q \in E /\ config[q].kind # "falsy"
    <3>1. CASE Config!Top.ref /\ q = p
      BY <1>5, <3>1
    <3>2. CASE Config!Top.ref => q # p
      BY <1>12, <2>1, <2>7, <3>2 DEF KeptDone
    <3> QED
      BY <3>1, <3>2
  <2>8. KeptDone(E)'
    BY <1>1, <1>14, <2>7 DEF KeptDone
  <2>9. E \in SUBSET Paths
    BY <1>4
  <2> QED
    BY <2>5, <2>6, <2>8, <2>9 DEF Progressed
<1>19. Judged'
  BY <1>1, ConfigStays DEF Judged
<1> QED
  BY <1>15, <1>16, <1>17, <1>18, <1>19 DEF ObjectsInv

\* Everything that is needed has been worked off when nothing is left to do.
LEMMA ReturnKeeps ==
    ASSUME ObjectsInv, Config!Separate, Config!Return
    PROVE  ObjectsInv'
<1>1. /\ ObjectsTyped /\ CallsNest /\ AllKept /\ Progressed /\ Judged /\ config \in Configs
      /\ config' = config /\ memo' = memo /\ stack' = stack /\ made' = made /\ got' = got
      /\ outcome' = "done" /\ Len(stack) = 1
  BY DEF Config!Return, ObjectsInv, ObjectsTyped
<1>2. stack[1].todo = <<>> /\ stack[1].path = None
  BY <1>1, TopIs DEF Config!Return, CallsNest
<1>3. ~Config!Fails
  <2>1. PICK D \in SUBSET Paths : WorkedOff(D) /\ FramesLeft(D) /\ KeptDone(D)
    BY <1>1 DEF Progressed
  <2>2. \A a \in Holds : a[1] = None => ItemDone(D, a[2])
    BY <1>1, <1>2, <2>1 DEF FramesLeft
  <2>3. \A q : <<None, q>> \in Reaches => q \in D
    <3>1. Config!Needs(None) \subseteq D
      BY <1>1, <2>2, HeldIsNeeded DEF ItemDone
    <3>2. \A q \in D : Config!Needs(q) \subseteq D
      BY <1>1, <2>1, HeldIsNeeded DEF WorkedOff, ItemDone
    <3> QED
      BY <3>1, <3>2 DEF Reaches, Config!Reached, Config!Closed
  <2>4. ASSUME NEW q \in Config!Named
        PROVE  config[q].kind # "falsy" /\ q \notin Config!Reached(q)
    <3>1. PICK a \in Holds : /\ a[2].ref /\ a[2].path = q
                             /\ a[1] = None \/ <<None, a[1]>> \in Reaches
      BY <1>1, NamedIsHeld
    <3>2. ItemDone(D, a[2])
      BY <2>1, <2>2, <2>3, <3>1 DEF WorkedOff
    <3>3. q \in D /\ config[q].kind # "falsy" /\ <<q, q>> \notin Reaches
      BY <2>1, <3>1, <3>2 DEF ItemDone, WorkedOff
    <3> QED
      BY <3>3 DEF Reaches
  <2> QED
    BY <2>4 DEF Config!Fails
<1>4. ObjectsTyped' /\ CallsNest' /\ AllKept'
  BY <1>1, ConfigStays DEF ObjectsTyped, CallsNest, AllKept, Kept, Config!Children, Config!Undefined
<1>5. Progressed'
  <2>1. PICK D \in SUBSET Paths : WorkedOff(D) /\ FramesLeft(D) /\ KeptDone(D)
    BY <1>1 DEF Progressed
  <2>2. Holds' = Holds /\ Reaches' = Reaches
    BY <1>1, ConfigStays
  <2>3. WorkedOff(D)'
    BY <1>1, <2>1, <2>2 DEF WorkedOff, ItemDone
  <2>4. FramesLeft(D)'
    BY <1>1, <2>1, <2>2 DEF FramesLeft, ItemDone
  <2>5. KeptDone(D)'
    BY <1>1, <2>1, ConfigStays DEF KeptDone
  <2> QED
    BY <2>3, <2>4, <2>5 DEF Progressed
<1>6. Judged'
  BY <1>1, <1>3, ConfigStays DEF Judged
<1> QED
  BY <1>4, <1>5, <1>6 DEF ObjectsInv

-----------------------------------------------------------------------------
(* From the start.                                                         *)

LEMMA ObjectsInvInit == Config!Init => ObjectsInv
<1> SUFFICES ASSUME Config!Init
             PROVE  ObjectsInv
  OBVIOUS
<1> DEFINE f == Config!Frame([ref |-> FALSE, path |-> None], config[None].items)
<1>1. /\ config \in Configs /\ made = <<>> /\ memo = [p \in Paths |-> None] /\ got = {}
      /\ stack = <<f>> /\ outcome = "running"
  BY DEF Config!Init
<1>2. config[None].items \in Seq(Config!Items)
  BY <1>1, ConfigFacts
<1>3. /\ f.path = None /\ f.ref = FALSE /\ f.todo = config[None].items /\ f \in Frames
  BY <1>2 DEF Config!Frame, Frames
<1> HIDE DEF f
<1>4. /\ stack \in Seq(Frames) /\ Len(stack) = 1 /\ stack[1] = f /\ stack # <<>>
      /\ \A i \in 1..Len(stack) : i = 1
  BY <1>1, <1>3
<1>5. ObjectsTyped
  BY <1>1, <1>4 DEF ObjectsTyped
<1>6. CallsNest
  <2>1. \A k \in DOMAIN f.todo : <<None, f.todo[k]>> \in Holds
    BY <1>2, <1>3 DEF Holds
  <2> QED
    BY <1>3, <1>4, <2>1 DEF CallsNest
<1>7. \A p \in Config!Named : memo[p] = None /\ \A q \in Config!Children(p) : memo[q] = None
  BY <1>1, NamedIsPath DEF Config!Children
<1>8. AllKept
  BY <1>1, <1>7 DEF AllKept, Kept
<1>9. Progressed
  <2>1. WorkedOff({}) /\ KeptDone({})
    BY <1>7 DEF WorkedOff, KeptDone
  <2>2. FramesLeft({})
    BY <1>3, <1>4 DEF FramesLeft, Holds
  <2> QED
    BY <2>1, <2>2 DEF Progressed
<1>10. Judged
  BY <1>1 DEF Judged
<1> QED
  BY <1>5, <1>6, <1>8, <1>9, <1>10 DEF ObjectsInv

LEMMA ObjectsInvStep == ObjectsInv /\ [Config!Next]_configVars => ObjectsInv'
<1> SUFFICES ASSUME ObjectsInv, [Config!Next]_configVars, Config!Separate'
             PROVE  ObjectsInv'
  BY DEF ObjectsInv
<1>1. config' = config
  BY DEF Config!Next, Config!Reuse, Config!Reject, Config!Recurse, Config!Enter, Config!Make,
     Config!Return, configVars
<1>2. Config!Separate
  BY <1>1, ConfigStays
<1>3. CASE UNCHANGED configVars
  <2>1. /\ ObjectsTyped /\ CallsNest /\ AllKept /\ Progressed /\ Judged
        /\ memo' = memo /\ stack' = stack /\ made' = made /\ got' = got /\ outcome' = outcome
    BY <1>2, <1>3 DEF ObjectsInv, configVars
  <2>2. ObjectsTyped' /\ CallsNest' /\ AllKept'
    BY <1>1, <2>1, ConfigStays DEF ObjectsTyped, CallsNest, AllKept, Kept, Config!Children, Config!Undefined
  <2>3. Progressed'
    BY <1>1, <2>1, ConfigStays DEF Progressed, WorkedOff, FramesLeft, KeptDone, ItemDone
  <2>4. Judged'
    BY <1>1, <2>1, ConfigStays DEF Judged
  <2> QED
    BY <2>2, <2>3, <2>4 DEF ObjectsInv
<1>4. CASE Config!Next
  BY <1>2, <1>4, ReuseKeeps, RejectKeeps, EnterKeeps, MakeKeeps, ReturnKeeps DEF Config!Next
<1> QED
  BY <1>3, <1>4

LEMMA ObjectsInvHolds == ServerSpec => []ObjectsInv
<1>1. ServerInit => ObjectsInv
  BY ObjectsInvInit DEF ServerInit
<1>2. ObjectsInv /\ [ServerNext]_serverVars => ObjectsInv'
  <2>1. [ServerNext]_serverVars => [Config!Next]_configVars
    BY DEF ServerNext, serverVars, configVars
  <2> QED
    BY <2>1, ObjectsInvStep
<1> QED
  BY <1>1, <1>2, PTL DEF ServerSpec

\* However deep the plugins that refer to a part are, and in whatever order they are met,
\* all get the one object that was made for it.
THEOREM SharedPartsAreOne == ServerSpec => []PointersShareWholes
<1>1. ObjectsInv => PointersShareWholes
  <2> SUFFICES ASSUME ObjectsInv, Config!Separate, NEW a \in got
               PROVE  /\ \A b \in got : a[1] = b[1] => a[2] = b[2]
                      /\ a[2] # 0 => made[a[2]].of = a[1] /\ made[a[2]].whole
    BY DEF PointersShareWholes, Config!PointersShareWholes
  <2>1. /\ AllKept /\ Kept(a[1]) /\ a[2] = memo[a[1]] /\ a[2] # None
    BY DEF ObjectsInv, AllKept
  <2> QED
    BY <2>1 DEF AllKept, Kept
<1> QED
  BY <1>1, ObjectsInvHolds, PTL

\* The making of the objects completes exactly for a configuration in which no part that is
\* asked for is missing or needs itself, and goes on for ever only where one needs itself.
THEOREM OnlyBrokenFail == ServerSpec => []FailsIffBroken
<1>1. ObjectsInv => FailsIffBroken
  BY DEF ObjectsInv, Judged, Circular, FailsIffBroken, Config!FailsIffBroken, Config!Fails
<1> QED
  BY <1>1, ObjectsInvHolds, PTL
=============================================================================
