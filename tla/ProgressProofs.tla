---------------------------- MODULE ProgressProofs ----------------------------
(***************************************************************************)
(* Safety of the parts that must come to an end, for every value of the    *)
(* constants of Progress.                                                  *)
(*                                                                         *)
(* The pool's accounts balance (ConnectionsAccounted) by an invariant that *)
(* says which reads of the list a request can have left behind; a status   *)
(* check starves by changes alone (StarvedOnlyByChanges) because the read  *)
(* of a check that still waits is queued or running.  The page makes no    *)
(* generation fail (FailuresComeFromOutside) because positions are drawn   *)
(* of, and profiles asked for, the very list they are used with.           *)
(***************************************************************************)
EXTENDS Progress, FiniteSetTheorems, TLAPS

Holders == {r \in Requests : conn[r] = 1}
Running == {c \in Checks : reading[c] = "running"}

\* A request makes one check per try: none of a later try has been asked for, and the one
\* of this try only from "fetch" on.  Without it a read of the list could be asked for
\* while an older one, whose check timed out, is still queued under the same name.
CheckNotAsked(r, n) ==
    \/ n > retries[r]
    \/ n = retries[r] /\ pc[r] \in {"idle", "connect", "check", "backoff"}

ChecksFresh ==
    \A r \in Requests :
       /\ pc[r] \notin {"backoff", "done"} => retries[r] < MaxRetries
       /\ \A n \in 0..(MaxRetries - 1) :
             CheckNotAsked(r, n) => reading[<<r, n>>] = "none"

\* What a check waits for is queued or runs.
ReadOfCheck(r) == pc[r] = "fetch" => reading[CheckOf(r)] # "none"
ReadsUnderWay == \A r \in Requests : ReadOfCheck(r)

\* The parts of ConnectionsAccounted: what a call holds and waits for, what a read waits for.
CallAccounted(r) ==
    /\ conn[r] = 1 <=> pc[r] \in {"check", "fetch", "work", "backoff"}
    /\ pc[r] = "connect" <=> Outer(r) \in ToSet(queue)
CallsAccounted == \A r \in Requests : CallAccounted(r)
ReadsAccounted == \A c \in Checks : reading[c] = "waiting" <=> Inner(c) \in ToSet(queue)

PoolInv ==
    /\ TypeOK
    /\ InUse <= PoolSize
    /\ CallsAccounted
    /\ ReadsAccounted
    /\ IsInjective(queue)
    /\ ChecksFresh
    /\ ReadsUnderWay

-----------------------------------------------------------------------------
(* The queue.                                                              *)

\* Whoever joins a queue it is not in is in it once.
LEMMA AppendIsOnce ==
    ASSUME NEW S, NEW q \in Seq(S), NEW x \in S, IsInjective(q), x \notin ToSet(q)
    PROVE  /\ Append(q, x) \in Seq(S)
           /\ ToSet(Append(q, x)) = ToSet(q) \cup {x}
           /\ IsInjective(Append(q, x))
<1>1. DOMAIN q = 1..Len(q) /\ DOMAIN Append(q, x) = 1..(Len(q) + 1) /\ Len(q) \in Nat
  OBVIOUS
<1>2. \A i \in 1..Len(q) : Append(q, x)[i] = q[i]
  OBVIOUS
<1>3. Append(q, x)[Len(q) + 1] = x
  OBVIOUS
<1>4. \A i \in 1..(Len(q) + 1) : i \in 1..Len(q) \/ i = Len(q) + 1
  BY <1>1
<1>5. Append(q, x) \in Seq(S)
  OBVIOUS
<1>6. ToSet(Append(q, x)) = ToSet(q) \cup {x}
  BY <1>1, <1>2, <1>3, <1>4 DEF ToSet
<1>7. \A i \in 1..Len(q) : q[i] # x
  BY <1>1 DEF ToSet
<1>8. IsInjective(Append(q, x))
  BY <1>1, <1>2, <1>3, <1>4, <1>7 DEF IsInjective
<1> QED
  BY <1>5, <1>6, <1>8

\* Whoever is at the head of a queue is not in its tail.
LEMMA TailForgetsHead ==
    ASSUME NEW S, NEW q \in Seq(S), IsInjective(q), q # <<>>
    PROVE  /\ Tail(q) \in Seq(S)
           /\ ToSet(Tail(q)) = ToSet(q) \ {Head(q)}
           /\ IsInjective(Tail(q))
<1>1. DOMAIN q = 1..Len(q) /\ DOMAIN Tail(q) = 1..(Len(q) - 1) /\ Len(q) \in Nat \ {0}
  OBVIOUS
<1>2. \A i \in 1..(Len(q) - 1) : Tail(q)[i] = q[i + 1]
  OBVIOUS
<1>3. Head(q) = q[1]
  OBVIOUS
<1>4. \A i \in 1..Len(q) : i = 1 \/ (i - 1 \in 1..(Len(q) - 1) /\ (i - 1) + 1 = i)
  BY <1>1
<1>5. \A i \in 1..(Len(q) - 1) : i + 1 \in 1..Len(q) /\ i + 1 # 1
  BY <1>1
<1>6. Tail(q) \in Seq(S)
  OBVIOUS
<1>7. \A i, j \in 1..Len(q) : q[i] = q[j] => i = j
  BY <1>1 DEF IsInjective
<1>8. IsInjective(Tail(q))
  BY <1>1, <1>2, <1>5, <1>7 DEF IsInjective
<1>9. ToSet(Tail(q)) \subseteq ToSet(q) \ {Head(q)}
  BY <1>1, <1>2, <1>3, <1>5, <1>7 DEF ToSet
<1>10. ToSet(q) \ {Head(q)} \subseteq ToSet(Tail(q))
  <2> SUFFICES ASSUME NEW i \in 1..Len(q), q[i] # Head(q)
               PROVE  q[i] \in ToSet(Tail(q))
    BY <1>1 DEF ToSet
  <2>1. i - 1 \in 1..(Len(q) - 1) /\ Tail(q)[i - 1] = q[i]
    BY <1>2, <1>3, <1>4
  <2> QED
    BY <2>1, <1>1 DEF ToSet
<1> QED
  BY <1>6, <1>8, <1>9, <1>10

-----------------------------------------------------------------------------
(* What is in use.                                                         *)

LEMMA OneMoreElement ==
    ASSUME NEW S, IsFiniteSet(S), NEW x, NEW T, T \subseteq S \cup {x}
    PROVE  Cardinality(T) <= Cardinality(S) + 1
<1>1. IsFiniteSet(S \cup {x}) /\ Cardinality(S) \in Nat
  BY FS_AddElement, FS_CardinalityType
<1>2. \/ Cardinality(S \cup {x}) = Cardinality(S)
      \/ Cardinality(S \cup {x}) = Cardinality(S) + 1
  BY FS_AddElement
<1>3. Cardinality(T) <= Cardinality(S \cup {x}) /\ Cardinality(T) \in Nat
  BY <1>1, FS_Subset, FS_CardinalityType
<1> QED
  BY <1>1, <1>2, <1>3

LEMMA InUseIsCounted ==
    ASSUME NEW C, C \subseteq Checks, NEW R, R \subseteq Requests
    PROVE  /\ IsFiniteSet(R) /\ Cardinality(R) \in Nat
           /\ IsFiniteSet(C) /\ Cardinality(C) \in Nat
<1>1. IsFiniteSet(0..(MaxRetries - 1))
  BY PoolAssumption, FS_Interval
<1>2. IsFiniteSet(Checks)
  BY PoolAssumption, <1>1, FS_Product DEF Checks
<1>3. IsFiniteSet(R) /\ IsFiniteSet(C)
  BY PoolAssumption, <1>2, FS_Subset
<1> QED
  BY <1>3, FS_CardinalityType

\* A step that takes no connection leaves no more of them in use.
LEMMA InUseShrinks ==
    ASSUME InUse <= PoolSize,
           Holders' \subseteq Holders, Running' \subseteq Running
    PROVE  InUse' <= PoolSize
<1>1. Holders \subseteq Requests /\ Running \subseteq Checks
  BY DEF Holders, Running
<1>2. Cardinality(Holders') <= Cardinality(Holders)
  BY <1>1, InUseIsCounted, FS_Subset
<1>3. Cardinality(Running') <= Cardinality(Running)
  BY <1>1, InUseIsCounted, FS_Subset
<1>4. /\ Cardinality(Holders) \in Nat /\ Cardinality(Running) \in Nat
      /\ Cardinality(Holders') \in Nat /\ Cardinality(Running') \in Nat
  BY <1>1, InUseIsCounted
<1>5. InUse = Cardinality(Holders) + Cardinality(Running)
  BY DEF InUse, Holders, Running
<1>6. InUse' = Cardinality(Holders') + Cardinality(Running')
  BY DEF InUse, Holders, Running
<1> QED
  BY PoolAssumption, <1>2, <1>3, <1>4, <1>5, <1>6

\* A step that takes one connection, while one was free, leaves the pool within its size.
LEMMA InUseGrowsByOne ==
    ASSUME InUse < PoolSize,
           \/ Running' \subseteq Running /\ \E r \in Requests : Holders' \subseteq Holders \cup {r}
           \/ Holders' \subseteq Holders /\ \E c \in Checks : Running' \subseteq Running \cup {c}
    PROVE  InUse' <= PoolSize
<1>1. Holders \subseteq Requests /\ Running \subseteq Checks
  BY DEF Holders, Running
<1>2. /\ Cardinality(Holders) \in Nat /\ Cardinality(Running) \in Nat
      /\ Cardinality(Holders') \in Nat /\ Cardinality(Running') \in Nat
      /\ IsFiniteSet(Holders) /\ IsFiniteSet(Running)
  BY <1>1, InUseIsCounted
<1>3. /\ InUse = Cardinality(Holders) + Cardinality(Running)
      /\ InUse' = Cardinality(Holders') + Cardinality(Running')
  BY DEF InUse, Holders, Running
<1>4. ASSUME NEW r \in Requests, Holders' \subseteq Holders \cup {r}
      PROVE  Cardinality(Holders') <= Cardinality(Holders) + 1
  BY <1>2, <1>4, OneMoreElement
<1>5. ASSUME NEW c \in Checks, Running' \subseteq Running \cup {c}
      PROVE  Cardinality(Running') <= Cardinality(Running) + 1
  BY <1>2, <1>5, OneMoreElement
<1>6. /\ Running' \subseteq Running => Cardinality(Running') <= Cardinality(Running)
      /\ Holders' \subseteq Holders => Cardinality(Holders') <= Cardinality(Holders)
  BY <1>2, FS_Subset
<1> QED
  BY PoolAssumption, <1>2, <1>3, <1>4, <1>5, <1>6

-----------------------------------------------------------------------------
(* Every action preserves the invariant.                                   *)

LEMMA TicketsDiffer ==
    /\ \A r, s : Outer(r) = Outer(s) => r = s
    /\ \A c, d : Inner(c) = Inner(d) => c = d
    /\ \A r, c : Outer(r) # Inner(c)
BY DEF Outer, Inner

LEMMA TicketsTyped ==
    /\ \A r \in Requests : Outer(r) \in Tickets
    /\ \A c \in Checks : Inner(c) \in Tickets
    /\ \A r \in Requests : \A n \in 0..(MaxRetries - 1) : <<r, n>> \in Checks
    /\ \A c \in Checks : \E r \in Requests : \E n \in 0..(MaxRetries - 1) : c = <<r, n>>
BY DEF Tickets, Checks

LEMMA InitPool ==
    ASSUME Init
    PROVE  PoolInv
<1>1. TypeOK
  BY PoolAssumption DEF Init, TypeOK, Kinds
<1>2. InUse <= PoolSize
  <2>1. Holders = {} /\ Running = {}
    BY DEF Init, Holders, Running
  <2> QED
    BY PoolAssumption, <2>1, FS_EmptySet DEF InUse, Holders, Running
<1>3. ToSet(queue) = {} /\ IsInjective(queue)
  BY DEF Init, ToSet, IsInjective
<1>4. CallsAccounted /\ ReadsAccounted
  BY <1>3 DEF Init, CallsAccounted, CallAccounted, ReadsAccounted
<1>5. ChecksFresh
  BY PoolAssumption, TicketsTyped DEF Init, ChecksFresh, CheckNotAsked
<1>6. ReadsUnderWay
  BY DEF Init, ReadsUnderWay, ReadOfCheck
<1> QED
  BY <1>1, <1>2, <1>3, <1>4, <1>5, <1>6 DEF PoolInv

LEMMA ArriveKeepsPool ==
    ASSUME PoolInv, NEW r \in Requests, NEW k \in Kinds, Arrive(r, k)
    PROVE  PoolInv'
<1>1. Outer(r) \notin ToSet(queue)
  BY DEF Arrive, PoolInv, CallsAccounted, CallAccounted
<1>2. /\ queue' \in Seq(Tickets) /\ IsInjective(queue')
      /\ ToSet(queue') = ToSet(queue) \cup {Outer(r)}
  BY <1>1, AppendIsOnce, TicketsTyped DEF Arrive, PoolInv, TypeOK
<1>3. TypeOK'
  BY <1>2 DEF Arrive, PoolInv, TypeOK, Kinds
<1>4. (InUse <= PoolSize)'
  BY InUseShrinks DEF Arrive, PoolInv, Holders, Running
<1>5. CallsAccounted'
  BY <1>2, TicketsDiffer DEF Arrive, PoolInv, TypeOK, CallsAccounted, CallAccounted
<1>6. ReadsAccounted'
  BY <1>2, TicketsDiffer DEF Arrive, PoolInv, ReadsAccounted
<1>7. ChecksFresh'
  BY DEF Arrive, PoolInv, TypeOK, ChecksFresh, CheckNotAsked
<1>8. ReadsUnderWay'
  BY DEF Arrive, PoolInv, TypeOK, ReadsUnderWay, ReadOfCheck, CheckOf
<1> QED
  BY <1>2, <1>3, <1>4, <1>5, <1>6, <1>7, <1>8 DEF PoolInv

LEMMA ConnectKeepsPool ==
    ASSUME PoolInv, NEW r \in Requests, Connect(r)
    PROVE  PoolInv'
<1>1. /\ queue' \in Seq(Tickets) /\ IsInjective(queue')
      /\ ToSet(queue') = ToSet(queue) \ {Outer(r)}
  BY TailForgetsHead DEF Connect, Granted, PoolInv, TypeOK
<1>2. TypeOK'
  BY <1>1 DEF Connect, PoolInv, TypeOK
<1>3. (InUse <= PoolSize)'
  <2>1. InUse < PoolSize
    BY DEF Connect, Granted
  <2>2. Holders' \subseteq Holders \cup {r} /\ Running' \subseteq Running
    BY DEF Connect, PoolInv, TypeOK, Holders, Running
  <2> QED
    BY <2>1, <2>2, InUseGrowsByOne
<1>4. CallsAccounted'
  BY <1>1, TicketsDiffer DEF Connect, PoolInv, TypeOK, CallsAccounted, CallAccounted
<1>5. ReadsAccounted'
  BY <1>1, TicketsDiffer DEF Connect, PoolInv, ReadsAccounted
<1>6. ChecksFresh'
  BY DEF Connect, PoolInv, TypeOK, ChecksFresh, CheckNotAsked
<1>7. ReadsUnderWay'
  BY DEF Connect, PoolInv, TypeOK, ReadsUnderWay, ReadOfCheck, CheckOf
<1> QED
  BY <1>1, <1>2, <1>3, <1>4, <1>5, <1>6, <1>7 DEF PoolInv

\* The check of this try has not been asked for: its read joins a queue it is not in.
LEMMA FetchListKeepsPool ==
    ASSUME PoolInv, NEW r \in Requests, FetchList(r)
    PROVE  PoolInv'
<1>1. CheckOf(r) \in Checks /\ reading[CheckOf(r)] = "none"
  <2>1. retries[r] \in 0..(MaxRetries - 1)
    <3>1. retries[r] \in 0..MaxRetries
      BY DEF PoolInv, TypeOK
    <3>2. retries[r] < MaxRetries
      BY DEF FetchList, PoolInv, ChecksFresh
    <3> QED
      BY PoolAssumption, <3>1, <3>2
  <2> QED
    BY <2>1, TicketsTyped DEF FetchList, PoolInv, ChecksFresh, CheckNotAsked, CheckOf
<1>2. Inner(CheckOf(r)) \notin ToSet(queue)
  BY <1>1 DEF PoolInv, ReadsAccounted
<1>3. /\ queue' \in Seq(Tickets) /\ IsInjective(queue')
      /\ ToSet(queue') = ToSet(queue) \cup {Inner(CheckOf(r))}
  BY <1>1, <1>2, AppendIsOnce, TicketsTyped DEF FetchList, PoolInv, TypeOK
<1>4. TypeOK'
  BY <1>3 DEF FetchList, PoolInv, TypeOK
<1>5. (InUse <= PoolSize)'
  BY <1>1, InUseShrinks DEF FetchList, PoolInv, TypeOK, Holders, Running
<1>6. CallsAccounted'
  BY <1>3, TicketsDiffer DEF FetchList, PoolInv, TypeOK, CallsAccounted, CallAccounted
<1>7. ReadsAccounted'
  BY <1>1, <1>3, TicketsDiffer DEF FetchList, PoolInv, TypeOK, ReadsAccounted
<1>8. ChecksFresh'
  <2>1. \A s \in Requests : \A n \in 0..(MaxRetries - 1) :
           CheckNotAsked(s, n)' => CheckNotAsked(s, n) /\ <<s, n>> # CheckOf(r)
    BY PoolAssumption DEF FetchList, PoolInv, TypeOK, CheckNotAsked, CheckOf
  <2> QED
    BY <1>1, <2>1, TicketsTyped DEF FetchList, PoolInv, TypeOK, ChecksFresh
<1>9. ReadsUnderWay'
  <2> SUFFICES ASSUME NEW s \in Requests, pc'[s] = "fetch"
               PROVE  reading'[CheckOf(s)] # "none"
    BY DEF FetchList, ReadsUnderWay, ReadOfCheck, CheckOf
  <2>1. CASE s = r
    BY <1>1, <2>1 DEF FetchList, PoolInv, TypeOK
  <2>2. CASE s # r
    <3>1. pc[s] = "fetch" /\ CheckOf(s) # CheckOf(r)
      BY <2>2 DEF FetchList, PoolInv, TypeOK, CheckOf
    <3>2. CheckOf(s) \in Checks
      <4>1. retries[s] \in 0..(MaxRetries - 1)
        <5>1. retries[s] \in 0..MaxRetries
          BY DEF PoolInv, TypeOK
        <5>2. retries[s] < MaxRetries
          BY <3>1 DEF PoolInv, ChecksFresh
        <5> QED
          BY <5>1, <5>2, PoolAssumption
      <4> QED
        BY <4>1, TicketsTyped DEF CheckOf
    <3>3. reading[CheckOf(s)] # "none"
      BY <3>1 DEF PoolInv, ReadsUnderWay, ReadOfCheck
    <3> QED
      BY <3>1, <3>2, <3>3 DEF FetchList, PoolInv, TypeOK
  <2> QED
    BY <2>1, <2>2
<1> QED
  BY <1>3, <1>4, <1>5, <1>6, <1>7, <1>8, <1>9 DEF PoolInv

LEMMA ReadListKeepsPool ==
    ASSUME PoolInv, NEW c \in Checks, ReadList(c)
    PROVE  PoolInv'
<1>1. /\ queue' \in Seq(Tickets) /\ IsInjective(queue')
      /\ ToSet(queue') = ToSet(queue) \ {Inner(c)}
  BY TailForgetsHead DEF ReadList, Granted, PoolInv, TypeOK
<1>2. TypeOK'
  BY <1>1 DEF ReadList, PoolInv, TypeOK
<1>3. (InUse <= PoolSize)'
  <2>1. InUse < PoolSize
    BY DEF ReadList, Granted
  <2>2. Holders' \subseteq Holders /\ Running' \subseteq Running \cup {c}
    BY DEF ReadList, PoolInv, TypeOK, Holders, Running
  <2> QED
    BY <2>1, <2>2, InUseGrowsByOne
<1>4. CallsAccounted'
  BY <1>1, TicketsDiffer DEF ReadList, PoolInv, CallsAccounted, CallAccounted
<1>5. ReadsAccounted'
  BY <1>1, TicketsDiffer DEF ReadList, PoolInv, TypeOK, ReadsAccounted
<1>6. ChecksFresh'
  BY TicketsTyped DEF ReadList, PoolInv, TypeOK, ChecksFresh, CheckNotAsked
<1>7. ReadsUnderWay'
  BY DEF ReadList, PoolInv, TypeOK, ReadsUnderWay, ReadOfCheck, CheckOf
<1> QED
  BY <1>1, <1>2, <1>3, <1>4, <1>5, <1>6, <1>7 DEF PoolInv

\* The read gives its connection back; the check that waited for it, if any still does,
\* ends its call or lets it go on.
LEMMA ListReadKeepsPool ==
    ASSUME PoolInv, NEW c \in Checks, ListRead(c)
    PROVE  PoolInv'
<1>1. c[1] \in Requests
  BY DEF Checks
<1>2. TypeOK'
  BY <1>1 DEF ListRead, Release, PoolInv, TypeOK
<1>3. (InUse <= PoolSize)'
  BY <1>1, InUseShrinks DEF ListRead, Release, PoolInv, TypeOK, Holders, Running
<1>4. CallsAccounted'
  BY <1>1 DEF ListRead, Release, PoolInv, TypeOK, CallsAccounted, CallAccounted
<1>5. ReadsAccounted' /\ IsInjective(queue)'
  BY DEF ListRead, PoolInv, TypeOK, ReadsAccounted
<1>6. ChecksFresh'
  BY <1>1, TicketsTyped DEF ListRead, PoolInv, TypeOK, ChecksFresh, CheckNotAsked
<1>7. ReadsUnderWay'
  BY <1>1 DEF ListRead, PoolInv, TypeOK, ReadsUnderWay, ReadOfCheck, CheckOf
<1> QED
  BY <1>2, <1>3, <1>4, <1>5, <1>6, <1>7 DEF PoolInv

LEMMA FetchTimeoutKeepsPool ==
    ASSUME PoolInv, NEW r \in Requests, FetchTimeout(r)
    PROVE  PoolInv'
<1>1. TypeOK'
  BY DEF FetchTimeout, Release, PoolInv, TypeOK
<1>2. (InUse <= PoolSize)'
  BY InUseShrinks DEF FetchTimeout, Release, PoolInv, TypeOK, Holders, Running
<1>3. CallsAccounted'
  BY DEF FetchTimeout, Release, PoolInv, TypeOK, CallsAccounted, CallAccounted
<1>4. ReadsAccounted' /\ IsInjective(queue)'
  BY DEF FetchTimeout, PoolInv, ReadsAccounted
<1>5. ChecksFresh'
  BY DEF FetchTimeout, PoolInv, TypeOK, ChecksFresh, CheckNotAsked
<1>6. ReadsUnderWay'
  BY DEF FetchTimeout, PoolInv, TypeOK, ReadsUnderWay, ReadOfCheck, CheckOf
<1> QED
  BY <1>1, <1>2, <1>3, <1>4, <1>5, <1>6 DEF PoolInv

LEMMA FinishKeepsPool ==
    ASSUME PoolInv, NEW r \in Requests, Finish(r)
    PROVE  PoolInv'
<1>1. TypeOK'
  BY DEF Finish, Release, PoolInv, TypeOK
<1>2. (InUse <= PoolSize)'
  BY InUseShrinks DEF Finish, Release, PoolInv, TypeOK, Holders, Running
<1>3. CallsAccounted'
  BY DEF Finish, Release, PoolInv, TypeOK, CallsAccounted, CallAccounted
<1>4. ReadsAccounted' /\ IsInjective(queue)'
  BY DEF Finish, PoolInv, ReadsAccounted
<1>5. ChecksFresh'
  BY DEF Finish, PoolInv, TypeOK, ChecksFresh, CheckNotAsked
<1>6. ReadsUnderWay'
  BY DEF Finish, PoolInv, TypeOK, ReadsUnderWay, ReadOfCheck, CheckOf
<1> QED
  BY <1>1, <1>2, <1>3, <1>4, <1>5, <1>6 DEF PoolInv

LEMMA FailKeepsPool ==
    ASSUME PoolInv, NEW r \in Requests, Fail(r)
    PROVE  PoolInv'
<1>1. TypeOK'
  BY DEF Fail, Release, PoolInv, TypeOK
<1>2. (InUse <= PoolSize)'
  BY InUseShrinks DEF Fail, Release, PoolInv, TypeOK, Holders, Running
<1>3. CallsAccounted'
  BY DEF Fail, Release, PoolInv, TypeOK, CallsAccounted, CallAccounted
<1>4. ReadsAccounted' /\ IsInjective(queue)'
  BY DEF Fail, PoolInv, ReadsAccounted
<1>5. ChecksFresh'
  BY DEF Fail, PoolInv, TypeOK, ChecksFresh, CheckNotAsked
<1>6. ReadsUnderWay'
  BY DEF Fail, PoolInv, TypeOK, ReadsUnderWay, ReadOfCheck, CheckOf
<1> QED
  BY <1>1, <1>2, <1>3, <1>4, <1>5, <1>6 DEF PoolInv

\* The next try has a check of its own, which nothing has asked for.
LEMMA BackoffKeepsPool ==
    ASSUME PoolInv, NEW r \in Requests, Backoff(r)
    PROVE  PoolInv'
<1>1. TypeOK'
  <2>1. retries[r] + 1 \in 0..MaxRetries
    <3>1. retries[r] \in 0..MaxRetries
      BY DEF PoolInv, TypeOK
    <3>2. retries[r] < MaxRetries
      BY DEF Backoff, PoolInv, ChecksFresh
    <3> QED
      BY PoolAssumption, <3>1, <3>2
  <2> QED
    BY <2>1 DEF Backoff, PoolInv, TypeOK
<1>2. (InUse <= PoolSize)'
  BY InUseShrinks DEF Backoff, PoolInv, TypeOK, Holders, Running
<1>3. CallsAccounted'
  BY DEF Backoff, PoolInv, TypeOK, CallsAccounted, CallAccounted
<1>4. ReadsAccounted' /\ IsInjective(queue)'
  BY DEF Backoff, PoolInv, ReadsAccounted
<1>5. ChecksFresh'
  <2>1. \A s \in Requests : \A n \in 0..(MaxRetries - 1) :
           CheckNotAsked(s, n)' => CheckNotAsked(s, n)
    BY PoolAssumption DEF Backoff, PoolInv, TypeOK, CheckNotAsked
  <2> QED
    BY <2>1 DEF Backoff, PoolInv, TypeOK, ChecksFresh
<1>6. ReadsUnderWay'
  BY DEF Backoff, PoolInv, TypeOK, ReadsUnderWay, ReadOfCheck, CheckOf
<1> QED
  BY <1>1, <1>2, <1>3, <1>4, <1>5, <1>6 DEF PoolInv

LEMMA RetryKeepsPool ==
    ASSUME PoolInv, NEW r \in Requests, Retry(r)
    PROVE  PoolInv'
<1>1. Outer(r) \notin ToSet(queue)
  BY DEF Retry, PoolInv, CallsAccounted, CallAccounted
<1>2. /\ Append(queue, Outer(r)) \in Seq(Tickets)
      /\ IsInjective(Append(queue, Outer(r)))
      /\ ToSet(Append(queue, Outer(r))) = ToSet(queue) \cup {Outer(r)}
  BY <1>1, AppendIsOnce, TicketsTyped DEF PoolInv, TypeOK
<1>3. /\ \/ /\ pc' = [pc EXCEPT ![r] = "connect"]
            /\ ToSet(queue') = ToSet(queue) \cup {Outer(r)}
         \/ /\ pc' = [pc EXCEPT ![r] = "done"]
            /\ ToSet(queue') = ToSet(queue)
      /\ queue' \in Seq(Tickets) /\ IsInjective(queue')
  BY <1>2 DEF Retry, PoolInv, TypeOK
<1>4. TypeOK'
  BY <1>3 DEF Retry, Release, PoolInv, TypeOK
<1>5. (InUse <= PoolSize)'
  BY InUseShrinks DEF Retry, Release, PoolInv, TypeOK, Holders, Running
<1>6. CallsAccounted'
  BY <1>3, TicketsDiffer DEF Retry, Release, PoolInv, TypeOK, CallsAccounted, CallAccounted
<1>7. ReadsAccounted'
  BY <1>3, TicketsDiffer DEF Retry, PoolInv, ReadsAccounted
<1>8. ChecksFresh'
  BY PoolAssumption DEF Retry, PoolInv, TypeOK, ChecksFresh, CheckNotAsked
<1>9. ReadsUnderWay'
  BY DEF Retry, PoolInv, TypeOK, ReadsUnderWay, ReadOfCheck, CheckOf
<1> QED
  BY <1>3, <1>4, <1>5, <1>6, <1>7, <1>8, <1>9 DEF PoolInv

-----------------------------------------------------------------------------
(* The theorems.                                                           *)

LEMMA NextKeepsPool ==
    ASSUME PoolInv, [Next]_vars
    PROVE  PoolInv'
<1>1. ASSUME NEW r \in Requests, NEW k \in Kinds, Arrive(r, k) PROVE PoolInv'
  BY <1>1, ArriveKeepsPool
<1>2. ASSUME NEW r \in Requests, Step(r) PROVE PoolInv'
  BY <1>2, ConnectKeepsPool, FetchListKeepsPool, FinishKeepsPool, RetryKeepsPool,
     FetchTimeoutKeepsPool DEF Step
<1>3. ASSUME NEW r \in Requests, Backoff(r) \/ Fail(r) PROVE PoolInv'
  BY <1>3, BackoffKeepsPool, FailKeepsPool
<1>4. ASSUME NEW c \in Checks, ReadList(c) \/ ListRead(c) PROVE PoolInv'
  BY <1>4, ReadListKeepsPool, ListReadKeepsPool
<1>5. CASE UNCHANGED vars
  BY <1>5 DEF vars, PoolInv, TypeOK, InUse, CallsAccounted, CallAccounted, ReadsAccounted,
     ChecksFresh, CheckNotAsked, ReadsUnderWay, ReadOfCheck, CheckOf
<1> QED
  BY <1>1, <1>2, <1>3, <1>4, <1>5 DEF Next

LEMMA ProgressStepsPool == [ProgressNext]_progressVars => [Next]_vars
BY DEF ProgressNext, progressVars

LEMMA PoolInvHolds == ProgressSpec => []PoolInv
<1>1. ProgressInit => PoolInv
  BY InitPool DEF ProgressInit
<1>2. PoolInv /\ [ProgressNext]_progressVars => PoolInv'
  BY NextKeepsPool, ProgressStepsPool
<1> QED
  BY <1>1, <1>2, PTL DEF ProgressSpec

\* The variables of the pool keep their types: retries end at MaxRetries, and what is
\* queued is a call or a read of the list for one of its checks.
THEOREM PoolTypeCorrect == ProgressSpec => []TypeOK
<1>1. PoolInv => TypeOK
  BY DEF PoolInv
<1> QED
  BY <1>1, PoolInvHolds, PTL

\* With any number of requests, connections and retries the pool is never overdrawn, a
\* call that was answered holds no connection, and what waits is queued exactly once.
THEOREM PoolStaysAccounted == ProgressSpec => []ConnectionsAccounted
<1>1. PoolInv => ConnectionsAccounted
  BY DEF PoolInv, ConnectionsAccounted, CallsAccounted, CallAccounted, ReadsAccounted
<1> QED
  BY <1>1, PoolInvHolds, PTL

\* A timeout strikes when nothing moves: the read it waits for is queued, so no connection
\* is free, no read runs, and whoever holds one is in a check itself.
LEMMA TimeoutStarves ==
    ASSUME PoolInv, NEW r \in Requests, FetchTimeout(r)
    PROVE  Cardinality(Changing) = PoolSize
<1>1. CheckOf(r) \in Checks /\ reading[CheckOf(r)] = "waiting"
  <2>1. retries[r] \in 0..(MaxRetries - 1)
    <3>1. pc[r] = "fetch"
      BY DEF FetchTimeout
    <3>2. retries[r] < MaxRetries
      BY <3>1 DEF PoolInv, ChecksFresh
    <3>3. retries[r] \in 0..MaxRetries
      BY DEF PoolInv, TypeOK
    <3> QED
      BY <3>2, <3>3, PoolAssumption
  <2>2. CheckOf(r) \in Checks
    BY <2>1, TicketsTyped DEF CheckOf
  <2>3. reading[CheckOf(r)] # "none"
    BY DEF FetchTimeout, PoolInv, ReadsUnderWay, ReadOfCheck
  <2>4. reading[CheckOf(r)] # "running"
    BY <2>2 DEF FetchTimeout, PoolMoves
  <2> QED
    BY <2>2, <2>3, <2>4 DEF PoolInv, TypeOK
<1>2. queue # <<>>
  BY <1>1 DEF PoolInv, ReadsAccounted, ToSet
<1>3. Running = {}
  BY DEF FetchTimeout, PoolMoves, Running
<1>4. Holders = Changing
  BY DEF FetchTimeout, PoolMoves, PoolInv, TypeOK, CallsAccounted, CallAccounted, Holders, Changing
<1>5. InUse = Cardinality(Holders) + Cardinality(Running)
  BY DEF InUse, Holders, Running
<1>6. Cardinality(Running) = 0
  BY <1>3, FS_EmptySet
<1>7. Cardinality(Holders) \in Nat
  BY InUseIsCounted DEF Holders
<1>8. InUse <= PoolSize /\ ~(InUse < PoolSize)
  BY <1>2 DEF FetchTimeout, PoolMoves, PoolInv
<1> QED
  BY <1>4, <1>5, <1>6, <1>7, <1>8, PoolAssumption

\* With fewer than PoolSize revocations and activations in their check no fetch of a status
\* list times out, however many issuances, reads and retries share the pool.
THEOREM ChecksStarveByChangesOnly == ProgressSpec => StarvedOnlyByChanges
<1>1. PoolInv /\ [Next]_vars => [timedOut' # timedOut => Cardinality(Changing) = PoolSize]_vars
  <2> SUFFICES ASSUME PoolInv, Next, timedOut' # timedOut
               PROVE  Cardinality(Changing) = PoolSize
    BY DEF vars
  <2>1. ASSUME NEW r \in Requests, NEW k \in Kinds PROVE ~Arrive(r, k)
    BY DEF Arrive
  <2>2. ASSUME NEW r \in Requests
        PROVE  ~(Connect(r) \/ FetchList(r) \/ Finish(r) \/ Retry(r) \/ Backoff(r) \/ Fail(r))
    BY DEF Connect, FetchList, Finish, Retry, Backoff, Fail
  <2>3. ASSUME NEW c \in Checks PROVE ~(ReadList(c) \/ ListRead(c))
    BY DEF ReadList, ListRead
  <2>4. PICK r \in Requests : FetchTimeout(r)
    BY <2>1, <2>2, <2>3 DEF Next, Step
  <2> QED
    BY <2>4, TimeoutStarves
<1>2. PoolInv /\ [ProgressNext]_progressVars
          => [timedOut' # timedOut => Cardinality(Changing) = PoolSize]_vars
  BY <1>1, ProgressStepsPool
<1> QED
  BY <1>2, PoolInvHolds, PTL DEF ProgressSpec, StarvedOnlyByChanges

-----------------------------------------------------------------------------
(* The generator.                                                          *)

\* What is drawn of, and what profiles are asked for, are lists; no generation has failed
\* by the page.
GeneratorInv ==
    /\ identifiers \subseteq Names
    /\ listed # None => listed \in Seq(Names)
    /\ asked # None => asked \in Seq(Names)
    /\ DOMAIN rejected = Generating!Jobs
    /\ FailuresComeFromOutside

LEMMA InitGenerator == ProgressInit => GeneratorInv
BY GeneratorAssumption DEF ProgressInit, Generating!Init, Generating!Jobs, GeneratorInv,
   FailuresComeFromOutside, Generating!FailuresComeFromOutside

\* A step that leaves the lists alone or shortens nothing, and blames one job at most.
LEMMA BlameKeepsGenerator ==
    ASSUME GeneratorInv, NEW j \in Generating!Jobs, NEW who, who # "page",
           rejected' = [rejected EXCEPT ![j] = who],
           identifiers' \subseteq Names, listed' = listed, asked' \in {asked, listed, None}
    PROVE  GeneratorInv'
BY DEF GeneratorInv, FailuresComeFromOutside, Generating!FailuresComeFromOutside

LEMMA ReceiveKeepsGenerator ==
    ASSUME GeneratorInv, Generating!ReceiveProfiles
    PROVE  GeneratorInv'
<1>1. PICK k \in Generating!Counts :
        rejected' = [rejected EXCEPT !["profiles"] =
                        IF 1..k \subseteq DOMAIN asked THEN None
                        ELSE IF k = Len(asked) THEN "page" ELSE "service"]
  BY DEF Generating!ReceiveProfiles, Generating!ProfileList
<1>2. asked \in Seq(Names)
  BY DEF Generating!ReceiveProfiles, GeneratorInv
<1>3. k = Len(asked) => 1..k \subseteq DOMAIN asked
  BY <1>2
<1> DEFINE who == IF 1..k \subseteq DOMAIN asked THEN None
                  ELSE IF k = Len(asked) THEN "page" ELSE "service"
<1>4. who # "page"
  BY <1>3, GeneratorAssumption
<1>5. "profiles" \in Generating!Jobs /\ rejected' = [rejected EXCEPT !["profiles"] = who]
  BY <1>1 DEF Generating!Jobs
<1>6. identifiers' \subseteq Names /\ listed' = listed /\ asked' \in {asked, listed, None}
  BY DEF Generating!ReceiveProfiles, GeneratorInv
<1> HIDE DEF who
<1> QED
  BY <1>4, <1>5, <1>6, BlameKeepsGenerator

LEMMA P2PKeepsGenerator ==
    ASSUME GeneratorInv, Generating!GenerateP2P
    PROVE  GeneratorInv'
<1>1. listed \in Seq(Names)
  BY DEF Generating!GenerateP2P, GeneratorInv
<1>2. PICK m \in Generating!Counts, n \in Generating!Counts :
      \E from \in Generating!RandomIndexes(Len(listed), Generating!Least(m, Len(listed))),
         to \in Generating!RandomIndexes(Len(listed), Generating!Least(n, Len(listed))) :
         rejected' = [rejected EXCEPT !["p2p"] =
            IF Generating!Within(from, to) = Generating!Pairs(from, to) THEN None ELSE "page"]
  BY DEF Generating!GenerateP2P
<1>3. PICK from \in Generating!RandomIndexes(Len(listed), Generating!Least(m, Len(listed))),
           to \in Generating!RandomIndexes(Len(listed), Generating!Least(n, Len(listed))) :
         rejected' = [rejected EXCEPT !["p2p"] =
            IF Generating!Within(from, to) = Generating!Pairs(from, to) THEN None ELSE "page"]
  BY <1>2
<1>4. /\ \A i \in DOMAIN from : from[i] \in DOMAIN listed
      /\ \A k \in DOMAIN to : to[k] \in DOMAIN listed
  BY <1>1, <1>3 DEF Generating!RandomIndexes
<1>5. Generating!Within(from, to) = Generating!Pairs(from, to)
  BY <1>4 DEF Generating!Within, Generating!Pairs
<1>6. rejected' = [rejected EXCEPT !["p2p"] = None] /\ "p2p" \in Generating!Jobs
  BY <1>3, <1>5 DEF Generating!Jobs
<1>7. identifiers' \subseteq Names /\ listed' = listed /\ asked' = asked
  BY DEF Generating!GenerateP2P, GeneratorInv
<1> QED
  BY <1>6, <1>7, GeneratorAssumption, BlameKeepsGenerator

LEMMA SettleKeepsGenerator ==
    ASSUME GeneratorInv, NEW j \in Generating!Jobs, Generating!Settle(j)
    PROVE  GeneratorInv'
<1>1. /\ listed' = listed /\ asked' = asked
      /\ \/ identifiers' = identifiers \/ \E name \in Names : identifiers' = identifiers \cup {name}
      /\ \/ rejected' = rejected
         \/ rejected' = [rejected EXCEPT ![j] = IF @ = None THEN "agent" ELSE @]
  BY DEF Generating!Settle
<1>2. identifiers' \subseteq Names
  BY <1>1 DEF GeneratorInv
<1>3. CASE rejected' = rejected
  BY <1>1, <1>2, <1>3 DEF GeneratorInv, FailuresComeFromOutside, Generating!FailuresComeFromOutside
<1>4. CASE rejected' = [rejected EXCEPT ![j] = IF @ = None THEN "agent" ELSE @]
  <2>1. rejected[j] # "page"
    BY DEF GeneratorInv, FailuresComeFromOutside, Generating!FailuresComeFromOutside
  <2> QED
    BY <1>1, <1>2, <1>4, <2>1 DEF GeneratorInv, FailuresComeFromOutside,
       Generating!FailuresComeFromOutside
<1> QED
  BY <1>1, <1>3, <1>4

LEMMA ListKeepsGenerator ==
    ASSUME GeneratorInv, Generating!List
    PROVE  GeneratorInv'
<1>1. Cardinality(identifiers) \in Nat
  BY GeneratorAssumption, FS_Subset, FS_CardinalityType DEF GeneratorInv
<1>2. listed' \in [1..Cardinality(identifiers) -> identifiers]
  <2>1. Generating!Cardinality(identifiers) = Cardinality(identifiers)
    BY DEF Generating!Cardinality, Cardinality
  <2> QED
    BY <2>1 DEF Generating!List, Generating!Bijection, Generating!Injection
<1>3. listed' \in Seq(Names)
  BY <1>1, <1>2 DEF GeneratorInv
<1> QED
  BY <1>3 DEF Generating!List, GeneratorInv, FailuresComeFromOutside,
     Generating!FailuresComeFromOutside

LEMMA NextKeepsGenerator ==
    ASSUME GeneratorInv, [Generating!Next]_generatorVars
    PROVE  GeneratorInv'
<1>1. CASE Generating!GenerateIdentifiers
  BY <1>1, BlameKeepsGenerator, GeneratorAssumption
  DEF Generating!GenerateIdentifiers, Generating!Jobs, GeneratorInv
<1>2. CASE Generating!GenerateProfiles
  BY <1>2, BlameKeepsGenerator, GeneratorAssumption
  DEF Generating!GenerateProfiles, Generating!Jobs, GeneratorInv
<1>3. CASE Generating!ReceiveProfiles
  BY <1>3, ReceiveKeepsGenerator
<1>4. CASE Generating!NoProfiles
  BY <1>4, BlameKeepsGenerator DEF Generating!NoProfiles, Generating!Jobs, GeneratorInv
<1>5. CASE Generating!GenerateP2P
  BY <1>5, P2PKeepsGenerator
<1>6. CASE Generating!List
  BY <1>6, ListKeepsGenerator
<1>7. CASE Generating!DeleteIdentifier
  BY <1>7 DEF Generating!DeleteIdentifier, GeneratorInv, FailuresComeFromOutside,
     Generating!FailuresComeFromOutside
<1>8. ASSUME NEW j \in Generating!Jobs, Generating!Settle(j)
      PROVE  GeneratorInv'
  BY <1>8, SettleKeepsGenerator
<1>9. ASSUME NEW j \in Generating!Jobs, Generating!Finish(j)
      PROVE  GeneratorInv'
  BY <1>9 DEF Generating!Finish, GeneratorInv, FailuresComeFromOutside,
     Generating!FailuresComeFromOutside
<1>10. CASE UNCHANGED generatorVars
  BY <1>10 DEF generatorVars, GeneratorInv, FailuresComeFromOutside,
     Generating!FailuresComeFromOutside
<1> QED
  BY <1>1, <1>2, <1>3, <1>4, <1>5, <1>6, <1>7, <1>8, <1>9, <1>10 DEF Generating!Next

\* However many identifiers there come to be and are deleted, whatever number is typed, and
\* whenever the list is fetched again, no position is past the end of the list it is used
\* with: a generation fails by the agent or the service of profiles only.
THEOREM ThePageNeverFails == ProgressSpec => []FailuresComeFromOutside
<1>1. ProgressInit => GeneratorInv
  BY InitGenerator
<1>2. [ProgressNext]_progressVars => [Generating!Next]_generatorVars
  BY DEF ProgressNext, progressVars, newVars
<1>3. GeneratorInv /\ [ProgressNext]_progressVars => GeneratorInv'
  BY <1>2, NextKeepsGenerator
<1>4. GeneratorInv => FailuresComeFromOutside
  BY DEF GeneratorInv
<1> QED
  BY <1>1, <1>3, <1>4, PTL DEF ProgressSpec
=============================================================================
