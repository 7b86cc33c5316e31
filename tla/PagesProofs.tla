----------------------------- MODULE PagesProofs -----------------------------
(***************************************************************************)
(* The explorer's pages and forms, for every value of the constants of     *)
(* Clients: the quick setup of an identifier, search and profiles, the     *)
(* pages on a credential, issuing and presenting, and the forms.  Each     *)
(* part has its own invariant, which every step of Clients keeps: it is a  *)
(* step of that part or leaves its variables alone.                        *)
(***************************************************************************)
EXTENDS Clients, TLAPS

-----------------------------------------------------------------------------
(* The quick setup.                                                        *)

\* What the agent has of an identifier.
Documented == [keys : SUBSET KeyIds, service : BOOLEAN]

TaskFields == {"kind", "did", "at", "key"}

\* A setup that is past its key has the key on its identifier, unless a user took it away;
\* one of a did:peer has no key to add.
TaskOk(v) ==
    /\ DOMAIN v = TaskFields
    /\ v.kind \in {"setup", "addKey"} /\ v.at = "add" => v.key \in KeyIds
    /\ v.kind = "setup" /\ v.at \in {"create", "add", "service", "mediate"} => v.did \in PageDids
    /\ v.kind = "setup" /\ v.at \in {"create", "add", "service"} => ~Pages!Peer(v.did)
    /\ v.kind = "setup" /\ v.at \in {"service", "mediate"} /\ ~Pages!Peer(v.did) =>
         v.did \in byHand \/ (dids[v.did] # None /\ v.key \in dids[v.did].keys)

ServiceHasKey ==
    \A d \in PageDids \ byHand :
        dids[d] # None /\ dids[d].service /\ ~Pages!Peer(d) => dids[d].keys # {}

SetupInv ==
    /\ dids \in [PageDids -> Documented \cup {None}]
    /\ DOMAIN tasks = Tasks
    /\ \A t \in Tasks : TaskOk(tasks[t])
    /\ DOMAIN failed = PageDids
    /\ ServiceHasKey

\* Identifiers that no user touched keep the keys they have.
Grows ==
    /\ byHand \subseteq byHand'
    /\ \A d \in PageDids \ byHand' :
         dids[d] # None => dids'[d] # None /\ dids[d].keys \subseteq dids'[d].keys

LEMMA IdleOk == TaskOk(Pages!Idle)
BY DEF TaskOk, Pages!Idle, TaskFields

\* One task moves to a state that is right, the others are as right as they were.
LEMMA TaskMoves ==
    ASSUME SetupInv, NEW t \in Tasks, NEW v, tasks' = [tasks EXCEPT ![t] = v], TaskOk(v)',
           Grows, dids' \in [PageDids -> Documented \cup {None}], ServiceHasKey', DOMAIN failed' = PageDids
    PROVE  SetupInv'
<1>1. \A q \in Tasks : tasks'[q] = IF q = t THEN v ELSE tasks[q]
  BY DEF SetupInv
<1>2. ASSUME NEW q \in Tasks, NEW u, u = tasks[q]
      PROVE  TaskOk(u)'
  BY <1>2 DEF SetupInv, TaskOk, Grows
<1>3. \A q \in Tasks : TaskOk(tasks[q])'
  <2> SUFFICES ASSUME NEW q \in Tasks
               PROVE  TaskOk(tasks[q])'
    OBVIOUS
  <2> DEFINE u == tasks[q]
  <2>1. CASE q = t
    BY <1>1, <2>1 DEF TaskOk
  <2>2. CASE q # t
    BY <1>1, <1>2, <2>2 DEF TaskOk
  <2> QED
    BY <2>1, <2>2
<1> QED
  BY <1>3 DEF SetupInv

LEMMA NothingMoves ==
    ASSUME SetupInv, UNCHANGED tasks, Grows, dids' \in [PageDids -> Documented \cup {None}],
           ServiceHasKey', DOMAIN failed' = PageDids
    PROVE  SetupInv'
<1>1. \A q \in Tasks : TaskOk(tasks[q])'
  BY DEF SetupInv, TaskOk, Grows
<1> QED
  BY <1>1 DEF SetupInv

\* The agent changes an identifier.
LEMMA DidSet ==
    ASSUME PagesAssumption, SetupInv, NEW d \in PageDids, NEW r \in Documented,
           dids' = [dids EXCEPT ![d] = r], byHand \subseteq byHand',
           d \in byHand' \/ dids[d] = None \/ dids[d].keys \subseteq r.keys,
           d \in byHand' \/ Pages!Peer(d) \/ ~r.service \/ r.keys # {}
    PROVE  Grows /\ dids' \in [PageDids -> Documented \cup {None}] /\ ServiceHasKey'
<1>1. \A e \in PageDids : dids'[e] = IF e = d THEN r ELSE dids[e]
  BY DEF SetupInv
<1>2. r # None
  BY DEF PagesAssumption, Documented
<1>3. dids' \in [PageDids -> Documented \cup {None}]
  BY DEF SetupInv
<1> QED
  BY <1>1, <1>2, <1>3 DEF SetupInv, Grows, ServiceHasKey, Pages!Peer

LEMMA DidsSame ==
    ASSUME SetupInv, UNCHANGED dids, byHand \subseteq byHand'
    PROVE  Grows /\ dids' \in [PageDids -> Documented \cup {None}] /\ ServiceHasKey'
BY DEF SetupInv, Grows, ServiceHasKey, Pages!Peer

-----------------------------------------------------------------------------
\* The end of a setup, or of another task.
Stops(t) == tasks' = [tasks EXCEPT ![t] = Pages!Idle] /\ DOMAIN failed' = PageDids /\ UNCHANGED byHand

LEMMA StoppedOk == TaskOk(Pages!Idle)'
BY DEF TaskOk, Pages!Idle, TaskFields

LEMMA SetupsStop ==
    ASSUME SetupInv, NEW t \in Tasks,
           Pages!EndSetup(t, TRUE) \/ Pages!EndSetup(t, FALSE) \/ Pages!FailSetup(t)
    PROVE  Stops(t)
BY DEF Pages!EndSetup, Pages!FailSetup, Pages!Stop, Pages!pageVars, Stops, SetupInv

LEMMA StoppingKeepsSetup ==
    ASSUME SetupInv, NEW t \in Tasks, Stops(t),
           Grows, dids' \in [PageDids -> Documented \cup {None}], ServiceHasKey'
    PROVE  SetupInv'
BY StoppedOk, TaskMoves DEF Stops

\* A task moves and the agent's identifiers stay as they are.
LEMMA MovingKeepsSetup ==
    ASSUME SetupInv, NEW t \in Tasks, NEW v, tasks' = [tasks EXCEPT ![t] = v], TaskOk(v)',
           UNCHANGED dids, byHand \subseteq byHand', DOMAIN failed' = PageDids
    PROVE  SetupInv'
BY DidsSame, TaskMoves

LEMMA CreateKeyKeepsSetup ==
    ASSUME SetupInv, NEW t \in Tasks, Pages!CreateKey(t)
    PROVE  SetupInv'
<1>1. CASE Stops(t)
  BY <1>1, DidsSame, StoppingKeepsSetup DEF Pages!CreateKey, Stops
<1>2. CASE \E k \in KeyIds : tasks' = [tasks EXCEPT ![t].key = k, ![t].at = "add"] /\ UNCHANGED Pages!pageVars
  <2>1. PICK k \in KeyIds : tasks' = [tasks EXCEPT ![t].key = k, ![t].at = "add"] /\ UNCHANGED Pages!pageVars
    BY <1>2
  <2>2. PICK v : v = [tasks[t] EXCEPT !.key = k, !.at = "add"]
    OBVIOUS
  <2>3. TaskOk(tasks[t]) /\ tasks[t].at = "create"
    BY DEF SetupInv, Pages!CreateKey
  <2>4. TaskOk(v)'
    BY <2>2, <2>3 DEF TaskOk, TaskFields
  <2>5. tasks' = [tasks EXCEPT ![t] = v]
    BY <2>1, <2>2
  <2> QED
    BY <2>1, <2>4, <2>5, MovingKeepsSetup DEF Pages!CreateKey, Pages!pageVars, SetupInv
<1>3. Pages!FailSetup(t) => Stops(t)
  BY SetupsStop
<1>4. Pages!Stop(t) /\ UNCHANGED Pages!pageVars => Stops(t)
  BY DEF Pages!Stop, Pages!pageVars, Stops, SetupInv
<1> QED
  BY <1>1, <1>2, <1>3, <1>4 DEF Pages!CreateKey

\* The record of an identifier with a key more.
LEMMA WithKey ==
    ASSUME PagesAssumption, SetupInv, NEW d \in Pages!Managed, NEW k \in KeyIds,
           dids' = [dids EXCEPT ![d].keys = @ \cup {k}], UNCHANGED byHand
    PROVE  /\ Grows /\ dids' \in [PageDids -> Documented \cup {None}] /\ ServiceHasKey'
           /\ d \in PageDids /\ dids'[d] # None /\ k \in dids'[d].keys
<1>1. d \in PageDids /\ dids[d] \in Documented
  BY DEF Pages!Managed, SetupInv
<1>2. PICK r : r = [dids[d] EXCEPT !.keys = @ \cup {k}]
  OBVIOUS
<1>3. r \in Documented /\ r.keys = dids[d].keys \cup {k}
  BY <1>1, <1>2 DEF Documented
<1>4. dids' = [dids EXCEPT ![d] = r]
  BY <1>2
<1>5. dids'[d] = r /\ r # None
  BY <1>1, <1>3, <1>4 DEF SetupInv, PagesAssumption, Documented
<1> QED
  BY <1>1, <1>3, <1>4, <1>5, DidSet

\* The record of an identifier with its service, or without.
LEMMA WithService ==
    ASSUME PagesAssumption, SetupInv, NEW d \in Pages!Managed, NEW on \in BOOLEAN,
           dids' = [dids EXCEPT ![d].service = on], byHand \subseteq byHand',
           d \in byHand' \/ Pages!Peer(d) \/ dids[d].keys # {}
    PROVE  /\ Grows /\ dids' \in [PageDids -> Documented \cup {None}] /\ ServiceHasKey'
           /\ dids'[d].service = on /\ dids'[d].keys = dids[d].keys
<1>1. d \in PageDids /\ dids[d] \in Documented
  BY DEF Pages!Managed, SetupInv
<1>2. PICK r : r = [dids[d] EXCEPT !.service = on]
  OBVIOUS
<1>3. r \in Documented /\ r.keys = dids[d].keys /\ r.service = on
  BY <1>1, <1>2 DEF Documented
<1>4. dids' = [dids EXCEPT ![d] = r]
  BY <1>2
<1>5. dids'[d] = r
  BY <1>1, <1>4 DEF SetupInv
<1> QED
  BY <1>1, <1>3, <1>4, <1>5, DidSet

LEMMA AddKeyKeepsSetup ==
    ASSUME PagesAssumption, SetupInv, NEW t \in Tasks, Pages!AddKey(t)
    PROVE  SetupInv'
<1> DEFINE d == tasks[t].did
           k == tasks[t].key
<1>1. tasks[t].kind = "setup" /\ tasks[t].at = "add" /\ TaskOk(tasks[t])
  BY DEF Pages!AddKey, Pages!At, SetupInv
<1>2. CASE UNCHANGED dids /\ Pages!FailSetup(t)
  BY <1>2, SetupsStop, DidsSame, StoppingKeepsSetup DEF Stops
<1>3. CASE /\ d \in Pages!Managed /\ dids' = [dids EXCEPT ![d].keys = @ \cup {k}]
           /\ Pages!Now(t, Pages!Branch(d)) /\ UNCHANGED Pages!pageVars
  <2>1. k \in KeyIds
    BY <1>1 DEF TaskOk
  <2>2. UNCHANGED <<byHand, failed>>
    BY <1>3 DEF Pages!pageVars
  <2> HIDE DEF k
  <2>3. /\ Grows /\ dids' \in [PageDids -> Documented \cup {None}] /\ ServiceHasKey'
        /\ d \in PageDids /\ dids'[d] # None /\ k \in dids'[d].keys
    BY <1>3, <2>1, <2>2, WithKey
  <2>4. PICK v : v = [tasks[t] EXCEPT !.at = Pages!Branch(d)]
    OBVIOUS
  <2>5. tasks' = [tasks EXCEPT ![t] = v]
    BY <1>3, <2>4 DEF Pages!Now
  <2>6. Pages!Branch(d) \in {"mediate", "service"}
    BY DEF Pages!Branch
  <2>7. v.kind = "setup" /\ v.did = d /\ v.key = k /\ v.at = Pages!Branch(d) /\ DOMAIN v = TaskFields
    BY <1>1, <2>4 DEF TaskOk, TaskFields, k
  <2>8. ~Pages!Peer(d)
    BY <1>1 DEF TaskOk
  <2> HIDE DEF d
  <2>9. TaskOk(v)'
    BY <2>3, <2>6, <2>7, <2>8 DEF TaskOk, Pages!Peer
  <2> QED
    BY <2>2, <2>3, <2>5, <2>9, TaskMoves DEF SetupInv
<1> QED
  BY <1>2, <1>3 DEF Pages!AddKey, Pages!Did

\* What a setup does last: it adds the service, or the mediator does.
LEMMA ServiceKeepsSetup ==
    ASSUME PagesAssumption, SetupInv, NEW t \in Tasks, Pages!AddService(t) \/ Pages!Mediate(t)
    PROVE  SetupInv'
<1> DEFINE d == tasks[t].did
<1>1. tasks[t].kind = "setup" /\ tasks[t].at \in {"service", "mediate"} /\ TaskOk(tasks[t])
  BY DEF Pages!AddService, Pages!Mediate, Pages!At, SetupInv
<1>2. Stops(t)
  BY SetupsStop DEF Pages!AddService, Pages!Mediate
<1>3. CASE UNCHANGED dids
  BY <1>2, <1>3, DidsSame, StoppingKeepsSetup DEF Stops
<1>4. CASE d \in Pages!Managed /\ dids' = [dids EXCEPT ![d].service = TRUE]
  <2>1. d \in byHand' \/ Pages!Peer(d) \/ dids[d].keys # {}
    BY <1>1, <1>2 DEF TaskOk, Stops
  <2> HIDE DEF d
  <2>2. Grows /\ dids' \in [PageDids -> Documented \cup {None}] /\ ServiceHasKey'
    BY <1>2, <1>4, <2>1, WithService DEF Stops
  <2> QED
    BY <1>2, <2>2, StoppingKeepsSetup
<1> QED
  BY <1>3, <1>4 DEF Pages!AddService, Pages!Mediate, Pages!Did

LEMMA AddCreatedKeyKeepsSetup ==
    ASSUME PagesAssumption, SetupInv, NEW t \in Tasks, Pages!AddCreatedKey(t)
    PROVE  SetupInv'
<1> DEFINE d == tasks[t].did
           k == tasks[t].key
<1>1. Stops(t)
  BY DEF Pages!AddCreatedKey, Pages!Stop, Pages!pageVars, Stops, SetupInv
<1>2. CASE UNCHANGED dids
  BY <1>1, <1>2, DidsSame, StoppingKeepsSetup DEF Stops
<1>3. CASE d \in Pages!Managed /\ dids' = [dids EXCEPT ![d].keys = @ \cup {k}]
  <2>1. k \in KeyIds
    BY DEF SetupInv, TaskOk, Pages!AddCreatedKey, Pages!At
  <2> HIDE DEF d, k
  <2> QED
    BY <1>1, <1>3, <2>1, WithKey, StoppingKeepsSetup DEF Stops
<1> QED
  BY <1>2, <1>3 DEF Pages!AddCreatedKey, Pages!Did

LEMMA ClickKeepsSetup ==
    ASSUME SetupInv, NEW t \in Tasks, NEW d \in PageDids, Pages!Click(t, d)
    PROVE  SetupInv'
<1>1. PICK v : /\ tasks' = [tasks EXCEPT ![t] = v]
               /\ v = [Pages!Idle EXCEPT !.kind = "setup", !.did = d,
                                         !.at = IF Pages!Peer(d) THEN "mediate" ELSE "create"]
                  \/ v = [Pages!Idle EXCEPT !.kind = "addKey", !.did = d, !.at = "create"]
                  \/ v = [Pages!Idle EXCEPT !.kind = "delete", !.did = d, !.at = "delete"]
                  \/ v = [Pages!Idle EXCEPT !.kind = "create", !.did = d, !.at = "did"]
  BY DEF Pages!Click, Pages!StartSetup, Pages!StartAddKey, Pages!StartDelete, Pages!StartCreate
<1>2. TaskOk(v)'
  BY <1>1 DEF TaskOk, TaskFields, Pages!Idle, Pages!Peer
<1>3. UNCHANGED <<dids, failed>> /\ byHand \subseteq byHand'
  BY DEF Pages!Click, Pages!StartSetup, Pages!StartAddKey, Pages!StartDelete, Pages!StartCreate, Pages!pageVars
<1> QED
  BY <1>1, <1>2, <1>3, MovingKeepsSetup DEF SetupInv

LEMMA DeleteKeepsSetup ==
    ASSUME SetupInv, NEW t \in Tasks, Pages!Delete(t)
    PROVE  SetupInv'
<1>1. tasks' = [tasks EXCEPT ![t] = Pages!Idle] /\ UNCHANGED failed
  BY DEF Pages!Delete, Pages!Stop
<1>2. PICK d : \/ UNCHANGED <<dids, byHand>>
               \/ d \in PageDids /\ dids' = [dids EXCEPT ![d] = None] /\ byHand' = byHand \cup {d}
  BY DEF Pages!Delete, Pages!Managed
<1>3. Grows /\ dids' \in [PageDids -> Documented \cup {None}] /\ ServiceHasKey'
  BY <1>2 DEF SetupInv, Grows, ServiceHasKey, Pages!Peer
<1> QED
  BY <1>1, <1>3, StoppedOk, TaskMoves DEF SetupInv

LEMMA CreateDidKeepsSetup ==
    ASSUME PagesAssumption, SetupInv, NEW t \in Tasks, Pages!CreateDid(t)
    PROVE  SetupInv'
<1> DEFINE d == tasks[t].did
<1>1. UNCHANGED Pages!pageVars /\ tasks[t].kind = "create"
  BY DEF Pages!CreateDid, Pages!At
<1>2. CASE UNCHANGED dids /\ Pages!Stop(t)
  BY <1>1, <1>2, DidsSame, StoppingKeepsSetup DEF Stops, Pages!Stop, Pages!pageVars, SetupInv
<1>3. CASE /\ d \notin Pages!Managed
           /\ \E k \in KeyIds : dids' = [dids EXCEPT ![d] = [keys |-> {k}, service |-> FALSE]]
           /\ Pages!Now(t, IF Pages!Peer(d) THEN "ask mediator" ELSE "close")
  <2>1. PICK v : v = [tasks[t] EXCEPT !.at = IF Pages!Peer(d) THEN "ask mediator" ELSE "close"]
    OBVIOUS
  <2>2. tasks' = [tasks EXCEPT ![t] = v]
    BY <1>3, <2>1 DEF Pages!Now
  <2>3. TaskOk(tasks[t])
    BY DEF SetupInv
  <2>4. v.kind = "create" /\ v.at \in {"ask mediator", "close"} /\ DOMAIN v = TaskFields
    BY <1>1, <2>1, <2>3 DEF TaskOk, TaskFields
  <2>5. TaskOk(v)'
    BY <2>4 DEF TaskOk
  <2>6. PICK k \in KeyIds : dids' = [dids EXCEPT ![d] = [keys |-> {k}, service |-> FALSE]]
    BY <1>3
  <2>7. PICK r : r = [keys |-> {k}, service |-> FALSE]
    OBVIOUS
  <2>8. r \in Documented /\ r.service = FALSE
    BY <2>7 DEF Documented
  <2> HIDE DEF d
  <2>10. CASE d \in PageDids
    BY <1>1, <1>3, <2>2, <2>5, <2>6, <2>7, <2>8, <2>10, DidSet, TaskMoves
       DEF Pages!Managed, Pages!pageVars, SetupInv
  <2>11. CASE d \notin PageDids
    <3>1. UNCHANGED dids
      BY <2>6, <2>11 DEF SetupInv
    <3> QED
      BY <1>1, <2>2, <2>5, <3>1, MovingKeepsSetup DEF Pages!pageVars, SetupInv
  <2> QED
    BY <2>10, <2>11
<1> QED
  BY <1>2, <1>3 DEF Pages!CreateDid, Pages!Did

LEMMA ClosingKeepsSetup ==
    ASSUME SetupInv, NEW t \in Tasks, Pages!AskMediator(t) \/ Pages!CloseForm(t)
    PROVE  SetupInv'
<1>1. UNCHANGED <<dids, byHand, failed>> /\ tasks[t].kind = "create" /\ TaskOk(tasks[t])
  BY DEF Pages!AskMediator, Pages!CloseForm, Pages!At, Pages!pageVars, SetupInv
<1>2. CASE Pages!Stop(t)
  BY <1>1, <1>2, DidsSame, StoppingKeepsSetup DEF Stops, Pages!Stop, SetupInv
<1>3. CASE Pages!Now(t, "close")
  <2>1. PICK v : v = [tasks[t] EXCEPT !.at = "close"]
    OBVIOUS
  <2>2. TaskOk(v)'
    BY <1>1, <2>1 DEF TaskOk, TaskFields
  <2> QED
    BY <1>1, <1>3, <2>1, <2>2, MovingKeepsSetup DEF Pages!Now, SetupInv
<1> QED
  BY <1>2, <1>3 DEF Pages!AskMediator, Pages!CloseForm

LEMMA ByHandKeepsSetup ==
    ASSUME PagesAssumption, SetupInv, NEW d \in PageDids,
           Pages!FindWeb(d) \/ Pages!RemoveKey(d) \/ Pages!SetService(d)
    PROVE  SetupInv'
<1>1. UNCHANGED <<tasks, failed>>
  BY DEF Pages!FindWeb, Pages!RemoveKey, Pages!SetService
<1>2. Grows /\ dids' \in [PageDids -> Documented \cup {None}] /\ ServiceHasKey'
  <2>1. CASE Pages!FindWeb(d)
    BY <2>1, DidsSame DEF Pages!FindWeb
  <2>2. CASE Pages!RemoveKey(d)
    <3>1. PICK k : d \in Pages!Managed /\ byHand' = byHand \cup {d}
                   /\ dids' = [dids EXCEPT ![d].keys = @ \ {k}]
      BY <2>2 DEF Pages!RemoveKey
    <3>2. PICK r : r = [dids[d] EXCEPT !.keys = @ \ {k}]
      OBVIOUS
    <3>3. dids[d] \in Documented
      BY <3>1 DEF SetupInv, Pages!Managed
    <3>4. r \in Documented
      BY <3>2, <3>3 DEF Documented
    <3> QED
      BY <3>1, <3>2, <3>4, DidSet
  <2>3. CASE Pages!SetService(d)
    BY <2>3, WithService DEF Pages!SetService
  <2> QED
    BY <2>1, <2>2, <2>3
<1> QED
  BY <1>1, <1>2, NothingMoves DEF SetupInv

-----------------------------------------------------------------------------
LEMMA SetupStarts == ClientsInit => SetupInv
<1> SUFFICES ASSUME ClientsInit
             PROVE  SetupInv
  OBVIOUS
<1>1. Pages!Init
  BY DEF ClientsInit
<1>2. \A t \in Tasks : TaskOk(tasks[t])
  BY <1>1, IdleOk DEF Pages!Init
<1>3. PICK known \in SUBSET PageDids, served \in SUBSET PageDids :
        /\ dids = [d \in PageDids |-> IF d \in known THEN [keys |-> {}, service |-> d \in served] ELSE None]
        /\ byHand = served
  BY <1>1 DEF Pages!Init
<1>4. \A d \in PageDids :
        dids[d] = None \/ (dids[d] \in Documented /\ (d \notin byHand => ~dids[d].service))
  <2> SUFFICES ASSUME NEW d \in known
               PROVE  dids[d] \in Documented /\ (d \notin served => ~dids[d].service)
    BY <1>3
  <2> DEFINE on == d \in served
  <2>1. on \in BOOLEAN
    OBVIOUS
  <2>2. dids[d] = [keys |-> {}, service |-> on]
    BY <1>3, Zenon
  <2>3. d \notin served => ~on
    BY Zenon
  <2> HIDE DEF on
  <2>4. dids[d] \in Documented /\ dids[d].service = on
    BY <2>1, <2>2 DEF Documented
  <2> QED
    BY <2>3, <2>4
<1>5. dids \in [PageDids -> Documented \cup {None}] /\ ServiceHasKey
  BY <1>3, <1>4 DEF ServiceHasKey
<1> QED
  BY <1>1, <1>2, <1>5 DEF Pages!Init, SetupInv

LEMMA SetupKept ==
    ASSUME PagesAssumption, SetupInv, [ClientsNext]_clientVars
    PROVE  SetupInv'
<1>1. Pages!Next \/ UNCHANGED idVars
  BY DEF ClientsNext, clientVars
<1>2. CASE UNCHANGED idVars
  BY <1>2, DidsSame, NothingMoves DEF idVars, SetupInv
<1>3. ASSUME NEW t \in Tasks, Pages!Work(t)
      PROVE  SetupInv'
  BY <1>3, CreateKeyKeepsSetup, AddKeyKeepsSetup, ServiceKeepsSetup, AddCreatedKeyKeepsSetup,
     DeleteKeepsSetup, CreateDidKeepsSetup, ClosingKeepsSetup DEF Pages!Work
<1> QED
  BY <1>1, <1>2, <1>3, ClickKeepsSetup, ByHandKeepsSetup DEF Pages!Next

\* A setup that adds the service and shows no error.
LEMMA SetupEndsWell ==
    ASSUME PagesAssumption, SetupInv, [ClientsNext]_clientVars, NEW t \in Tasks,
           Pages!At(t, "setup", "service"), tasks'[t] = Pages!Idle, failed' = failed, ~failed[tasks[t].did]
    PROVE  LET d == tasks[t].did
           IN dids'[d].service /\ (d \in byHand \/ tasks[t].key \in dids'[d].keys)
<1> DEFINE d == tasks[t].did
           k == tasks[t].key
<1>1. tasks[t] # Pages!Idle
  BY DEF Pages!At, Pages!Idle
<1>2. TaskOk(tasks[t]) /\ d \in PageDids /\ (d \in byHand \/ k \in dids[d].keys)
  BY DEF SetupInv, TaskOk, Pages!At
<1>3. Pages!Next
  BY <1>1 DEF ClientsNext, clientVars, idVars
<1>4. PICK q \in Tasks : Pages!Work(q) \/ \E e \in PageDids : Pages!Click(q, e)
  BY <1>1, <1>3 DEF Pages!Next, Pages!FindWeb, Pages!RemoveKey, Pages!SetService
<1>5. \E v : tasks' = [tasks EXCEPT ![q] = v]
  BY <1>4 DEF Pages!Work, Pages!Click, Pages!StartSetup, Pages!StartAddKey, Pages!StartDelete, Pages!StartCreate,
     Pages!CreateKey, Pages!AddKey, Pages!AddService, Pages!Mediate, Pages!AddCreatedKey, Pages!Delete,
     Pages!CreateDid, Pages!AskMediator, Pages!CloseForm, Pages!Stop, Pages!Now, Pages!FailSetup, Pages!EndSetup
<1>6. q = t
  BY <1>1, <1>5 DEF SetupInv
<1>7. Pages!AddService(t)
  BY <1>1, <1>4, <1>6 DEF Pages!At, Pages!Work, Pages!Click, Pages!StartSetup, Pages!StartAddKey,
     Pages!StartDelete, Pages!StartCreate, Pages!CreateKey, Pages!AddKey, Pages!Mediate, Pages!AddCreatedKey,
     Pages!Delete, Pages!CreateDid, Pages!AskMediator, Pages!CloseForm
<1>8. ~Pages!EndSetup(t, TRUE)
  BY <1>2 DEF Pages!EndSetup, Pages!Did, SetupInv
<1>9. d \in Pages!Managed /\ dids' = [dids EXCEPT ![d].service = TRUE]
  BY <1>7, <1>8 DEF Pages!AddService, Pages!Did
<1>10. dids[d] \in Documented
  BY <1>2, <1>9 DEF SetupInv, Pages!Managed
<1> HIDE DEF d, k
<1>11. dids'[d] = [dids[d] EXCEPT !.service = TRUE]
  BY <1>2, <1>9 DEF SetupInv
<1>12. dids'[d].service /\ dids'[d].keys = dids[d].keys
  BY <1>10, <1>11 DEF Documented
<1> QED
  BY <1>2, <1>12 DEF d, k

\* A quick setup leaves no identifier with a DIDComm endpoint and no key, and one that ends
\* without an error leaves the service and the key it made, whatever a user does meanwhile.
THEOREM SetupsStayWhole == ClientsSpec => SetupIsWhole
<1>1. ClientsInit => SetupInv
  BY SetupStarts
<1>2. SetupInv /\ [ClientsNext]_clientVars => SetupInv'
  BY SetupKept, PagesAssumption
<1>3. SetupInv => Pages!ServiceNeedsKey
  BY DEF SetupInv, ServiceHasKey, Pages!ServiceNeedsKey, Pages!Managed
<1>4. SetupInv /\ [ClientsNext]_clientVars =>
        \A t \in Tasks :
            LET d == Pages!Did(t)
            IN Pages!At(t, "setup", "service") /\ tasks'[t] = Pages!Idle /\ failed' = failed /\ ~failed[d] =>
                 dids'[d].service /\ (d \in byHand \/ tasks[t].key \in dids'[d].keys)
  BY SetupEndsWell, PagesAssumption DEF Pages!Did
<1> QED
  BY <1>1, <1>2, <1>3, <1>4, PTL DEF ClientsSpec, SetupIsWhole, Pages!SetupIsWhole

-----------------------------------------------------------------------------
(* Search and profiles.                                                    *)

\* The store has been asked for matches of a kind when a search is at a place.
HasAsked(matchKind, at) ==
    \/ matchKind = "name" /\ at \in {"subject", "did", "alias", "answer"}
    \/ matchKind = "did" /\ at \in {"alias", "answer"}
    \/ matchKind = "alias" /\ at = "answer"

SearchOk(r) ==
    /\ DOMAIN r = {"query", "at", "alias", "store", "always", "failed"}
    /\ r.alias \subseteq FindDids /\ r.store \subseteq FindDids
    /\ r.at # "idle" => r.query \in Words /\ r.always \subseteq Finder!Matching(r.query)
    /\ ~r.failed => \A m \in r.always : HasAsked(m[1], r.at) => m[2] \in r.store

\* The search of the text in the field is the only one, if none was under way.
FieldInv ==
    /\ offered \subseteq FindDids
    /\ ~overtyped /\ typed = None => offered = {} /\ \A s \in Tasks : searches[s].at = "idle"
    /\ ~overtyped /\ typed \in Words =>
         /\ \A s \in Tasks : searches[s].at # "idle" => searches[s].query = typed
         /\ (\A s \in Tasks : searches[s].at = "idle") => offeredFor = typed

\* Sources that are better than the one being tried are not exposed, or came later.
LookupOk(d, r) ==
    /\ DOMAIN r = {"at", "always", "failed", "shows"}
    /\ r.at \in {"idle", "Profile", "Kudos", "alias", "did"}
    /\ r.always \subseteq Finder!Sources(d)
    /\ r.at # "idle" /\ ~r.failed =>
         \A s \in r.always : Finder!Exposed(s) => Finder!Rank(s) <= Finder!Rank(r.at)

FindInv ==
    /\ DOMAIN searches = Tasks /\ \A s \in Tasks : SearchOk(searches[s])
    /\ FieldInv
    /\ DOMAIN lookups = FindDids /\ \A d \in FindDids : LookupOk(d, lookups[d])

-----------------------------------------------------------------------------
LEMMA Matches ==
    ASSUME NEW w, NEW m \in Finder!Matching(w)
    PROVE  /\ m[2] \in FindDids
           /\ \/ m[1] = "alias" /\ m[2] \in Finder!ByAlias(w)
              \/ m[1] = "name" /\ m[2] \in Finder!ByName(w)
              \/ m[1] = "did" /\ m[2] \in Finder!ByDid(w)
BY DEF Finder!Matching, Finder!ByAlias, Finder!ByName, Finder!ByDid

\* What the agent knows stays, and one search moves.
LEMMA SearchMoves ==
    ASSUME FindInv, NEW s \in Tasks, NEW v, searches' = [searches EXCEPT ![s] = v], SearchOk(v),
           UNCHANGED <<data, lookups, methods>>, FieldInv'
    PROVE  FindInv'
<1>1. \A q \in Tasks : searches'[q] = IF q = s THEN v ELSE searches[q]
  BY DEF FindInv
<1>2. ASSUME NEW r, SearchOk(r)
      PROVE  SearchOk(r)'
  BY <1>2 DEF SearchOk, Finder!Matching, Finder!ByAlias, Finder!ByName, Finder!ByDid, Finder!Like, Finder!IsKnown
<1>3. ASSUME NEW q \in Tasks
      PROVE  SearchOk(searches[q])'
  <2>1. CASE q = s
    BY <1>1, <1>2, <2>1 DEF SearchOk
  <2>2. CASE q # s
    BY <1>1, <1>2, <2>2 DEF SearchOk, FindInv
  <2> QED
    BY <2>1, <2>2
<1>4. \A d \in FindDids : LookupOk(d, lookups[d])'
  BY DEF FindInv, LookupOk, Finder!Sources, Finder!IsKnown, Finder!Exposed
<1> QED
  BY <1>3, <1>4 DEF FindInv

LEMMA SearchesStay ==
    ASSUME FindInv, UNCHANGED <<searches, data, lookups, methods>>, FieldInv'
    PROVE  FindInv'
BY DEF FindInv, SearchOk, LookupOk, Finder!Matching, Finder!ByAlias, Finder!ByName, Finder!ByDid,
   Finder!Like, Finder!IsKnown, Finder!Sources, Finder!Exposed

-----------------------------------------------------------------------------
(* The search field.                                                       *)

LEMMA TypingKeepsFound ==
    ASSUME FinderAssumption, FindInv, NEW s \in Tasks, NEW w \in Words \cup {None}, Finder!Type(w, s)
    PROVE  FindInv'
<1>1. /\ UNCHANGED <<data, lookups, methods>> /\ typed' = w /\ searches[s].at = "idle"
      /\ overtyped' = Finder!Busy
  BY DEF Finder!Type, Finder!profile, Finder!Idle
<1>2. ~overtyped' => \A q \in Tasks : searches[q].at = "idle"
  BY <1>1 DEF Finder!Busy
<1>3. CASE w = None
  <2>1. UNCHANGED searches /\ offered' = {}
    BY <1>3 DEF Finder!Type
  <2>2. FieldInv'
    BY <1>1, <1>2, <1>3, <2>1 DEF FieldInv, FinderAssumption
  <2> QED
    BY <1>1, <2>1, <2>2, SearchesStay
<1>4. CASE w # None
  <2>1. PICK v : v = [Finder!Idle EXCEPT !.query = w, !.at = "exact", !.always = Finder!Matching(w)]
    OBVIOUS
  <2>2. searches' = [searches EXCEPT ![s] = v] /\ UNCHANGED <<offered, offeredFor>>
    BY <1>4, <2>1 DEF Finder!Type
  <2>3. SearchOk(v)
    BY <1>4, <2>1, Matches DEF SearchOk, Finder!Idle, HasAsked
  <2>4. \A q \in Tasks : searches'[q] = IF q = s THEN v ELSE searches[q]
    BY <2>2 DEF FindInv
  <2>5. v.at = "exact" /\ v.query = w
    BY <2>1 DEF Finder!Idle
  <2>6. FieldInv'
    BY <1>1, <1>2, <1>4, <2>2, <2>4, <2>5 DEF FieldInv, FindInv
  <2> QED
    BY <1>1, <2>2, <2>3, <2>6, SearchMoves
<1> QED
  BY <1>3, <1>4

\* An answer comes to a search that goes on.
LEMMA AskingKeepsFound ==
    ASSUME FindInv, NEW s \in Tasks, Finder!AskExactAlias(s) \/ Finder!AskStore(s)
    PROVE  FindInv'
<1>1. /\ UNCHANGED <<data, lookups, methods, typed, offered, offeredFor, overtyped>>
      /\ searches[s].at # "idle" /\ SearchOk(searches[s])
  BY DEF Finder!AskExactAlias, Finder!AskStore, Finder!profile, Finder!Question, FindInv
<1>2. PICK v : /\ searches' = [searches EXCEPT ![s] = v] /\ SearchOk(v)
               /\ v.at # "idle" /\ v.query = searches[s].query
  <2>1. CASE Finder!AskExactAlias(s)
    <3>1. PICK ok \in BOOLEAN : searches' = [searches EXCEPT
            ![s].at = "name",
            ![s].alias = IF ok THEN Finder!ByExactAlias(searches[s].query) ELSE {},
            ![s].failed = ~ok]
      BY <2>1 DEF Finder!AskExactAlias
    <3>2. PICK v : v = [searches[s] EXCEPT
            !.at = "name", !.alias = IF ok THEN Finder!ByExactAlias(searches[s].query) ELSE {}, !.failed = ~ok]
      OBVIOUS
    <3>3. searches' = [searches EXCEPT ![s] = v]
      BY <3>1, <3>2
    <3>4. /\ DOMAIN v = DOMAIN searches[s] /\ v.at = "name" /\ v.query = searches[s].query
          /\ v.always = searches[s].always /\ v.store = searches[s].store
          /\ v.alias = IF ok THEN Finder!ByExactAlias(searches[s].query) ELSE {}
      BY <1>1, <3>2 DEF SearchOk
    <3>5. v.alias \subseteq FindDids
      BY <3>4 DEF Finder!ByExactAlias
    <3>6. SearchOk(v)
      BY <1>1, <3>4, <3>5 DEF SearchOk, HasAsked
    <3> QED
      BY <3>3, <3>4, <3>6
  <2>2. CASE Finder!AskStore(s)
    <3> DEFINE at == searches[s].at
               query == searches[s].query
               found == Finder!StoreFinds(at, query)
    <3>1. at \in {"name", "subject", "did", "alias"} /\ Finder!Question[at] \in {"subject", "did", "alias", "answer"}
      BY <2>2 DEF Finder!AskStore, Finder!Question
    <3>2. found \subseteq FindDids
      BY <3>1 DEF Finder!StoreFinds, Finder!ByName, Finder!BySubject, Finder!ByDid, Finder!ByAlias
    <3>3. CASE searches' = [searches EXCEPT ![s].at = Finder!Question[at], ![s].store = @ \cup found]
      <4>1. PICK v : v = [searches[s] EXCEPT !.at = Finder!Question[at], !.store = @ \cup found]
        OBVIOUS
      <4>2. searches' = [searches EXCEPT ![s] = v]
        BY <3>3, <4>1
      <4>3. /\ DOMAIN v = DOMAIN searches[s] /\ v.at = Finder!Question[at] /\ v.query = query
            /\ v.always = searches[s].always /\ v.store = searches[s].store \cup found
            /\ v.alias = searches[s].alias /\ v.failed = searches[s].failed
        BY <1>1, <4>1 DEF SearchOk
      <4>4. ASSUME ~v.failed, NEW m \in v.always, HasAsked(m[1], v.at)
            PROVE  m[2] \in v.store
        <5>1. m \in Finder!Matching(query)
          BY <1>1, <4>3 DEF SearchOk
        <5>2. HasAsked(m[1], at) \/ m[2] \in found
          BY <3>1, <4>3, <4>4, <5>1, Matches DEF HasAsked, Finder!Question, Finder!StoreFinds
        <5> QED
          BY <1>1, <4>3, <4>4, <5>2 DEF SearchOk
      <4>5. SearchOk(v)
        BY <1>1, <3>1, <3>2, <4>3, <4>4 DEF SearchOk
      <4> QED
        BY <3>1, <4>2, <4>3, <4>5
    <3>4. CASE searches' = [searches EXCEPT ![s].at = "answer", ![s].store = {}, ![s].failed = TRUE]
      <4>1. PICK v : v = [searches[s] EXCEPT !.at = "answer", !.store = {}, !.failed = TRUE]
        OBVIOUS
      <4>2. searches' = [searches EXCEPT ![s] = v]
        BY <3>4, <4>1
      <4>3. /\ DOMAIN v = DOMAIN searches[s] /\ v.at = "answer" /\ v.query = query
            /\ v.always = searches[s].always /\ v.store = {} /\ v.alias = searches[s].alias /\ v.failed
        BY <1>1, <4>1 DEF SearchOk
      <4>4. SearchOk(v)
        BY <1>1, <4>3 DEF SearchOk
      <4> QED
        BY <4>2, <4>3, <4>4
    <3> QED
      BY <2>2, <3>3, <3>4 DEF Finder!AskStore
  <2> QED
    BY <2>1, <2>2
<1>3. \A q \in Tasks : searches'[q] = IF q = s THEN v ELSE searches[q]
  BY <1>2 DEF FindInv
<1>4. FieldInv'
  BY <1>1, <1>2, <1>3 DEF FieldInv, FindInv
<1> QED
  BY <1>1, <1>2, <1>4, SearchMoves

LEMMA AnswerKeepsFound ==
    ASSUME FindInv, NEW s \in Tasks, Finder!Answer(s)
    PROVE  FindInv'
<1>1. /\ UNCHANGED <<data, lookups, methods, typed, overtyped>>
      /\ offered' = searches[s].alias \cup searches[s].store /\ offeredFor' = searches[s].query
      /\ searches[s].at = "answer" /\ SearchOk(searches[s])
  BY DEF Finder!Answer, Finder!profile, FindInv
<1>2. PICK v : v = Finder!Idle
  OBVIOUS
<1>3. searches' = [searches EXCEPT ![s] = v]
  BY <1>2 DEF Finder!Answer
<1>4. SearchOk(v) /\ v.at = "idle"
  BY <1>2 DEF SearchOk, Finder!Idle
<1>5. \A q \in Tasks : searches'[q] = IF q = s THEN v ELSE searches[q]
  BY <1>3 DEF FindInv
<1>6. FieldInv'
  BY <1>1, <1>4, <1>5 DEF FieldInv, FindInv, SearchOk
<1> QED
  BY <1>1, <1>3, <1>4, <1>6, SearchMoves

LEMMA ChoosingKeepsFound ==
    ASSUME FinderAssumption, FindInv, NEW d \in FindDids, Finder!Choose(d)
    PROVE  FindInv'
<1>1. UNCHANGED <<data, lookups, methods, searches, offered, overtyped>> /\ typed' = d
  BY DEF Finder!Choose, Finder!profile
<1>2. FieldInv'
  BY <1>1 DEF FieldInv, FindInv, FinderAssumption
<1> QED
  BY <1>1, <1>2, SearchesStay

-----------------------------------------------------------------------------
(* The agent's data change, and names are looked up.                       *)

LEMMA ChangeKeepsFound ==
    ASSUME FindInv, NEW d \in FindDids, NEW new, Finder!Change(d, new)
    PROVE  FindInv'
<1>1. UNCHANGED <<typed, offered, offeredFor, overtyped, methods>>
  BY DEF Finder!Change
<1>2. ASSUME NEW s \in Tasks
      PROVE  /\ SearchOk(searches[s])'
             /\ searches'[s].at = searches[s].at /\ searches'[s].query = searches[s].query
  <2>1. SearchOk(searches[s])
    BY DEF FindInv
  <2>2. PICK r : r = searches'[s]
    OBVIOUS
  <2>3. r = [searches[s] EXCEPT !.always = {m \in @ :
               \E w \in Words : w = searches[s].query /\ m \in Finder!Matching(w)'}]
    BY <2>2 DEF Finder!Change
  <2>4. /\ DOMAIN r = DOMAIN searches[s] /\ r.at = searches[s].at /\ r.query = searches[s].query
        /\ r.store = searches[s].store /\ r.alias = searches[s].alias /\ r.failed = searches[s].failed
        /\ r.always \subseteq searches[s].always
        /\ \A m \in r.always : \E w \in Words : w = r.query /\ m \in Finder!Matching(w)'
    BY <2>1, <2>3 DEF SearchOk
  <2>5. \A m \in r.always : m \in Finder!Matching(r.query)'
    <3>1. ASSUME NEW w, w = r.query, NEW m, m \in Finder!Matching(w)'
          PROVE  m \in Finder!Matching(r.query)'
      BY <3>1 DEF Finder!Matching, Finder!ByAlias, Finder!ByName, Finder!ByDid
    <3> QED
      BY <2>4, <3>1
  <2>6. SearchOk(r)'
    BY <2>1, <2>4, <2>5 DEF SearchOk
  <2> QED
    BY <2>2, <2>4, <2>6 DEF SearchOk
<1>3. DOMAIN searches' = Tasks
  BY DEF Finder!Change
<1>4. FieldInv'
  BY <1>1, <1>2 DEF FindInv, FieldInv
<1>5. ASSUME NEW e \in FindDids
      PROVE  LookupOk(e, lookups[e])'
  <2>1. LookupOk(e, lookups[e])
    BY DEF FindInv
  <2>2. lookups'[e] = [lookups[e] EXCEPT !.always = @ \cap Finder!Sources(e)']
    BY DEF Finder!Change
  <2> QED
    BY <1>1, <2>1, <2>2 DEF LookupOk, Finder!Exposed
<1>6. DOMAIN lookups' = FindDids
  BY DEF Finder!Change
<1> QED
  BY <1>2, <1>3, <1>4, <1>5, <1>6 DEF FindInv

LEMMA LookingKeepsFound ==
    ASSUME FindInv, NEW d \in FindDids, Finder!Lookup(d) \/ Finder!Try(d) \/ Finder!NameByDid(d)
    PROVE  FindInv'
<1>1. UNCHANGED <<data, typed, offered, offeredFor, searches, overtyped, methods>>
  BY DEF Finder!Lookup, Finder!Try, Finder!NameByDid, Finder!bar
<1>2. LookupOk(d, lookups[d])
  BY DEF FindInv
<1>3. PICK v : lookups' = [lookups EXCEPT ![d] = v] /\ LookupOk(d, v)
  <2>1. CASE Finder!Lookup(d)
    <3>1. PICK v : v = [lookups[d] EXCEPT !.at = "Profile", !.always = Finder!Sources(d), !.failed = FALSE]
      OBVIOUS
    <3>2. lookups' = [lookups EXCEPT ![d] = v]
      BY <2>1, <3>1 DEF Finder!Lookup
    <3>3. \A s \in Finder!Sources(d) : Finder!Rank(s) <= Finder!Rank("Profile")
      BY DEF Finder!Sources, Finder!Rank
    <3>4. LookupOk(d, v)
      BY <1>2, <3>1, <3>3 DEF LookupOk
    <3> QED
      BY <3>2, <3>4
  <2>2. CASE Finder!Try(d)
    <3> DEFINE at == lookups[d].at
    <3>1. at \in {"Profile", "Kudos", "alias"}
      BY <2>2 DEF Finder!Try
    <3>2. CASE lookups' = [lookups EXCEPT ![d].at = "idle", ![d].shows = at]
      <4>1. PICK v : v = [lookups[d] EXCEPT !.at = "idle", !.shows = at]
        OBVIOUS
      <4>2. LookupOk(d, v) /\ lookups' = [lookups EXCEPT ![d] = v]
        BY <1>2, <3>2, <4>1 DEF LookupOk
      <4> QED
        BY <4>2
    <3>3. CASE lookups' = [lookups EXCEPT ![d].at = Finder!After(at)] /\ (~Finder!Exposed(at) \/ at \notin Finder!Sources(d))
      <4>1. PICK v : v = [lookups[d] EXCEPT !.at = Finder!After(at)]
        OBVIOUS
      <4>2. lookups' = [lookups EXCEPT ![d] = v]
        BY <3>3, <4>1
      <4>3. /\ DOMAIN v = DOMAIN lookups[d] /\ v.at = Finder!After(at)
            /\ v.always = lookups[d].always /\ v.failed = lookups[d].failed
        BY <1>2, <4>1 DEF LookupOk
      <4>4. \A s \in Finder!Sources(d) : s # at /\ Finder!Rank(s) <= Finder!Rank(at) =>
                                           Finder!Rank(s) <= Finder!Rank(Finder!After(at))
        BY <3>1 DEF Finder!Sources, Finder!Rank, Finder!After
      <4>5. Finder!After(at) \in {"Kudos", "alias", "did"}
        BY <3>1 DEF Finder!After
      <4>6. at # "idle" /\ (\A s \in lookups[d].always : s # at \/ ~Finder!Exposed(at))
        BY <1>2, <3>1, <3>3 DEF LookupOk
      <4>7. LookupOk(d, v)
        BY <1>2, <4>3, <4>4, <4>5, <4>6 DEF LookupOk
      <4> QED
        BY <4>2, <4>7
    <3>4. CASE lookups' = [lookups EXCEPT ![d].at = Finder!After(at), ![d].failed = TRUE]
      <4>1. PICK v : v = [lookups[d] EXCEPT !.at = Finder!After(at), !.failed = TRUE]
        OBVIOUS
      <4>2. Finder!After(at) \in {"Kudos", "alias", "did"}
        BY <3>1 DEF Finder!After
      <4>3. LookupOk(d, v) /\ lookups' = [lookups EXCEPT ![d] = v]
        BY <1>2, <3>4, <4>1, <4>2 DEF LookupOk
      <4> QED
        BY <4>3
    <3> QED
      BY <2>2, <3>2, <3>3, <3>4 DEF Finder!Try
  <2>3. CASE Finder!NameByDid(d)
    <3>1. PICK v : v = [lookups[d] EXCEPT !.at = "idle", !.shows = "did"]
      OBVIOUS
    <3>2. LookupOk(d, v) /\ lookups' = [lookups EXCEPT ![d] = v]
      BY <1>2, <2>3, <3>1 DEF LookupOk, Finder!NameByDid
    <3> QED
      BY <3>2
  <2> QED
    BY <2>1, <2>2, <2>3
<1>4. \A e \in FindDids : lookups'[e] = IF e = d THEN v ELSE lookups[e]
  BY <1>3 DEF FindInv
<1>5. ASSUME NEW e \in FindDids
      PROVE  LookupOk(e, lookups[e])'
  <2>1. LookupOk(e, IF e = d THEN v ELSE lookups[e])
    BY <1>3 DEF FindInv
  <2> QED
    BY <1>1, <1>4, <2>1 DEF LookupOk, Finder!Sources, Finder!IsKnown, Finder!Exposed
<1>6. \A s \in Tasks : SearchOk(searches[s])'
  BY <1>1 DEF FindInv, SearchOk, Finder!Matching, Finder!ByAlias, Finder!ByName, Finder!ByDid, Finder!Like, Finder!IsKnown
<1>7. FieldInv'
  BY <1>1 DEF FindInv, FieldInv
<1> QED
  BY <1>1, <1>3, <1>5, <1>6, <1>7 DEF FindInv

-----------------------------------------------------------------------------
LEMMA FindingStarts == ClientsInit => FindInv
<1> SUFFICES ASSUME ClientsInit
             PROVE  FindInv
  OBVIOUS
<1>1. Finder!Init
  BY DEF ClientsInit
<1>2. \A s \in Tasks : SearchOk(searches[s])
  BY <1>1 DEF Finder!Init, Finder!Idle, SearchOk
<1>3. \A d \in FindDids : LookupOk(d, lookups[d])
  BY <1>1 DEF Finder!Init, LookupOk
<1>4. FieldInv
  BY <1>1, FinderAssumption DEF Finder!Init, Finder!Idle, FieldInv, FinderAssumption
<1> QED
  BY <1>1, <1>2, <1>3, <1>4 DEF Finder!Init, FindInv

LEMMA FindingKept ==
    ASSUME FindInv, FinderAssumption, [ClientsNext]_clientVars
    PROVE  FindInv'
<1>1. Finder!SearchNext \/ Finder!ProfileNext \/ UNCHANGED findVars
  BY DEF ClientsNext, clientVars, newVars
<1>2. CASE UNCHANGED findVars
  <2>1. FieldInv'
    BY <1>2 DEF findVars, FindInv, FieldInv
  <2> QED
    BY <1>2, <2>1, SearchesStay DEF findVars
<1>3. CASE Finder!SearchNext
  BY <1>3, TypingKeepsFound, AskingKeepsFound, AnswerKeepsFound, ChoosingKeepsFound, ChangeKeepsFound
     DEF Finder!SearchNext
<1>4. CASE Finder!ProfileNext
  BY <1>4, LookingKeepsFound, ChangeKeepsFound DEF Finder!ProfileNext
<1> QED
  BY <1>1, <1>2, <1>3, <1>4

\* Only its answer ends a search.
LEMMA SearchEnds ==
    ASSUME FindInv, [ClientsNext]_clientVars, NEW s \in Tasks,
           searches[s].at = "answer", searches'[s].at = "idle", ~searches[s].failed,
           NEW m \in searches[s].always
    PROVE  m[2] \in offered'
<1>1. searches' # searches
  OBVIOUS
<1>2. Finder!SearchNext \/ Finder!ProfileNext
  BY <1>1 DEF ClientsNext, clientVars, newVars, findVars
<1>3. ASSUME NEW d \in FindDids, NEW new, Finder!Change(d, new)
      PROVE  FALSE
  <2>1. searches'[s] = [searches[s] EXCEPT !.always = {l \in @ :
               \E w \in Words : w = searches[s].query /\ l \in Finder!Matching(w)'}]
    BY <1>3 DEF Finder!Change
  <2> QED
    BY <2>1 DEF FindInv, SearchOk
<1>4. Finder!SearchNext
  BY <1>1, <1>2, <1>3 DEF Finder!ProfileNext, Finder!Lookup, Finder!Try, Finder!NameByDid, Finder!bar
<1>5. PICK q \in Tasks : \/ \E w \in Words \cup {None} : Finder!Type(w, q)
                        \/ Finder!AskExactAlias(q) \/ Finder!AskStore(q) \/ Finder!Answer(q)
  BY <1>1, <1>3, <1>4 DEF Finder!SearchNext, Finder!Choose
<1>6. \E v : searches' = [searches EXCEPT ![q] = v]
  <2>1. CASE \E w \in Words \cup {None} : Finder!Type(w, q)
    BY <1>1, <2>1 DEF Finder!Type
  <2>2. CASE Finder!AskExactAlias(q)
    <3>1. PICK ok \in BOOLEAN : searches' = [searches EXCEPT
               ![q].at = "name",
               ![q].alias = IF ok THEN Finder!ByExactAlias(searches[q].query) ELSE {},
               ![q].failed = ~ok]
      BY <2>2 DEF Finder!AskExactAlias
    <3> QED
      BY <3>1
  <2>3. CASE Finder!AskStore(q)
    BY <2>3 DEF Finder!AskStore
  <2>4. CASE Finder!Answer(q)
    BY <2>4 DEF Finder!Answer
  <2> QED
    BY <1>5, <2>1, <2>2, <2>3, <2>4
<1>7. q = s
  BY <1>6 DEF FindInv
<1>8. Finder!Answer(s)
  <2>1. \A w : ~Finder!Type(w, s)
    BY DEF Finder!Type, Finder!Idle
  <2>2. ~Finder!AskStore(s) /\ ~Finder!AskExactAlias(s)
    BY DEF Finder!AskExactAlias, Finder!AskStore, Finder!Question
  <2> QED
    BY <1>5, <1>7, <2>1, <2>2
<1>9. m[2] \in searches[s].store
  <2>1. SearchOk(searches[s])
    BY DEF FindInv
  <2>2. HasAsked(m[1], "answer")
    BY <2>1, Matches DEF SearchOk, HasAsked
  <2> QED
    BY <2>1, <2>2 DEF SearchOk
<1> QED
  BY <1>8, <1>9 DEF Finder!Answer

\* Only a name ends a lookup, and it is that of the source being tried.
LEMMA LookupEnds ==
    ASSUME FindInv, [ClientsNext]_clientVars, NEW d \in FindDids,
           lookups[d].at # "idle", lookups'[d].at = "idle", ~lookups'[d].failed,
           NEW s \in lookups[d].always, Finder!Exposed(s)
    PROVE  Finder!Rank(s) <= Finder!Rank(lookups'[d].shows)
<1>1. lookups' # lookups /\ LookupOk(d, lookups[d])
  BY DEF FindInv
<1>2. Finder!SearchNext \/ Finder!ProfileNext
  BY <1>1 DEF ClientsNext, clientVars, newVars, findVars
<1>3. ASSUME NEW e \in FindDids, NEW new, Finder!Change(e, new)
      PROVE  FALSE
  <2>1. lookups'[d] = [lookups[d] EXCEPT !.always = @ \cap Finder!Sources(d)']
    BY <1>3 DEF Finder!Change
  <2> QED
    BY <1>1, <2>1 DEF LookupOk
<1>4. Finder!ProfileNext
  BY <1>1, <1>2, <1>3 DEF Finder!SearchNext, Finder!Type, Finder!AskExactAlias, Finder!AskStore, Finder!Answer,
     Finder!Choose, Finder!profile
<1>5. PICK e \in FindDids : Finder!Lookup(e) \/ Finder!Try(e) \/ Finder!NameByDid(e)
  BY <1>3, <1>4 DEF Finder!ProfileNext
<1>6. \E v : lookups' = [lookups EXCEPT ![e] = v]
  BY <1>5 DEF Finder!Lookup, Finder!Try, Finder!NameByDid
<1>7. e = d
  BY <1>1, <1>6 DEF FindInv
<1>8. lookups'[d].shows = lookups[d].at /\ lookups'[d].failed = lookups[d].failed
  <2>1. CASE Finder!Try(d)
    <3> DEFINE at == lookups[d].at
    <3>1. at \in {"Profile", "Kudos", "alias"} /\ Finder!After(at) # "idle"
      BY <2>1 DEF Finder!Try, Finder!After
    <3>2. \/ lookups' = [lookups EXCEPT ![d].at = "idle", ![d].shows = at]
          \/ lookups' = [lookups EXCEPT ![d].at = Finder!After(at)]
          \/ lookups' = [lookups EXCEPT ![d].at = Finder!After(at), ![d].failed = TRUE]
      BY <2>1 DEF Finder!Try
    <3> HIDE DEF at
    <3>3. lookups' = [lookups EXCEPT ![d].at = "idle", ![d].shows = at]
      BY <1>1, <3>1, <3>2 DEF FindInv, LookupOk
    <3> QED
      BY <1>1, <3>3 DEF FindInv, LookupOk, at
  <2>2. CASE Finder!NameByDid(d)
    BY <1>1, <2>2 DEF Finder!NameByDid, FindInv, LookupOk
  <2>3. ~Finder!Lookup(d)
    BY <1>1 DEF Finder!Lookup
  <2> QED
    BY <1>5, <1>7, <2>1, <2>2, <2>3
<1> QED
  BY <1>1, <1>8 DEF LookupOk

\* A search offers what matched all the while, a lookup names by the best source there was,
\* and what is offered was found for the text in the field, although the agent's data
\* change between the questions.
THEOREM KnownIsFound == ClientsSpec => FindsWhatIsKnown
<1>1. ClientsInit => FindInv
  BY FindingStarts
<1>2. FindInv /\ [ClientsNext]_clientVars => FindInv'
  BY FindingKept, FinderAssumption
<1>3. FindInv => Finder!OptionsFollowText
  BY DEF FindInv, FieldInv, Finder!OptionsFollowText, Finder!Busy
<1>4. FindInv /\ [ClientsNext]_clientVars => \A s \in Tasks : Finder!SearchFinds(s)
  BY SearchEnds DEF Finder!SearchFinds
<1>5. FindInv /\ [ClientsNext]_clientVars => \A d \in FindDids : Finder!LookupNamesBest(d)
  BY LookupEnds DEF Finder!LookupNamesBest
<1> QED
  BY <1>1, <1>2, <1>3, <1>4, <1>5, PTL DEF ClientsSpec, FindsWhatIsKnown, Finder!FindsWhatIsKnown

-----------------------------------------------------------------------------
(* The pages on a credential.                                              *)

\* What is shown has been verified, and so has all that the tab holds, which vanishes with it.
VerifiedInv ==
    /\ text \in Creds \cup {None} /\ checks \in [Checks -> Creds \cup {None}]
    /\ Viewer!Shown(result) => result \in genuine
    /\ rendering \subseteq genuine
    /\ documents # None => documents \in genuine
    /\ ~Viewer!Shown(result) => ~rendered /\ rendering = {} /\ documents = None

\* Verifications that do not overlap: there is one at a time, and what was shown before it has
\* been cleared, but for that of the link, before which nothing was shown.
OneByOneInv ==
    ~overlapped =>
        /\ \A j, k \in Checks : checks[j] # None /\ checks[k] # None => j = k
        /\ link => \A k \in Checks : checks[k] = None
        /\ link \/ (\E k \in Checks : checks[k] # None) => result = None
        /\ rendering \subseteq {result} /\ documents \in {None, result}

VerifierInv == VerifiedInv /\ OneByOneInv

LEMMA VerifierStep ==
    ASSUME VerifierInv, Viewer!VerifierNext
    PROVE  VerifierInv'
<1> USE ViewerAssumption DEF ViewerAssumption, VerifierInv, VerifiedInv, OneByOneInv
<1>1. ASSUME NEW c \in Creds, Viewer!Type(c) PROVE VerifierInv'
  BY <1>1 DEF Viewer!Type, Viewer!tab, Viewer!info, Viewer!Shown
<1>2. ASSUME NEW c \in Creds, Viewer!Rendered(c) PROVE VerifierInv'
  BY <1>2 DEF Viewer!Rendered, Viewer!info, Viewer!Shown
<1>3. ASSUME NEW k \in Checks, NEW c \in Creds, Viewer!Verify(k, c) PROVE VerifierInv'
  <2>1. /\ result' = None /\ ~Viewer!Shown(result)'
        /\ ~rendered' /\ rendering' = {} /\ documents' = None /\ UNCHANGED <<genuine, text, link>>
    BY <1>3 DEF Viewer!Verify, Viewer!ShowTabs, Viewer!Shown
  <2>2. /\ checks' = [checks EXCEPT ![k] = c]
        /\ ~overlapped' => ~overlapped /\ ~link /\ \A j \in Checks : checks[j] = None
    BY <1>3 DEF Viewer!Verify
  <2> QED
    BY <2>1, <2>2 DEF Viewer!Shown
<1>4. ASSUME NEW k \in Checks, Viewer!FetchLinked(k) PROVE VerifierInv'
  BY <1>4 DEF Viewer!FetchLinked, Viewer!tab, Viewer!info, Viewer!Shown
<1>5. ASSUME NEW k \in Checks, Viewer!Answer(k) PROVE VerifierInv'
  <2>1. /\ checks[k] # None /\ checks' = [checks EXCEPT ![k] = None]
        /\ result' \in {IF checks[k] \in genuine THEN checks[k] ELSE "invalid", "invalid"}
        /\ UNCHANGED <<genuine, text, link, overlapped>>
    BY <1>5 DEF Viewer!Answer
  <2>2. Viewer!Shown(result)' => result' \in genuine
    BY <2>1 DEF Viewer!Shown
  <2>3. CASE ~Viewer!Shown(result)'
    BY <1>5, <2>1, <2>3 DEF Viewer!Answer, Viewer!ShowTabs, Viewer!Shown
  <2>4. CASE Viewer!Shown(result)'
    <3>1. /\ rendered' = rendered /\ documents' = documents
          /\ rendering' \subseteq rendering \cup {result'}
          /\ ~rendered => rendering' = rendering
      BY <1>5, <2>4 DEF Viewer!Answer, Viewer!ShowTabs, Viewer!Shown
    <3>2. VerifiedInv'
      BY <2>1, <2>2, <2>4, <3>1
    <3>3. OneByOneInv'
      <4> SUFFICES ASSUME ~overlapped PROVE OneByOneInv'
        BY <2>1
      <4>1. result = None /\ ~Viewer!Shown(result) /\ ~link
        BY <2>1 DEF Viewer!Shown
      <4>2. rendering' = {} /\ documents' = None
        BY <3>1, <4>1
      <4>3. \A j \in Checks : checks'[j] = None
        BY <2>1
      <4> QED
        BY <2>1, <4>1, <4>2, <4>3
    <3> QED
      BY <3>2, <3>3
  <2> QED
    BY <2>3, <2>4
<1>6. ASSUME Viewer!OpenRendered PROVE VerifierInv'
  BY <1>6 DEF Viewer!OpenRendered, Viewer!info, Viewer!Shown
<1> QED
  BY <1>1, <1>2, <1>3, <1>4, <1>5, <1>6 DEF Viewer!VerifierNext, Viewer!ClickVerify, Viewer!Drop

\* One request is under way as long as the page is loading, and none once its buttons work.
\* What the agent told is on the page, or on its way there.
StatusInv ==
    /\ revoked \in BOOLEAN /\ infoRevoked \in BOOLEAN /\ loading \in BOOLEAN /\ told \in BOOLEAN
    /\ ~loading => calls = {} /\ (told => infoRevoked = revoked)
    /\ loading =>
           \/ calls = {}
           \/ \E k \in {"status", "revoke", "activate"}, a \in {"asked", "yes", "no", "error"} :
                /\ calls = {<<k, a>>}
                /\ told => IF a \in {"yes", "no"} THEN a = Viewer!YesNo(revoked)
                          ELSE infoRevoked = revoked

LEMMA StatusStep ==
    ASSUME StatusInv, Viewer!StatusNext
    PROVE  StatusInv'
<1> USE DEF StatusInv
<1>1. ASSUME Viewer!ClickRevoke \/ Viewer!ClickActivate PROVE StatusInv'
  BY <1>1 DEF Viewer!ClickRevoke, Viewer!ClickActivate, Viewer!Ask
<1>2. ASSUME Viewer!OtherChanges PROVE StatusInv'
  BY <1>2 DEF Viewer!OtherChanges
<1>3. ASSUME NEW k \in {"status", "revoke", "activate"}, Viewer!Serve(k) PROVE StatusInv'
  <2>1. loading /\ calls = {<<k, "asked">>} /\ (told => infoRevoked = revoked)
    BY <1>3 DEF Viewer!Serve
  <2>2. PICK committed \in BOOLEAN, a \in {"error", "yes", "no"} :
          /\ revoked' = IF committed THEN k = "revoke" ELSE revoked
          /\ calls' = (calls \ {<<k, "asked">>}) \cup {<<k, a>>}
          /\ told' = IF a = "error" THEN told /\ ~committed ELSE a = Viewer!YesNo(revoked')
    BY <1>3 DEF Viewer!Serve, Viewer!YesNo
  <2>3. UNCHANGED <<infoRevoked, loading>>
    BY <1>3 DEF Viewer!Serve
  <2>4. calls' = {<<k, a>>} /\ revoked' \in BOOLEAN /\ told' \in BOOLEAN
    BY <2>1, <2>2
  <2>5. told' => IF a \in {"yes", "no"} THEN a = Viewer!YesNo(revoked') ELSE infoRevoked' = revoked'
    BY <2>1, <2>2, <2>3
  <2> QED
    BY <2>1, <2>3, <2>4, <2>5
<1>4. ASSUME NEW k \in {"status", "revoke", "activate"}, NEW a \in {"yes", "no", "error"}, Viewer!Arrive(k, a)
      PROVE  StatusInv'
  <2>1. calls = {<<k, a>>} /\ loading
    BY <1>4 DEF Viewer!Arrive
  <2>2. told => IF a \in {"yes", "no"} THEN a = Viewer!YesNo(revoked) ELSE infoRevoked = revoked
    <3>1. PICK j \in {"status", "revoke", "activate"}, b \in {"asked", "yes", "no", "error"} :
            /\ calls = {<<j, b>>}
            /\ told => IF b \in {"yes", "no"} THEN b = Viewer!YesNo(revoked) ELSE infoRevoked = revoked
      BY <2>1
    <3>2. <<k, a>> = <<j, b>>
      <4>1. <<k, a>> \in {<<j, b>>}
        BY <2>1, <3>1
      <4> QED
        BY <4>1
    <3>3. a = b
      BY <3>2
    <3> QED
      BY <3>1, <3>3
  <2> QED
    BY <1>4, <2>1, <2>2 DEF Viewer!Arrive, Viewer!YesNo
<1> QED
  BY <1>1, <1>2, <1>3, <1>4 DEF Viewer!StatusNext

LEMMA ClientsStepVerifier ==
    [ClientsNext]_clientVars => Viewer!VerifierNext \/ UNCHANGED verifyVars
BY DEF ClientsNext, clientVars, newVars, credentialVars, verifyVars, Viewer!StatusNext, Viewer!ClickRevoke,
   Viewer!ClickActivate, Viewer!OtherChanges, Viewer!Serve, Viewer!Arrive, Viewer!verifier, Viewer!tab

LEMMA ClientsStepStatus ==
    [ClientsNext]_clientVars => Viewer!StatusNext \/ UNCHANGED statusVars
BY DEF ClientsNext, clientVars, newVars, credentialVars, statusVars, Viewer!VerifierNext, Viewer!Type,
   Viewer!Rendered, Viewer!ClickVerify, Viewer!Drop, Viewer!Verify, Viewer!FetchLinked, Viewer!Answer,
   Viewer!OpenRendered, Viewer!info

\* CredentialVerifier and its tabs: what is shown as valid or rendered was verified, and
\* the tab's documents are those of the credential shown unless verifications overlapped,
\* whatever the order in which their answers come.
THEOREM ShownStaysVerified == ClientsSpec => []ShownWasVerified
<1>1. ClientsInit => VerifierInv
  BY ViewerAssumption DEF ClientsInit, Viewer!Init, VerifierInv, VerifiedInv, OneByOneInv, Viewer!Shown,
     ViewerAssumption
<1>2. VerifierInv /\ [ClientsNext]_clientVars => VerifierInv'
  <2>1. VerifierInv /\ UNCHANGED verifyVars => VerifierInv'
    BY DEF VerifierInv, VerifiedInv, OneByOneInv, verifyVars, Viewer!Shown
  <2> QED
    BY <2>1, VerifierStep, ClientsStepVerifier
<1>3. VerifierInv => ShownWasVerified
  BY DEF VerifierInv, VerifiedInv, OneByOneInv, ShownWasVerified, Viewer!ShownWasVerified
<1> QED
  BY <1>1, <1>2, <1>3, PTL DEF ClientsSpec

\* CredentialInfo: a page whose buttons work shows the status that the credential has, if the
\* agent's last answer told it and nobody changed it since.
THEOREM StatusStaysCurrent == ClientsSpec => []StatusIsCurrent
<1>1. ClientsInit => StatusInv
  BY DEF ClientsInit, Viewer!Init, StatusInv
<1>2. StatusInv /\ [ClientsNext]_clientVars => StatusInv'
  <2>1. StatusInv /\ UNCHANGED statusVars => StatusInv'
    BY DEF StatusInv, statusVars
  <2> QED
    BY <2>1, StatusStep, ClientsStepStatus
<1>3. StatusInv => StatusIsCurrent
  BY DEF StatusInv, StatusIsCurrent, Viewer!StatusIsCurrent
<1> QED
  BY <1>1, <1>2, <1>3, PTL DEF ClientsSpec

-----------------------------------------------------------------------------
(* Issuing and presenting.                                                 *)

issuingVars == <<issueVars, presentVars>>

\* The content of the form was issued once more often than refused only while the answer to
\* that is on its way, and then the button waits.
IssueInv ==
    /\ issued \in Nat /\ refused \in Nat
    /\ issuance # None => sending
    /\ issued > refused =>
           /\ issued = refused + 1
           /\ sending /\ issuance[2] = "issued" /\ issuance[1] = form
AddressInv == \A m \in mailed : m[1] = m[3] /\ m[2] = m[4]
FormsInv == IssueInv /\ AddressInv

LEMMA IssueStep ==
    ASSUME FormsInv, Forms!IssueNext
    PROVE  FormsInv'
<1>0. UNCHANGED mailed => AddressInv'
  BY DEF FormsInv, AddressInv
<1>1. ASSUME NEW s, Forms!SelectSchema(s) PROVE FormsInv'
  BY <1>0, <1>1 DEF FormsInv, IssueInv, Forms!SelectSchema, Forms!Fill, Forms!presentVars
<1>2. ASSUME NEW i, Forms!ChooseIssuer(i) PROVE FormsInv'
  BY <1>0, <1>2 DEF FormsInv, IssueInv, Forms!ChooseIssuer, Forms!Fill, Forms!presentVars
<1>3. ASSUME Forms!Refetch PROVE FormsInv'
  BY <1>0, <1>3 DEF FormsInv, IssueInv, Forms!Refetch, Forms!Fill, Forms!presentVars
<1>4. ASSUME Forms!Validate PROVE FormsInv'
  BY <1>0, <1>4 DEF FormsInv, IssueInv, Forms!Validate, Forms!presentVars
<1>5. ASSUME Forms!ClickIssue PROVE FormsInv'
  BY <1>0, <1>5 DEF FormsInv, IssueInv, Forms!ClickIssue, Forms!presentVars
<1>6. ASSUME Forms!Issue PROVE FormsInv'
  BY <1>0, <1>6 DEF FormsInv, IssueInv, Forms!Issue, Forms!presentVars
<1>7. ASSUME Forms!Answered PROVE FormsInv'
  BY <1>0, <1>7 DEF FormsInv, IssueInv, Forms!Answered, Forms!Fill, Forms!presentVars
<1> QED
  BY <1>1, <1>2, <1>3, <1>4, <1>5, <1>6, <1>7 DEF Forms!IssueNext

LEMMA PresentStep ==
    ASSUME FormsInv, Forms!PresentNext
    PROVE  FormsInv'
<1>1. UNCHANGED issueVars => IssueInv'
  BY DEF FormsInv, IssueInv, issueVars
<1>2. ASSUME NEW i, Forms!ChooseHolder(i) \/ Forms!TypeVerifier(i) PROVE FormsInv'
  BY <1>1, <1>2 DEF FormsInv, AddressInv, Forms!ChooseHolder, Forms!TypeVerifier, Forms!issueVars, issueVars
<1>3. ASSUME NEW p, Forms!Sign(p) \/ \E send \in BOOLEAN : Forms!ClickPresent(p, send) PROVE FormsInv'
  BY <1>1, <1>3 DEF FormsInv, AddressInv, Forms!Sign, Forms!ClickPresent, Forms!issueVars, issueVars
<1>4. ASSUME NEW p, Forms!SendVP(p) PROVE FormsInv'
  BY <1>1, <1>4 DEF FormsInv, AddressInv, Forms!SendVP, Forms!Message, Forms!issueVars, issueVars
<1> QED
  BY <1>2, <1>3, <1>4 DEF Forms!PresentNext

LEMMA ClientsStepForms ==
    [ClientsNext]_clientVars => Forms!IssueNext \/ Forms!PresentNext \/ UNCHANGED issuingVars
BY DEF ClientsNext, clientVars, newVars, credentialVars, issuingVars, issueVars, presentVars

\* IssueCredentialFromSchema and CreatePresentation: a form is issued once, unless an error was
\* shown in between, and a presentation goes to the verifier it was made for.
THEOREM ClicksStayOnce == ClientsSpec => []AsClicked
<1>1. ClientsInit => FormsInv
  BY DEF ClientsInit, Forms!Init, FormsInv, IssueInv, AddressInv
<1>2. FormsInv /\ [ClientsNext]_clientVars => FormsInv'
  <2>1. FormsInv /\ UNCHANGED issuingVars => FormsInv'
    BY DEF FormsInv, IssueInv, AddressInv, issuingVars, issueVars, presentVars
  <2> QED
    BY <2>1, IssueStep, PresentStep, ClientsStepForms
<1>3. FormsInv => AsClicked
  BY DEF FormsInv, IssueInv, AddressInv, AsClicked, Forms!AsClicked
<1> QED
  BY <1>1, <1>2, <1>3, PTL DEF ClientsSpec

-----------------------------------------------------------------------------
(* The forms.                                                              *)

\* What is in the form is one filling that has not been sent.
FormInv ==
    /\ kind \in Modal!Kinds
    /\ created \in Nat /\ fillings \in Nat
    /\ created <= fillings
    /\ entered # {} => created < fillings

LEMMA FormStep ==
    ASSUME FormInv, [Modal!Next]_modalVars
    PROVE  /\ FormInv'
           /\ entered' # entered =>
                \/ \E x \in Modal!Required(kind) \cup Modal!Optional(kind) :
                      entered' \in {entered \cup {x}, entered \ {x}}
                \/ created' = created + 1 /\ Modal!Required(kind) \subseteq entered
<1> USE DEF FormInv
<1>1. CASE UNCHANGED modalVars
  BY <1>1 DEF modalVars
<1>2. CASE Modal!Show \/ Modal!Cancel \/ Modal!Answer
  BY <1>2 DEF Modal!Show, Modal!Cancel, Modal!Answer
<1>3. CASE Modal!Ok
  <2>1. Modal!Required(kind) # {}
    BY DEF Modal!Required, Modal!Kinds
  <2> QED
    BY <1>3, <2>1 DEF Modal!Ok
<1>4. ASSUME NEW x \in Modal!Required(kind) \cup Modal!Optional(kind), Modal!Enter(x) \/ Modal!Empty(x)
      PROVE  FormInv' /\ entered' \in {entered \cup {x}, entered \ {x}}
  BY <1>4 DEF Modal!Enter, Modal!Empty
<1> QED
  BY <1>1, <1>2, <1>3, <1>4 DEF Modal!Next

LEMMA ClientsStepForm == [ClientsNext]_clientVars => [Modal!Next]_modalVars
BY DEF ClientsNext, clientVars, newVars, modalVars

\* The modal forms: what a user has entered goes by his own hand or by being sent complete,
\* and one filling is sent at most once.
THEOREM InputStaysSentOnce == ClientsSpec => InputIsSentOnce
<1>1. ClientsInit => FormInv
  BY DEF ClientsInit, Modal!Init, FormInv
<1>2. FormInv /\ [ClientsNext]_clientVars => FormInv'
  BY FormStep, ClientsStepForm
<1>3. FormInv /\ [ClientsNext]_clientVars =>
        [/\ created' <= fillings'
         /\ entered' # entered =>
              \/ \E x \in Modal!Required(kind) \cup Modal!Optional(kind) :
                    entered' \in {entered \cup {x}, entered \ {x}}
              \/ created' = created + 1 /\ Modal!Required(kind) \subseteq entered]_(Modal!vars)
  <2> SUFFICES ASSUME FormInv, [ClientsNext]_clientVars
               PROVE  /\ created' <= fillings'
                      /\ entered' # entered =>
                           \/ \E x \in Modal!Required(kind) \cup Modal!Optional(kind) :
                                 entered' \in {entered \cup {x}, entered \ {x}}
                           \/ created' = created + 1 /\ Modal!Required(kind) \subseteq entered
    OBVIOUS
  <2> QED
    BY FormStep, ClientsStepForm DEF FormInv
<1> QED
  BY <1>1, <1>2, <1>3, PTL DEF ClientsSpec, InputIsSentOnce, Modal!InputIsSentOnce
=============================================================================
