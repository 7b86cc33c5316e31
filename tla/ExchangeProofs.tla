---------------------------- MODULE ExchangeProofs ----------------------------
(***************************************************************************)
(* What users send each other, for every value of the constants of         *)
(* Clients: requests for credentials and the responses to them, messages,  *)
(* and what the command line presents and posts.  Each part has its own    *)
(* invariant, which every step of Clients keeps: it is a step of that part *)
(* or leaves its variables alone.                                          *)
(***************************************************************************)
EXTENDS Clients, TLAPS

-----------------------------------------------------------------------------
(* Requests for credentials.                                               *)

RequestPCs == {"idle", "create", "save", "send", "done"}
RequestRecords == [pc : RequestPCs, claims : [Claims -> Asking], to : BOOLEAN]
ShareRecords ==
    [pc : {"idle", "sign"}, to : Requests \cup {None}, vcs : SUBSET Claims,
     listed : BOOLEAN, here : BOOLEAN]

\* Types.  Everything the responder's page deals with has arrived.
Typed ==
    /\ requests \in [Requests -> RequestRecords]
    /\ stored \subseteq Requests
    /\ inbox \subseteq Requests
    /\ wallet \subseteq Claims
    /\ page \in inbox \cup {None}
    /\ shown \in inbox \cup {None}
    /\ fetching \in inbox \cup {None}
    /\ DOMAIN lists = Requests
    /\ DOMAIN selected \subseteq Claims
    /\ shares \in [Shares -> ShareRecords]

\* A request is sent after it has been saved, and what has arrived is not changed any more.
SentWasSaved ==
    /\ \A m \in Requests : requests[m].pc = "send" => m \in stored
    /\ \A m \in inbox : m \in stored /\ requests[m].pc = "done"

\* A list holds claims its request asks for, a selection the claims that the request on
\* display needs, and a response was made of such a selection.
Answers(vcs, m) == Essential(m) \subseteq vcs /\ vcs \subseteq Asked(m)
ListsMatch == \A m \in Requests : lists[m] # None => m \in inbox /\ lists[m] \subseteq Asked(m)
SelectionMatches == page # None /\ Listed(shown, lists) => Answers(DOMAIN selected, shown)
SharesMatch ==
    \A s \in Shares :
        shares[s].pc # "idle" /\ shares[s].listed =>
            shares[s].to \in inbox /\ Answers(shares[s].vcs, shares[s].to)

DisclosureInv == Typed /\ SentWasSaved /\ ListsMatch /\ SelectionMatches /\ SharesMatch

-----------------------------------------------------------------------------
(* The requester.                                                          *)

LEMMA EssentialIsAsked ==
    ASSUME NEW m
    PROVE  /\ Essential(m) \subseteq Asked(m) /\ Asked(m) \subseteq Claims
           /\ Answers(Essential(m), m)
BY DEF Essential, Asked, Answers

\* What has arrived asks for what it asked for, so the responder's side is not touched.
LEMMA RequesterKept ==
    ASSUME DisclosureInv, inbox \subseteq inbox',
           \A m \in inbox : requests'[m] = requests[m],
           UNCHANGED <<display, shares>>
    PROVE  (ListsMatch /\ SelectionMatches /\ SharesMatch)'
<1>1. \A m \in inbox : Essential(m)' = Essential(m) /\ Asked(m)' = Asked(m)
  BY DEF Essential, Asked
<1>2. UNCHANGED <<page, shown, lists, selected>>
  BY DEF display
<1>3. ListsMatch'
  BY <1>1, <1>2 DEF DisclosureInv, ListsMatch
<1>4. SelectionMatches'
  <2>1. CASE page = None \/ ~Listed(shown, lists)
    BY <1>2, <2>1 DEF SelectionMatches, Listed
  <2>2. CASE page # None /\ Listed(shown, lists)
    <3>1. Answers(DOMAIN selected, shown) /\ shown \in inbox
      BY <2>2 DEF DisclosureInv, SelectionMatches, Typed, Listed
    <3>2. Essential(shown)' = Essential(shown) /\ Asked(shown)' = Asked(shown)
      BY <1>1, <1>2, <3>1
    <3>3. Answers(DOMAIN selected, shown)'
      BY <1>2, <3>1, <3>2 DEF Answers
    <3> QED
      BY <3>3 DEF SelectionMatches
  <2> QED
    BY <2>1, <2>2
<1>5. SharesMatch'
  <2> SUFFICES ASSUME NEW s \in Shares, shares[s].pc # "idle", shares[s].listed
               PROVE  /\ shares[s].to \in inbox'
                      /\ Essential(shares[s].to)' \subseteq shares[s].vcs
                      /\ shares[s].vcs \subseteq Asked(shares[s].to)'
    BY DEF SharesMatch, Answers, Essential, Asked
  <2> QED
    BY <1>1 DEF DisclosureInv, SharesMatch, Answers
<1> QED
  BY <1>3, <1>4, <1>5

LEMMA ClickCreateKept ==
    ASSUME DisclosureInv, NEW m \in Requests, NEW claims \in [Claims -> Asking],
           NEW to \in BOOLEAN, ClickCreate(m, claims, to)
    PROVE  DisclosureInv'
<1>1. m \notin inbox
  BY DEF ClickCreate, DisclosureInv, SentWasSaved
<1>2. Typed'
  BY DEF ClickCreate, DisclosureInv, Typed, RequestRecords, RequestPCs, display
<1>3. SentWasSaved'
  BY <1>1 DEF ClickCreate, DisclosureInv, Typed, SentWasSaved
<1>4. \A n \in inbox : requests'[n] = requests[n]
  BY <1>1 DEF ClickCreate, DisclosureInv, Typed
<1> QED
  BY <1>2, <1>3, <1>4, RequesterKept DEF ClickCreate, DisclosureInv

LEMMA CreateKept ==
    ASSUME DisclosureInv, NEW m \in Requests, Create(m)
    PROVE  DisclosureInv'
<1>1. m \notin inbox
  BY DEF Create, DisclosureInv, SentWasSaved
<1>2. PICK later \in {"save", "done"} : requests' = [requests EXCEPT ![m].pc = later]
  BY DEF Create
<1>3. Typed'
  BY <1>2 DEF Create, DisclosureInv, Typed, RequestRecords, RequestPCs, display
<1>4. SentWasSaved'
  BY <1>1, <1>2 DEF Create, DisclosureInv, Typed, RequestRecords, SentWasSaved
<1>5. \A n \in inbox : requests'[n] = requests[n]
  BY <1>1, <1>2 DEF DisclosureInv, Typed
<1> QED
  BY <1>3, <1>4, <1>5, RequesterKept DEF Create, DisclosureInv

LEMMA SaveKept ==
    ASSUME DisclosureInv, NEW m \in Requests, Save(m)
    PROVE  DisclosureInv'
<1>1. m \notin inbox
  BY DEF Save, DisclosureInv, SentWasSaved
<1>2. PICK later \in {"send", "done"} :
        /\ requests' = [requests EXCEPT ![m].pc = later]
        /\ later = "send" => m \in stored'
        /\ stored \subseteq stored' /\ stored' \subseteq Requests
  BY DEF Save, DisclosureInv, Typed
<1>3. Typed'
  BY <1>2 DEF Save, DisclosureInv, Typed, RequestRecords, RequestPCs, display
<1>4. SentWasSaved'
  BY <1>1, <1>2 DEF Save, DisclosureInv, Typed, RequestRecords, SentWasSaved
<1>5. \A n \in inbox : requests'[n] = requests[n]
  BY <1>1, <1>2 DEF DisclosureInv, Typed
<1> QED
  BY <1>3, <1>4, <1>5, RequesterKept DEF Save, DisclosureInv

LEMMA SendKept ==
    ASSUME DisclosureInv, NEW m \in Requests, Send(m)
    PROVE  DisclosureInv'
<1>1. m \notin inbox /\ m \in stored
  BY DEF Send, DisclosureInv, SentWasSaved
<1>2. inbox \subseteq inbox' /\ inbox' \subseteq inbox \cup {m}
  BY DEF Send
<1>3. Typed'
  BY <1>2 DEF Send, DisclosureInv, Typed, RequestRecords, RequestPCs, display
<1>4. SentWasSaved'
  BY <1>1, <1>2 DEF Send, DisclosureInv, Typed, RequestRecords, SentWasSaved
<1>5. \A n \in inbox : requests'[n] = requests[n]
  BY <1>1 DEF Send, DisclosureInv, Typed
<1> QED
  BY <1>2, <1>3, <1>4, <1>5, RequesterKept DEF Send, DisclosureInv

-----------------------------------------------------------------------------
(* The responder.                                                          *)

\* A step of the page leaves what is asked alone.
LEMMA ResponderKept ==
    ASSUME DisclosureInv, UNCHANGED <<requester, inbox>>, Typed', ListsMatch',
           SelectionMatches', SharesMatch'
    PROVE  DisclosureInv'
BY DEF DisclosureInv, requester, SentWasSaved

LEMMA AskedKept ==
    ASSUME UNCHANGED requester, NEW m
    PROVE  Essential(m)' = Essential(m) /\ Asked(m)' = Asked(m)
BY DEF requester, Essential, Asked

\* The effect: a list that comes on display brings a selection of its own.
LEMMA ReselectMatches ==
    ASSUME DisclosureInv, UNCHANGED requester, Reselect, page' = None \/ page' \in Requests
    PROVE  SelectionMatches' /\ DOMAIN selected' \subseteq Claims
<1>1. CASE page' # None /\ Listed(shown', lists')
           /\ (page # page' \/ shown # shown' \/ lists[shown'] # lists'[shown'])
  <2>1. DOMAIN selected' = Essential(shown')
    BY <1>1 DEF Reselect, Defaults
  <2>2. Essential(shown') \subseteq Claims /\ Essential(shown') \subseteq Asked(shown')
    BY DEF Essential, Asked
  <2>3. SelectionMatches'
    BY <2>1, <2>2 DEF SelectionMatches, Answers, Essential, Asked, requester
  <2> QED
    BY <2>1, <2>2, <2>3
<1>2. CASE page' # None /\ Listed(shown', lists')
           /\ page = page' /\ shown = shown' /\ lists[shown'] = lists'[shown']
  <2>1. selected' = selected /\ page # None /\ Listed(shown, lists)
    BY <1>2 DEF Reselect, Listed
  <2>2. Answers(DOMAIN selected, shown)
    BY <2>1 DEF DisclosureInv, SelectionMatches
  <2> QED
    BY <1>2, <2>1, <2>2 DEF SelectionMatches, Answers, Essential, Asked, requester,
       DisclosureInv, Typed
<1>3. CASE page' = None \/ ~Listed(shown', lists')
  <2>1. SelectionMatches'
    BY <1>3 DEF SelectionMatches
  <2>2. selected' = selected \/ selected' = [c \in {} |-> FALSE]
    BY <1>3 DEF Reselect
  <2> QED
    BY <2>1, <2>2 DEF DisclosureInv, Typed
<1> QED
  BY <1>1, <1>2, <1>3

LEMMA ReceiveKept ==
    ASSUME DisclosureInv, NEW c \in Claims, Receive(c)
    PROVE  DisclosureInv'
<1>1. Typed'
  BY DEF Receive, DisclosureInv, Typed, requester, display
<1>2. SentWasSaved'
  BY DEF Receive, DisclosureInv, SentWasSaved, requester
<1>3. (ListsMatch /\ SelectionMatches /\ SharesMatch)'
  BY RequesterKept DEF Receive, requester
<1> QED
  BY <1>1, <1>2, <1>3 DEF DisclosureInv

\* A step that changes which list is on display and, with it, the selection.
LEMMA DisplayKept ==
    ASSUME DisclosureInv, UNCHANGED <<requester, inbox, wallet>>, Reselect,
           page' \in inbox \cup {None}, shown' \in inbox \cup {None},
           fetching' \in inbox \cup {None}, DOMAIN lists' = Requests, ListsMatch',
           shares' \in [Shares -> ShareRecords], SharesMatch'
    PROVE  DisclosureInv'
<1>1. SelectionMatches' /\ DOMAIN selected' \subseteq Claims
  BY ReselectMatches DEF DisclosureInv, Typed
<1>2. Typed'
  BY <1>1 DEF DisclosureInv, Typed, requester
<1> QED
  BY <1>1, <1>2, ResponderKept

\* As long as no list and no share changes, they keep matching what is asked.
LEMMA ListsKept ==
    ASSUME DisclosureInv, UNCHANGED <<requester, inbox, lists>>
    PROVE  ListsMatch'
<1>1. \A m : Asked(m)' = Asked(m)
  BY AskedKept
<1> QED
  BY <1>1 DEF DisclosureInv, ListsMatch

LEMMA SharesKept ==
    ASSUME DisclosureInv, UNCHANGED <<requester, inbox>>,
           \A s \in Shares :
               /\ shares'[s].pc = shares[s].pc /\ shares'[s].to = shares[s].to
               /\ shares'[s].vcs = shares[s].vcs /\ shares'[s].listed = shares[s].listed
    PROVE  SharesMatch'
<1>1. \A m : Essential(m)' = Essential(m) /\ Asked(m)' = Asked(m)
  BY AskedKept
<1> QED
  BY <1>1 DEF DisclosureInv, SharesMatch, Answers

LEMMA OpenKept ==
    ASSUME DisclosureInv, NEW m \in Requests, Open(m)
    PROVE  DisclosureInv'
<1>1. ListsMatch' /\ SharesMatch'
  BY ListsKept, SharesKept DEF Open
<1> QED
  BY <1>1, DisplayKept DEF Open, DisclosureInv, Typed

LEMMA LeaveKept ==
    ASSUME DisclosureInv, Leave
    PROVE  DisclosureInv'
<1>1. shares' \in [Shares -> ShareRecords]
  BY DEF Leave, DisclosureInv, Typed, ShareRecords
<1>2. ListsMatch' /\ SharesMatch'
  BY ListsKept, SharesKept DEF Leave, DisclosureInv, Typed, ShareRecords
<1> QED
  BY <1>1, <1>2, DisplayKept DEF Leave, DisclosureInv, Typed

LEMMA RefocusKept ==
    ASSUME DisclosureInv, Refocus
    PROVE  DisclosureInv'
<1>1. Typed'
  BY DEF Refocus, DisclosureInv, Typed, requester
<1>2. ListsMatch' /\ SharesMatch'
  BY ListsKept, SharesKept DEF Refocus
<1>3. SelectionMatches'
  BY AskedKept DEF Refocus, DisclosureInv, SelectionMatches, Listed, Answers
<1> QED
  BY <1>1, <1>2, <1>3, ResponderKept DEF Refocus

LEMMA MessageLoadedKept ==
    ASSUME DisclosureInv, MessageLoaded
    PROVE  DisclosureInv'
<1>1. ListsMatch' /\ SharesMatch'
  BY ListsKept, SharesKept DEF MessageLoaded
<1> QED
  BY <1>1, DisplayKept DEF MessageLoaded, DisclosureInv, Typed

LEMMA ListLoadedKept ==
    ASSUME DisclosureInv, ListLoaded
    PROVE  DisclosureInv'
<1>1. shown \in inbox
  BY DEF ListLoaded, DisclosureInv, Typed
<1>2. \A m \in Requests : Asked(m)' = Asked(m)
  BY AskedKept DEF ListLoaded
<1>3. ListsMatch'
  BY <1>1, <1>2 DEF ListLoaded, DisclosureInv, Typed, ListsMatch
<1>4. SharesMatch'
  BY SharesKept DEF ListLoaded
<1> QED
  BY <1>3, <1>4, DisplayKept DEF ListLoaded, DisclosureInv, Typed

LEMMA SelectKept ==
    ASSUME DisclosureInv, NEW c \in Claims, Select(c)
    PROVE  DisclosureInv'
<1>1. DOMAIN selected' = DOMAIN selected \cup {c}
  BY DEF Select
<1>2. Typed'
  BY <1>1 DEF Select, DisclosureInv, Typed, requester
<1>3. ListsMatch' /\ SharesMatch'
  BY ListsKept, SharesKept DEF Select
<1>4. c \in Asked(shown)
  BY DEF Select, Listed, DisclosureInv, Typed, ListsMatch
<1>5. Answers(DOMAIN selected', shown)
  BY <1>1, <1>4 DEF Select, DisclosureInv, SelectionMatches, Answers
<1>6. SelectionMatches'
  BY <1>5, AskedKept DEF Select, SelectionMatches, Answers
<1> QED
  BY <1>2, <1>3, <1>6, ResponderKept DEF Select

LEMMA ChoosePresenterKept ==
    ASSUME DisclosureInv, ChoosePresenter
    PROVE  DisclosureInv'
<1>1. Typed'
  BY DEF ChoosePresenter, DisclosureInv, Typed, requester
<1>2. ListsMatch' /\ SharesMatch'
  BY ListsKept, SharesKept DEF ChoosePresenter
<1>3. SelectionMatches'
  BY AskedKept DEF ChoosePresenter, DisclosureInv, SelectionMatches, Listed, Answers
<1> QED
  BY <1>1, <1>2, <1>3, ResponderKept DEF ChoosePresenter

LEMMA ShareKept ==
    ASSUME DisclosureInv, NEW s \in Shares, Share(s)
    PROVE  DisclosureInv'
<1> DEFINE call == [pc |-> "sign", to |-> shown, vcs |-> DOMAIN selected,
                    listed |-> Listed(shown, lists), here |-> TRUE]
<1>1. shares' = [shares EXCEPT ![s] = call]
  BY DEF Share
<1>2. call \in ShareRecords
  BY DEF DisclosureInv, Typed, ShareRecords, Listed
<1>3. Typed'
  BY <1>1, <1>2 DEF Share, DisclosureInv, Typed, requester, display
<1>4. ListsMatch'
  BY ListsKept DEF Share, display
<1>5. SelectionMatches'
  BY AskedKept DEF Share, display, DisclosureInv, SelectionMatches, Listed, Answers
<1>6. call.listed => call.to \in inbox /\ Answers(call.vcs, call.to)
  BY DEF Share, DisclosureInv, Typed, SelectionMatches, Listed
<1>7. SharesMatch'
  BY <1>1, <1>6, AskedKept DEF Share, DisclosureInv, Typed, SharesMatch, Answers
<1> QED
  BY <1>3, <1>4, <1>5, <1>7, ResponderKept DEF Share

LEMMA FinishKept ==
    ASSUME DisclosureInv, NEW s \in Shares, Finish(s)
    PROVE  DisclosureInv'
<1>1. Typed'
  BY DEF Finish, DisclosureInv, Typed, requester, NoShare, ShareRecords
<1>2. ListsMatch'
  BY ListsKept DEF Finish
<1>3. SelectionMatches'
  BY AskedKept DEF Finish, DisclosureInv, SelectionMatches, Listed, Answers
<1>4. SharesMatch'
  BY AskedKept DEF Finish, NoShare, DisclosureInv, Typed, SharesMatch, Answers
<1> QED
  BY <1>1, <1>2, <1>3, <1>4, ResponderKept DEF Finish

-----------------------------------------------------------------------------
(* The specification.                                                      *)

LEMMA DisclosureInvInit == Init => DisclosureInv
<1> SUFFICES ASSUME Init
             PROVE  DisclosureInv
  OBVIOUS
<1>1. Typed
  BY DEF Init, Typed, RequestRecords, RequestPCs, ShareRecords, NoClaims, Asking, NoShare
<1>2. SentWasSaved /\ ListsMatch /\ SelectionMatches
  BY DEF Init, SentWasSaved, ListsMatch, SelectionMatches
<1>3. SharesMatch
  BY DEF Init, SharesMatch, NoShare
<1> QED
  BY <1>1, <1>2, <1>3 DEF DisclosureInv

LEMMA DisclosureInvNext == DisclosureInv /\ [Next]_vars => DisclosureInv'
<1> SUFFICES ASSUME DisclosureInv, [Next]_vars
             PROVE  DisclosureInv'
  OBVIOUS
<1>1. CASE UNCHANGED vars
  <2>1. Typed' /\ SentWasSaved'
    BY <1>1 DEF vars, requester, display, DisclosureInv, Typed, SentWasSaved
  <2>2. (ListsMatch /\ SelectionMatches /\ SharesMatch)'
    BY <1>1, RequesterKept DEF vars, requester
  <2> QED
    BY <2>1, <2>2 DEF DisclosureInv
<1>2. CASE Next
  BY <1>2, ClickCreateKept, CreateKept, SaveKept, SendKept, OpenKept, ReceiveKept, SelectKept,
     LeaveKept, RefocusKept, MessageLoadedKept, ListLoadedKept, ChoosePresenterKept,
     ShareKept, FinishKept DEF Next
<1> QED
  BY <1>1, <1>2

LEMMA DisclosureInvAlways == ClientsSpec => []DisclosureInv
<1>1. ClientsInit => DisclosureInv
  BY DisclosureInvInit DEF ClientsInit
<1>2. [ClientsNext]_clientVars => [Next]_vars
  BY DEF ClientsNext, clientVars, newVars
<1>3. DisclosureInv /\ [ClientsNext]_clientVars => DisclosureInv'
  BY <1>2, DisclosureInvNext
<1> QED
  BY <1>1, <1>3, PTL DEF ClientsSpec

\* createSDR saves a request before it sends it, and an error of the save is not caught: what
\* has reached another agent can be matched with its answer, whatever fails.
THEOREM RequestsStayKept == ClientsSpec => []RequestsAreKept
<1>1. DisclosureInv => RequestsAreKept
  BY DEF DisclosureInv, SentWasSaved, RequestsAreKept
<1> QED
  BY <1>1, DisclosureInvAlways, PTL

\* useSelectedCredentials selects anew whenever another list comes on display, so that a
\* response made with its list on display answers the request it is sent to.
THEOREM ResponsesAnswer == ClientsSpec => []ResponseAnswersRequest
<1>1. DisclosureInv => ResponseAnswersRequest
  BY DEF DisclosureInv, SharesMatch, Answers, ResponseAnswersRequest
<1> QED
  BY <1>1, DisclosureInvAlways, PTL

-----------------------------------------------------------------------------
(* The chats.                                                              *)

\* The messages there are: on their way out, sent, with the mediator, on their way in, stored.
Outgoing == {sends[s].message : s \in {q \in Sends : sends[q] # None}}
Incoming == UNION {pickups[p].batch : p \in {q \in Pickups : pickups[q] # None}}
Written == Outgoing \cup sent \cup queue \cup Incoming \cup store

CallsTyped ==
    /\ DOMAIN sends = Sends /\ DOMAIN pickups = Pickups
    /\ \A s \in Sends : sends[s] # None => DOMAIN sends[s] = {"message", "at", "composing"}
    /\ \A p \in Pickups : pickups[p] # None => DOMAIN pickups[p] = {"did", "at", "batch"}

\* A thread has two parties, whoever wrote, and the page holds messages of the open thread.
ThreadsInv ==
    /\ next \in Nat
    /\ \A m \in Written : m.thread \in Nat /\ m.thread < next
    /\ \A m, n \in Written : m.thread = n.thread => Chats!Parties(m) = Chats!Parties(n)
    /\ loaded \subseteq store /\ \A m \in loaded : m.thread = route

\* What is about to be saved has been sent, and what is picked up is from peers.
SentInv ==
    /\ \A m \in queue \cup Incoming : m.from \in Peers
    /\ \A s \in Sends : sends[s] # None /\ sends[s].at = "save" => sends[s].message \in sent
    /\ Chats!StoredWasSent

ChatInv == CallsTyped /\ ThreadsInv /\ SentInv

-----------------------------------------------------------------------------
\* A step that writes nothing new.
LEMMA NothingNew ==
    ASSUME ThreadsInv, Written' \subseteq Written, UNCHANGED next,
           loaded' \subseteq store', \A m \in loaded' : m.thread = route'
    PROVE  ThreadsInv'
BY DEF ThreadsInv, Chats!Parties

\* A step that writes a message, in a thread of its own or between the parties of its thread.
LEMMA OneNew ==
    ASSUME ThreadsInv, NEW n, Written' \subseteq Written \cup {n}, next' = next + 1,
           UNCHANGED <<loaded, store, route>>,
           n.thread \in Nat /\ n.thread <= next,
           \A m \in Written : m.thread = n.thread => Chats!Parties(m) = Chats!Parties(n)
    PROVE  ThreadsInv'
<1>1. next' \in Nat /\ \A m \in Written' : m.thread \in Nat /\ m.thread < next'
  BY DEF ThreadsInv
<1>2. ASSUME NEW m \in Written', NEW l \in Written', m.thread = l.thread
      PROVE  Chats!Parties(m) = Chats!Parties(l)
  <2>1. CASE m \in Written /\ l \in Written
    BY <1>2, <2>1 DEF ThreadsInv
  <2>2. CASE m = n \/ l = n
    BY <1>2, <2>2
  <2> QED
    BY <2>1, <2>2
<1>3. \A m, l \in Written' : m.thread = l.thread => Chats!Parties(m)' = Chats!Parties(l)'
  BY <1>2 DEF Chats!Parties
<1> QED
  BY <1>1, <1>3 DEF ThreadsInv, Chats!Parties

LEMMA PageKeepsChats ==
    ASSUME ChatInv, Chats!Page
    PROVE  ChatInv'
<1>1. UNCHANGED <<sends, store, sent, queue, pickups, next>>
  BY DEF Chats!Page, Chats!Select, Chats!ComposeNewThread, Chats!CancelNewThread, Chats!CreateThread,
     Chats!ViewThread, Chats!Refetch
<1>2. CallsTyped' /\ SentInv' /\ Written' = Written
  BY <1>1 DEF ChatInv, CallsTyped, SentInv, Written, Outgoing, Incoming, Chats!StoredWasSent
<1>3. loaded' \subseteq store' /\ \A m \in loaded' : m.thread = route'
  BY <1>1 DEF ChatInv, ThreadsInv, Chats!Page, Chats!Select, Chats!ComposeNewThread, Chats!CancelNewThread,
     Chats!CreateThread, Chats!ViewThread, Chats!Refetch, Chats!InThread
<1> QED
  BY <1>1, <1>2, <1>3, NothingNew DEF ChatInv

-----------------------------------------------------------------------------
(* Sending.                                                                *)

\* The value of a call changes; its message is new, or one there was.
LEMMA SendSet ==
    ASSUME CallsTyped, NEW s \in Sends, NEW v, Chats!SetSend(s, v), UNCHANGED pickups,
           v # None => DOMAIN v = {"message", "at", "composing"}
    PROVE  /\ CallsTyped'
           /\ \A q \in Sends : sends'[q] = IF q = s THEN v ELSE sends[q]
           /\ Outgoing' \subseteq Outgoing \cup (IF v = None THEN {} ELSE {v.message})
<1>1. \A q \in Sends : sends'[q] = IF q = s THEN v ELSE sends[q]
  BY DEF CallsTyped, Chats!SetSend
<1>2. CallsTyped'
  BY <1>1 DEF CallsTyped, Chats!SetSend
<1> QED
  BY <1>1, <1>2 DEF Outgoing

LEMMA WritingKeepsChats ==
    ASSUME ChatInv, NEW s \in Sends, Chats!SendReply(s) \/ Chats!SendFirst(s)
    PROVE  ChatInv'
<1>1. PICK n :
        /\ Chats!SetSend(s, Chats!Pending(n))
        /\ n.thread \in Nat /\ n.thread <= next
        /\ \A m \in Written : m.thread = n.thread => Chats!Parties(m) = Chats!Parties(n)
  <2>1. CASE Chats!SendReply(s)
    <3>1. PICK first \in loaded, last \in loaded :
            /\ identity \in Chats!Parties(last)
            /\ Chats!SetSend(s, Chats!Pending([id |-> next, thread |-> route, from |-> identity,
                                               to |-> Chats!Recipient(first)]))
      BY <2>1 DEF Chats!SendReply
    <3> DEFINE n == [id |-> next, thread |-> route, from |-> identity, to |-> Chats!Recipient(first)]
    <3>2. first \in Written /\ last \in Written /\ first.thread = route /\ last.thread = route
      BY DEF ChatInv, ThreadsInv, Written
    <3>3. Chats!Parties(first) = Chats!Parties(last) /\ route \in Nat /\ route < next /\ next \in Nat
      BY <3>2 DEF ChatInv, ThreadsInv
    <3>4. Chats!Parties(n) = Chats!Parties(first)
      BY <3>1, <3>3 DEF Chats!Parties, Chats!Recipient
    <3>5. \A m \in Written : m.thread = route => Chats!Parties(m) = Chats!Parties(first)
      BY <3>2 DEF ChatInv, ThreadsInv
    <3>6. n.thread = route
      OBVIOUS
    <3> HIDE DEF n
    <3>7. \A m \in Written : m.thread = n.thread => Chats!Parties(m) = Chats!Parties(n)
      BY <3>4, <3>5, <3>6
    <3> QED
      BY <3>1, <3>3, <3>6, <3>7 DEF n
  <2>2. CASE Chats!SendFirst(s)
    <3> DEFINE n == [id |-> next, thread |-> next, from |-> identity, to |-> newRecipient]
    <3>1. Chats!SetSend(s, Chats!Pending(n)) /\ next \in Nat /\ n.thread = next
      BY <2>2 DEF Chats!SendFirst, ChatInv, ThreadsInv
    <3> HIDE DEF n
    <3>2. \A m \in Written : m.thread # n.thread
      BY <3>1 DEF ChatInv, ThreadsInv
    <3> QED
      BY <3>1, <3>2
  <2> QED
    BY <2>1, <2>2
<1>2. UNCHANGED <<route, loaded, store, sent, queue, pickups>> /\ next' = next + 1
  BY DEF Chats!SendReply, Chats!SendFirst, Chats!ui
<1> DEFINE v == Chats!Pending(n)
<1>3. v.message = n /\ v.at = "pack" /\ DOMAIN v = {"message", "at", "composing"}
  BY DEF Chats!Pending
<1> HIDE DEF v
<1>4. /\ CallsTyped'
      /\ \A q \in Sends : sends'[q] = IF q = s THEN v ELSE sends[q]
      /\ Outgoing' \subseteq Outgoing \cup {n}
  BY <1>1, <1>2, <1>3, SendSet DEF v, ChatInv
<1>5. Written' \subseteq Written \cup {n}
  BY <1>2, <1>4 DEF Written, Incoming
<1>6. ThreadsInv'
  BY <1>1, <1>2, <1>5, OneNew DEF ChatInv
<1>7. SentInv'
  BY <1>2, <1>3, <1>4 DEF ChatInv, SentInv, Chats!StoredWasSent, Incoming
<1> QED
  BY <1>4, <1>6, <1>7 DEF ChatInv

LEMMA SendAgainKeepsChats ==
    ASSUME ChatInv, NEW s \in Sends, Chats!SendAgain(s)
    PROVE  ChatInv'
<1>1. PICK q \in Sends : sends[q] # None /\ sends[q].at = "pack" /\ Chats!SetSend(s, sends[q])
  BY DEF Chats!SendAgain
<1>2. UNCHANGED <<route, loaded, store, sent, queue, pickups, next>>
  BY DEF Chats!SendAgain, Chats!ui
<1>3. /\ CallsTyped'
      /\ \A r \in Sends : sends'[r] = IF r = s THEN sends[q] ELSE sends[r]
      /\ Outgoing' \subseteq Outgoing \cup {sends[q].message}
  BY <1>1, <1>2, SendSet DEF ChatInv, CallsTyped
<1>4. Written' \subseteq Written
  BY <1>1, <1>2, <1>3 DEF Written, Incoming, Outgoing
<1>5. ThreadsInv'
  BY <1>2, <1>4, NothingNew DEF ChatInv, ThreadsInv
<1>6. SentInv'
  BY <1>1, <1>2, <1>3 DEF ChatInv, SentInv, Chats!StoredWasSent, Incoming
<1> QED
  BY <1>3, <1>5, <1>6 DEF ChatInv

\* The page and the data store after a step of a call that has been packed.
LEMMA PackedKeepsChats ==
    ASSUME ChatInv, NEW s \in Sends, Chats!Pack(s) \/ Chats!Send(s) \/ Chats!Save(s)
    PROVE  ChatInv'
<1> DEFINE m == sends[s].message
<1>1. sends[s] # None /\ m \in Written /\ DOMAIN sends[s] = {"message", "at", "composing"}
  BY DEF Chats!Pack, Chats!Send, Chats!Save, Written, Outgoing, ChatInv, CallsTyped
<1>2. PICK v :
        /\ Chats!SetSend(s, v)
        /\ v # None => /\ DOMAIN v = {"message", "at", "composing"} /\ v.message = m
                       /\ v.at = "save" => m \in sent'
  <2>1. CASE Chats!Pack(s)
    <3>1. Chats!SetSend(s, [sends[s] EXCEPT !.at = "send"]) \/ Chats!SetSend(s, None)
      BY <2>1 DEF Chats!Pack
    <3> QED
      BY <1>1, <3>1
  <2>2. CASE Chats!Send(s)
    <3>1. \/ Chats!SetSend(s, [sends[s] EXCEPT !.at = "save"]) /\ sent' = sent \cup {m}
          \/ Chats!SetSend(s, None)
      BY <2>2 DEF Chats!Send
    <3> QED
      BY <1>1, <3>1
  <2>3. CASE Chats!Save(s)
    BY <2>3 DEF Chats!Save
  <2> QED
    BY <2>1, <2>2, <2>3
<1>3. UNCHANGED <<queue, pickups, next>>
  BY DEF Chats!Pack, Chats!Send, Chats!Save
<1>4. /\ sent \subseteq sent' /\ sent' \subseteq sent \cup {m}
      /\ store \subseteq store' /\ store' \subseteq store \cup {m}
      /\ store' # store => sends[s].at = "save"
  BY DEF Chats!Pack, Chats!Send, Chats!Save
<1>5. loaded' \subseteq store' /\ \A n \in loaded' : n.thread = route'
  BY DEF Chats!Pack, Chats!Send, Chats!Save, Chats!ui, ChatInv, ThreadsInv
<1> HIDE DEF m
<1>6. /\ CallsTyped'
      /\ \A r \in Sends : sends'[r] = IF r = s THEN v ELSE sends[r]
      /\ Outgoing' \subseteq Outgoing \cup (IF v = None THEN {} ELSE {v.message})
  BY <1>2, <1>3, SendSet DEF ChatInv
<1>7. Written' \subseteq Written
  BY <1>1, <1>2, <1>3, <1>4, <1>6 DEF Written, Incoming
<1>8. ThreadsInv'
  BY <1>3, <1>5, <1>7, NothingNew DEF ChatInv
<1>9. store' # store => m \in sent
  BY <1>1, <1>4 DEF ChatInv, SentInv, m
<1>10. SentInv'
  BY <1>2, <1>3, <1>4, <1>6, <1>9 DEF ChatInv, SentInv, Chats!StoredWasSent, Incoming
<1> QED
  BY <1>6, <1>8, <1>10 DEF ChatInv

-----------------------------------------------------------------------------
(* Receiving.                                                              *)

LEMMA PeerKeepsChats ==
    ASSUME ChatInv, NEW p \in Peers, NEW a \in Own, Chats!PeerWrites(p, a)
    PROVE  ChatInv'
<1>1. PICK n :
        /\ queue' = queue \cup {n} /\ n.from = p
        /\ n.thread \in Nat /\ n.thread <= next
        /\ \A m \in Written : m.thread = n.thread => Chats!Parties(m) = Chats!Parties(n)
  <2>1. CASE queue' = queue \cup {[id |-> next, thread |-> next, from |-> p, to |-> a]}
    <3> DEFINE n == [id |-> next, thread |-> next, from |-> p, to |-> a]
    <3>1. n.thread = next /\ n.from = p /\ next \in Nat /\ queue' = queue \cup {n}
      BY <2>1 DEF ChatInv, ThreadsInv
    <3> HIDE DEF n
    <3> QED
      BY <3>1 DEF ChatInv, ThreadsInv
  <2>2. CASE \E m \in sent : /\ m.from = a /\ m.to = p
                            /\ queue' = queue \cup {[id |-> next, thread |-> m.thread, from |-> p, to |-> a]}
    <3> PICK m \in sent : /\ m.from = a /\ m.to = p
                          /\ queue' = queue \cup {[id |-> next, thread |-> m.thread, from |-> p, to |-> a]}
      BY <2>2
    <3> DEFINE n == [id |-> next, thread |-> m.thread, from |-> p, to |-> a]
    <3>1. n.thread = m.thread /\ n.from = p /\ queue' = queue \cup {n}
      OBVIOUS
    <3>2. Chats!Parties(n) = Chats!Parties(m)
      BY DEF Chats!Parties
    <3>3. m \in Written /\ next \in Nat
      BY DEF Written, ChatInv, ThreadsInv
    <3> HIDE DEF n
    <3> QED
      BY <3>1, <3>2, <3>3 DEF ChatInv, ThreadsInv
  <2> QED
    BY <2>1, <2>2 DEF Chats!PeerWrites
<1>2. UNCHANGED <<route, loaded, sends, store, sent, pickups>> /\ next' = next + 1
  BY DEF Chats!PeerWrites, Chats!ui
<1>3. Written' \subseteq Written \cup {n}
  BY <1>1, <1>2 DEF Written, Outgoing, Incoming
<1>4. ThreadsInv'
  BY <1>1, <1>2, <1>3, OneNew DEF ChatInv
<1>5. CallsTyped' /\ SentInv'
  BY <1>1, <1>2 DEF ChatInv, CallsTyped, SentInv, Chats!StoredWasSent, Incoming
<1> QED
  BY <1>4, <1>5 DEF ChatInv

\* The value of a pickup changes; the messages it holds are ones the mediator holds, or it held.
LEMMA PickupSet ==
    ASSUME CallsTyped, NEW p \in Pickups, NEW v, pickups' = [pickups EXCEPT ![p] = v], UNCHANGED sends,
           v # None => DOMAIN v = {"did", "at", "batch"} /\ v.batch \subseteq queue \cup Incoming
    PROVE  CallsTyped' /\ Incoming' \subseteq queue \cup Incoming
<1>1. \A q \in Pickups : pickups'[q] = IF q = p THEN v ELSE pickups[q]
  BY DEF CallsTyped
<1> QED
  BY <1>1 DEF CallsTyped, Incoming

LEMMA PickupKeepsChats ==
    ASSUME ChatInv, ChatAssumption, NEW p \in Pickups, Chats!Pickup(p) \/ Chats!Ticks(p)
    PROVE  ChatInv'
<1> DEFINE r == pickups[p]
<1>1. r # None => DOMAIN r = {"did", "at", "batch"} /\ r.batch \subseteq Incoming
  BY DEF ChatInv, CallsTyped, Incoming
<1>2. PICK v :
        /\ pickups' = [pickups EXCEPT ![p] = v]
        /\ v # None => DOMAIN v = {"did", "at", "batch"} /\ v.batch \subseteq queue \cup Incoming
  <2>1. CASE Chats!Ticks(p)
    BY <2>1 DEF Chats!Ticks, Chats!Tick
  <2>2. CASE Chats!AskStatus(p)
    <3> DEFINE u == [r EXCEPT !.at = "delivery"]
    <3>1. r # None /\ pickups' = [pickups EXCEPT ![p] = u]
      BY <2>2 DEF Chats!AskStatus
    <3>2. DOMAIN u = {"did", "at", "batch"} /\ u.batch \subseteq Incoming
      BY <1>1, <3>1
    <3> HIDE DEF u
    <3> QED
      BY <3>1, <3>2
  <2>3. CASE Chats!Deliver(p)
    <3>1. PICK batch \in SUBSET queue :
            r # None /\ pickups' = [pickups EXCEPT ![p] = [r EXCEPT !.batch = batch, !.at = "handle"]]
      BY <2>3 DEF Chats!Deliver
    <3> DEFINE u == [r EXCEPT !.batch = batch, !.at = "handle"]
    <3>2. pickups' = [pickups EXCEPT ![p] = u]
      BY <3>1
    <3>3. DOMAIN u = {"did", "at", "batch"} /\ u.batch \subseteq queue
      BY <1>1, <3>1
    <3> HIDE DEF u
    <3> QED
      BY <3>2, <3>3
  <2>4. CASE Chats!Handle(p)
    <3> DEFINE u == [r EXCEPT !.at = "acknowledge"]
    <3>1. r # None /\ pickups' = [pickups EXCEPT ![p] = u]
      BY <2>4 DEF Chats!Handle
    <3>2. DOMAIN u = {"did", "at", "batch"} /\ u.batch \subseteq Incoming
      BY <1>1, <3>1
    <3> HIDE DEF u
    <3> QED
      BY <3>1, <3>2
  <2>5. CASE Chats!Lose(p) \/ Chats!Acknowledge(p)
    BY <2>5 DEF Chats!Lose, Chats!Acknowledge
  <2> QED
    BY <2>1, <2>2, <2>3, <2>4, <2>5 DEF Chats!Pickup
<1>3. UNCHANGED <<route, loaded, sends, sent, next>> /\ queue' \subseteq queue
  BY DEF Chats!Ticks, Chats!Tick, Chats!Pickup, Chats!AskStatus, Chats!Deliver, Chats!Lose, Chats!Handle,
     Chats!Acknowledge, Chats!ui
<1>4. store \subseteq store' /\ store' \subseteq store \cup Incoming
  BY <1>1 DEF Chats!Ticks, Chats!Tick, Chats!Pickup, Chats!AskStatus, Chats!Deliver, Chats!Lose,
     Chats!Handle, Chats!Acknowledge
<1> HIDE DEF r
<1>5. CallsTyped' /\ Incoming' \subseteq queue \cup Incoming
  BY <1>2, <1>3, PickupSet DEF ChatInv
<1>6. Written' \subseteq Written
  BY <1>3, <1>4, <1>5 DEF Written, Outgoing
<1>7. ThreadsInv'
  BY <1>3, <1>4, <1>6, NothingNew DEF ChatInv, ThreadsInv
<1>8. SentInv'
  BY <1>3, <1>4, <1>5 DEF ChatInv, SentInv, ChatAssumption, Chats!StoredWasSent
<1> QED
  BY <1>5, <1>7, <1>8 DEF ChatInv

-----------------------------------------------------------------------------
LEMMA ChatsStartEmpty == ClientsInit => ChatInv
BY DEF ClientsInit, Chats!NothingWritten, ChatInv, CallsTyped, ThreadsInv, SentInv, Chats!StoredWasSent, Written,
   Outgoing, Incoming

LEMMA ChatsKept ==
    ASSUME ChatInv, ChatAssumption, [ClientsNext]_clientVars
    PROVE  ChatInv'
<1>1. Chats!Next \/ UNCHANGED chatVars
  BY DEF ClientsNext, clientVars
<1>2. ASSUME UNCHANGED chatVars
      PROVE  ChatInv'
  <2>1. CallsTyped' /\ SentInv' /\ Written' = Written
    BY <1>2 DEF chatVars, ChatInv, CallsTyped, SentInv, Written, Outgoing, Incoming, Chats!StoredWasSent
  <2> QED
    BY <1>2, <2>1, NothingNew DEF chatVars, ChatInv, ThreadsInv
<1>3. ASSUME NEW s \in Sends, Chats!Sending(s)
      PROVE  ChatInv'
  BY <1>3, WritingKeepsChats, SendAgainKeepsChats, PackedKeepsChats DEF Chats!Sending
<1>4. ASSUME Chats!Mail
      PROVE  ChatInv'
  BY <1>4, PeerKeepsChats, PickupKeepsChats DEF Chats!Mail
<1> QED
  BY <1>1, <1>2, <1>3, <1>4, PageKeepsChats DEF Chats!Next

LEMMA ChatsInvariant == ClientsSpec => []ChatInv
BY ChatsStartEmpty, ChatsKept, ChatAssumption, PTL DEF ClientsSpec

\* Replies go to the other party of the thread: whoever of the agent's identities is
\* selected, whatever the page has loaded, and however calls and pickups overlap.
THEOREM RepliesAreInThread == ClientsSpec => []RepliesStayInThread
<1>1. ChatInv => RepliesStayInThread
  BY DEF ChatInv, ThreadsInv, Written, RepliesStayInThread, Chats!RepliesStayInThread
<1> QED
  BY <1>1, ChatsInvariant, PTL

\* The thread shows as sent only what the transport took, whichever of the calls of a send or
\* of a pickup fails or is repeated.
THEOREM StoredMessagesWereSent == ClientsSpec => []StoredWasSent
<1>1. ChatInv => StoredWasSent
  BY DEF ChatInv, SentInv, StoredWasSent, Chats!StoredWasSent
<1> QED
  BY <1>1, ChatsInvariant, PTL

-----------------------------------------------------------------------------
(* The command line.                                                       *)

\* The fields of a session.
Fields == {"cmd", "at", "how", "send", "list", "did", "to", "key", "picks", "body", "took"}

CliTyped ==
    /\ DOMAIN cli = Sessions
    /\ \A s \in Sessions : DOMAIN cli[s] = Fields

KeyCommands == {"create", "delete", "add-key", "remove-key", "export", "import"}

\* The keys of an identifier, which the key store has and no other identifier.
Has(d) == IF ids[d] = None THEN {} ELSE ids[d]

Keyring ==
    /\ DOMAIN ids = CliDids
    /\ keys \subseteq CliKeys
    /\ \A d \in CliDids : Has(d) \subseteq keys
    /\ \A d, e \in CliDids : d # e => Has(d) \cap Has(e) = {}

LeftBy(s, k) ==
    cli[s].cmd = "add-key" /\ cli[s].key = k /\ ~(cli[s].at = "ended" /\ cli[s].how = "done")

Attached(k) == \E d \in CliDids : k \in Has(d)
Explained(k) == Attached(k) \/ \E s \in Sessions : LeftBy(s, k) \/ k \in cli[s].took

\* A command on keys works on an identifier, and has a key between the two calls of add-key.
KeySessionInv(s) ==
    /\ cli[s].at \in {"start", "ask", "run", "add", "ended"}
    /\ cli[s].at # "start" => cli[s].cmd \in KeyCommands
    /\ cli[s].at \in {"start", "ask", "run"} => cli[s].key = None
    /\ cli[s].at # "ended" => cli[s].took = {}
    /\ cli[s].at = "ask" => cli[s].list \subseteq CliDids
    /\ cli[s].at \in {"run", "add"} => cli[s].did \in CliDids
    /\ cli[s].at = "add" => cli[s].cmd = "add-key" /\ cli[s].key \in keys /\ ~Attached(cli[s].key)

KeysInv ==
    /\ presentations = {} /\ posted = {}
    /\ \A s \in Sessions : KeySessionInv(s)
    /\ \A s, t \in Sessions : s # t /\ cli[s].at = "add" /\ cli[t].at = "add" => cli[s].key # cli[t].key
    /\ \A k \in keys : Explained(k)

\* What a session is about to show is about the identifier it works for, what it is about to
\* send is stored and its own, and what it answers is a request of the store.
SessionInv(s) ==
    /\ cli[s].at # "start" => cli[s].cmd \in Documents
    /\ cli[s].at \in {"start", "ask", "ask request"} => cli[s].picks = {}
    /\ \A c \in cli[s].picks : c.sub = cli[s].did
    /\ cli[s].at = "pick" => \A c \in cli[s].list : c.sub = cli[s].did
    /\ cli[s].at = "send" /\ cli[s].cmd = "credential" =>
           cli[s].body \in creds /\ cli[s].body.iss = cli[s].did
    /\ cli[s].at = "send" /\ cli[s].cmd = "presentation" =>
           cli[s].body \in presentations /\ cli[s].body.holder = cli[s].did
    /\ cli[s].at = "ask request" => cli[s].list \subseteq messages
    /\ cli[s].at = "respond" => DocCli!Request(cli[s].to[1], cli[s].did) \in messages

AboutHolder(p) == \A c \in p.creds : c.sub = p.holder

PostedWell(m) ==
    /\ "holder" \in DOMAIN m.body => AboutHolder(m.body)
    /\ m.by = "credential" => m.body \in creds /\ m.body.iss = m.from
    /\ m.by = "presentation" => m.body \in presentations /\ m.body.holder = m.from
    /\ m.by = "respond" => DocCli!Request(m.to, m.from) \in messages /\ m.body.holder = m.from

IsCredential(c) == DOMAIN c = {"iss", "sub", "form"}
IsRequest(m) == m = DocCli!Request(m.from, m.to)

DocumentsInv ==
    /\ \A s \in Sessions : SessionInv(s)
    /\ \A c \in creds : IsCredential(c)
    /\ \A p \in presentations : AboutHolder(p)
    /\ \A m \in messages : IsRequest(m)
    /\ \A m \in posted : PostedWell(m)

CliInv ==
    /\ CliTyped /\ Keyring
    /\ part = "documents" => DocumentsInv /\ \A k \in keys : Attached(k)
    /\ part # "documents" => KeysInv

-----------------------------------------------------------------------------
\* The session that moves has its new values, the others are as they were.
Moved(s, r) ==
    /\ \A t \in Sessions \ {s} : cli'[t] = cli[t]
    /\ DOMAIN cli'[s] = Fields
    /\ \A f \in Fields : cli'[s][f] = IF f \in DOMAIN r THEN r[f] ELSE cli[s][f]

LEMMA GoesOn ==
    ASSUME CliTyped, NEW s \in Sessions, NEW r, DocCli!Go(s, r) \/ KeyCli!Go(s, r)
    PROVE  CliTyped' /\ Moved(s, r)
<1>1. cli' = [cli EXCEPT ![s] = [f \in DOMAIN cli[s] |-> IF f \in DOMAIN r THEN r[f] ELSE cli[s][f]]]
  BY DEF DocCli!Go, KeyCli!Go
<1> QED
  BY <1>1 DEF CliTyped, Moved

LEMMA Ends ==
    ASSUME CliTyped, NEW s \in Sessions, NEW how, DocCli!End(s, how) \/ KeyCli!End(s, how)
    PROVE  CliTyped' /\ Moved(s, [at |-> "ended", how |-> how])
BY GoesOn DEF DocCli!End, KeyCli!End

\* A step of one session keeps the others' part of the invariant.
LEMMA OthersKept ==
    ASSUME DocumentsInv, NEW s \in Sessions, NEW r, Moved(s, r), cli[s].at # "ended",
           creds \subseteq creds', presentations \subseteq presentations',
           messages \subseteq messages', posted \subseteq posted',
           SessionInv(s)',
           \A c \in creds' \ creds : IsCredential(c),
           \A p \in presentations' \ presentations : AboutHolder(p),
           \A m \in messages' \ messages : IsRequest(m),
           \A m \in posted' \ posted : PostedWell(m)'
    PROVE  DocumentsInv'
<1>1. \A t \in Sessions : SessionInv(t)'
  <2> SUFFICES ASSUME NEW t \in Sessions, t # s
               PROVE  SessionInv(t)'
    OBVIOUS
  <2>1. SessionInv(t) /\ cli'[t] = cli[t]
    BY DEF DocumentsInv, Moved
  <2> QED
    BY <2>1 DEF SessionInv, DocCli!Request, DocCli!Message, DocCli!Asking
<1>2. \A m \in posted' : PostedWell(m)'
  <2> SUFFICES ASSUME NEW m \in posted
               PROVE  PostedWell(m)'
    OBVIOUS
  <2>1. PostedWell(m)
    BY DEF DocumentsInv
  <2> QED
    BY <2>1 DEF PostedWell, AboutHolder
<1>3. \A p \in presentations' : AboutHolder(p)'
  BY DEF DocumentsInv, AboutHolder
<1>4. \A m \in messages' : IsRequest(m)'
  BY DEF DocumentsInv, IsRequest
<1>5. \A c \in creds' : IsCredential(c)'
  BY DEF DocumentsInv, IsCredential
<1> QED
  BY <1>1, <1>2, <1>3, <1>4, <1>5 DEF DocumentsInv

-----------------------------------------------------------------------------
(* Commands on documents, action by action.                                *)

\* A session that ends, having stored or posted what it may.
LEMMA EndingKeepsDocuments ==
    ASSUME CliTyped, DocumentsInv, NEW s \in Sessions, NEW how, DocCli!End(s, how), cli[s].at \notin {"start", "ended"},
           creds \subseteq creds', presentations \subseteq presentations',
           messages \subseteq messages', posted \subseteq posted',
           \A c \in creds' \ creds : IsCredential(c),
           \A p \in presentations' \ presentations : AboutHolder(p),
           \A m \in messages' \ messages : IsRequest(m),
           \A m \in posted' \ posted : PostedWell(m)'
    PROVE  CliTyped' /\ DocumentsInv'
<1>1. CliTyped' /\ Moved(s, [at |-> "ended", how |-> how])
  BY Ends
<1>2. /\ cli'[s].at = "ended" /\ cli'[s].cmd = cli[s].cmd /\ cli'[s].did = cli[s].did
      /\ cli'[s].picks = cli[s].picks
  BY <1>1 DEF Moved, Fields
<1>3. SessionInv(s)'
  BY <1>2 DEF DocumentsInv, SessionInv
<1> QED
  BY <1>1, <1>3, OthersKept

LEMMA KillingKeepsDocuments ==
    ASSUME CliTyped, DocumentsInv, NEW s \in Sessions, DocCli!Kill(s)
    PROVE  CliTyped' /\ DocumentsInv'
<1>1. UNCHANGED <<creds, presentations, messages, posted>> /\ cli[s].at \notin {"start", "ended"} /\ DocCli!End(s, "killed")
  BY DEF DocCli!Kill, DocCli!data
<1> QED
  BY <1>1, EndingKeepsDocuments

LEMMA AskingKeepsDocuments ==
    ASSUME CliTyped, DocumentsInv, NEW s \in Sessions,
           DocCli!Begin(s) \/ DocCli!Choose(s) \/ DocCli!ReadRequests(s)
    PROVE  CliTyped' /\ DocumentsInv'
<1>1. UNCHANGED <<creds, presentations, messages, posted>> /\ cli[s].at # "ended"
  BY DEF DocCli!Begin, DocCli!Choose, DocCli!ReadRequests, DocCli!data
<1>2. PICK r : /\ DocCli!Go(s, r)
               /\ DOMAIN r \cap {"picks", "body"} = {}
               /\ IF "cmd" \in DOMAIN r THEN r.cmd \in Documents ELSE cli[s].at # "start"
               /\ "at" \in DOMAIN r /\ r.at \in {"ask", "ended", "run", "ask request"}
               /\ r.at = "ask request" => "list" \in DOMAIN r /\ r.list = messages
               /\ cli[s].picks = {} \/ (r.at = "ended" /\ "did" \notin DOMAIN r)
  <2>1. CASE DocCli!Begin(s)
    <3>1. PICK c \in Documents, send \in BOOLEAN :
            \/ DocCli!Go(s, [cmd |-> c, at |-> "ended", how |-> "refused"])
            \/ DocCli!Go(s, [cmd |-> c, at |-> "ask", send |-> send, list |-> DocCli!Shown(c)])
      BY <2>1 DEF DocCli!Begin
    <3>2. cli[s].picks = {}
      BY <2>1 DEF DocCli!Begin, DocumentsInv, SessionInv
    <3>3. CASE DocCli!Go(s, [cmd |-> c, at |-> "ended", how |-> "refused"])
      BY <3>2, <3>3
    <3>4. CASE DocCli!Go(s, [cmd |-> c, at |-> "ask", send |-> send, list |-> DocCli!Shown(c)])
      BY <3>2, <3>4
    <3> QED
      BY <3>1, <3>3, <3>4
  <2>2. CASE DocCli!Choose(s)
    BY <2>2 DEF DocCli!Choose, DocumentsInv, SessionInv
  <2>3. CASE DocCli!ReadRequests(s)
    BY <2>3 DEF DocCli!ReadRequests, DocumentsInv, SessionInv, Documents
  <2> QED
    BY <2>1, <2>2, <2>3
<1>3. CliTyped' /\ Moved(s, r)
  BY <1>2, GoesOn
<1>4. /\ cli'[s].picks = cli[s].picks /\ cli'[s].at \in {"ask", "ended", "run", "ask request"}
      /\ cli'[s].cmd \in Documents
      /\ cli'[s].at = "ask request" => cli'[s].list = messages
      /\ cli[s].picks = {} \/ (cli'[s].at = "ended" /\ cli'[s].did = cli[s].did)
  BY <1>1, <1>2, <1>3 DEF Moved, Fields, DocumentsInv, SessionInv
<1>5. \A c \in cli[s].picks : c.sub = cli[s].did
  BY DEF DocumentsInv, SessionInv
<1>6. /\ cli'[s].at \in {"ask", "ask request"} => cli'[s].picks = {}
      /\ \A c \in cli'[s].picks : c.sub = cli'[s].did
      /\ cli'[s].at = "ask request" => cli'[s].list \subseteq messages'
  BY <1>1, <1>2, <1>4, <1>5
<1>7. SessionInv(s)'
  BY <1>4, <1>6 DEF SessionInv
<1> QED
  BY <1>1, <1>3, <1>7, OthersKept

LEMMA SigningKeepsDocuments ==
    ASSUME CliTyped, DocumentsInv, NEW s \in Sessions, DocCli!Sign(s)
    PROVE  CliTyped' /\ DocumentsInv'
<1>1. PICK sub, f :
        LET c == DocCli!Credential(cli[s].did, sub, f) IN
          \/ /\ creds' = creds \cup {c}
             /\ \/ DocCli!Go(s, [at |-> "send", body |-> c, to |-> <<sub>>])
                \/ DocCli!End(s, "done")
          \/ UNCHANGED creds /\ DocCli!End(s, "died")
  BY DEF DocCli!Sign, DocCli!Did
<1> DEFINE c == DocCli!Credential(cli[s].did, sub, f)
<1>2. IsCredential(c) /\ c.iss = cli[s].did
  BY DEF DocCli!Credential, IsCredential
<1>3. UNCHANGED <<presentations, messages, posted>> /\ cli[s].at = "run" /\ cli[s].cmd # "presentation"
  BY DEF DocCli!Sign
<1> HIDE DEF c
<1>4. CASE creds' = creds \cup {c} /\ DocCli!Go(s, [at |-> "send", body |-> c, to |-> <<sub>>])
  <2>1. CliTyped' /\ Moved(s, [at |-> "send", body |-> c, to |-> <<sub>>])
    BY <1>4, GoesOn
  <2>2. SessionInv(s)'
    BY <1>2, <1>3, <1>4, <2>1 DEF DocumentsInv, SessionInv, Moved, Fields
  <2> QED
    BY <1>2, <1>3, <1>4, <2>1, <2>2, OthersKept
<1>5. CASE creds' \in {creds, creds \cup {c}} /\ (DocCli!End(s, "done") \/ DocCli!End(s, "died"))
  BY <1>2, <1>3, <1>5, EndingKeepsDocuments
<1> QED
  BY <1>1, <1>4, <1>5 DEF c

LEMMA ListingKeepsDocuments ==
    ASSUME CliTyped, DocumentsInv, NEW s \in Sessions,
           DocCli!ListForPresentation(s) \/ DocCli!ListForRequest(s)
    PROVE  CliTyped' /\ DocumentsInv'
<1>1. UNCHANGED <<creds, presentations, messages, posted>> /\ cli[s].at = "run"
  BY DEF DocCli!ListForPresentation, DocCli!ListForRequest, DocCli!At, DocCli!data
<1>2. CASE DocCli!End(s, "nothing")
  BY <1>1, <1>2, EndingKeepsDocuments
<1>3. ASSUME NEW to, NEW at \in {"pick", "make"},
             DocCli!Go(s, [at |-> at, list |-> DocCli!About(cli[s].did), to |-> to])
      PROVE  CliTyped' /\ DocumentsInv'
  <2>2. CliTyped' /\ Moved(s, [at |-> at, list |-> DocCli!About(cli[s].did), to |-> to])
    BY <1>3, GoesOn
  <2>3. /\ cli'[s].at = at /\ cli'[s].list = DocCli!About(cli[s].did)
        /\ cli'[s].did = cli[s].did /\ cli'[s].picks = cli[s].picks /\ cli'[s].cmd = cli[s].cmd
    BY <2>2 DEF Moved, Fields
  <2>4. SessionInv(s)'
    BY <1>1, <2>3 DEF DocumentsInv, SessionInv, DocCli!About
  <2> QED
    BY <1>1, <2>2, <2>4, OthersKept
<1>4. CASE DocCli!ListForPresentation(s)
  <2>1. PICK aud : \/ DocCli!End(s, "nothing")
                   \/ DocCli!Go(s, [at |-> "pick", list |-> DocCli!About(cli[s].did), to |-> aud])
    BY <1>4 DEF DocCli!ListForPresentation, DocCli!Did
  <2> QED
    BY <1>2, <1>3, <2>1
<1>5. CASE DocCli!ListForRequest(s)
  <2>1. PICK sub : \E add \in BOOLEAN :
          DocCli!Go(s, [at |-> IF add /\ DocCli!About(cli[s].did) # {} THEN "pick" ELSE "make",
                        list |-> DocCli!About(cli[s].did), to |-> <<sub>>])
    BY <1>5 DEF DocCli!ListForRequest, DocCli!Did
  <2>2. PICK at \in {"pick", "make"} :
          DocCli!Go(s, [at |-> at, list |-> DocCli!About(cli[s].did), to |-> <<sub>>])
    <3>1. PICK add \in BOOLEAN :
            DocCli!Go(s, [at |-> IF add /\ DocCli!About(cli[s].did) # {} THEN "pick" ELSE "make",
                          list |-> DocCli!About(cli[s].did), to |-> <<sub>>])
      BY <2>1
    <3> DEFINE at == IF add /\ DocCli!About(cli[s].did) # {} THEN "pick" ELSE "make"
    <3>2. at \in {"pick", "make"} /\ DocCli!Go(s, [at |-> at, list |-> DocCli!About(cli[s].did), to |-> <<sub>>])
      BY <3>1
    <3> HIDE DEF at
    <3> QED
      BY <3>2
  <2> QED
    BY <1>3, <2>2
<1> QED
  BY <1>4, <1>5

LEMMA PickingKeepsDocuments ==
    ASSUME CliTyped, DocumentsInv, NEW s \in Sessions, DocCli!Pick(s)
    PROVE  CliTyped' /\ DocumentsInv'
<1>1. PICK c \in cli[s].list, at \in {"pick", "make"} :
        DocCli!Go(s, [picks |-> cli[s].picks \cup {c}, at |-> at])
  BY DEF DocCli!Pick
<1>2. CliTyped' /\ Moved(s, [picks |-> cli[s].picks \cup {c}, at |-> at])
  BY <1>1, GoesOn
<1>3. UNCHANGED <<creds, presentations, messages, posted>> /\ cli[s].at = "pick"
  BY DEF DocCli!Pick, DocCli!data
<1>4. /\ cli'[s].at = at /\ cli'[s].list = cli[s].list
      /\ cli'[s].did = cli[s].did /\ cli'[s].picks = cli[s].picks \cup {c} /\ cli'[s].cmd = cli[s].cmd
  BY <1>2 DEF Moved, Fields
<1>5. SessionInv(s)'
  BY <1>3, <1>4 DEF DocumentsInv, SessionInv
<1> QED
  BY <1>2, <1>3, <1>5, OthersKept

LEMMA PresentingKeepsDocuments ==
    ASSUME CliTyped, DocumentsInv, NEW s \in Sessions, DocCli!MakePresentation(s)
    PROVE  CliTyped' /\ DocumentsInv'
<1> DEFINE p == [holder |-> cli[s].did, verifiers |-> cli[s].to, creds |-> cli[s].picks]
<1>1. AboutHolder(p) /\ p.holder = cli[s].did
  BY DEF DocumentsInv, SessionInv, AboutHolder
<1>2. UNCHANGED <<creds, messages, posted>> /\ cli[s].at = "make" /\ cli[s].cmd = "presentation"
  BY DEF DocCli!MakePresentation, DocCli!At
<1>3. \/ presentations' = presentations \cup {p} /\ DocCli!Go(s, [at |-> "send", body |-> p])
      \/ presentations' \in {presentations, presentations \cup {p}}
         /\ (DocCli!End(s, "done") \/ DocCli!End(s, "died"))
  BY DEF DocCli!MakePresentation, DocCli!Did
<1> HIDE DEF p
<1>4. CASE presentations' = presentations \cup {p} /\ DocCli!Go(s, [at |-> "send", body |-> p])
  <2>1. CliTyped' /\ Moved(s, [at |-> "send", body |-> p])
    BY <1>4, GoesOn
  <2>2. SessionInv(s)'
    BY <1>1, <1>2, <1>4, <2>1 DEF DocumentsInv, SessionInv, Moved, Fields
  <2> QED
    BY <1>1, <1>2, <1>4, <2>1, <2>2, OthersKept
<1> QED
  BY <1>1, <1>2, <1>3, <1>4, EndingKeepsDocuments

LEMMA PostingKeepsDocuments ==
    ASSUME CliTyped, DocumentsInv, NEW s \in Sessions,
           DocCli!SendCredential(s) \/ DocCli!SendPresentation(s) \/ DocCli!SendRequest(s)
    PROVE  CliTyped' /\ DocumentsInv'
<1>1. UNCHANGED <<creds, presentations, messages>> /\ cli[s].at = "send" /\ \E how : DocCli!End(s, how)
  BY DEF DocCli!SendCredential, DocCli!SendPresentation, DocCli!SendRequest, DocCli!At, DocCli!data
<1>2. posted \subseteq posted' /\ \A m \in posted' \ posted : PostedWell(m)'
  <2>1. CASE DocCli!SendCredential(s)
    <3>1. cli[s].cmd = "credential" /\ cli[s].body \in creds /\ cli[s].body.iss = cli[s].did
      BY <2>1 DEF DocCli!SendCredential, DocCli!At, DocumentsInv, SessionInv
    <3>2. "holder" \notin DOMAIN cli[s].body
      BY <3>1 DEF DocumentsInv, IsCredential
    <3>3. PICK to : posted' = posted \cup {DocCli!Posted(s, to, cli[s].body)}
      BY <2>1 DEF DocCli!SendCredential
    <3> QED
      BY <1>1, <3>1, <3>2, <3>3 DEF DocCli!Posted, DocCli!Did, PostedWell
  <2>2. CASE DocCli!SendPresentation(s)
    <3>1. /\ cli[s].cmd = "presentation" /\ cli[s].body \in presentations
          /\ cli[s].body.holder = cli[s].did /\ AboutHolder(cli[s].body)
      BY <2>2 DEF DocCli!SendPresentation, DocCli!At, DocumentsInv, SessionInv
    <3>2. posted \subseteq posted'
          /\ \A m \in posted' \ posted : \E i : m = DocCli!Posted(s, i - 1, cli[s].body)
      BY <2>2 DEF DocCli!SendPresentation
    <3> QED
      BY <1>1, <3>1, <3>2 DEF DocCli!Posted, DocCli!Did, PostedWell, AboutHolder
  <2>3. CASE DocCli!SendRequest(s)
    <3>1. PICK to : posted' = posted \cup {DocCli!Posted(s, to, DocCli!Asking)} /\ cli[s].cmd = "sdr"
      BY <2>3 DEF DocCli!SendRequest, DocCli!At
    <3> QED
      BY <3>1 DEF DocCli!Posted, DocCli!Asking, PostedWell
  <2> QED
    BY <2>1, <2>2, <2>3
<1> QED
  BY <1>1, <1>2, EndingKeepsDocuments

LEMMA RequestsKeepDocuments ==
    ASSUME CliTyped, DocumentsInv, NEW s \in Sessions,
           DocCli!MakeRequest(s) \/ DocCli!KeepRequest(s) \/ DocCli!HandleMessage(s)
    PROVE  CliTyped' /\ DocumentsInv'
<1>1. UNCHANGED <<creds, presentations, posted>> /\ cli[s].at \in {"make", "send", "start"}
  BY DEF DocCli!MakeRequest, DocCli!KeepRequest, DocCli!HandleMessage, DocCli!At, DocCli!data
<1>0. messages \subseteq messages' /\ \A m \in messages' \ messages : IsRequest(m)
  <2>1. messages' = messages \/ \E from, to : messages' = messages \cup {DocCli!Request(from, to)}
    BY DEF DocCli!MakeRequest, DocCli!KeepRequest, DocCli!HandleMessage, DocCli!data
  <2>2. ASSUME NEW from, NEW to
        PROVE  IsRequest(DocCli!Request(from, to))
    BY DEF IsRequest, DocCli!Request, DocCli!Message
  <2> QED
    BY <2>1, <2>2
<1>2. CASE cli[s].at # "start" /\ \E how : DocCli!End(s, how)
  BY <1>0, <1>1, <1>2, EndingKeepsDocuments
<1>3. CASE DocCli!MakeRequest(s) /\ DocCli!Go(s, [at |-> "send"])
  <2>1. CliTyped' /\ Moved(s, [at |-> "send"])
    BY <1>3, GoesOn
  <2>2. /\ cli'[s].at = "send" /\ cli'[s].cmd = "sdr"
        /\ cli'[s].did = cli[s].did /\ cli'[s].picks = cli[s].picks
    BY <1>3, <2>1 DEF Moved, Fields, DocCli!MakeRequest, DocCli!At
  <2>3. cli[s].picks = {} \/ \A c \in cli[s].picks : c.sub = cli[s].did
    BY DEF DocumentsInv, SessionInv
  <2>4. SessionInv(s)'
    BY <2>2, <2>3 DEF SessionInv, Documents
  <2> QED
    BY <1>0, <1>1, <2>1, <2>4, OthersKept
<1>4. CASE DocCli!HandleMessage(s)
  <2>1. PICK how : DocCli!Go(s, [cmd |-> "message", at |-> "ended", how |-> how])
    BY <1>4 DEF DocCli!HandleMessage
  <2>2. CliTyped' /\ Moved(s, [cmd |-> "message", at |-> "ended", how |-> how])
    BY <2>1, GoesOn
  <2>3. /\ cli'[s].at = "ended" /\ cli'[s].cmd = "message"
        /\ cli'[s].did = cli[s].did /\ cli'[s].picks = cli[s].picks
    BY <2>2 DEF Moved, Fields
  <2>4. SessionInv(s)'
    BY <2>3 DEF DocumentsInv, SessionInv, Documents
  <2> QED
    BY <1>0, <1>1, <2>2, <2>4, OthersKept
<1> QED
  BY <1>2, <1>3, <1>4 DEF DocCli!MakeRequest, DocCli!KeepRequest, DocCli!At

LEMMA RespondingKeepsDocuments ==
    ASSUME CliTyped, DocumentsInv, NEW s \in Sessions, DocCli!ChooseRequest(s) \/ DocCli!Respond(s)
    PROVE  CliTyped' /\ DocumentsInv'
<1>1. CASE DocCli!ChooseRequest(s)
  <2>0. PICK m \in cli[s].list : \E picks \in SUBSET DocCli!Matching(m) :
          DocCli!Go(s, [at |-> "respond", did |-> m.to, to |-> <<m.from>>, picks |-> picks])
    BY <1>1 DEF DocCli!ChooseRequest
  <2>1. PICK picks \in SUBSET DocCli!Matching(m) :
          DocCli!Go(s, [at |-> "respond", did |-> m.to, to |-> <<m.from>>, picks |-> picks])
    BY <2>0
  <2>2. CliTyped' /\ Moved(s, [at |-> "respond", did |-> m.to, to |-> <<m.from>>, picks |-> picks])
    BY <2>1, GoesOn
  <2>3. /\ cli'[s].at = "respond" /\ cli'[s].did = m.to /\ cli'[s].picks = picks
        /\ cli'[s].cmd = "respond"
    BY <1>1, <2>2 DEF Moved, Fields, DocCli!ChooseRequest, DocCli!At
  <2>5. UNCHANGED <<creds, presentations, messages, posted>> /\ cli[s].at = "ask request"
    BY <1>1 DEF DocCli!ChooseRequest, DocCli!At, DocCli!data
  <2>6. m \in messages /\ m = DocCli!Request(m.from, m.to)
    BY <2>5 DEF DocumentsInv, SessionInv, IsRequest
  <2>7. cli'[s].to[1] = m.from
    BY <2>2 DEF Moved, Fields
  <2>4. SessionInv(s)'
    BY <2>3, <2>5, <2>6, <2>7 DEF SessionInv, DocCli!Matching, Documents, DocCli!Request, DocCli!Message
  <2> QED
    BY <2>2, <2>4, <2>5, OthersKept
<1>2. CASE DocCli!Respond(s)
  <2> DEFINE p == [holder |-> cli[s].did, verifiers |-> cli[s].to, creds |-> {}]
             m == DocCli!Posted(s, cli[s].to[1], p)
  <2>1. UNCHANGED <<creds, presentations, messages>> /\ cli[s].at = "respond" /\ cli[s].cmd = "respond"
    BY <1>2 DEF DocCli!Respond, DocCli!At, DocCli!data
  <2>2. posted' \in {posted, posted \cup {m}} /\ \E how : DocCli!End(s, how)
    BY <1>2 DEF DocCli!Respond, DocCli!Did
  <2>3. /\ m.by = "respond" /\ m.from = cli[s].did /\ m.to = cli[s].to[1]
        /\ m.body.holder = cli[s].did /\ m.body.creds = {}
    BY <2>1 DEF DocCli!Posted, DocCli!Did
  <2>4. DocCli!Request(cli[s].to[1], cli[s].did) \in messages
    BY <2>1 DEF DocumentsInv, SessionInv
  <2> HIDE DEF m, p
  <2>5. \A n \in posted' \ posted : PostedWell(n)'
    BY <2>1, <2>2, <2>3, <2>4 DEF PostedWell, AboutHolder
  <2> QED
    BY <2>1, <2>2, <2>5, EndingKeepsDocuments
<1> QED
  BY <1>1, <1>2

\* The only command on keys among those on documents is delete.
LEMMA KeysKeepDocuments ==
    ASSUME CliTyped, DocumentsInv, NEW s \in Sessions, DocCli!KeyStep(s)
    PROVE  DocCli!Delete(s) /\ CliTyped' /\ DocumentsInv'
<1>1. UNCHANGED <<creds, presentations, messages, posted>> /\ cli[s].at \in {"run", "add"}
  BY DEF DocCli!KeyStep, DocCli!Create, DocCli!Delete, DocCli!MakeKeyFor, DocCli!AddKey, DocCli!RemoveKey,
     DocCli!Export, DocCli!Import, DocCli!DidManager, DocCli!TakeKeys, DocCli!At, DocCli!data
<1>2. cli[s].cmd \in Documents
  BY <1>1 DEF DocumentsInv, SessionInv
<1>3. DocCli!Delete(s)
  BY <1>2 DEF DocCli!KeyStep, DocCli!Create, DocCli!MakeKeyFor, DocCli!AddKey,
     DocCli!RemoveKey, DocCli!Export, DocCli!Import, DocCli!At, Documents
<1>4. \E how : DocCli!End(s, how)
  BY <1>3 DEF DocCli!Delete, DocCli!DidManager
<1> QED
  BY <1>1, <1>3, <1>4, EndingKeepsDocuments

LEMMA DocumentsKept ==
    ASSUME CliTyped, Keyring, DocumentsInv, \A k \in keys : Attached(k), DocCli!Next
    PROVE  /\ CliTyped' /\ Keyring' /\ DocumentsInv'
           /\ \A k \in keys' : Attached(k)'
<1>1. PICK s \in Sessions : \/ DocCli!Begin(s) \/ DocCli!Choose(s) \/ DocCli!Kill(s)
                           \/ DocCli!KeyStep(s) \/ DocCli!CredentialStep(s) \/ DocCli!RequestStep(s)
  BY DEF DocCli!Next
<1>2. CliTyped' /\ DocumentsInv'
  BY <1>1, AskingKeepsDocuments, KillingKeepsDocuments, SigningKeepsDocuments, ListingKeepsDocuments,
     PickingKeepsDocuments, PresentingKeepsDocuments, PostingKeepsDocuments, RequestsKeepDocuments,
     RespondingKeepsDocuments, KeysKeepDocuments
     DEF DocCli!CredentialStep, DocCli!RequestStep
<1>3. DocCli!Delete(s) \/ UNCHANGED <<ids, keys>>
  BY <1>1, KeysKeepDocuments
     DEF DocCli!Begin, DocCli!Choose, DocCli!Kill, DocCli!CredentialStep, DocCli!Sign,
         DocCli!SendCredential, DocCli!ListForPresentation, DocCli!MakePresentation,
         DocCli!SendPresentation, DocCli!Pick, DocCli!RequestStep, DocCli!ListForRequest,
         DocCli!MakeRequest, DocCli!KeepRequest, DocCli!SendRequest, DocCli!HandleMessage,
         DocCli!ReadRequests, DocCli!ChooseRequest, DocCli!Respond
<1>4. CASE UNCHANGED <<ids, keys>>
  BY <1>2, <1>4 DEF Keyring, Has, Attached
<1>5. CASE DocCli!Delete(s) /\ ~UNCHANGED <<ids, keys>>
  <2>0. PICK d : d = cli[s].did
    OBVIOUS
  <2>1. d \in CliDids /\ ids[d] # None /\ ids' = [ids EXCEPT ![d] = None] /\ keys' = keys \ ids[d]
    BY <1>5, <2>0 DEF DocCli!Delete, DocCli!DidManager, DocCli!Did, DocCli!Managed
  <2>2. Has(d)' = {} /\ Has(d) = ids[d] /\ \A e \in CliDids \ {d} : Has(e)' = Has(e)
    BY <2>1 DEF Keyring, Has
  <2>3. Keyring'
    BY <2>1, <2>2 DEF Keyring
  <2> QED
    BY <1>2, <2>1, <2>2, <2>3 DEF Attached
<1> QED
  BY <1>3, <1>4, <1>5

-----------------------------------------------------------------------------
(* Commands on keys.                                                       *)

\* A session that goes on, or ends, and leaves the others as they were.
LEMMA OthersKeepKeys ==
    ASSUME KeysInv, NEW s \in Sessions, \A t \in Sessions \ {s} : cli'[t] = cli[t],
           UNCHANGED <<presentations, posted>>, KeySessionInv(s)',
           \A t \in Sessions \ {s} : cli[t].at = "add" =>
               /\ cli[t].key \in keys' /\ \A d \in CliDids : cli[t].key \notin Has(d)'
               /\ cli'[s].at = "add" => cli'[s].key # cli[t].key,
           \A k \in keys' : Explained(k)'
    PROVE  KeysInv'
<1>1. \A t \in Sessions : KeySessionInv(t)'
  BY DEF KeysInv, KeySessionInv, Attached
<1>2. \A t, u \in Sessions : t # u /\ cli'[t].at = "add" /\ cli'[u].at = "add" => cli'[t].key # cli'[u].key
  BY DEF KeysInv
<1> QED
  BY <1>1, <1>2 DEF KeysInv

\* A key without identifier that the session at work has not made is explained as before.
LEMMA StillExplained ==
    ASSUME CliAssumption, Keyring, KeysInv, NEW s \in Sessions, cli[s].at # "ended",
           \A t \in Sessions \ {s} : cli'[t] = cli[t],
           NEW k \in keys, ~Attached(k), cli[s].at = "add" /\ cli[s].key = k => LeftBy(s, k)'
    PROVE  Explained(k)'
<1>1. PICK t \in Sessions : LeftBy(t, k) \/ k \in cli[t].took
  BY DEF KeysInv, Explained
<1>2. CASE t # s
  BY <1>1, <1>2 DEF Explained, LeftBy
<1>3. CASE t = s
  <2>1. KeySessionInv(s) /\ k # None
    BY DEF KeysInv, Keyring, CliAssumption
  <2>2. cli[s].at = "add" /\ cli[s].key = k
    BY <1>1, <1>3, <2>1 DEF KeySessionInv, LeftBy
  <2> QED
    BY <2>2 DEF Explained
<1> QED
  BY <1>2, <1>3

\* Questions, answers and interruptions.
LEMMA AskingKeepsKeys ==
    ASSUME CliAssumption, CliTyped, Keyring, KeysInv, NEW s \in Sessions,
           UNCHANGED <<ids, keys, presentations, posted>>, NEW r, KeyCli!Go(s, r),
           KeySessionInv(s)', cli[s].at # "ended", cli'[s].at # "add",
           \A k \in keys : cli[s].at = "add" /\ cli[s].key = k => LeftBy(s, k)'
    PROVE  CliTyped' /\ Keyring' /\ KeysInv'
<1>1. CliTyped' /\ Moved(s, r)
  BY GoesOn
<1>2. \A t \in Sessions \ {s} : cli'[t] = cli[t]
  BY <1>1 DEF Moved
<1>3. Keyring' /\ \A d \in CliDids : Has(d)' = Has(d)
  BY DEF Keyring, Has
<1>4. \A k \in keys' : Explained(k)'
  <2> SUFFICES ASSUME NEW k \in keys
               PROVE  Explained(k)'
    OBVIOUS
  <2>1. CASE Attached(k)
    BY <1>3, <2>1 DEF Explained, Attached
  <2>2. CASE ~Attached(k)
    BY <1>2, <2>2, StillExplained
  <2> QED
    BY <2>1, <2>2
<1>5. \A t \in Sessions \ {s} : cli[t].at = "add" =>
          cli[t].key \in keys' /\ \A d \in CliDids : cli[t].key \notin Has(d)'
  BY <1>3 DEF KeysInv, KeySessionInv, Attached
<1> QED
  BY <1>1, <1>2, <1>3, <1>4, <1>5, OthersKeepKeys

LEMMA ChoosingKeepsKeys ==
    ASSUME CliAssumption, CliTyped, Keyring, KeysInv, NEW s \in Sessions,
           KeyCli!Begin(s) \/ KeyCli!Choose(s) \/ KeyCli!Kill(s)
    PROVE  CliTyped' /\ Keyring' /\ KeysInv'
<1>1. UNCHANGED <<ids, keys, presentations, posted>> /\ KeySessionInv(s) /\ cli[s].at # "ended"
  BY DEF KeyCli!Begin, KeyCli!Choose, KeyCli!Kill, KeyCli!data, KeysInv
<1>2. CASE KeyCli!Begin(s)
  <2>1. PICK c \in KeyCommands, send \in BOOLEAN :
          \/ KeyCli!Go(s, [cmd |-> c, at |-> "ended", how |-> "refused"])
          \/ KeyCli!Go(s, [cmd |-> c, at |-> "ask", send |-> send, list |-> KeyCli!Shown(c)])
    BY <1>2 DEF KeyCli!Begin, KeyCommands
  <2>2. cli[s].at = "start" /\ KeyCli!Shown(c) \subseteq CliDids
    BY <1>2 DEF KeyCli!Begin, KeyCli!Shown, KeyCli!Managed
  <2>3. CASE KeyCli!Go(s, [cmd |-> c, at |-> "ended", how |-> "refused"])
    <3>1. Moved(s, [cmd |-> c, at |-> "ended", how |-> "refused"])
      BY <2>3, GoesOn
    <3>2. cli'[s].at = "ended" /\ cli'[s].cmd = c
      BY <3>1 DEF Moved, Fields
    <3>3. KeySessionInv(s)'
      BY <3>2 DEF KeySessionInv
    <3> QED
      BY <1>1, <2>2, <2>3, <3>2, <3>3, AskingKeepsKeys
  <2>4. CASE KeyCli!Go(s, [cmd |-> c, at |-> "ask", send |-> send, list |-> KeyCli!Shown(c)])
    <3>1. Moved(s, [cmd |-> c, at |-> "ask", send |-> send, list |-> KeyCli!Shown(c)])
      BY <2>4, GoesOn
    <3>2. /\ cli'[s].at = "ask" /\ cli'[s].cmd = c /\ cli'[s].list = KeyCli!Shown(c)
          /\ cli'[s].key = cli[s].key /\ cli'[s].took = cli[s].took
      BY <3>1 DEF Moved, Fields
    <3>3. KeySessionInv(s)'
      BY <1>1, <2>2, <3>2 DEF KeySessionInv
    <3> QED
      BY <1>1, <2>2, <2>4, <3>2, <3>3, AskingKeepsKeys
  <2> QED
    BY <2>1, <2>3, <2>4
<1>3. CASE KeyCli!Choose(s)
  <2>1. PICK d \in cli[s].list : KeyCli!Go(s, [at |-> "run", did |-> d])
    BY <1>3 DEF KeyCli!Choose
  <2>2. cli[s].at = "ask"
    BY <1>3 DEF KeyCli!Choose
  <2>3. Moved(s, [at |-> "run", did |-> d])
    BY <2>1, GoesOn
  <2>4. /\ cli'[s].at = "run" /\ cli'[s].cmd = cli[s].cmd /\ cli'[s].did = d
        /\ cli'[s].key = cli[s].key /\ cli'[s].took = cli[s].took
    BY <2>3 DEF Moved, Fields
  <2>5. KeySessionInv(s)'
    BY <1>1, <2>2, <2>4 DEF KeySessionInv
  <2> QED
    BY <1>1, <2>1, <2>2, <2>4, <2>5, AskingKeepsKeys
<1>4. CASE KeyCli!Kill(s)
  <2>1. KeyCli!Go(s, [at |-> "ended", how |-> "killed"]) /\ cli[s].at \notin {"start", "ended"}
    BY <1>4 DEF KeyCli!Kill, KeyCli!End
  <2>2. Moved(s, [at |-> "ended", how |-> "killed"])
    BY <2>1, GoesOn
  <2>3. /\ cli'[s].at = "ended" /\ cli'[s].how = "killed"
        /\ cli'[s].cmd = cli[s].cmd /\ cli'[s].key = cli[s].key
    BY <2>2 DEF Moved, Fields
  <2>4. KeySessionInv(s)' /\ \A k : cli[s].at = "add" /\ cli[s].key = k => LeftBy(s, k)'
    BY <1>1, <2>1, <2>3 DEF KeySessionInv, LeftBy
  <2> QED
    BY <1>1, <2>1, <2>3, <2>4, AskingKeepsKeys
<1> QED
  BY <1>2, <1>3, <1>4

\* The call that failed, and export: nothing has changed.
LEMMA FailingKeepsKeys ==
    ASSUME CliAssumption, CliTyped, Keyring, KeysInv, NEW s \in Sessions, NEW how, KeyCli!End(s, how),
           UNCHANGED <<ids, keys, presentations, posted>>, cli[s].at \in {"run", "add"},
           cli[s].at = "add" => how # "done"
    PROVE  CliTyped' /\ Keyring' /\ KeysInv'
<1>1. KeySessionInv(s) /\ Moved(s, [at |-> "ended", how |-> how])
  BY Ends DEF KeysInv
<1>2. /\ cli'[s].at = "ended" /\ cli'[s].how = how
      /\ cli'[s].cmd = cli[s].cmd /\ cli'[s].key = cli[s].key
  BY <1>1 DEF Moved, Fields
<1>3. KeySessionInv(s)' /\ \A k : cli[s].at = "add" /\ cli[s].key = k => LeftBy(s, k)'
  BY <1>1, <1>2 DEF KeySessionInv, LeftBy
<1>4. KeyCli!Go(s, [at |-> "ended", how |-> how])
  BY DEF KeyCli!End
<1> QED
  BY <1>2, <1>3, <1>4, AskingKeepsKeys

\* The call that gives an identifier the keys K, or none: what it takes off the identifier
\* leaves the store or is noted.
LEMMA ChangingKeepsKeys ==
    ASSUME CliAssumption, CliTyped, Keyring, KeysInv, NEW s \in Sessions, NEW r, KeyCli!Go(s, r),
           "at" \in DOMAIN r, r.at = "ended", {"cmd", "key"} \cap DOMAIN r = {},
           UNCHANGED <<presentations, posted>>, cli[s].at \in {"run", "add"},
           NEW d \in CliDids, NEW K, K \subseteq keys', keys' \subseteq CliKeys,
           DOMAIN ids' = CliDids, Has(d)' = K,
           \A e \in CliDids \ {d} : Has(e)' = Has(e) /\ Has(e) \cap K = {} /\ Has(e) \subseteq keys',
           \A k \in keys' \ K : k \in keys /\ (k \in Has(d) => "took" \in DOMAIN r /\ k \in r.took),
           \A t \in Sessions \ {s} : cli[t].at = "add" => cli[t].key \in keys' /\ cli[t].key \notin K,
           cli[s].at = "add" => cli[s].key \in K
    PROVE  CliTyped' /\ Keyring' /\ KeysInv'
<1>1. CliTyped' /\ Moved(s, r) /\ KeySessionInv(s)
  BY GoesOn DEF KeysInv
<1>2. /\ \A t \in Sessions \ {s} : cli'[t] = cli[t]
      /\ cli'[s].at = "ended" /\ cli'[s].cmd = cli[s].cmd
      /\ "took" \in DOMAIN r => cli'[s].took = r.took
  BY <1>1 DEF Moved, Fields
<1>3. KeySessionInv(s)'
  BY <1>1, <1>2 DEF KeySessionInv
<1>4. Keyring'
  <2>1. \A e, f \in CliDids : e # f => Has(e)' \cap Has(f)' = {}
    BY DEF Keyring
  <2>2. \A e \in CliDids : Has(e)' \subseteq keys'
    OBVIOUS
  <2> QED
    BY <2>1, <2>2 DEF Keyring
<1>5. \A k \in keys' : Explained(k)'
  <2> SUFFICES ASSUME NEW k \in keys'
               PROVE  Explained(k)'
    OBVIOUS
  <2>1. CASE k \in K
    BY <2>1 DEF Explained, Attached
  <2>2. CASE k \notin K /\ k \in Has(d)
    BY <1>2, <2>2 DEF Explained
  <2>3. CASE k \notin K /\ \E e \in CliDids \ {d} : k \in Has(e)
    BY <2>3 DEF Explained, Attached
  <2>4. CASE k \notin K /\ ~Attached(k)
    BY <1>2, <2>4, StillExplained
  <2> QED
    BY <2>1, <2>2, <2>3, <2>4 DEF Attached
<1>6. \A t \in Sessions \ {s} : cli[t].at = "add" =>
          cli[t].key \in keys' /\ \A e \in CliDids : cli[t].key \notin Has(e)'
  BY DEF KeysInv, KeySessionInv, Attached
<1> QED
  BY <1>1, <1>2, <1>3, <1>4, <1>5, <1>6, OthersKeepKeys

\* What an identifier has after its entry was replaced by a set of keys.
LEMMA NewKeys ==
    ASSUME CliAssumption, Keyring, NEW d \in CliDids, NEW K \in SUBSET CliKeys, ids' = [ids EXCEPT ![d] = K]
    PROVE  /\ DOMAIN ids' = CliDids /\ Has(d)' = K
           /\ \A e \in CliDids \ {d} : Has(e)' = Has(e) /\ Has(e) \subseteq keys /\ Has(e) \cap Has(d) = {}
<1>1. K # None
  BY DEF CliAssumption
<1> QED
  BY <1>1 DEF Keyring, Has

\* The keys of the sessions between the two calls of add-key are in the store, and free.
LEMMA AddersFree ==
    ASSUME KeysInv, NEW t \in Sessions, cli[t].at = "add"
    PROVE  cli[t].key \in keys /\ \A d \in CliDids : cli[t].key \notin Has(d)
BY DEF KeysInv, KeySessionInv, Attached

LEMMA MakingKeepsKeys ==
    ASSUME CliAssumption, CliTyped, Keyring, KeysInv, NEW s \in Sessions, KeyCli!MakeKeyFor(s)
    PROVE  CliTyped' /\ Keyring' /\ KeysInv'
<1>1. PICK k \in CliKeys \ keys : keys' = keys \cup {k} /\ KeyCli!Go(s, [at |-> "add", key |-> k])
  BY DEF KeyCli!MakeKeyFor, KeyCli!FreshKeys
<1>2. UNCHANGED <<ids, presentations, posted>> /\ cli[s].at = "run" /\ cli[s].cmd = "add-key"
  BY DEF KeyCli!MakeKeyFor, KeyCli!At, KeyCli!data
<1>3. CliTyped' /\ Moved(s, [at |-> "add", key |-> k]) /\ KeySessionInv(s)
  BY <1>1, GoesOn DEF KeysInv
<1>4. /\ \A t \in Sessions \ {s} : cli'[t] = cli[t]
      /\ cli'[s].at = "add" /\ cli'[s].key = k /\ cli'[s].cmd = cli[s].cmd
      /\ cli'[s].did = cli[s].did /\ cli'[s].took = cli[s].took
  BY <1>3 DEF Moved, Fields
<1>5. Keyring' /\ \A d \in CliDids : Has(d)' = Has(d)
  BY <1>1, <1>2 DEF Keyring, Has
<1>6. ~Attached(k)
  BY DEF Keyring, Attached
<1>7. KeySessionInv(s)'
  BY <1>1, <1>2, <1>3, <1>4, <1>5, <1>6 DEF KeySessionInv, KeyCommands, Attached
<1>8. LeftBy(s, k)'
  BY <1>2, <1>4 DEF LeftBy
<1>9. \A x \in keys' : Explained(x)'
  <2> SUFFICES ASSUME NEW x \in keys
               PROVE  Explained(x)'
    BY <1>1, <1>8 DEF Explained
  <2>1. CASE Attached(x)
    BY <1>5, <2>1 DEF Explained, Attached
  <2>2. CASE ~Attached(x)
    BY <1>2, <1>4, <2>2, StillExplained
  <2> QED
    BY <2>1, <2>2
<1>10. \A t \in Sessions \ {s} : cli[t].at = "add" =>
          /\ cli[t].key \in keys' /\ \A d \in CliDids : cli[t].key \notin Has(d)'
          /\ cli'[s].key # cli[t].key
  BY <1>1, <1>4, <1>5, AddersFree
<1> QED
  BY <1>2, <1>3, <1>4, <1>5, <1>7, <1>9, <1>10, OthersKeepKeys

\* The calls of the identifier manager that change nothing but the identifier.
LEMMA ManagingKeepsKeys ==
    ASSUME CliAssumption, CliTyped, Keyring, KeysInv, NEW s \in Sessions,
           KeyCli!Create(s) \/ KeyCli!Delete(s) \/ KeyCli!AddKey(s) \/ KeyCli!Export(s)
    PROVE  CliTyped' /\ Keyring' /\ KeysInv'
<1>1. UNCHANGED <<presentations, posted>> /\ cli[s].at \in {"run", "add"} /\ KeySessionInv(s)
  BY DEF KeyCli!Create, KeyCli!Delete, KeyCli!AddKey, KeyCli!Export, KeyCli!DidManager, KeyCli!At, KeyCli!data,
     KeysInv
<1>2. PICK d \in CliDids : d = cli[s].did
  BY <1>1 DEF KeySessionInv
<1>3. ASSUME KeyCli!End(s, "done")
      PROVE  KeyCli!Go(s, [at |-> "ended", how |-> "done"])
  BY <1>3 DEF KeyCli!End
<1>4. CASE KeyCli!End(s, "reported") /\ UNCHANGED <<ids, keys>>
  BY <1>1, <1>4, FailingKeepsKeys
<1>5. CASE KeyCli!Export(s)
  BY <1>1, <1>4, <1>5, FailingKeepsKeys DEF KeyCli!Export, KeyCli!DidManager, KeyCli!At
<1>6. CASE KeyCli!Create(s) /\ ~(KeyCli!End(s, "reported") /\ UNCHANGED <<ids, keys>>)
  <2>0. PICK k \in CliKeys \ keys :
          KeyCli!DidManager(s, d \notin KeyCli!Managed, [ids EXCEPT ![d] = {k}], keys \cup {k})
    BY <1>2, <1>6 DEF KeyCli!Create, KeyCli!FreshKeys, KeyCli!Did
  <2>1. PICK K \in SUBSET CliKeys : K = {k}
    OBVIOUS
  <2>2. /\ d \notin KeyCli!Managed /\ ids' = [ids EXCEPT ![d] = K] /\ keys' = keys \cup K
        /\ KeyCli!End(s, "done") /\ cli[s].at = "run"
    BY <1>6, <2>0, <2>1 DEF KeyCli!DidManager, KeyCli!Create, KeyCli!At
  <2>3. Has(d) = {}
    BY <2>2 DEF KeyCli!Managed, Has
  <2>4. /\ DOMAIN ids' = CliDids /\ Has(d)' = K
        /\ \A e \in CliDids \ {d} : Has(e)' = Has(e) /\ Has(e) \subseteq keys
    BY <2>2, NewKeys
  <2>5. \A t \in Sessions : cli[t].at = "add" => cli[t].key \in keys
    BY AddersFree
  <2>6. keys \subseteq CliKeys /\ keys' \subseteq CliKeys /\ K \cap keys = {}
    BY <2>1, <2>2 DEF Keyring
  <2> QED
    BY <1>1, <1>3, <2>2, <2>3, <2>4, <2>5, <2>6, ChangingKeepsKeys
<1>7. CASE KeyCli!Delete(s) /\ ~(KeyCli!End(s, "reported") /\ UNCHANGED <<ids, keys>>)
  <2>1. /\ d \in KeyCli!Managed /\ ids' = [ids EXCEPT ![d] = None] /\ keys' = keys \ ids[d]
        /\ KeyCli!End(s, "done")
    BY <1>2, <1>7 DEF KeyCli!Delete, KeyCli!DidManager, KeyCli!Did
  <2>2. Has(d) = ids[d] /\ cli[s].at = "run"
    BY <1>2, <1>7, <2>1 DEF KeyCli!Managed, Has, KeyCli!Delete, KeyCli!At
  <2>3. /\ DOMAIN ids' = CliDids /\ Has(d)' = {}
        /\ \A e \in CliDids \ {d} : Has(e)' = Has(e) /\ Has(e) \subseteq keys /\ Has(e) \cap Has(d) = {}
    BY <1>2, <2>1 DEF Has, Keyring
  <2>4. \A t \in Sessions : cli[t].at = "add" => cli[t].key \in keys /\ cli[t].key \notin Has(d)
    BY <1>2, AddersFree
  <2>5. keys' \subseteq CliKeys
    BY <2>1 DEF Keyring
  <2> QED
    BY <1>1, <1>3, <1>7, <2>1, <2>2, <2>3, <2>4, <2>5, ChangingKeepsKeys
<1>8. CASE KeyCli!AddKey(s) /\ ~(KeyCli!End(s, "reported") /\ UNCHANGED <<ids, keys>>)
  <2>0. PICK k, K : k = cli[s].key /\ K = Has(d) \cup {k}
    OBVIOUS
  <2>1. /\ d \in KeyCli!Managed /\ ids' = [ids EXCEPT ![d] = ids[d] \cup {k}] /\ keys' = keys
        /\ KeyCli!End(s, "done")
    BY <1>2, <1>8, <2>0 DEF KeyCli!AddKey, KeyCli!DidManager, KeyCli!Did
  <2>2. Has(d) = ids[d] /\ cli[s].at = "add"
    BY <1>2, <1>8, <2>1 DEF KeyCli!Managed, Has, KeyCli!AddKey, KeyCli!At
  <2>3. k \in keys /\ \A e \in CliDids : k \notin Has(e)
    BY <2>0, <2>2, AddersFree
  <2>4. K \in SUBSET CliKeys /\ K \subseteq keys' /\ ids' = [ids EXCEPT ![d] = K] /\ keys' \subseteq CliKeys
    BY <2>0, <2>1, <2>2, <2>3 DEF Keyring
  <2>5. /\ DOMAIN ids' = CliDids /\ Has(d)' = K
        /\ \A e \in CliDids \ {d} : Has(e)' = Has(e) /\ Has(e) \subseteq keys /\ Has(e) \cap Has(d) = {}
    BY <1>2, <2>4, NewKeys
  <2>6. \A e \in CliDids \ {d} : Has(e) \cap K = {}
    BY <2>0, <2>3, <2>5
  <2>7. \A t \in Sessions \ {s} : cli[t].at = "add" => cli[t].key \in keys' /\ cli[t].key \notin K
    BY <2>0, <2>1, <2>2, AddersFree DEF KeysInv
  <2>8. k \in K /\ \A x \in keys' \ K : x \in keys /\ x \notin Has(d)
    BY <2>0, <2>1
  <2> QED
    BY <1>1, <1>3, <1>8, <2>0, <2>1, <2>4, <2>5, <2>6, <2>7, <2>8, ChangingKeepsKeys
<1> QED
  BY <1>4, <1>5, <1>6, <1>7, <1>8

\* The calls that take keys off an identifier.
LEMMA TakingKeepsKeys ==
    ASSUME CliAssumption, CliTyped, Keyring, KeysInv, NEW s \in Sessions, KeyCli!RemoveKey(s) \/ KeyCli!Import(s)
    PROVE  CliTyped' /\ Keyring' /\ KeysInv'
<1> DEFINE Ended(X) == KeyCli!Go(s, [at |-> "ended", how |-> "done", took |-> X])
<1>1. UNCHANGED <<presentations, posted>> /\ cli[s].at = "run" /\ cli[s].did \in CliDids
  BY DEF KeyCli!RemoveKey, KeyCli!Import, KeyCli!TakeKeys, KeyCli!At, KeyCli!data, KeysInv, KeySessionInv
<1>0. PICK d \in CliDids : d = cli[s].did
  BY <1>1
<1>2. CASE KeyCli!End(s, "reported") /\ UNCHANGED <<ids, keys>>
  BY <1>1, <1>2, FailingKeepsKeys
<1>3. CASE KeyCli!RemoveKey(s) /\ ~(KeyCli!End(s, "reported") /\ UNCHANGED <<ids, keys>>)
  <2>1. PICK k : /\ d \in KeyCli!Managed /\ k \in ids[d] /\ keys' = keys /\ Ended({k})
                 /\ ids' = [ids EXCEPT ![d] = ids[d] \ {k}]
    BY <1>0, <1>3 DEF KeyCli!RemoveKey, KeyCli!TakeKeys, KeyCli!Did
  <2>0. PICK K : K = Has(d) \ {k}
    OBVIOUS
  <2>2. Has(d) = ids[d]
    BY <2>1 DEF KeyCli!Managed, Has
  <2>3. K \in SUBSET CliKeys /\ K \subseteq keys' /\ ids' = [ids EXCEPT ![d] = K] /\ keys' \subseteq CliKeys
    BY <2>0, <2>1, <2>2 DEF Keyring
  <2>4. /\ DOMAIN ids' = CliDids /\ Has(d)' = K
        /\ \A e \in CliDids \ {d} : Has(e)' = Has(e) /\ Has(e) \subseteq keys /\ Has(e) \cap Has(d) = {}
    BY <2>3, NewKeys
  <2>5. \A e \in CliDids \ {d} : Has(e) \cap K = {}
    BY <2>0, <2>4
  <2>6. \A t \in Sessions : cli[t].at = "add" => cli[t].key \in keys' /\ cli[t].key \notin K
    BY <2>0, <2>1, AddersFree
  <2>7. \A x \in keys' \ K : x \in keys /\ (x \in Has(d) => x \in {k})
    BY <2>0, <2>1
  <2> QED
    BY <1>1, <2>1, <2>3, <2>4, <2>5, <2>6, <2>7, ChangingKeepsKeys
<1>4. CASE KeyCli!Import(s) /\ ~(KeyCli!End(s, "reported") /\ UNCHANGED <<ids, keys>>)
  <2>1. PICK k \in CliKeys :
          /\ ~KeyCli!UsedElsewhere(k, d) /\ keys' = keys \cup {k}
          /\ Ended((IF d \in KeyCli!Managed THEN ids[d] ELSE {}) \ {k})
          /\ ids' = [ids EXCEPT ![d] = {k}]
    BY <1>0, <1>4 DEF KeyCli!Import, KeyCli!TakeKeys, KeyCli!Did
  <2>0. PICK K \in SUBSET CliKeys : K = {k} /\ ids' = [ids EXCEPT ![d] = K]
    BY <2>1
  <2>2. (IF d \in KeyCli!Managed THEN ids[d] ELSE {}) = Has(d)
    BY DEF KeyCli!Managed, Has
  <2>3. /\ \A e \in CliDids \ {d} : k \notin Has(e)
        /\ \A t \in Sessions : cli[t].at = "add" => cli[t].key # k
    BY <2>1 DEF KeyCli!UsedElsewhere, KeyCli!Managed, Has
  <2>4. /\ DOMAIN ids' = CliDids /\ Has(d)' = K
        /\ \A e \in CliDids \ {d} : Has(e)' = Has(e) /\ Has(e) \subseteq keys /\ Has(e) \cap Has(d) = {}
    BY <2>0, NewKeys
  <2>5. \A t \in Sessions : cli[t].at = "add" => cli[t].key \in keys' /\ cli[t].key \notin K
    BY <2>0, <2>1, <2>3, AddersFree
  <2>6. Ended(Has(d) \ K)
    BY <2>0, <2>1, <2>2
  <2>7. keys' \subseteq CliKeys
    BY <2>1 DEF Keyring
  <2> QED
    BY <1>1, <2>0, <2>1, <2>3, <2>4, <2>5, <2>6, <2>7, ChangingKeepsKeys
<1> QED
  BY <1>2, <1>3, <1>4

\* Commands on keys take no step of the commands on documents.
LEMMA KeysKept ==
    ASSUME CliAssumption, CliTyped, Keyring, KeysInv, KeyCli!Next
    PROVE  CliTyped' /\ Keyring' /\ KeysInv'
<1>1. \A s \in Sessions : KeySessionInv(s)
  BY DEF KeysInv
<1>2. PICK s \in Sessions : \/ KeyCli!Begin(s) \/ KeyCli!Choose(s) \/ KeyCli!Kill(s)
                           \/ KeyCli!KeyStep(s) \/ KeyCli!CredentialStep(s) \/ KeyCli!RequestStep(s)
  BY DEF KeyCli!Next
<1>3. ~KeyCli!CredentialStep(s)
  BY <1>1 DEF KeyCli!CredentialStep, KeyCli!Sign, KeyCli!SendCredential, KeyCli!ListForPresentation,
     KeyCli!MakePresentation, KeyCli!SendPresentation, KeyCli!Pick, KeyCli!At, KeyCommands, KeySessionInv
<1>4. ~KeyCli!RequestStep(s)
  BY <1>1 DEF KeyCli!RequestStep, KeyCli!ListForRequest, KeyCli!MakeRequest, KeyCli!KeepRequest,
     KeyCli!SendRequest, KeyCli!HandleMessage, KeyCli!ReadRequests, KeyCli!ChooseRequest, KeyCli!Respond,
     KeyCli!At, KeyCommands, KeySessionInv
<1> QED
  BY <1>2, <1>3, <1>4, ChoosingKeepsKeys, MakingKeepsKeys, ManagingKeepsKeys, TakingKeepsKeys
     DEF KeyCli!KeyStep

-----------------------------------------------------------------------------
LEMMA SessionsStart == ClientsInit => CliInv
<1> SUFFICES ASSUME ClientsInit
             PROVE  CliInv
  OBVIOUS
<1>1. KeyCli!Init
  BY DEF ClientsInit
<1>0. KeyCli!OneKeyEach
  BY <1>1 DEF KeyCli!Init
<1>2. CliTyped
  BY <1>1 DEF KeyCli!Init, KeyCli!Idle, CliTyped, Fields
<1>3. \A s \in Sessions : cli[s].at = "start" /\ cli[s].picks = {} /\ cli[s].key = None /\ cli[s].took = {}
  BY <1>1 DEF KeyCli!Init, KeyCli!Idle
<1>4. presentations = {} /\ posted = {} /\ messages = {}
  BY <1>1 DEF KeyCli!Init
<1>5. \A c \in creds : IsCredential(c)
  BY <1>1 DEF KeyCli!Init, KeyCli!Credential, IsCredential
<1>6. Keyring /\ \A k \in keys : Attached(k)
  <2>1. PICK known \in SUBSET CliDids, key \in [CliDids -> CliKeys] :
          /\ \A d, e \in CliDids : d # e => key[d] # key[e]
          /\ ids = [d \in CliDids |-> IF d \in known THEN {key[d]} ELSE None]
          /\ keys = {key[d] : d \in known}
    BY <1>0 DEF KeyCli!OneKeyEach
  <2>2. \A d \in CliDids : {key[d]} # None
    BY CliAssumption DEF CliAssumption
  <2>3. \A d \in CliDids : Has(d) = IF d \in known THEN {key[d]} ELSE {}
    BY <2>1, <2>2 DEF Has
  <2> QED
    BY <2>1, <2>3 DEF Keyring, Attached
<1> QED
  BY <1>2, <1>3, <1>4, <1>5, <1>6 DEF CliInv, DocumentsInv, KeysInv, SessionInv, KeySessionInv, Explained

LEMMA SessionsKept ==
    ASSUME CliAssumption, CliInv, [ClientsNext]_clientVars
    PROVE  CliInv'
<1>1. CASE part = "keys" /\ KeyCli!Next /\ UNCHANGED part
  BY <1>1, KeysKept DEF CliInv
<1>2. CASE part = "documents" /\ DocCli!Next /\ UNCHANGED part
  BY <1>2, DocumentsKept DEF CliInv
<1>3. CASE UNCHANGED <<part, cliVars>>
  <2>1. UNCHANGED <<part, ids, keys, creds, presentations, messages, posted, cli>>
    BY <1>3 DEF cliVars
  <2>2. (CliTyped' <=> CliTyped) /\ (Keyring' <=> Keyring) /\ \A k : Attached(k)' <=> Attached(k)
    BY <2>1 DEF CliTyped, Keyring, Has, Attached
  <2>3. DocumentsInv' <=> DocumentsInv
    BY <2>1 DEF DocumentsInv, SessionInv, AboutHolder, PostedWell, IsCredential, IsRequest,
       DocCli!Request, DocCli!Message, DocCli!Asking
  <2>4. KeysInv' <=> KeysInv
    BY <2>1 DEF KeysInv, KeySessionInv, Explained, Attached, Has, LeftBy
  <2> QED
    BY <2>1, <2>2, <2>3, <2>4 DEF CliInv
<1> QED
  BY <1>1, <1>2, <1>3 DEF ClientsNext, clientVars

LEMMA SessionsInvariant == ClientsSpec => []CliInv
BY SessionsStart, SessionsKept, CliAssumption, PTL DEF ClientsSpec

\* Whatever the command line presents, by command or in response to a request, is about the
\* holder who signs it, though it was listed before other sessions changed the store.
THEOREM PresentationsAreAboutTheirHolder == ClientsSpec => []PresentedAboutHolder
<1>1. ASSUME CliInv
      PROVE  PresentedAboutHolder
  <2>1. CASE part = "documents"
    BY <1>1, <2>1 DEF CliInv, DocumentsInv, PostedWell, AboutHolder, PresentedAboutHolder,
       DocCli!PresentedAboutHolder, DocCli!Presented, DocCli!IsPresentation
  <2>2. CASE part # "documents"
    BY <1>1, <2>2 DEF CliInv, KeysInv, PresentedAboutHolder, DocCli!PresentedAboutHolder, DocCli!Presented
  <2> QED
    BY <2>1, <2>2
<1> QED
  BY <1>1, SessionsInvariant, PTL

\* Whatever a command has sent is stored and by its sender, and a response answers a request
\* of the store, whatever other commands did and even if the process was killed.
THEOREM PostedIsInTheStore == ClientsSpec => []SentIsStored
<1>1. CliInv => SentIsStored
  BY DEF CliInv, DocumentsInv, KeysInv, PostedWell, SentIsStored, DocCli!SentIsStored
<1> QED
  BY <1>1, SessionsInvariant, PTL

\* did add-key makes a key and adds it to the identifier in two calls: identifiers have their
\* keys in the store, and a key without identifier was taken off one or is left by a command
\* that did not end well, whatever other commands do between the calls.
THEOREM KeysStayAccounted == ClientsSpec => []KeysAreAccounted
<1>1. ASSUME CliInv
      PROVE  KeysAreAccounted
  <2>1. \A k \in keys : Explained(k)
    BY <1>1 DEF CliInv, KeysInv, Explained
  <2>2. \A d \in KeyCli!Managed : d \in CliDids /\ ids[d] = Has(d)
    BY DEF KeyCli!Managed, Has
  <2>3. \A d \in KeyCli!Managed : ids[d] \subseteq keys
    BY <1>1, <2>2 DEF CliInv, Keyring
  <2>4. \A k : Attached(k) => \E d \in KeyCli!Managed : k \in ids[d]
    BY DEF Attached, Has, KeyCli!Managed
  <2>5. \A k : (\E s \in Sessions : LeftBy(s, k)) => KeyCli!LeftByAddKey(k)
    BY DEF LeftBy, KeyCli!LeftByAddKey, KeyCli!Ended
  <2> QED
    BY <2>1, <2>3, <2>4, <2>5 DEF Explained, KeysAreAccounted, KeyCli!KeysAreAccounted
<1> QED
  BY <1>1, SessionsInvariant, PTL
=============================================================================
