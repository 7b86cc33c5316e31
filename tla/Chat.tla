-------------------------------- MODULE Chat --------------------------------
(***************************************************************************)
(* The explorer's chats: the page (Chats, ChatHeader, ChatWindow,          *)
(* ChatThread, NewChatThreadModal) with the identity that is selected and  *)
(* the thread that is open, ChatInput's sendMessage, one agent call at a   *)
(* time, and ChatProvider's timer, which has each own identity picked up   *)
(* from the mediator.                                                      *)
(*                                                                         *)
(* A message is [id, thread, from, to]; ids and threads are numbers, taken *)
(* in order where the code makes a UUID.  Own messages are stored without  *)
(* a creation date, by which the page sorts: the first and the last        *)
(* message of a thread are any two.  A peer answers in the thread it was   *)
(* written to, or opens one.  MessageBound bounds the messages.            *)
(***************************************************************************)
EXTENDS Naturals, FiniteSets

CONSTANTS Own, Peers, Sends, Pickups, MessageBound, None

VARIABLES
    selected,      \* selectedDid
    composing, newRecipient,
    modal,         \* the new-thread dialog is open
    route,         \* the open thread, NewThread, or None
    shown,         \* the messages the page has loaded for the open thread
    sends,         \* the calls of sendMessage in progress: None or [message, at, composing]
    store,         \* the data store's messages
    sent,          \* what the transport took
    queue,         \* the mediator's messages for own identities
    pickups,       \* the calls of pickup in progress: None or [did, at, batch]
    next           \* the next UUID

ui == <<selected, composing, newRecipient, modal, route, shown>>
vars == <<ui, sends, store, sent, queue, pickups, next>>

NewThread == 0

InThread(t) == {m \in store : m.thread = t}
Parties(m) == {m.from, m.to}

-----------------------------------------------------------------------------
(* The page.                                                               *)

\* A choice in the menu; or the identifiers are loaded again, on focus for example, and
\* the first of them is selected.
Select ==
    /\ selected' \in Own
    /\ UNCHANGED <<composing, newRecipient, modal, route, shown, sends, store, sent, queue, pickups, next>>

ComposeNewThread ==
    /\ composing' = TRUE /\ modal' = TRUE
    /\ UNCHANGED <<selected, newRecipient, route, shown, sends, store, sent, queue, pickups, next>>

CancelNewThread ==
    /\ modal
    /\ composing' = FALSE /\ modal' = FALSE
    /\ UNCHANGED <<selected, newRecipient, route, shown, sends, store, sent, queue, pickups, next>>

CreateThread(did) ==
    /\ modal
    /\ newRecipient' = did /\ modal' = FALSE
    /\ route' = NewThread /\ shown' = {}
    /\ UNCHANGED <<selected, composing, sends, store, sent, queue, pickups, next>>

ViewThread(t) ==
    /\ \E m \in InThread(t) : selected \in Parties(m)
    /\ composing' = FALSE
    /\ route' = t /\ shown' = IF route = t THEN shown ELSE {}
    /\ UNCHANGED <<selected, newRecipient, modal, sends, store, sent, queue, pickups, next>>

\* The query of the open thread, every five seconds.
Refetch ==
    /\ route \notin {None, NewThread}
    /\ shown' = InThread(route)
    /\ UNCHANGED <<selected, composing, newRecipient, modal, route, sends, store, sent, queue, pickups, next>>

-----------------------------------------------------------------------------
(* Sending.                                                                *)

\* Mutant: the receiver of the first message is always the recipient.
RecipientTo(first) == first.to

Recipient(first) == IF first.from # selected THEN first.from ELSE first.to

SetSend(s, v) == sends' = [sends EXCEPT ![s] = v]
Pending(m) == [message |-> m, at |-> "pack", composing |-> composing]

\* The button, in a thread whose last message has the selected identity as a party.
SendReply(s) ==
    /\ sends[s] = None /\ next <= MessageBound
    /\ route \notin {None, NewThread}
    /\ \E first, last \in shown :
         /\ selected \in Parties(last)
         /\ SetSend(s, Pending([id |-> next, thread |-> route, from |-> selected,
                                to |-> Recipient(first)]))
    /\ next' = next + 1
    /\ UNCHANGED <<ui, store, sent, queue, pickups>>

SendFirst(s) ==
    /\ sends[s] = None /\ next <= MessageBound
    /\ route = NewThread /\ newRecipient # None
    /\ SetSend(s, Pending([id |-> next, thread |-> next, from |-> selected, to |-> newRecipient]))
    /\ next' = next + 1
    /\ UNCHANGED <<ui, store, sent, queue, pickups>>

\* Another click before the page is drawn again: the same ids.
SendAgain(s) ==
    /\ sends[s] = None
    /\ \E q \in Sends : sends[q] # None /\ sends[q].at = "pack" /\ SetSend(s, sends[q])
    /\ UNCHANGED <<ui, store, sent, queue, pickups, next>>

\* packDIDCommMessage; on an error there is no packed message.
Pack(s) ==
    /\ sends[s] # None /\ sends[s].at = "pack"
    /\ SetSend(s, [sends[s] EXCEPT !.at = "send"]) \/ SetSend(s, None)
    /\ UNCHANGED <<ui, store, sent, queue, pickups, next>>

\* Mutant: an error of the transport is not noticed.
SendIgnoringErrors(s) ==
    /\ sends[s] # None /\ sends[s].at = "send"
    /\ SetSend(s, [sends[s] EXCEPT !.at = "save"])
    /\ sent' = sent \cup {sends[s].message} \/ UNCHANGED sent
    /\ UNCHANGED <<ui, store, queue, pickups, next>>

\* sendDIDCommMessage; an error may come after the message was taken.
Send(s) ==
    /\ sends[s] # None /\ sends[s].at = "send"
    /\ \/ SetSend(s, [sends[s] EXCEPT !.at = "save"]) /\ sent' = sent \cup {sends[s].message}
       \/ SetSend(s, None) /\ (UNCHANGED sent \/ sent' = sent \cup {sends[s].message})
    /\ UNCHANGED <<ui, store, queue, pickups, next>>

\* dataStoreSaveMessage; then the page as it was at the click decides whether to go on to
\* the new thread.
Save(s) ==
    /\ sends[s] # None /\ sends[s].at = "save"
    /\ SetSend(s, None)
    /\ \/ /\ store' = store \cup {sends[s].message}
          /\ IF sends[s].composing
             THEN /\ newRecipient' = None /\ composing' = FALSE
                  /\ route' = sends[s].message.thread
                  /\ shown' = IF route = route' THEN shown ELSE {}
                  /\ UNCHANGED <<selected, modal>>
             ELSE UNCHANGED ui
       \/ UNCHANGED <<store, ui>>
    /\ UNCHANGED <<sent, queue, pickups, next>>

-----------------------------------------------------------------------------
(* Receiving.                                                              *)

\* A peer answers a message it got, or opens a thread.
PeerWrites(p, a) ==
    /\ next <= MessageBound
    /\ \/ queue' = queue \cup {[id |-> next, thread |-> next, from |-> p, to |-> a]}
       \/ \E m \in sent : /\ m.from = a /\ m.to = p
                          /\ queue' = queue \cup {[id |-> next, thread |-> m.thread, from |-> p, to |-> a]}
    /\ next' = next + 1
    /\ UNCHANGED <<ui, sends, store, sent, pickups>>

\* The timer starts a pickup of each own identity and does not wait for the last one.
Tick(p, a) ==
    /\ pickups[p] = None
    /\ pickups' = [pickups EXCEPT ![p] = [did |-> a, at |-> "status", batch |-> {}]]
    /\ UNCHANGED <<ui, sends, store, sent, queue, next>>

\* The status request, then the delivery request, limited to two messages.
AskStatus(p) ==
    /\ pickups[p] # None /\ pickups[p].at = "status"
    /\ pickups' = [pickups EXCEPT ![p].at = "delivery"]
    /\ UNCHANGED <<ui, sends, store, sent, queue, next>>

Deliver(p) ==
    /\ pickups[p] # None /\ pickups[p].at = "delivery"
    /\ LET waiting == {m \in queue : m.to = pickups[p].did} IN
       \E batch \in SUBSET waiting :
          /\ Cardinality(batch) <= 2 /\ (batch = {} => waiting = {})
          /\ pickups' = [pickups EXCEPT ![p].batch = batch, ![p].at = "handle"]
    /\ UNCHANGED <<ui, sends, store, sent, queue, next>>

\* A request fails, or its answer does not come; an acknowledgement of nothing that the
\* mediator still has may as well arrive.
Lose(p) ==
    /\ pickups[p] # None
    /\ pickups[p].at = "acknowledge" => pickups[p].batch \cap queue # {}
    /\ pickups' = [pickups EXCEPT ![p] = None]
    /\ UNCHANGED <<ui, sends, store, sent, queue, next>>

\* Mutant: the messages are acknowledged before they are stored.
HandleLate(p) ==
    /\ pickups[p] # None /\ pickups[p].at = "handle"
    /\ queue' = queue \ pickups[p].batch
    /\ pickups' = [pickups EXCEPT ![p].at = "acknowledge"]
    /\ UNCHANGED <<ui, sends, store, sent, next>>

\* SaveMessageHandler stores a chat message under its id.
Handle(p) ==
    /\ pickups[p] # None /\ pickups[p].at = "handle"
    /\ store' = store \cup pickups[p].batch
    /\ pickups' = [pickups EXCEPT ![p].at = "acknowledge"]
    /\ UNCHANGED <<ui, sends, sent, queue, next>>

\* The mediator forgets what was acknowledged.
Acknowledge(p) ==
    /\ pickups[p] # None /\ pickups[p].at = "acknowledge"
    /\ queue' = queue \ pickups[p].batch
    /\ pickups' = [pickups EXCEPT ![p] = None]
    /\ UNCHANGED <<ui, sends, store, sent, next>>

NothingWritten ==
    /\ composing = FALSE /\ newRecipient = None /\ modal = FALSE
    /\ route = None /\ shown = {}
    /\ sends = [s \in Sends |-> None]
    /\ store = {} /\ sent = {} /\ queue = {}
    /\ pickups = [p \in Pickups |-> None]
    /\ next = 1

Init == selected \in Own /\ NothingWritten

Page ==
    \/ Select \/ ComposeNewThread \/ CancelNewThread \/ Refetch
    \/ \E d \in Peers \cup Own : CreateThread(d)
    \/ \E t \in 1..MessageBound : ViewThread(t)

Sending(s) == SendReply(s) \/ SendFirst(s) \/ SendAgain(s) \/ Pack(s) \/ Send(s) \/ Save(s)
Pickup(p) == AskStatus(p) \/ Deliver(p) \/ Lose(p) \/ Handle(p) \/ Acknowledge(p)
Ticks(p) == \E a \in Own : Tick(p, a)

Mail ==
    \/ \E p \in Peers, a \in Own : PeerWrites(p, a)
    \/ \E p \in Pickups : Pickup(p) \/ Ticks(p)

Next == Page \/ (\E s \in Sends : Sending(s)) \/ Mail

Spec == Init /\ [][Next]_vars

-----------------------------------------------------------------------------
(* Properties.                                                             *)

\* Replies go to the other party of the thread, whoever is selected, whatever has been
\* loaded of it and however the page sorts it.
RepliesStayInThread ==
    \A m, n \in sent \cup store : m.thread = n.thread => Parties(m) = Parties(n)

\* The thread shows as sent only what the transport took, and as received only what the
\* mediator had.
StoredWasSent == \A m \in store : m.from \in Own => m \in sent

\* What a peer writes arrives, however pickups overlap and fail: a message is in the store
\* before the mediator forgets it, and pickups do not give up.
EverythingArrives ==
    \A i \in 1..MessageBound :
        (\E m \in queue : m.id = i) ~> (\E m \in store : m.id = i)
=============================================================================
