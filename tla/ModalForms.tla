----------------------------- MODULE ModalForms -----------------------------
(***************************************************************************)
(* The forms in which the explorer's pages on identifiers ask for what     *)
(* they create: a new key, an existing key, a service, an identifier.  All *)
(* are a modal window over a form that outlives it (AddKeyModalForm.tsx,   *)
(* CreateAndAddKeyModalForm.tsx, AddServiceModalForm.tsx and               *)
(* NewIdentifierModalForm.tsx); what "Create" does is the page's.  The     *)
(* forms have nothing in common, so a behaviour is one of a single form.   *)
(***************************************************************************)
EXTENDS Naturals, FiniteSets

CONSTANT MaxFillings  \* bound: how often an empty form is begun

VARIABLES
    kind,      \* which form it is
    visible,   \* its window is open
    entered,   \* the fields that hold something
    calls,     \* handlers that wait for the agent
    fillings,  \* history: how often something was entered into the empty form
    sent       \* history: how often the page's handler was called

vars == <<kind, visible, entered, calls, fillings, sent>>

Kinds == {"new key", "existing key", "service", "identifier"}

Required(k) ==
    CASE k = "new key" -> {"kms", "type"}
      [] k = "existing key" -> {"kid", "kms", "type", "publicKeyHex"}
      [] k = "service" -> {"id", "type", "serviceEndpoint"}
      [] k = "identifier" -> {"provider"}
Optional(k) ==
    CASE k = "new key" -> {}
      [] k = "existing key" -> {"privateKeyHex"}
      [] k = "service" -> {"description"}
      [] k = "identifier" -> {"alias"}

\* The page waits for the agent, and closes the window when it has succeeded.
Waits == kind \in {"new key", "identifier"}

-----------------------------------------------------------------------------
\* The page's button opens the window.
Show ==
    /\ ~visible /\ visible' = TRUE
    /\ UNCHANGED <<kind, entered, calls, fillings, sent>>

Enter(x) ==
    /\ visible /\ x \notin entered
    /\ entered = {} => fillings < MaxFillings
    /\ entered' = entered \cup {x}
    /\ fillings' = IF entered = {} THEN fillings + 1 ELSE fillings
    /\ UNCHANGED <<kind, visible, calls, sent>>

Empty(x) ==
    /\ visible /\ x \in entered
    /\ entered' = entered \ {x}
    /\ UNCHANGED <<kind, visible, calls, fillings, sent>>

\* The window is closed; the form keeps its values.
Cancel ==
    /\ visible /\ visible' = FALSE
    /\ UNCHANGED <<kind, entered, calls, fillings, sent>>

\* "Create": when the fields are valid they are reset, and then the handler is called with
\* what they held; otherwise nothing happens.  It sends a service without waiting, refuses an
\* existing key ('not implemented yet'), and closes the window for both.
Ok ==
    /\ visible /\ Required(kind) \subseteq entered
    /\ entered' = {}
    /\ sent' = sent + 1
    /\ IF Waits THEN calls' = calls + 1 /\ UNCHANGED visible
       ELSE visible' = FALSE /\ UNCHANGED calls
    /\ UNCHANGED <<kind, fillings>>

AnswerResets ==  \* mutant: the fields are reset when the agent has answered
    /\ calls > 0 /\ calls' = calls - 1
    /\ \/ visible' = FALSE /\ entered' = {}
       \/ UNCHANGED <<visible, entered>>
    /\ UNCHANGED <<kind, fillings, sent>>

\* The agent answers a handler.  A success closes the window, also one that was opened again,
\* and with other values in it; a failure leaves it as it is.
Answer ==
    /\ calls > 0 /\ calls' = calls - 1
    /\ visible' \in {visible, FALSE}
    /\ UNCHANGED <<kind, entered, fillings, sent>>

Init ==
    /\ kind \in Kinds
    /\ visible = FALSE /\ entered = {} /\ calls = 0
    /\ fillings = 0 /\ sent = 0

Next ==
    \/ Show \/ Cancel \/ Ok \/ Answer
    \/ \E x \in Required(kind) \cup Optional(kind) : Enter(x) \/ Empty(x)

Spec == Init /\ [][Next]_vars

-----------------------------------------------------------------------------
(* Properties.                                                             *)

\* Nothing that a user has entered goes but by his own hand or by being sent complete, not
\* when the window is closed, and not when the answer to an earlier call closes it; and
\* however often "Create" is clicked while the agent is slow, what was entered is sent once.
InputIsSentOnce ==
    [][/\ sent' <= fillings'
       /\ entered' # entered =>
            \/ \E x \in Required(kind) \cup Optional(kind) :
                   entered' \in {entered \cup {x}, entered \ {x}}
            \/ sent' = sent + 1 /\ Required(kind) \subseteq entered]_vars
=============================================================================
