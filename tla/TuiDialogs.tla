------------------------------ MODULE TuiDialogs ------------------------------
(***************************************************************************)
(* The interactor half of the bundled terminal UI: the extension lifecycle *)
(* (default-tui/lifecycle.ts) over the dialog state of                     *)
(* default-tui/dialogs/interaction.ts.  A request shows as a dialog, with  *)
(* a promise behind it when it came by onInteraction; an answer settles    *)
(* the promise, and InteractionAnswered on the bus, an answer given        *)
(* elsewhere, rejects it.  respondInteraction works out the new state,     *)
(* awaits, and then assigns it: what changed in between is undone.  Dialogs *)
(* are kept as the set of their ids: dismissing one filters the list by    *)
(* its id, and whatever is on screen can be answered.                      *)
(***************************************************************************)
EXTENDS Integers

CONSTANTS Prompts,     \* ids of requests
          MaxDialogs,  \* bound: dialogs raised
          MaxReplies   \* bound: calls of respondInteraction

VARIABLES ui,          \* state.dialogs: dialogs, answered, pending
          life,        \* out, in (after init), closing, gone
          listening,   \* the two handlers are registered
          promise,     \* of each request: none, open, resolved, rejected
          replies,     \* respondInteraction calls that await
          accepted,    \* history: answers reported as accepted, of each request
          raised, replied,
          overlapped   \* history: the state changed while a reply awaited

dialogVars == <<ui, life, listening, promise, replies, accepted, raised, replied, overlapped>>

createInitialDialogState(answered) == [dialogs |-> {}, answered |-> answered, pending |-> {}]

TDInit ==
  /\ ui = createInitialDialogState({}) /\ life = "out" /\ listening = FALSE
  /\ promise = [p \in Prompts |-> "none"] /\ accepted = [p \in Prompts |-> 0]
  /\ replies = {} /\ raised = 0 /\ replied = 0 /\ overlapped = FALSE

raiseDialog(s, p, waits) ==
  [s EXCEPT !.dialogs = @ \cup {p}, !.pending = IF waits THEN @ \cup {p} ELSE @]

dismissDialog(s, p) ==
  [s EXCEPT !.dialogs = @ \ {p}, !.pending = @ \ {p}]

Changes(s) == ui' = s /\ overlapped' = (overlapped \/ replies # {})
Rest       == UNCHANGED <<replies, accepted, replied>>

\* A configuration that validateConfig refuses leaves the UI out.
init ==
  /\ life = "out" /\ life' = "in"
  /\ \E answered \in SUBSET Prompts : ui' = createInitialDialogState(answered)
  /\ UNCHANGED <<listening, promise, raised, overlapped>> /\ Rest

activate ==
  /\ life = "in" /\ ~listening /\ listening' = TRUE
  /\ UNCHANGED <<ui, life, promise, raised, overlapped>> /\ Rest

\* A request of another kind, or a select without options, shows nothing.
InteractionRaised(p) ==
  /\ listening /\ raised < MaxDialogs /\ raised' = raised + 1
  /\ Changes(raiseDialog(ui, p, FALSE))
  /\ UNCHANGED <<life, listening, promise>> /\ Rest

onInteraction(p) ==
  /\ life \in {"in", "closing"} /\ promise[p] = "none"
  /\ raised < MaxDialogs /\ raised' = raised + 1
  /\ promise' = [promise EXCEPT ![p] = "open"] /\ Changes(raiseDialog(ui, p, TRUE))
  /\ UNCHANGED <<life, listening>> /\ Rest

Settles(p, how) == promise' = [promise EXCEPT ![p] = IF @ = "open" THEN how ELSE @]

\* consumePendingInteraction and the rejection; dismissed without one too.
InteractionAnswered(p) ==
  /\ listening /\ Changes(dismissDialog(ui, p))
  /\ IF p \in ui.pending THEN Settles(p, "rejected") ELSE UNCHANGED promise
  /\ UNCHANGED <<life, listening, raised>> /\ Rest

\* An id that was answered throws InteractionAlreadyAnswered.
respondInteraction(p) ==
  /\ life \in {"in", "closing"} /\ p \notin ui.answered
  /\ replied < MaxReplies /\ replied' = replied + 1
  /\ replies' = replies \cup
       {[id |-> p, n |-> replied, waits |-> p \in ui.pending,
         state |-> [dismissDialog(ui, p) EXCEPT !.answered = @ \cup {p}]]}
  /\ overlapped' = (overlapped \/ replies # {})
  /\ UNCHANGED <<ui, life, listening, promise, accepted, raised>>

\* The promise settles in any case; the caller of a UI that is gone meanwhile
\* has an error, for there is no host to render to.
replyResumes(r) ==
  /\ r \in replies /\ replies' = replies \ {r}
  /\ IF r.waits THEN Settles(r.id, "resolved") ELSE UNCHANGED promise
  /\ ui' = r.state
  /\ accepted' = IF life = "gone" THEN accepted ELSE [accepted EXCEPT ![r.id] = @ + 1]
  /\ UNCHANGED <<life, listening, raised, replied, overlapped>>

deactivate ==
  /\ life = "in" /\ listening /\ listening' = FALSE
  /\ UNCHANGED <<ui, life, promise, raised, overlapped>> /\ Rest

dispose ==
  /\ life = "in" /\ life' = "closing" /\ listening' = FALSE
  /\ UNCHANGED <<ui, promise, raised, overlapped>> /\ Rest
disposeEnds ==
  /\ life = "closing" /\ life' = "gone"
  /\ UNCHANGED <<ui, listening, promise, raised, overlapped>> /\ Rest

TDNext ==
  \/ init \/ activate \/ deactivate \/ dispose \/ disposeEnds
  \/ \E p \in Prompts : InteractionRaised(p) \/ onInteraction(p) \/ InteractionAnswered(p) \/ respondInteraction(p)
  \/ \E r \in replies : replyResumes(r)

TDSpec == TDInit /\ [][TDNext]_dialogVars
-------------------------------------------------------------------------------
TDTypeOK ==
  /\ life \in {"out", "in", "closing", "gone"} /\ listening \in BOOLEAN
  /\ ui.dialogs \cup ui.answered \cup ui.pending \subseteq Prompts
  /\ promise \in [Prompts -> {"none", "open", "resolved", "rejected"}]

\* As long as nothing happens while a reply awaits, a promise that is open is
\* pending and its dialog on screen, one that is settled is not pending, and no
\* request is accepted twice.  Whatever happens, a request that is pending has
\* a dialog to answer it by (respondInteraction, dismissDialog).
PromptsStayAnswerable ==
  /\ ui.pending \subseteq ui.dialogs
  /\ ~overlapped => /\ ui.pending = {p \in Prompts : promise[p] = "open"}
                    /\ \A p \in Prompts : accepted[p] <= 1
===============================================================================
