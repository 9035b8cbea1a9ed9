----------------------------- MODULE HookSlots -----------------------------
(***************************************************************************)
(* The hooks of a slot (core/hooks).  Which sub-kinds a slot admits, how   *)
(* the ordering manifests of the three scopes merge, and how one slot runs:*)
(* guards one after the other, transforms chained, observers together.     *)
(***************************************************************************)
EXTENDS Integers, Sequences, SequencesExt

CONSTANTS
  HookExts,     \* extensions that register hooks; numbers, so that they sort
  HookFiles,    \* what an ordering.json may hold for the slot
  SlotsTried    \* slots under test

Kinds      == {"guard", "transform", "observer"}
HookScopes == {"bundled", "global", "project"}
NoHook     == "none"
NoFile     == <<0>>

VARIABLES
  hookOf,     \* the sub-kind each extension has attached to the slot under test
  hookSlot,   \* the slot under test
  orderFile,  \* ordering.json of each scope
  hookRun,    \* the one run of the slot
  stragglers  \* history: observers still running after their run had settled

hookVars == <<hookOf, hookSlot, orderFile, hookRun, stragglers>>

(* The matrix: everything but guards after a stage, and observers alone    *)
(* where only the result is visible.                                       *)
ObserverOnly == {"SEND_REQUEST/post", "STREAM_RESPONSE/post", "RENDER/post"}
NoGuard      == {"RECEIVE_INPUT/post", "COMPOSE_REQUEST/post", "TOOL_CALL/post", "RENDER/pre"}
AnyKind      == {"RECEIVE_INPUT/pre", "COMPOSE_REQUEST/pre", "SEND_REQUEST/pre",
                 "STREAM_RESPONSE/pre", "TOOL_CALL/pre"}
HookSlotNames == ObserverOnly \cup NoGuard \cup AnyKind

isAttachmentAllowed(slot, kind) ==
  \/ slot \in AnyKind
  \/ slot \in NoGuard /\ kind /= "guard"
  \/ slot \in ObserverOnly /\ kind = "observer"

(* The matrix is refused at load if a result slot admits a guard.          *)
CanonicalMatrix ==
  \A slot \in {"RECEIVE_INPUT/post", "COMPOSE_REQUEST/post", "SEND_REQUEST/post",
               "STREAM_RESPONSE/post", "RENDER/post"} : ~isAttachmentAllowed(slot, "guard")

(* A manifest's order for the slot: some ids, none of them twice.          *)
ValidOrder(order) == order /= <<>> /\ IsInjective(order)

(* Mutant: the bundled order wins.                                         *)
mergeBackwards ==
  IF orderFile["bundled"] /= NoFile THEN orderFile["bundled"]
  ELSE IF orderFile["global"] /= NoFile THEN orderFile["global"]
  ELSE IF orderFile["project"] /= NoFile THEN orderFile["project"]
  ELSE <<>>

(* The last scope that names the slot replaces the orders before it.       *)
mergeOrdering ==
  IF orderFile["project"] /= NoFile THEN orderFile["project"]
  ELSE IF orderFile["global"] /= NoFile THEN orderFile["global"]
  ELSE IF orderFile["bundled"] /= NoFile THEN orderFile["bundled"]
  ELSE <<>>

(* Listed hooks by their index, the others behind them by id.              *)
Before(order, x, y) ==
  LET listed(e) == \E i \in DOMAIN order : order[i] = e
      index(e)  == CHOOSE i \in DOMAIN order : order[i] = e
  IN IF listed(x) /\ listed(y) THEN index(x) < index(y)
     ELSE IF listed(x) /= listed(y) THEN listed(x) ELSE x < y

orderHooksForSlot(kind) ==
  SetToSortSeq({x \in HookExts : hookOf[x] = kind}, LAMBDA x, y : Before(mergeOrdering, x, y))

Idle0 == [at |-> "idle", queue |-> <<>>, payload |-> <<>>, running |-> {}, seen |-> {}, outcome |-> "none"]

HSTypeOK ==
  /\ hookOf \in [HookExts -> Kinds \cup {NoHook}]
  /\ hookSlot \in HookSlotNames
  /\ orderFile \in [HookScopes -> HookFiles \cup {NoFile}]
  /\ hookRun.at \in {"idle", "guards", "transforms", "observers", "settled"}
  /\ hookRun.outcome \in {"none", "ok", "denied", "failed", "cancelled"}
  /\ hookRun.running \subseteq HookExts /\ stragglers \subseteq HookExts
  /\ Len(hookRun.payload) <= Len(orderHooksForSlot("transform"))

(* Only hooks the matrix admits are attached.                              *)
validateAttachment(slot) == {f \in [HookExts -> Kinds \cup {NoHook}] :
  \A x \in HookExts : f[x] = NoHook \/ isAttachmentAllowed(slot, f[x])}

HSInit ==
  /\ CanonicalMatrix
  /\ hookSlot \in SlotsTried \cap HookSlotNames
  /\ hookOf \in validateAttachment(hookSlot)
  /\ orderFile \in [HookScopes -> HookFiles \cup {NoFile}]
  /\ hookRun = Idle0 /\ stragglers = {}

(* All manifests of the scopes loaded without an error.                    *)
loadOrderingManifest == \A s \in HookScopes : orderFile[s] = NoFile \/ ValidOrder(orderFile[s])

Settle(run, outcome) ==
  /\ hookRun' = [run EXCEPT !.at = "settled", !.outcome = outcome, !.queue = <<>>, !.running = {}]
  /\ stragglers' = run.running

Keep == UNCHANGED <<hookOf, hookSlot, orderFile>>

(* Observers all start at once on the payload the transforms left.         *)
Observing(run) ==
  LET obs == ToSet(orderHooksForSlot("observer")) IN
  [run EXCEPT !.at = "observers", !.running = obs, !.seen = {<<o, run.payload>> : o \in obs}]

runHooksForSlot ==
  /\ hookRun.at \in {"idle", "settled"} /\ stragglers = {}
  /\ loadOrderingManifest
  /\ hookRun' = [Idle0 EXCEPT !.at = "guards", !.queue = orderHooksForSlot("guard")]
  /\ UNCHANGED stragglers /\ Keep

(* A manifest with no order, or with one id twice, fails the load.         *)
orderingRefused ==
  /\ hookRun.at \in {"idle", "settled"} /\ stragglers = {}
  /\ ~loadOrderingManifest
  /\ hookRun' = [Idle0 EXCEPT !.at = "settled", !.outcome = "failed"]
  /\ UNCHANGED stragglers /\ Keep

(* A guard allows, denies, throws, or throws the turn's cancellation.      *)
guardAllows ==
  /\ hookRun.at = "guards" /\ hookRun.queue /= <<>>
  /\ hookRun' = [hookRun EXCEPT !.queue = Tail(@)]
  /\ UNCHANGED stragglers /\ Keep

guardEnds(outcome) ==
  /\ hookRun.at = "guards" /\ hookRun.queue /= <<>>
  /\ Settle(hookRun, outcome) /\ Keep

guardsDone ==
  /\ hookRun.at = "guards" /\ hookRun.queue = <<>>
  /\ hookRun' = [hookRun EXCEPT !.at = "transforms", !.queue = orderHooksForSlot("transform")]
  /\ UNCHANGED stragglers /\ Keep

transformed ==
  /\ hookRun.at = "transforms" /\ hookRun.queue /= <<>>
  /\ hookRun' = [hookRun EXCEPT !.queue = Tail(@), !.payload = Append(@, Head(hookRun.queue))]
  /\ UNCHANGED stragglers /\ Keep

transformThrows(outcome) ==
  /\ hookRun.at = "transforms" /\ hookRun.queue /= <<>>
  /\ Settle(hookRun, outcome) /\ Keep

transformsDone ==
  /\ hookRun.at = "transforms" /\ hookRun.queue = <<>>
  /\ hookRun' = Observing(hookRun)
  /\ UNCHANGED stragglers /\ Keep

(* A failing observer is reported and counts as done.                      *)
observerSettles(x) ==
  /\ x \in hookRun.running
  /\ hookRun' = [hookRun EXCEPT !.running = @ \ {x}]
  /\ UNCHANGED stragglers /\ Keep

(* Promise.all rejects at the first observer that throws the cancellation; *)
(* its siblings run on.                                                    *)
observerCancels(x) ==
  /\ x \in hookRun.running
  /\ Settle([hookRun EXCEPT !.running = @ \ {x}], "cancelled") /\ Keep

observersDone ==
  /\ hookRun.at = "observers" /\ hookRun.running = {}
  /\ Settle(hookRun, "ok") /\ Keep

stragglerEnds(x) ==
  /\ x \in stragglers
  /\ stragglers' = stragglers \ {x}
  /\ UNCHANGED hookRun /\ Keep

HSNext ==
  \/ runHooksForSlot \/ orderingRefused \/ guardAllows \/ guardsDone \/ transformed \/ transformsDone \/ observersDone
  \/ \E o \in {"denied", "failed", "cancelled"} : guardEnds(o)
  \/ \E o \in {"failed", "cancelled"} : transformThrows(o)
  \/ \E x \in HookExts : observerSettles(x) \/ observerCancels(x) \/ stragglerEnds(x)

HSSpec == HSInit /\ [][HSNext]_hookVars

ProjectsOrder ==
  LET named == {s \in HookScopes : orderFile[s] /= NoFile}
      best  == IF "project" \in named THEN orderFile["project"]
               ELSE IF "global" \in named THEN orderFile["global"]
               ELSE IF named = {} THEN <<>> ELSE orderFile["bundled"]
      trans == {x \in HookExts : hookOf[x] = "transform"}
  IN SelectSeq(best, LAMBDA x : x \in trans) \o SetToSortSeq(trans \ ToSet(best), <)

(***************************************************************************)
(* Every observer is shown what all the slot's transforms made of the      *)
(* payload, applied in the order the most specific manifest gives (the     *)
(* unlisted behind, by id); a denied or failed slot shows it to nobody.    *)
(***************************************************************************)
ObserversSeeWholePayload ==
  /\ \A p \in hookRun.seen : p[2] = ProjectsOrder /\ hookOf[p[1]] = "observer"
  /\ hookRun.outcome \in {"denied", "failed"} => hookRun.seen = {}

(***************************************************************************)
(* A slot that settles leaves no observer of it running, unless the turn   *)
(* was cancelled: then the siblings of the one that threw run on.          *)
(***************************************************************************)
OnlyCancelLeavesObservers ==
  stragglers /= {} => hookRun.outcome = "cancelled"
=============================================================================
