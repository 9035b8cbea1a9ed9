---------------------------- MODULE SMAttachment ----------------------------
(***************************************************************************)
(* What a state machine keeps beside its stages: the one-shot grants of    *)
(* tools outside a stage's envelope (core/sm/grant-token.ts), and its      *)
(* attachment to the session with its slot (core/sm/attach.ts), where each *)
(* await is a place of the call.                                           *)
(***************************************************************************)
EXTENDS Integers, FiniteSets

CONSTANTS
  GrantTuples,   \* (stage execution, attempt, proposal, tool, digest)
  Executions,    \* stage executions
  ExecutionOf,   \* the stage execution of each tuple
  Machines,      \* state machine ids
  SlotValues     \* contents of a slot

NoSlot == "none"

VARIABLES
  tokens, consumed, cleared, keysByStage,   \* the four module-level maps of the grant store
  usable,     \* history: tuples granted and neither used nor expired since
  calls,      \* attachSM per machine: place, slot delivered, resumed
  slots,      \* session.stateSlot: what is stored per machine
  attachedId, \* attachedByHost
  wired       \* what setAttachedStateMachine was told last

grantVars  == <<tokens, consumed, cleared, keysByStage, usable>>
attachVars == <<calls, slots, attachedId, wired>>
saVars     == <<grantVars, attachVars>>

Slot   == SlotValues \cup {NoSlot}
Places == {"idle", "writing", "reading", "attaching", "auditing", "attached", "refused", "failed"}
Call0  == [at |-> "idle", slot |-> NoSlot, resumed |-> FALSE]

(* Types.                                                                  *)
SATypeOK ==
  /\ {tokens, consumed, usable} \subseteq SUBSET GrantTuples
  /\ cleared \subseteq Executions
  /\ keysByStage \in [Executions -> SUBSET GrantTuples]
  /\ calls \in [Machines -> [at : Places, slot : Slot, resumed : BOOLEAN]]
  /\ slots \in [Machines -> Slot]
  /\ {attachedId, wired} \subseteq Machines \cup {"none"}

SAInit ==
  /\ tokens = {} /\ consumed = {} /\ cleared = {} /\ usable = {}
  /\ keysByStage = [e \in Executions |-> {}]
  /\ calls = [m \in Machines |-> Call0]
  /\ slots = [m \in Machines |-> NoSlot]
  /\ attachedId = "none" /\ wired = "none"

(***************************************************************************)
(* The grant store.  All three operations are synchronous.                 *)
(***************************************************************************)
issueGrant(t) ==
  /\ tokens' = tokens \cup {t}
  /\ consumed' = consumed \ {t}
  /\ cleared' = cleared \ {ExecutionOf[t]}
  /\ keysByStage' = [keysByStage EXCEPT ![ExecutionOf[t]] = @ \cup {t}]
  /\ usable' = usable \cup {t}
  /\ UNCHANGED attachVars

consumeGrant(t) ==
  /\ t \in tokens
  /\ tokens' = tokens \ {t}
  /\ consumed' = consumed \cup {t}
  /\ keysByStage' = [keysByStage EXCEPT ![ExecutionOf[t]] = @ \ {t}]
  /\ usable' = usable \ {t}
  /\ UNCHANGED <<cleared, attachVars>>

clearStageGrants(e) ==
  /\ tokens' = tokens \ keysByStage[e]
  /\ keysByStage' = [keysByStage EXCEPT ![e] = {}]
  /\ cleared' = cleared \cup {e}
  /\ usable' = {t \in usable : ExecutionOf[t] /= e}
  /\ UNCHANGED <<consumed, attachVars>>

(***************************************************************************)
(* attachSM, for one machine at a time; calls for several may overlap.     *)
(***************************************************************************)
At(m, place) == calls' = [calls EXCEPT ![m].at = place]

attachCalled(m, slot, resumed) ==
  /\ calls[m].at \in {"idle", "attached", "refused", "failed"}
  /\ calls' = [calls EXCEPT ![m] = [slot |-> slot, resumed |-> resumed, at |->
       IF attachedId \notin {"none", m} THEN "refused"
       ELSE IF ~resumed THEN "reading"
       ELSE IF slot = NoSlot THEN "failed" ELSE "writing"]]
  /\ UNCHANGED <<slots, attachedId, wired, grantVars>>

slotWritten(m) ==
  /\ calls[m].at = "writing"
  /\ \/ slots' = [slots EXCEPT ![m] = calls[m].slot] /\ At(m, "reading")
     \/ UNCHANGED slots /\ At(m, "failed")
  /\ UNCHANGED <<attachedId, wired, grantVars>>

slotRead(m) ==
  /\ calls[m].at = "reading"
  /\ \/ At(m, IF calls[m].resumed /\ slots[m] /= calls[m].slot THEN "failed" ELSE "attaching")
     \/ At(m, "failed")
  /\ UNCHANGED <<slots, attachedId, wired, grantVars>>

(* The machine's own attach() came back; it may have written its slot.     *)
attachReturns(m) ==
  /\ calls[m].at = "attaching"
  /\ \E s \in Slot : slots' = [slots EXCEPT ![m] = s]
  /\ attachedId' = m
  /\ wired' = m
  /\ At(m, "auditing")
  /\ UNCHANGED grantVars

attachThrows(m) ==
  /\ calls[m].at = "attaching"
  /\ At(m, "failed")
  /\ UNCHANGED <<slots, attachedId, wired, grantVars>>

audited(m) ==
  /\ calls[m].at = "auditing"
  /\ At(m, "attached") \/ At(m, "failed")
  /\ UNCHANGED <<slots, attachedId, wired, grantVars>>

SANext ==
  \/ \E t \in GrantTuples : issueGrant(t) \/ consumeGrant(t)
  \/ \E e \in Executions : clearStageGrants(e)
  \/ \E m \in Machines, s \in Slot, r \in BOOLEAN : attachCalled(m, s, r)
  \/ \E m \in Machines : slotWritten(m) \/ slotRead(m) \/ attachReturns(m) \/ attachThrows(m) \/ audited(m)

SASpec == SAInit /\ [][SANext]_saVars

(***************************************************************************)
(* A token is held exactly for the grants that were issued and neither     *)
(* used nor outlived by their stage, and the index a stage's clearing      *)
(* works from is the tokens of that stage: after any sequence of calls.    *)
(***************************************************************************)
GrantsExpireWithStage ==
  /\ tokens = usable
  /\ \A e \in Executions : keysByStage[e] = {t \in tokens : ExecutionOf[t] = e}
  /\ tokens \cap consumed = {}
  /\ \A t \in tokens : ExecutionOf[t] \notin cleared
=============================================================================
