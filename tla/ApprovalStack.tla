--------------------------- MODULE ApprovalStack ---------------------------
(***************************************************************************)
(* The approval authority stack (core/security/approval/stack.ts with      *)
(* precedence.ts, grant-token.ts and modes/gate.ts), run by several tool   *)
(* calls at once: parent and subagent sessions, and the steps of one call  *)
(* separated by awaits.                                                    *)
(*                                                                         *)
(* The steps of one call: precedence decides between the state machine's   *)
(* envelope, a stage grant, the subagent envelope and the mode gate; an    *)
(* approval then passes the guard hooks in order; every decision is        *)
(* written to the audit before it is returned.  The set of consumed grant  *)
(* tuples is one per process; the cache is one per session.                *)
(*                                                                         *)
(* The state machine's answer, the user's answer, the guards and the audit *)
(* writer are injected and free.  A grant tuple (stageExecutionId,         *)
(* attempt, proposalId, toolId, argsDigest) is <<proposal, tool>>; the     *)
(* approval key is the model value the tool derives.                       *)
(***************************************************************************)
EXTENDS Naturals, Sequences, FiniteSets

CONSTANTS
  Calls,        \* tool calls that enter the stack
  Tools,
  Keys,         \* approval keys the tools derive
  BadKeys,      \* the ones validation rejects
  Proposals,    \* stage proposals; a retried proposal repeats one
  GuardHooks,   \* how many guard hooks are attached
  Nothing       \* no state machine attached

ASSUME StackAssumption ==
  /\ BadKeys \subseteq Keys
  /\ GuardHooks \in Nat
  /\ Nothing \notin [allowedTools : SUBSET Tools, grants : BOOLEAN]

VARIABLES
  sm,           \* attached state machine, or Nothing; grants: it has grantStageTool
  staged,       \* stageExecutionId is not null
  mode, allowlist, envelope,
  cache,        \* (tool, key) pairs remembered for the session
  consumed,     \* consumedGrantTokens
  st,           \* call -> where its run of the stack is
  req,          \* call -> its input
  decision,     \* call -> decision so far
  guardAt,      \* call -> next guard hook
  audit,        \* call -> audit records written, in order
  granted,      \* history: call -> consumeGrantToken returned true for it
  userApproved  \* history: (tool, key) pairs a user has approved

sessionVars == <<sm, staged, mode, allowlist, envelope>>
vars == <<sessionVars, cache, consumed, st, req, decision, guardAt, audit,
          granted, userApproved>>

StateMachines == [allowedTools : SUBSET Tools, grants : BOOLEAN]
Inputs == [tool : Tools, key : Keys, proposal : Proposals]

StackDecision ==
  [kind : {"none", "approve", "deny", "halt"},
   source : {"-", "sm-envelope", "sm-grant-token", "mode-gate", "subagent-envelope", "guard"}]

States == {"idle", "granting", "asking", "guards", "audit", "cancelling", "returned", "threw"}

Undecided == [kind |-> "none", source |-> "-"]
Decide(k, s) == [kind |-> k, source |-> s]

Init ==
  /\ sm \in StateMachines \cup {Nothing}
  /\ staged \in BOOLEAN
  /\ mode \in {"ask", "allowlist", "yolo"}
  /\ allowlist \in SUBSET (Keys \ BadKeys)
  /\ envelope \in SUBSET Tools
  /\ cache = {}
  /\ consumed = {}
  /\ st = [c \in Calls |-> "idle"]
  /\ req \in [Calls -> Inputs]
  /\ decision = [c \in Calls |-> Undecided]
  /\ guardAt = [c \in Calls |-> 1]
  /\ audit = [c \in Calls |-> <<>>]
  /\ granted = [c \in Calls |-> FALSE]
  /\ userApproved = {}

----------------------------------------------------------------------------
(***************************************************************************)
(* A key is well formed or not; the allowlist is the set of keys that its  *)
(* patterns match.                                                         *)
(***************************************************************************)
validateDerivedKey(key) == key \notin BadKeys
matchesAllowlist(key)   == key \in allowlist

Pair(c)  == <<req[c].tool, req[c].key>>
Tuple(c) == <<req[c].proposal, req[c].tool>>

(***************************************************************************)
(* precedence.ts: which authority decides for this tool.                   *)
(***************************************************************************)
resolvePrecedenceStep(tool) ==
  IF sm = Nothing THEN "mode-gate"
  ELSE IF tool \in sm.allowedTools THEN "sm-envelope" ELSE "sm-grant-token"

(* Mutant: the cache is looked up by tool alone. *)
evaluateModeGateByTool(c) ==
  CASE mode = "yolo" -> Decide("approve", "mode-gate")
    [] mode = "allowlist" ->
         Decide(IF matchesAllowlist(req[c].key) THEN "approve" ELSE "deny", "mode-gate")
    [] mode = "ask" ->
         IF \E k \in Keys : <<req[c].tool, k>> \in cache
         THEN Decide("approve", "mode-gate") ELSE Undecided

(***************************************************************************)
(* The mode gate up to its one await: the verdict it reaches without       *)
(* asking, or Undecided when the user has to be asked.                     *)
(***************************************************************************)
evaluateModeGate(c) ==
  CASE mode = "yolo" -> Decide("approve", "mode-gate")
    [] mode = "allowlist" ->
         Decide(IF matchesAllowlist(req[c].key) THEN "approve" ELSE "deny", "mode-gate")
    [] mode = "ask" ->
         IF Pair(c) \in cache THEN Decide("approve", "mode-gate") ELSE Undecided

(* Mutant: an approval from the subagent envelope bypasses the guards. *)
ResolveBypassingGuards(c, d) ==
  /\ decision' = [decision EXCEPT ![c] = d]
  /\ st' = [st EXCEPT ![c] =
              IF d.kind = "approve" /\ d.source # "subagent-envelope" THEN "guards" ELSE "audit"]

(***************************************************************************)
(* After a decision an approval goes to the guards, anything else straight *)
(* to the audit.                                                           *)
(***************************************************************************)
Resolve(c, d) ==
  /\ decision' = [decision EXCEPT ![c] = d]
  /\ st' = [st EXCEPT ![c] = IF d.kind = "approve" THEN "guards" ELSE "audit"]

Await(c, where) ==
  /\ st' = [st EXCEPT ![c] = where]
  /\ UNCHANGED decision

(***************************************************************************)
(* runApprovalStack up to its first await.  deriveApprovalKey validates    *)
(* the key before anything is decided, outside the try: no audit record.   *)
(***************************************************************************)
runApprovalStack(c) ==
  /\ st[c] = "idle"
  /\ \/ /\ ~validateDerivedKey(req[c].key)
        /\ Await(c, "threw")
     \/ /\ validateDerivedKey(req[c].key)
        /\ LET step == resolvePrecedenceStep(req[c].tool) IN
           \/ /\ step = "sm-envelope"
              /\ Resolve(c, Decide("approve", "sm-envelope"))
           \/ /\ step = "sm-grant-token"
              /\ IF sm.grants THEN Await(c, "granting")
                              ELSE Resolve(c, Decide("deny", "sm-grant-token"))
           \/ /\ step = "mode-gate"
              /\ req[c].tool \in envelope
              /\ Resolve(c, Decide("approve", "subagent-envelope"))
           \/ /\ step = "mode-gate"
              /\ req[c].tool \notin envelope
              /\ IF evaluateModeGate(c) = Undecided
                 THEN Await(c, "asking")
                 ELSE Resolve(c, evaluateModeGate(c))
  /\ UNCHANGED <<sessionVars, cache, consumed, req, guardAt, audit, granted, userApproved>>

(* Mutant: the tuple is tested but never remembered. *)
consumeWithoutRemembering(c) ==
  /\ Tuple(c) \notin consumed
  /\ UNCHANGED consumed

(***************************************************************************)
(* grant-token.ts: test and set of the tuple, in one synchronous step.     *)
(***************************************************************************)
consumeGrantToken(c) ==
  /\ Tuple(c) \notin consumed
  /\ consumed' = consumed \cup {Tuple(c)}

(***************************************************************************)
(* sm.grantStageTool has answered.                                         *)
(***************************************************************************)
grantRefused(c, verdict) ==
  /\ st[c] = "granting" /\ verdict # "approve"
  /\ Resolve(c, Decide("deny", "sm-grant-token"))
  /\ UNCHANGED <<sessionVars, cache, consumed, req, guardAt, audit, granted, userApproved>>

grantApproved(c) ==
  /\ st[c] = "granting"
  /\ \/ /\ staged /\ consumeGrantToken(c)
        /\ granted' = [granted EXCEPT ![c] = TRUE]
        /\ Resolve(c, Decide("approve", "sm-grant-token"))
     \/ /\ ~staged \/ Tuple(c) \in consumed
        /\ Resolve(c, Decide("deny", "sm-grant-token"))
        /\ UNCHANGED <<granted, consumed>>
  /\ UNCHANGED <<sessionVars, cache, req, guardAt, audit, userApproved>>

(***************************************************************************)
(* raiseApproval has answered; only an approval reaches the cache.         *)
(***************************************************************************)
askAnswered(c, verdict) ==
  /\ st[c] = "asking"
  /\ Resolve(c, Decide(verdict, "mode-gate"))
  /\ IF verdict = "approve"
     THEN /\ cache' = cache \cup {Pair(c)}
          /\ userApproved' = userApproved \cup {Pair(c)}
     ELSE UNCHANGED <<cache, userApproved>>
  /\ UNCHANGED <<sessionVars, consumed, req, guardAt, audit, granted>>

(* Mutant: the hook loop runs one hook past the end. *)
guardAnsweredPastEnd(c, ok) ==
  /\ st[c] = "guards" /\ guardAt[c] <= GuardHooks + 1
  /\ guardAt' = [guardAt EXCEPT ![c] = @ + 1]
  /\ UNCHANGED <<sessionVars, st, decision, cache, consumed, req, audit, granted, userApproved>>

(***************************************************************************)
(* The guard hooks run one after the other; the first refusal denies.      *)
(***************************************************************************)
guardAnswered(c, ok) ==
  /\ st[c] = "guards" /\ guardAt[c] <= GuardHooks
  /\ IF ok
     THEN /\ guardAt' = [guardAt EXCEPT ![c] = @ + 1]
          /\ UNCHANGED <<st, decision>>
     ELSE /\ Resolve(c, Decide("deny", "guard"))
          /\ UNCHANGED guardAt
  /\ UNCHANGED <<sessionVars, cache, consumed, req, audit, granted, userApproved>>

guardsPassed(c) ==
  /\ st[c] = "guards" /\ guardAt[c] > GuardHooks
  /\ Await(c, "audit")
  /\ UNCHANGED <<sessionVars, cache, consumed, req, guardAt, audit, granted, userApproved>>

(***************************************************************************)
(* An injected call rejects.  A Cancellation is audited and rethrown, any  *)
(* other error is rethrown as it is.                                       *)
(***************************************************************************)
rejects(c, cancelled) ==
  /\ st[c] \in {"granting", "asking", "guards"}
  /\ st[c] = "guards" => guardAt[c] <= GuardHooks
  /\ Await(c, IF cancelled THEN "cancelling" ELSE "threw")
  /\ UNCHANGED <<sessionVars, cache, consumed, req, guardAt, audit, granted, userApproved>>

(***************************************************************************)
(* writeAudit, then return; a failing audit write rejects the call.        *)
(***************************************************************************)
writeAudit(c) ==
  /\ st[c] \in {"audit", "cancelling"}
  /\ audit' = [audit EXCEPT ![c] =
                 Append(@, IF st[c] = "audit" THEN decision[c].kind ELSE "cancelled")]
  /\ Await(c, IF st[c] = "audit" THEN "returned" ELSE "threw")
  /\ UNCHANGED <<sessionVars, cache, consumed, req, guardAt, granted, userApproved>>

(* Mutant: a decision is returned although its audit write failed. *)
auditFailureIgnored(c) ==
  /\ st[c] \in {"audit", "cancelling"}
  /\ Await(c, IF st[c] = "audit" THEN "returned" ELSE "threw")
  /\ UNCHANGED <<sessionVars, cache, consumed, req, guardAt, audit, granted, userApproved>>

(* A write that is cancelled is audited in its turn, as cancelled.         *)
auditFails(c) ==
  /\ st[c] \in {"audit", "cancelling"}
  /\ \/ Await(c, "threw")
     \/ st[c] = "audit" /\ Await(c, "cancelling")
  /\ UNCHANGED <<sessionVars, cache, consumed, req, guardAt, audit, granted, userApproved>>

Step(c) ==
  \/ runApprovalStack(c)
  \/ \E v \in {"deny", "defer"} : grantRefused(c, v)
  \/ grantApproved(c)
  \/ \E v \in {"approve", "deny", "halt"} : askAnswered(c, v)
  \/ \E ok \in BOOLEAN : guardAnswered(c, ok)
  \/ guardsPassed(c)
  \/ \E b \in BOOLEAN : rejects(c, b)
  \/ writeAudit(c) \/ auditFails(c)

Next == \E c \in Calls : Step(c)

Spec == Init /\ [][Next]_vars

----------------------------------------------------------------------------
(***************************************************************************)
(* Every variable has its type.                                            *)
(***************************************************************************)
TypeOK ==
  /\ sm \in StateMachines \cup {Nothing}
  /\ staged \in BOOLEAN
  /\ mode \in {"ask", "allowlist", "yolo"}
  /\ allowlist \subseteq Keys
  /\ envelope \subseteq Tools
  /\ cache \subseteq Tools \X Keys
  /\ consumed \subseteq Proposals \X Tools
  /\ st \in [Calls -> States]
  /\ req \in [Calls -> Inputs]
  /\ decision \in [Calls -> StackDecision]
  /\ guardAt \in [Calls -> 1..(GuardHooks + 1)]
  /\ audit \in [Calls -> Seq({"approve", "deny", "halt", "cancelled"})]
  /\ granted \in [Calls -> BOOLEAN]
  /\ userApproved \subseteq Tools \X Keys

Approved(c) == st[c] = "returned" /\ decision[c].kind = "approve"

(***************************************************************************)
(* A tool call that comes out approved had an authority that could approve *)
(* it.  With a state machine attached that is its envelope or a grant      *)
(* tuple this very call consumed, whatever the mode (yolo included).       *)
(* Without one it is the subagent envelope, yolo, the allowlist, or a      *)
(* user's approval of the same tool and key.                               *)
(***************************************************************************)
ApprovalIsAuthorised ==
  \A c \in Calls : Approved(c) =>
    /\ sm # Nothing => req[c].tool \in sm.allowedTools \/ granted[c]
    /\ sm = Nothing =>
         \/ req[c].tool \in envelope
         \/ mode = "yolo"
         \/ mode = "allowlist" /\ req[c].key \in allowlist
         \/ mode = "ask" /\ Pair(c) \in userApproved
    /\ req[c].key \notin BadKeys

(***************************************************************************)
(* A grant tuple approves at most one call, even when calls that repeat a  *)
(* proposal wait for the state machine at the same time.                   *)
(***************************************************************************)
GrantIsSingleUse ==
  \A c, d \in Calls :
    ( /\ c # d
      /\ Tuple(c) = Tuple(d)
      /\ decision[c] = Decide("approve", "sm-grant-token") )
    => decision[d] # Decide("approve", "sm-grant-token")

(***************************************************************************)
(* Every approval has passed every guard hook, also those that bypass the  *)
(* mode gate.                                                              *)
(***************************************************************************)
ApprovalPassedGuards ==
  \A c \in Calls : Approved(c) => guardAt[c] = GuardHooks + 1

(***************************************************************************)
(* A decision is returned only after exactly one audit record of that same *)
(* decision; no call leaves two records, and none leaves a record of an    *)
(* approval that a guard then took back.                                   *)
(***************************************************************************)
ReturnedIsAudited ==
  \A c \in Calls :
    /\ st[c] = "returned" => audit[c] = <<decision[c].kind>>
    /\ Len(audit[c]) <= 1
    /\ audit[c] # <<>> => st[c] \in {"returned", "threw"}

============================================================================
