------------------------ MODULE ApprovalStackProofs ------------------------
(***************************************************************************)
(* The approval stack for any number of concurrent calls, tools, keys,     *)
(* proposals and guard hooks: what comes out approved was authorised,      *)
(* guarded and audited, and a grant tuple approves one call.               *)
(***************************************************************************)
EXTENDS MCApprovalStack, Integers, TLAPS

(***************************************************************************)
(* The authority that may approve call c.                                  *)
(***************************************************************************)
Authority(c) ==
  /\ sm # Nothing => req[c].tool \in sm.allowedTools \/ granted[c]
  /\ sm = Nothing =>
       \/ req[c].tool \in envelope
       \/ mode = "yolo"
       \/ mode = "allowlist" /\ req[c].key \in allowlist
       \/ mode = "ask" /\ Pair(c) \in userApproved
  /\ req[c].key \notin BadKeys

(***************************************************************************)
(* How far a call has come and what it has decided so far.                 *)
(***************************************************************************)
ProgressInv(c) ==
  /\ st[c] \in {"idle", "granting", "asking"} => decision[c] = Undecided
  /\ st[c] = "guards" => decision[c].kind = "approve"
  /\ st[c] \in {"audit", "returned"} => decision[c].kind # "none"
  /\ st[c] \notin {"idle", "threw"} => req[c].key \notin BadKeys
  /\ st[c] = "granting" => sm # Nothing
  /\ st[c] = "asking" => sm = Nothing /\ mode = "ask"

DecisionInv(c) ==
  /\ decision[c].kind = "approve" => Authority(c)
  /\ decision[c] = Decide("approve", "sm-grant-token") => granted[c]
  /\ (decision[c].kind = "approve" /\ st[c] \in {"audit", "returned"})
       => guardAt[c] = GuardHooks + 1

AuditInv(c) ==
  /\ st[c] = "returned" => audit[c] = <<decision[c].kind>>
  /\ Len(audit[c]) <= 1
  /\ st[c] \notin {"returned", "threw"} => audit[c] = <<>>

CallInv(c) == ProgressInv(c) /\ DecisionInv(c) /\ AuditInv(c)

(***************************************************************************)
(* The cache holds only what users approved, and calls that were granted a *)
(* tuple have different ones, all of them consumed.                        *)
(***************************************************************************)
GrantInv ==
  /\ cache \subseteq userApproved
  /\ \A c \in Calls : granted[c] => Tuple(c) \in consumed
  /\ \A c, d \in Calls : c # d /\ granted[c] /\ granted[d] => Tuple(c) # Tuple(d)

IInv == TypeOK /\ GrantInv /\ \A c \in Calls : CallInv(c)

(***************************************************************************)
(* The initial state satisfies the inductive invariant.                    *)
(***************************************************************************)
LEMMA InitInv == Init => IInv
<1> SUFFICES ASSUME Init PROVE IInv
  OBVIOUS
<1>1. TypeOK
  BY StackAssumption DEF Init, TypeOK, StackDecision, Undecided, States
<1>2. GrantInv
  BY DEF Init, GrantInv
<1>3. \A c \in Calls : CallInv(c)
  BY DEF Init, CallInv, ProgressInv, DecisionInv, AuditInv, Undecided, Decide
<1> QED
  BY <1>1, <1>2, <1>3 DEF IInv

(***************************************************************************)
(* A step of one call leaves the session's settings, every input and the   *)
(* state of the other calls alone, and users' approvals only grow.         *)
(***************************************************************************)
Frame(c) ==
  /\ UNCHANGED <<sessionVars, req>>
  /\ userApproved \subseteq userApproved'
  /\ \A d \in Calls \ {c} :
       /\ st'[d] = st[d] /\ decision'[d] = decision[d] /\ guardAt'[d] = guardAt[d]
       /\ audit'[d] = audit[d] /\ granted'[d] = granted[d]

LEMMA StepFrame == ASSUME TypeOK, NEW c \in Calls, Step(c) PROVE Frame(c)
<1> USE DEF Frame, TypeOK, Resolve, Await
<1>1. CASE runApprovalStack(c)
  BY <1>1 DEF runApprovalStack
<1>2. ASSUME NEW v \in {"deny", "defer"}, grantRefused(c, v) PROVE Frame(c)
  BY <1>2 DEF grantRefused
<1>3. CASE grantApproved(c)
  BY <1>3 DEF grantApproved
<1>4. ASSUME NEW v \in {"approve", "deny", "halt"}, askAnswered(c, v) PROVE Frame(c)
  BY <1>4 DEF askAnswered
<1>5. ASSUME NEW ok \in BOOLEAN, guardAnswered(c, ok) PROVE Frame(c)
  BY <1>5 DEF guardAnswered
<1>6. CASE guardsPassed(c)
  BY <1>6 DEF guardsPassed
<1>7. ASSUME NEW b \in BOOLEAN, rejects(c, b) PROVE Frame(c)
  BY <1>7 DEF rejects
<1>8. CASE writeAudit(c) \/ auditFails(c)
  BY <1>8 DEF writeAudit, auditFails
<1> QED
  BY <1>1, <1>2, <1>3, <1>4, <1>5, <1>6, <1>7, <1>8 DEF Step

(***************************************************************************)
(* What the stack does up to its first await: it throws on a bad key, or   *)
(* asks the authority precedence names, or decides at once by one that may *)
(* approve the call.                                                       *)
(***************************************************************************)
Allowed(c) ==
  /\ sm # Nothing => req[c].tool \in sm.allowedTools
  /\ sm = Nothing =>
       \/ req[c].tool \in envelope
       \/ mode = "yolo"
       \/ mode = "allowlist" /\ req[c].key \in allowlist
       \/ mode = "ask" /\ Pair(c) \in cache

Immediate(c, d) ==
  /\ d \in StackDecision /\ d.kind # "none" /\ d # Decide("approve", "sm-grant-token")
  /\ d.kind = "approve" => Allowed(c)

LEMMA FirstSegment ==
  ASSUME TypeOK, NEW c \in Calls, runApprovalStack(c)
  PROVE  \/ Await(c, "threw")
         \/ /\ req[c].key \notin BadKeys
            /\ \/ Await(c, "granting") /\ sm # Nothing
               \/ Await(c, "asking") /\ sm = Nothing /\ mode = "ask"
               \/ \E d : Immediate(c, d) /\ Resolve(c, d)
<1> SUFFICES ASSUME ~Await(c, "threw")
             PROVE  /\ req[c].key \notin BadKeys
                    /\ \/ Await(c, "granting") /\ sm # Nothing
                       \/ Await(c, "asking") /\ sm = Nothing /\ mode = "ask"
                       \/ \E d : Immediate(c, d) /\ Resolve(c, d)
  OBVIOUS
<1> HIDE DEF Await, Resolve
<1>1. req[c].key \notin BadKeys
  BY DEF runApprovalStack, validateDerivedKey
<1>2. CASE sm # Nothing /\ req[c].tool \in sm.allowedTools
  <2>1. Resolve(c, Decide("approve", "sm-envelope"))
    BY <1>2 DEF runApprovalStack, resolvePrecedenceStep
  <2>2. Immediate(c, Decide("approve", "sm-envelope"))
    BY <1>2 DEF Immediate, Allowed, Decide, StackDecision
  <2> QED
    BY <1>1, <2>1, <2>2
<1>3. CASE sm # Nothing /\ req[c].tool \notin sm.allowedTools
  <2>1. Await(c, "granting") \/ Resolve(c, Decide("deny", "sm-grant-token"))
    BY <1>3 DEF runApprovalStack, resolvePrecedenceStep
  <2>2. Immediate(c, Decide("deny", "sm-grant-token"))
    BY DEF Immediate, Decide, StackDecision
  <2> QED
    BY <1>1, <1>3, <2>1, <2>2
<1>4. CASE sm = Nothing /\ req[c].tool \in envelope
  <2>1. Resolve(c, Decide("approve", "subagent-envelope"))
    BY <1>4 DEF runApprovalStack, resolvePrecedenceStep
  <2>2. Immediate(c, Decide("approve", "subagent-envelope"))
    BY <1>4 DEF Immediate, Allowed, Decide, StackDecision
  <2> QED
    BY <1>1, <2>1, <2>2
<1>5. CASE sm = Nothing /\ req[c].tool \notin envelope
  <2>1. IF evaluateModeGate(c) = Undecided
        THEN Await(c, "asking") ELSE Resolve(c, evaluateModeGate(c))
    BY <1>5 DEF runApprovalStack, resolvePrecedenceStep
  <2>2. evaluateModeGate(c) = Undecided => mode = "ask"
    BY DEF evaluateModeGate, Undecided, Decide, TypeOK
  <2>3. evaluateModeGate(c) # Undecided => Immediate(c, evaluateModeGate(c))
    BY <1>5 DEF evaluateModeGate, Undecided, Decide, TypeOK, Immediate, Allowed, StackDecision,
                matchesAllowlist
  <2> QED
    BY <1>1, <1>5, <2>1, <2>2, <2>3
<1> QED
  BY <1>1, <1>2, <1>3, <1>4, <1>5

(***************************************************************************)
(* A decision or an await keeps the types of the decision and the place.   *)
(***************************************************************************)
PlaceOK == st \in [Calls -> States] /\ decision \in [Calls -> StackDecision]

LEMMA ResolveType ==
  ASSUME TypeOK, NEW c \in Calls, NEW d \in StackDecision, Resolve(c, d)
  PROVE  PlaceOK'
  BY DEF TypeOK, Resolve, PlaceOK, States

LEMMA AwaitType ==
  ASSUME TypeOK, NEW c \in Calls, NEW where \in States, Await(c, where)
  PROVE  PlaceOK'
  BY DEF TypeOK, Await, PlaceOK

SetsOK ==
  /\ cache \subseteq Tools \X Keys
  /\ userApproved \subseteq Tools \X Keys
  /\ consumed \subseteq Proposals \X Tools
  /\ granted \in [Calls -> BOOLEAN]

(***************************************************************************)
(* Every step keeps the types.                                             *)
(***************************************************************************)
LEMMA StepType == ASSUME IInv, NEW c \in Calls, Step(c) PROVE TypeOK'
<1>1. TypeOK
  BY DEF IInv
<1>2. PlaceOK'
  <2>1. CASE runApprovalStack(c)
    BY <1>1, <2>1, FirstSegment, ResolveType, AwaitType DEF Immediate, States
  <2>2. ASSUME NEW v \in {"deny", "defer"}, grantRefused(c, v) PROVE PlaceOK'
    BY <1>1, <2>2, ResolveType DEF grantRefused, Decide, StackDecision
  <2>3. CASE grantApproved(c)
    BY <1>1, <2>3, ResolveType DEF grantApproved, Decide, StackDecision
  <2>4. ASSUME NEW v \in {"approve", "deny", "halt"}, askAnswered(c, v) PROVE PlaceOK'
    BY <1>1, <2>4, ResolveType DEF askAnswered, Decide, StackDecision
  <2>5. ASSUME NEW ok \in BOOLEAN, guardAnswered(c, ok) PROVE PlaceOK'
    <3>1. CASE UNCHANGED <<st, decision>>
      BY <1>1, <3>1 DEF TypeOK, PlaceOK
    <3>2. CASE Resolve(c, Decide("deny", "guard"))
      BY <1>1, <3>2, ResolveType DEF Decide, StackDecision
    <3> QED
      BY <2>5, <3>1, <3>2 DEF guardAnswered
  <2>6. CASE guardsPassed(c)
    BY <1>1, <2>6, AwaitType DEF guardsPassed, States
  <2>7. ASSUME NEW b \in BOOLEAN, rejects(c, b) PROVE PlaceOK'
    BY <1>1, <2>7, AwaitType DEF rejects, States
  <2>8. CASE writeAudit(c) \/ auditFails(c)
    BY <1>1, <2>8, AwaitType DEF writeAudit, auditFails, States
  <2> QED
    BY <2>1, <2>2, <2>3, <2>4, <2>5, <2>6, <2>7, <2>8 DEF Step
<1>3. SetsOK'
  <2>1. Pair(c) \in Tools \X Keys /\ Tuple(c) \in Proposals \X Tools
    BY <1>1 DEF TypeOK, Inputs, Pair, Tuple
  <2>2. ASSUME NEW v \in {"approve", "deny", "halt"}, askAnswered(c, v) PROVE SetsOK'
    BY <1>1, <2>1, <2>2 DEF askAnswered, TypeOK, SetsOK
  <2>3. CASE grantApproved(c)
    BY <1>1, <2>1, <2>3 DEF grantApproved, consumeGrantToken, TypeOK, SetsOK
  <2>4. CASE UNCHANGED <<cache, userApproved, consumed, granted>>
    BY <1>1, <2>4 DEF TypeOK, SetsOK
  <2>5. \/ \E v \in {"approve", "deny", "halt"} : askAnswered(c, v)
        \/ grantApproved(c)
        \/ UNCHANGED <<cache, userApproved, consumed, granted>>
    BY DEF Step, runApprovalStack, grantRefused, guardAnswered, guardsPassed, rejects, writeAudit,
           auditFails
  <2> QED
    BY <2>2, <2>3, <2>4, <2>5
<1>4. guardAt' \in [Calls -> 1..(GuardHooks + 1)]
  <2>1. ASSUME NEW ok \in BOOLEAN, guardAnswered(c, ok)
        PROVE  guardAt' \in [Calls -> 1..(GuardHooks + 1)]
    <3>1. guardAt[c] \in 1..(GuardHooks + 1) /\ guardAt[c] <= GuardHooks
      BY <1>1, <2>1 DEF guardAnswered, TypeOK
    <3>2. guardAt[c] + 1 \in 1..(GuardHooks + 1)
      BY <3>1, StackAssumption
    <3>3. guardAt' = guardAt \/ guardAt' = [guardAt EXCEPT ![c] = guardAt[c] + 1]
      BY <1>1, <2>1 DEF guardAnswered, TypeOK
    <3> QED
      BY <1>1, <3>2, <3>3 DEF TypeOK
  <2> QED
    BY <1>1, <2>1
       DEF Step, runApprovalStack, grantRefused, grantApproved, askAnswered, guardsPassed, rejects,
           writeAudit, auditFails, TypeOK
<1>5. audit' \in [Calls -> Seq({"approve", "deny", "halt", "cancelled"})]
  <2>1. st[c] = "audit" => decision[c].kind \in {"approve", "deny", "halt"}
    BY DEF IInv, CallInv, ProgressInv, TypeOK, StackDecision
  <2>2. writeAudit(c) => audit' \in [Calls -> Seq({"approve", "deny", "halt", "cancelled"})]
    BY <1>1, <2>1 DEF writeAudit, TypeOK
  <2> QED
    BY <1>1, <2>2
       DEF Step, runApprovalStack, grantRefused, grantApproved, askAnswered, guardAnswered,
           guardsPassed, rejects, auditFails, TypeOK
<1> QED
  BY <1>1, <1>2, <1>3, <1>4, <1>5, StepFrame DEF Frame, TypeOK, PlaceOK, SetsOK, sessionVars

(***************************************************************************)
(* Every step keeps the cache within the users' approvals and the granted  *)
(* tuples apart: a tuple is tested and consumed in one step.               *)
(***************************************************************************)
LEMMA StepGrants == ASSUME IInv, NEW c \in Calls, Step(c) PROVE GrantInv'
<1> USE DEF IInv, GrantInv, Tuple
<1>1. Frame(c)
  BY StepFrame
<1>2. CASE grantApproved(c)
  <2>1. CASE granted' = granted /\ consumed' = consumed
    BY <1>1, <1>2, <2>1 DEF grantApproved, Frame
  <2>2. CASE consumeGrantToken(c) /\ granted' = [granted EXCEPT ![c] = TRUE]
    <3>1. \A d \in Calls \ {c} : granted[d] => Tuple(d) # Tuple(c)
      BY <2>2 DEF consumeGrantToken
    <3> QED
      BY <1>1, <1>2, <2>2, <3>1 DEF grantApproved, consumeGrantToken, Frame, TypeOK
  <2> QED
    BY <1>2, <2>1, <2>2 DEF grantApproved
<1>3. ASSUME NEW v \in {"approve", "deny", "halt"}, askAnswered(c, v) PROVE GrantInv'
  BY <1>3 DEF askAnswered
<1>4. CASE granted' = granted /\ consumed' = consumed /\ cache' = cache
  BY <1>1, <1>4 DEF Frame
<1> QED
  BY <1>2, <1>3, <1>4
     DEF Step, runApprovalStack, grantRefused, guardAnswered, guardsPassed, rejects, writeAudit,
         auditFails

(***************************************************************************)
(* A step of another call does not disturb what holds of a call.           *)
(***************************************************************************)
LEMMA OthersUndisturbed ==
  ASSUME IInv, NEW c \in Calls, Step(c), NEW d \in Calls, d # c
  PROVE  CallInv(d)'
<1>1. Frame(c)
  BY StepFrame DEF IInv
<1>2. ProgressInv(d)'
  BY <1>1 DEF IInv, CallInv, ProgressInv, Frame, sessionVars
<1>3. AuditInv(d)'
  BY <1>1 DEF IInv, CallInv, AuditInv, Frame
<1>4. Authority(d) => Authority(d)'
  BY <1>1 DEF Authority, Frame, sessionVars, Pair
<1>5. DecisionInv(d)'
  BY <1>1, <1>4 DEF IInv, CallInv, DecisionInv, Frame
<1> QED
  BY <1>2, <1>3, <1>5 DEF CallInv

(***************************************************************************)
(* A step of a call keeps what holds of the call itself.                   *)
(***************************************************************************)
LEMMA OwnStep == ASSUME IInv, NEW c \in Calls, Step(c) PROVE CallInv(c)'
<1> USE DEF IInv, CallInv
<1>0. TypeOK /\ TypeOK' /\ Frame(c) /\ GrantInv
  BY StepType, StepFrame
<1>1. Allowed(c) /\ req[c].key \notin BadKeys => Authority(c)
  BY DEF Allowed, Authority, GrantInv
<1>2. Authority(c) => Authority(c)'
  <2>1. granted[c] => granted'[c]
    BY <1>0 DEF Step, runApprovalStack, grantRefused, grantApproved, askAnswered, guardAnswered,
                guardsPassed, rejects, writeAudit, auditFails, TypeOK
  <2> QED
    BY <1>0, <2>1 DEF Authority, Frame, sessionVars, Pair
<1>3. CASE runApprovalStack(c)
  <2>1. audit' = audit /\ granted' = granted /\ guardAt' = guardAt /\ st[c] = "idle"
    BY <1>3 DEF runApprovalStack
  <2>2. CASE \E where \in {"threw", "granting", "asking"} :
               /\ Await(c, where)
               /\ where # "threw" => req[c].key \notin BadKeys
               /\ where = "granting" => sm # Nothing
               /\ where = "asking" => sm = Nothing /\ mode = "ask"
    BY <1>0, <2>1, <2>2
       DEF Await, TypeOK, Frame, sessionVars, ProgressInv, DecisionInv, AuditInv, Undecided, Decide
  <2>3. ASSUME NEW d, Immediate(c, d), Resolve(c, d), req[c].key \notin BadKeys
        PROVE  CallInv(c)'
    <3>1. decision'[c] = d /\ st'[c] = IF d.kind = "approve" THEN "guards" ELSE "audit"
      BY <1>0, <2>3 DEF Resolve, TypeOK
    <3>2. ProgressInv(c)'
      BY <1>0, <2>3, <3>1 DEF ProgressInv, Immediate, Frame
    <3>3. d.kind = "approve" => Authority(c)'
      BY <1>1, <1>2, <2>3 DEF Immediate
    <3>4. DecisionInv(c)'
      BY <2>3, <3>1, <3>3 DEF DecisionInv, Immediate, Decide
    <3>5. AuditInv(c)'
      BY <2>1, <3>1 DEF AuditInv
    <3> QED
      BY <3>2, <3>4, <3>5
  <2> QED
    BY <1>0, <1>3, <2>2, <2>3, FirstSegment
<1>4. ASSUME NEW v \in {"deny", "defer"}, grantRefused(c, v) PROVE CallInv(c)'
  BY <1>0, <1>4
     DEF grantRefused, Resolve, Decide, TypeOK, Frame, ProgressInv, DecisionInv, AuditInv
<1>5. CASE grantApproved(c)
  <2>1. req[c].key \notin BadKeys /\ sm # Nothing /\ audit'[c] = <<>>
    BY <1>5 DEF grantApproved, ProgressInv, AuditInv
  <2>2. CASE granted'[c] /\ Resolve(c, Decide("approve", "sm-grant-token"))
    BY <1>0, <2>1, <2>2
       DEF Resolve, Decide, TypeOK, Frame, sessionVars, ProgressInv, DecisionInv, AuditInv, Authority
  <2>3. CASE Resolve(c, Decide("deny", "sm-grant-token"))
    BY <1>0, <2>1, <2>3 DEF Resolve, Decide, TypeOK, Frame, ProgressInv, DecisionInv, AuditInv
  <2> QED
    BY <1>0, <1>5, <2>2, <2>3 DEF grantApproved, TypeOK
<1>6. ASSUME NEW v \in {"approve", "deny", "halt"}, askAnswered(c, v) PROVE CallInv(c)'
  <2>1. req[c].key \notin BadKeys /\ sm = Nothing /\ mode = "ask" /\ audit'[c] = <<>>
    BY <1>6 DEF askAnswered, ProgressInv, AuditInv
  <2>2. v = "approve" => Pair(c) \in userApproved'
    BY <1>6 DEF askAnswered
  <2> QED
    BY <1>0, <1>6, <2>1, <2>2
       DEF askAnswered, Resolve, Decide, TypeOK, Frame, sessionVars, ProgressInv, DecisionInv,
           AuditInv, Authority, Pair
<1>7. ASSUME NEW ok \in BOOLEAN, guardAnswered(c, ok) PROVE CallInv(c)'
  <2>1. audit'[c] = <<>> /\ req[c].key \notin BadKeys /\ st[c] = "guards" /\ granted' = granted
    BY <1>7 DEF guardAnswered, ProgressInv, AuditInv
  <2>2. CASE UNCHANGED <<st, decision>>
    BY <1>0, <1>2, <2>1, <2>2 DEF Frame, ProgressInv, DecisionInv, AuditInv
  <2>3. CASE Resolve(c, Decide("deny", "guard"))
    BY <1>0, <2>1, <2>3
       DEF Resolve, Decide, TypeOK, Frame, ProgressInv, DecisionInv, AuditInv
  <2> QED
    BY <1>7, <2>2, <2>3 DEF guardAnswered
<1>8. CASE guardsPassed(c)
  <2>1. guardAt'[c] = GuardHooks + 1
    BY <1>0, <1>8, StackAssumption DEF guardsPassed, TypeOK
  <2> QED
    BY <1>0, <1>2, <1>8, <2>1
       DEF guardsPassed, Await, TypeOK, Frame, ProgressInv, DecisionInv, AuditInv
<1>9. ASSUME NEW b \in BOOLEAN, rejects(c, b) PROVE CallInv(c)'
  BY <1>0, <1>2, <1>9
     DEF rejects, Await, TypeOK, Frame, ProgressInv, DecisionInv, AuditInv, Undecided, Decide
<1>10. CASE writeAudit(c)
  <2>1. audit[c] = <<>>
    BY <1>10 DEF writeAudit, AuditInv
  <2>2. audit'[c] = <<IF st[c] = "audit" THEN decision[c].kind ELSE "cancelled">>
    <3> DEFINE k == IF st[c] = "audit" THEN decision[c].kind ELSE "cancelled"
    <3>1. audit'[c] = Append(audit[c], k)
      BY <1>0, <1>10 DEF writeAudit, TypeOK
    <3> QED
      BY <2>1, <3>1
  <2>3. Len(audit'[c]) = 1 /\ (st[c] = "audit" => audit'[c] = <<decision[c].kind>>)
    BY <2>2
  <2>4. decision' = decision /\ st'[c] = IF st[c] = "audit" THEN "returned" ELSE "threw"
    BY <1>0, <1>10 DEF writeAudit, Await, TypeOK
  <2>5. AuditInv(c)'
    BY <2>3, <2>4 DEF AuditInv
  <2> QED
    BY <1>0, <1>2, <1>10, <2>5
       DEF writeAudit, Await, TypeOK, Frame, ProgressInv, DecisionInv
<1>11. CASE auditFails(c)
  BY <1>0, <1>2, <1>11
     DEF auditFails, Await, TypeOK, Frame, ProgressInv, DecisionInv, AuditInv
<1> QED
  BY <1>3, <1>4, <1>5, <1>6, <1>7, <1>8, <1>9, <1>10, <1>11 DEF Step

(***************************************************************************)
(* Every step preserves the inductive invariant.                           *)
(***************************************************************************)
LEMMA NextInv == IInv /\ [Next]_vars => IInv'
<1> SUFFICES ASSUME IInv, [Next]_vars PROVE IInv'
  OBVIOUS
<1>1. ASSUME NEW c \in Calls, Step(c) PROVE IInv'
  <2>1. \A d \in Calls : CallInv(d)'
    BY <1>1, OwnStep, OthersUndisturbed
  <2> QED
    BY <1>1, <2>1, StepType, StepGrants DEF IInv
<1>2. CASE UNCHANGED vars
  <2>1. TypeOK'
    BY <1>2 DEF vars, sessionVars, IInv, TypeOK
  <2>2. GrantInv'
    BY <1>2 DEF vars, sessionVars, IInv, GrantInv, Tuple
  <2>3. \A c \in Calls : CallInv(c)'
    BY <1>2 DEF vars, sessionVars, IInv, CallInv, ProgressInv, DecisionInv, AuditInv, Authority, Pair
  <2> QED
    BY <2>1, <2>2, <2>3 DEF IInv
<1> QED
  BY <1>1, <1>2 DEF Next

(***************************************************************************)
(* The inductive invariant holds in every reachable state.                 *)
(***************************************************************************)
THEOREM Invariance == Spec => []IInv
  BY InitInv, NextInv, PTL DEF Spec

(***************************************************************************)
(* Every approval had an authority that could give it, with the state      *)
(* machine above the mode, for any settings and any number of calls.       *)
(***************************************************************************)
THEOREM Authorised == Spec => []ApprovalIsAuthorised
<1>1. IInv => ApprovalIsAuthorised
  BY DEF IInv, CallInv, DecisionInv, Authority, ApprovalIsAuthorised, Approved
<1> QED
  BY <1>1, Invariance, PTL

(***************************************************************************)
(* No two calls are approved on one grant tuple, however many wait for the *)
(* state machine at once.                                                  *)
(***************************************************************************)
THEOREM SingleUse == Spec => []GrantIsSingleUse
<1>1. IInv => GrantIsSingleUse
  BY DEF IInv, CallInv, DecisionInv, GrantInv, GrantIsSingleUse
<1> QED
  BY <1>1, Invariance, PTL

(***************************************************************************)
(* Every approval has passed every guard hook, however many are attached.  *)
(***************************************************************************)
THEOREM PassedGuards == Spec => []ApprovalPassedGuards
<1>1. IInv => ApprovalPassedGuards
  BY DEF IInv, CallInv, DecisionInv, ApprovalPassedGuards, Approved
<1> QED
  BY <1>1, Invariance, PTL

(***************************************************************************)
(* Every returned decision has exactly one audit record, of that decision. *)
(***************************************************************************)
THEOREM Audited == Spec => []ReturnedIsAudited
<1>1. IInv => ReturnedIsAudited
  BY DEF IInv, CallInv, AuditInv, ReturnedIsAudited
<1> QED
  BY <1>1, Invariance, PTL

-----------------------------------------------------------------------------
(***************************************************************************)
(* 2. A tool call on its way through the shell.  Every remembered key is a *)
(* directory that was approved; the audit trail and the events of a call   *)
(* depend only on where it stands.                                         *)
(***************************************************************************)
RTPlaces == {"idle", "lookup", "normalize", "preflight", "approve", "run", "done", "threw"}
RTWords == {"ToolCallStarted", "ToolCallFailed", "ToolCallSucceeded", "ToolInvocationStarted",
            "ToolInvocationFailed", "ToolInvocationCancelled", "ToolInvocationSucceeded"}
RTCall == [pc : RTPlaces, arg : RoutedArgs \cup {"none"}, audit : Seq(RTWords), events : Seq(RTWords),
           asked : BOOLEAN]

RTTrail(r) ==
  /\ r.pc \in {"lookup", "normalize", "preflight", "approve", "run"} =>
       r.arg \in RoutedArgs /\ Len(r.audit) = 1 /\ r.audit[1] = "ToolCallStarted"
  /\ r.pc \in {"lookup", "normalize", "preflight", "approve"} => r.events = <<>>
  /\ r.pc \in {"normalize", "preflight", "approve", "run"} => r.arg.tool # "unknown"
  /\ r.pc = "run" => Len(r.events) = 1 /\ r.events[1] = "ToolInvocationStarted"
  /\ r.pc = "done" =>
       /\ Len(r.audit) = 2 /\ r.audit[1] = "ToolCallStarted" /\ Len(r.events) \in {1, 2}
       /\ r.audit[2] = "ToolCallSucceeded" <=> r.events[Len(r.events)] = "ToolInvocationSucceeded"
       /\ r.events[Len(r.events)] # "ToolInvocationStarted"
       /\ Len(r.events) = 2 => r.events[1] = "ToolInvocationStarted"

RTInv ==
  /\ routed \in RTCall /\ RTTrail(routed)
  /\ RT!TRTypeOK
  /\ approvedKeys \subseteq approvedPaths
  /\ RT!GrantsCoverCalls

(***************************************************************************)
(* What a call names, by the scope of its tool.                            *)
(***************************************************************************)
LEMMA RTArgs ==
  ASSUME NEW a \in RoutedArgs, a.tool # "unknown"
  PROVE  /\ a.tool \in {"read", "edit", "glob", "diff", "bash", "web-fetch", "delegate"}
         /\ a.tool \in {"read", "edit", "glob", "diff"} => a.paths \in Seq(Seq(STRING))
         /\ a.tool \in {"read", "edit", "glob"} => Len(a.paths) <= 1
  BY PartsAssumption

LEMMA RTPrefixSelf ==
  ASSUME NEW d \in Seq(STRING) PROVE RT!IsPrefix(d, d)
  BY DEF RT!IsPrefix

LEMMA RTPrefixOne ==
  ASSUME NEW x PROVE RT!IsPrefix(<<x>>, <<x>>)
  BY DEF RT!IsPrefix

LEMMA RTOwnKeys ==
  ASSUME NEW a \in RoutedArgs, a.tool # "unknown"
  PROVE  /\ RT!deriveApprovalKey(a) \subseteq RT!Touched(a)
         /\ \A d \in RT!Touched(a) : RT!IsPrefix(d, d)
<1>1. CASE a.tool \in {"read", "edit", "glob"}
  <2>1. CASE a.paths = <<>>
    <3>1. RT!deriveApprovalKey(a) = {<<>>} /\ RT!Touched(a) = RT!deriveApprovalKey(a)
      BY <1>1, <2>1 DEF RT!deriveApprovalKey, RT!Touched, RT!PathScoped
    <3>2. RT!IsPrefix(<<>>, <<>>)
      BY DEF RT!IsPrefix
    <3> QED
      BY <3>1, <3>2
  <2>2. CASE a.paths # <<>>
    <3>1. /\ RT!deriveApprovalKey(a) = {a.paths[1]} /\ RT!Touched(a) = RT!Range(a.paths)
      BY <1>1, <2>2 DEF RT!deriveApprovalKey, RT!Touched, RT!PathScoped
    <3>2. a.paths \in Seq(Seq(STRING)) /\ 1 \in DOMAIN a.paths
      BY <1>1, <2>2, RTArgs
    <3>3. a.paths[1] \in RT!Range(a.paths) /\ RT!Range(a.paths) \subseteq Seq(STRING)
      BY <3>2 DEF RT!Range
    <3> QED
      BY <3>1, <3>3, RTPrefixSelf
  <2> QED
    BY <2>1, <2>2
<1>2. CASE a.tool = "diff"
  <2>1. a.paths \in Seq(Seq(STRING))
    BY <1>2, RTArgs
  <2>2. CASE a.paths = <<>>
    <3>1. RT!deriveApprovalKey(a) = {<<"content">>} /\ RT!Touched(a) = RT!deriveApprovalKey(a)
      BY <1>2, <2>2 DEF RT!deriveApprovalKey, RT!diffKeys, RT!Touched, RT!PathScoped
    <3> QED
      BY <3>1, RTPrefixOne
  <2>3. CASE a.paths # <<>>
    <3>1. /\ RT!deriveApprovalKey(a) = RT!splitPathApprovalKey(RT!Range(a.paths))
          /\ RT!Touched(a) = RT!Range(a.paths)
      BY <1>2, <2>3 DEF RT!deriveApprovalKey, RT!diffKeys, RT!Touched, RT!PathScoped
    <3>2. a.paths[1] \in RT!Range(a.paths) /\ RT!Range(a.paths) \subseteq Seq(STRING)
      BY <2>1, <2>3 DEF RT!Range
    <3> QED
      BY <3>1, <3>2, RTPrefixSelf DEF RT!splitPathApprovalKey
  <2> QED
    BY <2>2, <2>3
<1>3. CASE a.tool \in {"bash", "web-fetch", "delegate"}
  <2>1. RT!deriveApprovalKey(a) = {<<a.key>>} /\ RT!Touched(a) = RT!deriveApprovalKey(a)
    BY <1>3 DEF RT!deriveApprovalKey, RT!Touched, RT!PathScoped
  <2> QED
    BY <2>1, RTPrefixOne
<1> QED
  BY <1>1, <1>2, <1>3, RTArgs

(***************************************************************************)
(* The remembered keys cover a call's own keys only where approved         *)
(* directories cover what it touches.                                      *)
(***************************************************************************)
LEMMA RTCovers ==
  ASSUME NEW a \in RoutedArgs, a.tool # "unknown", RT!isToolApproved(a),
         approvedKeys \subseteq approvedPaths, RT!TRTypeOK
  PROVE  \A d \in RT!Touched(a) : RT!Granted(a.tool, d) \/ (d = <<>> /\ RT!MixesRoot(a))
<1>1. ASSUME NEW k \in RT!deriveApprovalKey(a)
      PROVE  \E g \in approvedPaths : g[1] = a.tool /\ RT!IsPrefix(g[2], k)
  <2>1. RT!IsPrefix(k, k)
    BY <1>1, RTOwnKeys
  <2>2. CASE RT!ScopeOf(a.tool) = "exact"
    <3>1. <<a.tool, k>> \in approvedPaths
      BY <1>1, <2>2 DEF RT!isToolApproved
    <3>2. <<a.tool, k>>[1] = a.tool /\ RT!IsPrefix(<<a.tool, k>>[2], k)
      BY <2>1
    <3> QED
      BY <3>1, <3>2
  <2>3. CASE RT!ScopeOf(a.tool) # "exact"
    BY <1>1, <2>3 DEF RT!isToolApproved, RT!pathApprovalCovers
  <2> QED
    BY <2>2, <2>3
<1>2. ASSUME NEW d \in RT!Touched(a), ~(d = <<>> /\ RT!MixesRoot(a))
      PROVE  d \in RT!deriveApprovalKey(a)
  <2>1. CASE a.tool \in {"read", "edit", "glob"} /\ a.paths # <<>>
    <3>1. a.paths \in Seq(Seq(STRING)) /\ DOMAIN a.paths = {1}
      BY <2>1, RTArgs
    <3> QED
      BY <1>2, <2>1, <3>1 DEF RT!Touched, RT!deriveApprovalKey, RT!PathScoped, RT!Range
  <2>2. CASE a.tool = "diff" /\ a.paths # <<>>
    <3>1. /\ RT!deriveApprovalKey(a) = RT!splitPathApprovalKey(RT!Range(a.paths))
          /\ RT!Touched(a) = RT!Range(a.paths)
      BY <2>2 DEF RT!deriveApprovalKey, RT!diffKeys, RT!PathScoped, RT!Touched
    <3>2. RT!Range(a.paths) = {<<>>} \/ d # <<>>
      BY <1>2, <2>2, <3>1 DEF RT!MixesRoot
    <3> QED
      BY <1>2, <3>1, <3>2 DEF RT!splitPathApprovalKey
  <2>3. CASE a.tool \notin {"read", "edit", "glob", "diff"} \/ a.paths = <<>>
    BY <1>2, <2>3 DEF RT!Touched, RT!PathScoped
  <2> QED
    BY <2>1, <2>2, <2>3
<1> QED
  BY <1>1, <1>2 DEF RT!Granted

LEMMA RTInitInv == RT!TRInit => RTInv
<1> SUFFICES ASSUME RT!TRInit PROVE RTInv
  OBVIOUS
<1>1. RT!Idle \in RTCall /\ RT!Idle.pc = "idle"
  BY DEF RT!Idle, RTCall, RTPlaces
<1>2. routed \in RTCall /\ routed.pc = "idle"
  BY <1>1 DEF RT!TRInit
<1> QED
  BY <1>2 DEF RT!TRInit, RTInv, RTTrail, RT!TRTypeOK, RT!GrantsCoverCalls, RT!Granted

(***************************************************************************)
(* A step that remembers nothing and does not run the call.                *)
(***************************************************************************)
LEMMA RTKeeps ==
  ASSUME RTInv, NEW r \in RTCall, routed' = r, RTTrail(r), r.pc # "run",
         UNCHANGED <<approvedKeys, approvedPaths, parentDepth>>
  PROVE  RTInv'
  BY DEF RTInv, RT!TRTypeOK, RT!GrantsCoverCalls, RTCall, RTPlaces, RTTrail

LEMMA RTAppend ==
  ASSUME NEW S, NEW s \in Seq(S), NEW x \in S
  PROVE  /\ Append(s, x) \in Seq(S) /\ Len(Append(s, x)) = Len(s) + 1
         /\ Append(s, x)[Len(s) + 1] = x
         /\ \A i \in 1..Len(s) : Append(s, x)[i] = s[i]
  OBVIOUS

LEMMA RTAppendTwo ==
  ASSUME NEW S, NEW s \in Seq(S), NEW x \in S
  PROVE  Len(s) = 1 => /\ Append(s, x) \in Seq(S) /\ Len(Append(s, x)) = 2
                       /\ Append(s, x)[1] = s[1] /\ Append(s, x)[2] = x
<1> DEFINE z == Append(s, x)
<1>1. /\ z \in Seq(S) /\ Len(z) = Len(s) + 1 /\ z[Len(s) + 1] = x
      /\ \A i \in 1..Len(s) : z[i] = s[i]
  BY RTAppend
<1> HIDE DEF z
<1>2. Len(s) = 1 => 1 \in 1..Len(s) /\ Len(s) + 1 = 2
  OBVIOUS
<1>3. Len(s) = 1 => z \in Seq(S) /\ Len(z) = 2 /\ z[1] = s[1] /\ z[2] = x
  BY <1>1, <1>2
<1> QED
  BY <1>3 DEF z

(***************************************************************************)
(* A call moves on before it runs.                                         *)
(***************************************************************************)
LEMMA RTSteps ==
  ASSUME RTInv, NEW p \in {"normalize", "preflight", "approve", "threw"},
         routed.pc \in {"lookup", "normalize", "preflight", "approve"}, routed.arg.tool # "unknown",
         RT!Step(p), UNCHANGED <<approvedKeys, approvedPaths, parentDepth>>
  PROVE  RTInv'
<1> DEFINE r == [routed EXCEPT !.pc = p]
<1>1. r \in RTCall /\ r.pc = p /\ r.arg = routed.arg /\ r.audit = routed.audit /\ r.events = routed.events
  BY DEF RTInv, RTCall, RTPlaces
<1>2. routed' = r
  BY DEF RT!Step
<1> HIDE DEF r
<1>3. RTTrail(r)
  BY <1>1 DEF RTInv, RTTrail
<1> QED
  BY <1>1, <1>2, <1>3, RTKeeps

(***************************************************************************)
(* A call ends, before it ran or after.                                    *)
(***************************************************************************)
RTOutcome(e, u) ==
  /\ u = "ToolCallSucceeded" <=> e = "ToolInvocationSucceeded"
  /\ e # "ToolInvocationStarted"

LEMMA RTEndsWith ==
  ASSUME RTInv, routed.pc \in {"lookup", "normalize", "preflight", "approve", "run"},
         UNCHANGED <<approvedKeys, approvedPaths, parentDepth>>,
         NEW e \in RTWords, NEW u \in RTWords, RTOutcome(e, u),
         routed' = [routed EXCEPT !.pc = "done", !.audit = Append(@, u), !.events = Append(@, e)]
  PROVE  RTInv'
<1> DEFINE w == Append(routed.audit, u)
           v == Append(routed.events, e)
           r == [routed EXCEPT !.pc = "done", !.audit = w, !.events = v]
<1>1. routed.audit \in Seq(RTWords) /\ Len(routed.audit) = 1 /\ routed.events \in Seq(RTWords)
  BY DEF RTInv, RTTrail, RTCall
<1>2. /\ routed.audit[1] = "ToolCallStarted"
      /\ Len(routed.events) \in {0, 1} /\ (Len(routed.events) = 1 => routed.events[1] = "ToolInvocationStarted")
  BY DEF RTInv, RTTrail
<1>3. /\ w \in Seq(RTWords) /\ Len(w) = 2 /\ w[2] = u /\ w[1] = routed.audit[1]
  BY <1>1, RTAppendTwo
<1>4. /\ v \in Seq(RTWords) /\ Len(v) = Len(routed.events) + 1 /\ v[Len(routed.events) + 1] = e
      /\ \A i \in 1..Len(routed.events) : v[i] = routed.events[i]
  BY <1>1, RTAppend
<1>5. routed' = r
  BY DEF RTInv, RTCall
<1> HIDE DEF w, v
<1>6. r \in RTCall /\ r.pc = "done" /\ r.audit = w /\ r.events = v
  BY <1>3, <1>4 DEF RTInv, RTCall, RTPlaces
<1> HIDE DEF r
<1>7. /\ Len(v) \in {1, 2} /\ v[Len(v)] = e
      /\ Len(v) = 2 => v[1] = "ToolInvocationStarted"
  <2>1. CASE Len(routed.events) = 0
    BY <1>4, <2>1
  <2>2. CASE Len(routed.events) = 1
    BY <1>2, <1>4, <2>2
  <2> QED
    BY <1>2, <2>1, <2>2
<1>8. RTTrail(r)
  BY <1>2, <1>3, <1>6, <1>7 DEF RTTrail, RTOutcome
<1> QED
  BY <1>5, <1>6, <1>8, RTKeeps

LEMMA RTEnds ==
  ASSUME RTInv, routed.pc \in {"lookup", "normalize", "preflight", "approve", "run"},
         UNCHANGED <<approvedKeys, approvedPaths, parentDepth>>,
         \/ RT!succeeds
         \/ \E code, ev : ev \in {"ToolInvocationFailed", "ToolInvocationCancelled"} /\ RT!closes(code, ev)
  PROVE  RTInv'
<1>1. CASE RT!succeeds
  <2>1. "ToolCallSucceeded" \in RTWords /\ "ToolInvocationSucceeded" \in RTWords
    BY DEF RTWords
  <2> QED
    BY <1>1, <2>1, RTEndsWith DEF RT!succeeds, RTOutcome
<1>2. ASSUME NEW code, NEW ev, ev \in {"ToolInvocationFailed", "ToolInvocationCancelled"}, RT!closes(code, ev)
      PROVE  RTInv'
  <2>1. "ToolCallFailed" \in RTWords /\ ev \in RTWords
    BY <1>2 DEF RTWords
  <2> QED
    BY <1>2, <2>1, RTEndsWith DEF RT!closes, RTOutcome
<1> QED
  BY <1>1, <1>2

(***************************************************************************)
(* A call begins to run, with or without asking.                           *)
(***************************************************************************)
LEMMA RTRuns ==
  ASSUME RTInv, routed.pc = "approve", NEW b \in BOOLEAN,
         routed' = [routed EXCEPT !.pc = "run", !.asked = b, !.events = Append(@, "ToolInvocationStarted")]
  PROVE  /\ routed' \in RTCall /\ RTTrail(routed')
         /\ routed'.pc = "run" /\ routed'.arg = routed.arg
<1> DEFINE v == Append(routed.events, "ToolInvocationStarted")
           r == [routed EXCEPT !.pc = "run", !.asked = b, !.events = v]
<1>1. routed.events = <<>>
  BY DEF RTInv, RTTrail
<1>2. "ToolInvocationStarted" \in RTWords
  BY DEF RTWords
<1>3. v \in Seq(RTWords) /\ Len(v) = 1 /\ v[1] = "ToolInvocationStarted"
  BY <1>1, <1>2
<1>4. routed' = r
  BY DEF RTInv, RTCall
<1> HIDE DEF v
<1>5. /\ r \in RTCall /\ r.pc = "run" /\ r.arg = routed.arg /\ r.events = v /\ r.audit = routed.audit
  BY <1>3 DEF RTInv, RTCall, RTPlaces
<1> HIDE DEF r
<1> QED
  BY <1>3, <1>4, <1>5 DEF RTInv, RTTrail

LEMMA RTNextInv == RTInv /\ [RT!TRNext]_routeVars => RTInv'
<1> SUFFICES ASSUME RTInv, [RT!TRNext]_routeVars PROVE RTInv'
  OBVIOUS
<1>1. ASSUME NEW a \in RoutedArgs, RT!resolveToolCallResult(a) PROVE RTInv'
  <2> DEFINE w == <<"ToolCallStarted">>
             r == [RT!Idle EXCEPT !.pc = "lookup", !.arg = a, !.audit = w]
  <2>1. w \in Seq(RTWords) /\ Len(w) = 1 /\ w[1] = "ToolCallStarted"
    BY DEF RTWords
  <2>2. routed' = r
    BY <1>1 DEF RT!resolveToolCallResult
  <2> HIDE DEF w
  <2>3. RT!Idle \in RTCall /\ RT!Idle.events = <<>>
    BY DEF RT!Idle, RTCall, RTPlaces
  <2>4. r \in RTCall /\ r.pc = "lookup" /\ r.arg = a /\ r.audit = w /\ r.events = <<>>
    BY <2>1, <2>3 DEF RTCall, RTPlaces
  <2> HIDE DEF r
  <2>5. RTTrail(r)
    BY <2>1, <2>4 DEF RTTrail
  <2> QED
    BY <1>1, <2>2, <2>4, <2>5, RTKeeps DEF RT!resolveToolCallResult, RT!KeepRoute
<1>2. CASE RT!rejectMissingTool
  BY <1>2, RTEnds DEF RT!rejectMissingTool, RT!KeepRoute
<1>3. CASE RT!validates
  <2>1. routed.pc = "lookup" /\ routed.arg.tool # "unknown" /\ RT!KeepRoute
    BY <1>3 DEF RT!validates
  <2>2. CASE RT!Step("normalize")
    BY <2>1, <2>2, RTSteps DEF RT!KeepRoute
  <2>3. CASE RT!closes("schema-violation", "ToolInvocationFailed")
    BY <2>1, <2>3, RTEnds DEF RT!KeepRoute
  <2> QED
    BY <1>3, <2>2, <2>3 DEF RT!validates
<1>4. CASE RT!normalizesArgs
  <2>1. routed.pc = "normalize" /\ routed.arg.tool # "unknown" /\ RT!KeepRoute
    BY <1>4 DEF RT!normalizesArgs, RTInv, RTTrail
  <2>2. CASE RT!Step(IF routed.arg.tool = "delegate" THEN "preflight" ELSE "approve")
    BY <2>1, <2>2, RTSteps DEF RT!KeepRoute
  <2>3. CASE RT!closes("normalize-failed", "ToolInvocationFailed")
    BY <2>1, <2>3, RTEnds DEF RT!KeepRoute
  <2> QED
    BY <1>4, <2>2, <2>3 DEF RT!normalizesArgs
<1>5. CASE RT!preflight
  <2>1. routed.pc = "preflight" /\ routed.arg.tool # "unknown" /\ RT!KeepRoute
    BY <1>5 DEF RT!preflight, RTInv, RTTrail
  <2>2. CASE RT!Step("approve")
    BY <2>1, <2>2, RTSteps DEF RT!KeepRoute
  <2>3. CASE RT!closes("preflight-denied", "ToolInvocationFailed") \/ RT!succeeds
    BY <2>1, <2>3, RTEnds DEF RT!KeepRoute
  <2> QED
    BY <1>5, <2>2, <2>3 DEF RT!preflight
<1>6. CASE RT!approves
  <2>1. /\ routed' \in RTCall /\ RTTrail(routed') /\ routed'.pc = "run" /\ routed'.arg = routed.arg
    <3>1. routed' = [routed EXCEPT !.pc = "run", !.asked = routed.asked, !.events = Append(@, "ToolInvocationStarted")]
      BY <1>6 DEF RT!approves, RTInv, RTCall
    <3>2. routed.asked \in BOOLEAN /\ routed.pc = "approve"
      BY <1>6 DEF RT!approves, RTInv, RTCall
    <3> QED
      BY <3>1, <3>2, RTRuns
  <2>2. UNCHANGED <<approvedKeys, approvedPaths, parentDepth>>
    BY <1>6 DEF RT!approves, RT!KeepRoute
  <2>3. routed.arg \in RoutedArgs /\ routed.arg.tool # "unknown"
    BY <1>6 DEF RT!approves, RTInv, RTTrail
  <2>4. RT!GrantsCoverCalls'
    <3> SUFFICES ASSUME RT!gated(routed.arg.tool)
                 PROVE  \A d \in RT!Touched(routed.arg) :
                          RT!Granted(routed.arg.tool, d) \/ (d = <<>> /\ RT!MixesRoot(routed.arg))
      BY <2>1, <2>2 DEF RT!GrantsCoverCalls, RT!gated, RT!MixesRoot, RT!Range, RT!Touched, RT!PathScoped,
                        RT!deriveApprovalKey, RT!Granted
    <3> QED
      BY <1>6, <2>3, RTCovers DEF RT!approves, RTInv
  <2>5. RT!TRTypeOK'
    BY <2>1, <2>2 DEF RTInv, RT!TRTypeOK
  <2> QED
    BY <2>1, <2>2, <2>4, <2>5 DEF RTInv
<1>7. CASE RT!asksApproval
  <2> DEFINE a == routed.arg
  <2>1. a \in RoutedArgs /\ a.tool # "unknown" /\ routed.pc = "approve" /\ RT!gated(a.tool)
    BY <1>7 DEF RT!asksApproval, RTInv, RTTrail
  <2>2. CASE UNCHANGED <<approvedKeys, approvedPaths>> /\ RT!Step("threw")
    BY <1>7, <2>1, <2>2, RTSteps DEF RT!asksApproval
  <2>3. CASE UNCHANGED <<approvedKeys, approvedPaths>> /\ RT!closes("approval-denied", "ToolInvocationCancelled")
    BY <1>7, <2>1, <2>3, RTEnds DEF RT!asksApproval
  <2>4. CASE /\ approvedKeys' = approvedKeys \cup {<<a.tool, k>> : k \in RT!deriveApprovalKey(a)}
             /\ approvedPaths' = approvedPaths \cup {<<a.tool, d>> : d \in RT!Touched(a)}
             /\ routed' = [routed EXCEPT !.pc = "run", !.asked = TRUE,
                                         !.events = Append(@, "ToolInvocationStarted")]
    <3>1. /\ routed' \in RTCall /\ RTTrail(routed') /\ routed'.pc = "run" /\ routed'.arg = a
      BY <2>1, <2>4, RTRuns
    <3>2. approvedKeys' \subseteq approvedPaths'
      BY <2>1, <2>4, RTOwnKeys DEF RTInv
    <3>3. RT!TRTypeOK'
      <4>1. \A e \in approvedKeys' : /\ RT!gated(e[1])
                                     /\ \E b \in RoutedArgs : e[1] = b.tool /\ e[2] \in RT!deriveApprovalKey(b)
        BY <2>1, <2>4 DEF RTInv, RT!TRTypeOK
      <4>2. parentDepth' = parentDepth
        BY <1>7 DEF RT!asksApproval
      <4> QED
        BY <3>1, <4>1, <4>2 DEF RTInv, RT!TRTypeOK, RT!gated, RT!deriveApprovalKey, RT!diffKeys,
           RT!splitPathApprovalKey, RT!PathScoped, RT!Range
    <3>4. \A d \in RT!Touched(a) : \E g \in approvedPaths' : g[1] = a.tool /\ RT!IsPrefix(g[2], d)
      <4> SUFFICES ASSUME NEW d \in RT!Touched(a)
                   PROVE  \E g \in approvedPaths' : g[1] = a.tool /\ RT!IsPrefix(g[2], d)
        OBVIOUS
      <4>1. <<a.tool, d>> \in approvedPaths' /\ <<a.tool, d>>[1] = a.tool /\ <<a.tool, d>>[2] = d
        BY <2>4
      <4>2. RT!IsPrefix(d, d)
        BY <2>1, RTOwnKeys
      <4> QED
        BY <4>1, <4>2
    <3>5. RT!GrantsCoverCalls'
      BY <3>1, <3>4 DEF RT!GrantsCoverCalls, RT!gated, RT!Granted, RT!MixesRoot, RT!Range, RT!Touched,
                        RT!PathScoped, RT!deriveApprovalKey
    <3> QED
      BY <3>1, <3>2, <3>3, <3>5 DEF RTInv
  <2> QED
    BY <1>7, <2>2, <2>3, <2>4 DEF RT!asksApproval
<1>8. CASE RT!executes
  BY <1>8, RTEnds DEF RT!executes, RT!KeepRoute
<1>9. CASE RT!abandonsCall
  <2>1. RT!Idle \in RTCall /\ RT!Idle.pc = "idle"
    BY DEF RT!Idle, RTCall, RTPlaces
  <2>2. RTTrail(RT!Idle)
    BY <2>1 DEF RTTrail
  <2> QED
    BY <1>9, <2>1, <2>2, RTKeeps DEF RT!abandonsCall, RT!KeepRoute
<1>10. CASE UNCHANGED routeVars
  BY <1>10 DEF routeVars, RTInv, RT!TRTypeOK, RT!GrantsCoverCalls, RT!Granted
<1> QED
  BY <1>1, <1>2, <1>3, <1>4, <1>5, <1>6, <1>7, <1>8, <1>9, <1>10 DEF RT!TRNext

-----------------------------------------------------------------------------
(***************************************************************************)
(* 3. Trust in projects.  What memory trusts was agreed to; what is about  *)
(* to be written does not trust the project refused; and memory is ahead   *)
(* of the file only for what is being written or failed to be.             *)
(***************************************************************************)
TSConsent ==
  /\ \A p \in Projects : trustFile.latest[p] = "trusted" => p \in consented
  /\ \A p \in Projects : document[p] = "trusted" => p \in consented
  /\ op.at = "write" =>
       /\ op.kind = "clearAll" => document = TS!NoEntry
       /\ op.kind \in {"recordDecline", "revoke", "trustRevoke"} => document[op.project] = "declined"

TSWritten ==
  /\ op.at \notin {"closed", "write"} =>
       \A p \in Projects \ unwritten : document[p] = trustFile.latest[p]
  /\ op.at = "write" /\ op.kind # "clearAll" =>
       \A p \in Projects \ unwritten : p # op.project => document[p] = trustFile.latest[p]
  /\ op.kind = "gate" /\ op.at \in {"write", "audit"} => document[op.project] = "trusted"

TSInv == TS!TSTypeOK /\ TSConsent /\ TSWritten

LEMMA TSSome == TS!Some \in Projects
  BY PartsAssumption DEF TS!Some

LEMMA TSOps ==
  ASSUME NEW k \in TS!Kinds, NEW p \in Projects, NEW q \in TS!Places
  PROVE  /\ TS!Op(k, p, q) \in [kind : TS!Kinds, project : Projects, at : TS!Places]
         /\ TS!Op(k, p, q).kind = k /\ TS!Op(k, p, q).project = p /\ TS!Op(k, p, q).at = q
  BY DEF TS!Op

LEMMA TSIdle ==
  /\ TS!Idle \in [kind : TS!Kinds, project : Projects, at : TS!Places]
  /\ TS!Closed \in [kind : TS!Kinds, project : Projects, at : TS!Places]
  /\ TS!Idle.at = "ready" /\ TS!Idle.kind = "none" /\ TS!Closed.at = "closed" /\ TS!Closed.kind = "none"
  BY TSSome, TSOps DEF TS!Idle, TS!Closed, TS!Kinds, TS!Places

LEMMA TSDocuments ==
  /\ TS!NoEntry \in TS!Document /\ \A p \in Projects : TS!NoEntry[p] = "none"
  /\ \A d \in TS!Document, p \in Projects, v \in TS!Decision :
       [d EXCEPT ![p] = v] \in TS!Document
  BY DEF TS!NoEntry, TS!Document, TS!Decision

LEMMA TSInitInv == TS!TSInit => TSInv
<1> SUFFICES ASSUME TS!TSInit PROVE TSInv
  OBVIOUS
<1>1. trustFile \in [format : TS!Formats, latest : TS!Document]
  BY TSDocuments DEF TS!TSInit, TS!Formats, TS!Document, TS!Decision
<1>2. TS!TSTypeOK
  BY <1>1, TSIdle, TSDocuments DEF TS!TSInit, TS!TSTypeOK
<1> QED
  BY <1>2, TSIdle, TSDocuments DEF TS!TSInit, TSInv, TSConsent, TSWritten

(***************************************************************************)
(* Somebody agrees: to what is trusted already, or to a change.            *)
(***************************************************************************)
LEMMA TSGranting ==
  ASSUME TSInv, NEW p \in Projects, NEW k \in {"grant", "gate", "trustGrant"}, TS!Granting(k, p),
         op.at \in {"ready", "confirm"}, UNCHANGED <<trustFile, gateAudit, rejected, unwritten>>
  PROVE  TSInv'
<1>1. /\ trustFile \in [format : TS!Formats, latest : TS!Document] /\ document \in TS!Document
      /\ consented' = consented \cup {p} /\ k \in TS!Kinds /\ "trusted" \in TS!Decision
      /\ "write" \in TS!Places /\ "audit" \in TS!Places
  BY DEF TSInv, TS!TSTypeOK, TS!Granting, TS!Kinds, TS!Decision, TS!Places
<1>2. CASE TS!isTrusted(p)
  <2>1. document' = document /\ op' \in {TS!Idle, TS!Op(k, p, "audit")}
    BY <1>2 DEF TS!Granting
  <2>2. TS!TSTypeOK'
    BY <1>1, <2>1, TSIdle, TSOps DEF TSInv, TS!TSTypeOK
  <2>3. op'.at \in {"ready", "audit"} /\ (op'.kind = "gate" => op'.project = p)
    BY <1>1, <2>1, TSIdle, TSOps
  <2> QED
    BY <1>1, <1>2, <2>1, <2>2, <2>3 DEF TSInv, TSConsent, TSWritten, TS!isTrusted
<1>3. CASE ~TS!isTrusted(p)
  <2>1. document' = [document EXCEPT ![p] = "trusted"] /\ op' = TS!Op(k, p, "write")
    BY <1>3 DEF TS!Granting, TS!Change, TS!Append
  <2>2. /\ op' \in [kind : TS!Kinds, project : Projects, at : TS!Places]
        /\ op'.kind = k /\ op'.project = p /\ op'.at = "write"
    BY <1>1, <2>1, TSOps
  <2>3. TS!TSTypeOK'
    BY <1>1, <2>1, <2>2, TSDocuments DEF TSInv, TS!TSTypeOK
  <2>4. document'[p] = "trusted" /\ \A q \in Projects : q # p => document'[q] = document[q]
    BY <1>1, <2>1 DEF TS!Document
  <2> QED
    BY <1>1, <2>2, <2>3, <2>4 DEF TSInv, TSConsent, TSWritten
<1> QED
  BY <1>2, <1>3

(***************************************************************************)
(* A change that takes trust away, or finds none to take.                  *)
(***************************************************************************)
LEMMA TSRefusing ==
  ASSUME TSInv, NEW p \in Projects, NEW k \in {"recordDecline", "revoke", "trustRevoke"},
         op.at \in {"ready", "confirm"}, UNCHANGED <<trustFile, gateAudit, consented, rejected, unwritten>>,
         \/ TS!Revoking(k, p)
         \/ TS!Change(k, p, TS!Append(p, "declined"))
  PROVE  TSInv'
<1>1. /\ trustFile \in [format : TS!Formats, latest : TS!Document] /\ document \in TS!Document
      /\ k \in TS!Kinds /\ "declined" \in TS!Decision
      /\ "write" \in TS!Places /\ "audit" \in TS!Places
  BY DEF TSInv, TS!TSTypeOK, TS!Kinds, TS!Decision, TS!Places
<1>2. CASE document' = document /\ op' \in {TS!Idle, TS!Op(k, p, "audit")}
  <2>1. TS!TSTypeOK'
    BY <1>1, <1>2, TSIdle, TSOps DEF TSInv, TS!TSTypeOK
  <2>2. op'.at \in {"ready", "audit"} /\ op'.kind # "gate"
    BY <1>1, <1>2, TSIdle, TSOps
  <2> QED
    BY <1>1, <1>2, <2>1, <2>2 DEF TSInv, TSConsent, TSWritten
<1>3. CASE document' = [document EXCEPT ![p] = "declined"] /\ op' = TS!Op(k, p, "write")
  <2>2. /\ op' \in [kind : TS!Kinds, project : Projects, at : TS!Places]
        /\ op'.kind = k /\ op'.project = p /\ op'.at = "write"
    BY <1>1, <1>3, TSOps
  <2>3. TS!TSTypeOK'
    BY <1>1, <1>3, <2>2, TSDocuments DEF TSInv, TS!TSTypeOK
  <2>4. document'[p] = "declined" /\ \A q \in Projects : q # p => document'[q] = document[q]
    BY <1>1, <1>3 DEF TS!Document
  <2> QED
    BY <1>1, <2>2, <2>3, <2>4 DEF TSInv, TSConsent, TSWritten
<1> QED
  BY <1>2, <1>3 DEF TS!Revoking, TS!Change, TS!Append

(***************************************************************************)
(* The operation moves on; memory and file stay as they are.               *)
(***************************************************************************)
LEMMA TSMoves ==
  ASSUME TSInv, op' \in [kind : TS!Kinds, project : Projects, at : TS!Places], op'.at # "write",
         op'.at # "closed" => op.at \notin {"closed", "write"},
         op'.at = "audit" /\ op'.kind = "gate" => document[op'.project] = "trusted",
         UNCHANGED <<trustFile, document, consented, unwritten>>,
         gateAudit' \subseteq Projects, rejected' \subseteq Projects
  PROVE  TSInv'
  BY DEF TSInv, TS!TSTypeOK, TSConsent, TSWritten

LEMMA TSNextInv == TSInv /\ [TS!TSNext]_tsVars => TSInv'
<1> SUFFICES ASSUME TSInv, [TS!TSNext]_tsVars PROVE TSInv'
  OBVIOUS
<1>0. /\ trustFile \in [format : TS!Formats, latest : TS!Document] /\ document \in TS!Document
      /\ op \in [kind : TS!Kinds, project : Projects, at : TS!Places]
      /\ gateAudit \subseteq Projects /\ rejected \subseteq Projects /\ op.project \in Projects
  BY DEF TSInv, TS!TSTypeOK
<1>1. CASE TS!openTrustStore
  BY <1>0, <1>1, TSIdle DEF TS!openTrustStore, TSInv, TS!TSTypeOK, TSConsent, TSWritten
<1>2. CASE TS!ends
  BY <1>0, <1>2, TSIdle, TSDocuments DEF TS!ends, TSInv, TS!TSTypeOK, TSConsent, TSWritten
<1>3. CASE TS!clearAll
  <2>1. /\ document' = TS!NoEntry /\ op' = TS!Op("clearAll", TS!Some, "write")
        /\ UNCHANGED <<trustFile, gateAudit, consented, rejected, unwritten>>
    BY <1>3 DEF TS!clearAll, TS!Change
  <2>2. /\ op' \in [kind : TS!Kinds, project : Projects, at : TS!Places]
        /\ op'.kind = "clearAll" /\ op'.at = "write"
    <3>1. "clearAll" \in TS!Kinds /\ "write" \in TS!Places
      BY DEF TS!Kinds, TS!Places
    <3> QED
      BY <2>1, <3>1, TSSome, TSOps
  <2> QED
    BY <1>0, <2>1, <2>2, TSDocuments DEF TSInv, TS!TSTypeOK, TSConsent, TSWritten
<1>4. CASE TS!persistDocument
  <2> DEFINE f == [format |-> "entries", latest |-> document]
  <2>1. f \in [format : TS!Formats, latest : TS!Document] /\ f.latest = document
    BY <1>0 DEF TS!Formats
  <2>2. /\ trustFile' = f /\ UNCHANGED <<document, gateAudit, rejected>> /\ unwritten' = {} /\ op.at = "write"
        /\ op' \in {TS!Idle, [op EXCEPT !.at = "audit"]}
    BY <1>4 DEF TS!persistDocument
  <2> HIDE DEF f
  <2>3. /\ op' \in [kind : TS!Kinds, project : Projects, at : TS!Places]
        /\ op'.at \in {"ready", "audit"}
        /\ op'.kind = "gate" => op'.project = op.project /\ op.kind = "gate"
    BY <1>0, <2>2, TSIdle DEF TS!Places
  <2>4. \A p \in Projects : document[p] = "trusted" => p \in consented'
    <3>1. CASE op.kind = "clearAll"
      BY <2>2, <3>1, TSDocuments DEF TSInv, TSConsent
    <3>2. CASE op.kind \in {"recordDecline", "revoke", "trustRevoke"}
      BY <1>4, <2>2, <3>2 DEF TS!persistDocument, TSInv, TSConsent
    <3>3. CASE op.kind \notin {"clearAll", "recordDecline", "revoke", "trustRevoke"}
      BY <1>4, <2>2, <3>3 DEF TS!persistDocument, TSInv, TSConsent
    <3> QED
      BY <3>1, <3>2, <3>3
  <2>5. consented' \subseteq Projects
    BY <1>4 DEF TS!persistDocument, TSInv, TS!TSTypeOK
  <2> QED
    BY <1>0, <2>1, <2>2, <2>3, <2>4, <2>5 DEF TSInv, TS!TSTypeOK, TSConsent, TSWritten
<1>5. CASE TS!writeFails
  <2>1. /\ op' = TS!Idle /\ op.at = "write" /\ UNCHANGED <<trustFile, document, gateAudit, consented, rejected>>
        /\ unwritten' = unwritten \cup IF op.kind = "clearAll" THEN Projects ELSE {op.project}
    BY <1>5 DEF TS!writeFails
  <2>2. TS!TSTypeOK'
    BY <1>0, <2>1, TSIdle DEF TSInv, TS!TSTypeOK
  <2>3. \A p \in Projects \ unwritten' : document[p] = trustFile.latest[p]
    BY <1>0, <2>1 DEF TSInv, TSWritten
  <2> QED
    BY <2>1, <2>2, <2>3, TSIdle DEF TSInv, TSConsent, TSWritten
<1>6. CASE TS!refused \/ TS!audited
  <2>1. /\ op' = TS!Idle /\ op.at \in {"confirm", "audit"} /\ gateAudit' \subseteq gateAudit \cup {op.project}
        /\ UNCHANGED <<trustFile, document, consented, rejected, unwritten>>
    BY <1>6 DEF TS!refused, TS!audited
  <2> QED
    BY <1>0, <2>1, TSIdle, TSMoves
<1>7. ASSUME NEW p \in Projects,
             \/ TS!grant(p) \/ TS!confirmed(p) \/ TS!executeGrant(p)
      PROVE  TSInv'
  <2>1. op.at \in {"ready", "confirm"} /\ UNCHANGED <<trustFile, gateAudit, rejected, unwritten>>
    <3>1. TS!Op("gate", p, "confirm").at = "confirm"
      BY DEF TS!Op
    <3> QED
      BY <1>7, <3>1, TSIdle DEF TS!grant, TS!confirmed, TS!executeGrant
  <2> QED
    BY <1>7, <2>1, TSGranting DEF TS!grant, TS!confirmed, TS!executeGrant
<1>8. ASSUME NEW p \in Projects, TS!recordDecline(p) \/ TS!revoke(p) \/ TS!confirmRevoke(p)
      PROVE  TSInv'
  <2>1. op.at \in {"ready", "confirm"} /\ UNCHANGED <<trustFile, gateAudit, consented, rejected, unwritten>>
    <3>1. TS!Op("trustRevoke", p, "confirm").at = "confirm"
      BY DEF TS!Op
    <3> QED
      BY <1>8, <3>1, TSIdle DEF TS!recordDecline, TS!revoke, TS!confirmRevoke
  <2> QED
    BY <1>8, <2>1, TSRefusing DEF TS!recordDecline, TS!revoke, TS!confirmRevoke
<1>9. ASSUME NEW p \in Projects, TS!executeRevoke(p) PROVE TSInv'
  <2>1. op.at = "ready" /\ UNCHANGED <<trustFile, gateAudit, consented, rejected, unwritten>>
    BY <1>9, TSIdle DEF TS!executeRevoke
  <2>2. CASE op' = TS!Op("trustRevoke", p, "confirm") /\ UNCHANGED document
    <3>1. "trustRevoke" \in TS!Kinds /\ "confirm" \in TS!Places
      BY DEF TS!Kinds, TS!Places
    <3>2. op' \in [kind : TS!Kinds, project : Projects, at : TS!Places] /\ op'.at = "confirm"
      BY <2>2, <3>1, TSOps
    <3> QED
      BY <1>0, <2>1, <2>2, <3>2, TSMoves
  <2>3. CASE TS!Revoking("trustRevoke", p)
    BY <2>1, <2>3, TSRefusing
  <2> QED
    BY <1>9, <2>2, <2>3 DEF TS!executeRevoke
<1>10. ASSUME NEW p \in Projects, TS!evaluateProjectTrust(p) PROVE TSInv'
  <2>1. op.at = "ready" /\ gateAudit' = {} /\ UNCHANGED <<trustFile, document, consented, rejected, unwritten>>
    BY <1>10, TSIdle DEF TS!evaluateProjectTrust
  <2>2. PICK q \in {"audit", "confirm"} : op' = TS!Op("gate", p, q) /\ (q = "audit" <=> TS!isTrusted(p))
    BY <1>10 DEF TS!evaluateProjectTrust
  <2>3. "gate" \in TS!Kinds /\ q \in TS!Places
    BY DEF TS!Kinds, TS!Places
  <2>4. /\ op' \in [kind : TS!Kinds, project : Projects, at : TS!Places]
        /\ op'.project = p /\ op'.at = q
    BY <2>2, <2>3, TSOps
  <2> QED
    BY <1>0, <2>1, <2>2, <2>4, TSMoves DEF TS!isTrusted
<1>11. ASSUME NEW p \in Projects, TS!projectScopeAsked(p) PROVE TSInv'
  <2>1. op' = op /\ op.at = "ready" /\ rejected' \subseteq Projects
    BY <1>0, <1>11, TSIdle DEF TS!projectScopeAsked
  <2> QED
    BY <1>0, <1>11, <2>1, TSMoves DEF TS!projectScopeAsked
<1>12. CASE UNCHANGED tsVars
  BY <1>12 DEF tsVars, TSInv, TS!TSTypeOK, TSConsent, TSWritten
<1> QED
  BY <1>1, <1>2, <1>3, <1>4, <1>5, <1>6, <1>7, <1>8, <1>9, <1>10, <1>11, <1>12 DEF TS!TSNext

(***************************************************************************)
(* The gate audits a grant somebody agreed to, and only after it is in the *)
(* file, unless this process failed to write the project's own change.     *)
(***************************************************************************)
LEMMA TSGateStep ==
  TSInv /\ [TS!TSNext]_tsVars
    => \A p \in gateAudit' \ gateAudit : p \in consented /\ (trustFile.latest[p] = "trusted" \/ p \in unwritten)
<1> SUFFICES ASSUME TSInv, [TS!TSNext]_tsVars, NEW p \in gateAudit' \ gateAudit
             PROVE  p \in consented /\ (trustFile.latest[p] = "trusted" \/ p \in unwritten)
  OBVIOUS
<1>1. TS!audited
  BY DEF tsVars, TS!TSNext, TS!openTrustStore, TS!ends, TS!clearAll, TS!persistDocument, TS!writeFails,
         TS!refused, TS!grant, TS!recordDecline, TS!revoke, TS!evaluateProjectTrust, TS!confirmed,
         TS!executeGrant, TS!executeRevoke, TS!confirmRevoke, TS!projectScopeAsked
<1>2. p = op.project /\ op.kind = "gate" /\ op.at = "audit" /\ p \in Projects
  BY <1>1 DEF TS!audited, TSInv, TS!TSTypeOK
<1> QED
  BY <1>2 DEF TSInv, TSWritten, TSConsent

-----------------------------------------------------------------------------
(***************************************************************************)
(* 4. The trust lists of MCP servers.  No list on disk, none a call holds  *)
(* and none a call is about to rename into place names a server whose      *)
(* clear was reported; that much survives every interleaving.  Of a call   *)
(* nobody overlaps more is known: a clear has its own server in no list it *)
(* keeps, and the file it renames is the one it wrote.                     *)
(***************************************************************************)
MTSaving(r) == IF "global" \in r.left THEN "global" ELSE "project"

MTHeld(r, t, cl) ==
  /\ \A x \in MT!Scopes : r.list[x] \cap (cl \ Bundled) = {}
  /\ r.at = "idle" => r.handle = "none" /\ \A x \in MT!Scopes : r.list[x] = {}
  /\ r.op = "grant" /\ r.at # "idle" => r.server \notin cl
  /\ r.at \in {"write", "rename"} => t[MTSaving(r)].servers \cap (cl \ Bundled) = {}

MTReady(r, x, f) ==
  r.op = "clear" => /\ x \in r.left => r.server \notin r.list[x]
                    /\ x \notin r.left => r.server \notin f[x].servers

MTPlace(r, f, t) ==
  /\ r.at \notin {"write", "rename"} => r.handle = "none"
  /\ r.at = "write" => r.handle = "tmp"
  /\ r.at = "project-trust" => r.op = "grant"
  /\ r.op = "clear" /\ r.at = "load-global" => r.left = {}
  /\ r.op = "clear" /\ r.at = "load-project" => r.left \subseteq {"global"} /\ MTReady(r, "global", f)
  /\ r.at \in {"write", "rename"} => r.left # {}
  /\ r.at \in {"open", "write", "rename"} => \A x \in MT!Scopes : MTReady(r, x, f)
  /\ r.at = "rename" => t[MTSaving(r)] = MT!Listing(r.list[MTSaving(r)])

MTBare(f, cl) == \A x \in MT!Scopes : f[x].servers \cap (cl \ Bundled) = {}
MTWhole(f)    == \A x \in MT!Scopes : f[x].shape # "cut"

MTInv ==
  /\ MT!MTTypeOK
  /\ MTBare(mcpFile, cleared)
  /\ \A c \in TrustCallers : MTHeld(trustCall[c], tmp, cleared)
  /\ \A c \in TrustCallers : trustCall[c].at # "idle" /\ trustCall[c].alone =>
       /\ MTPlace(trustCall[c], mcpFile, tmp)
       /\ \A d \in TrustCallers : d # c => trustCall[d].at = "idle"
  /\ ~overlapped => /\ MTWhole(mcpFile)
                    /\ \A c \in TrustCallers : trustCall[c].at # "idle" => trustCall[c].alone

LEMMA MTFileTypes ==
  /\ \A f \in MT!Files : f.servers \subseteq Servers
  /\ \A s \in SUBSET Servers : MT!Listing(s) \in MT!Files /\ MT!Listing(s).servers = s
                              /\ MT!Listing(s).shape = "whole"
  /\ MT!NoFile \in MT!Files /\ MT!Cut \in MT!Files /\ MT!NoFile.shape = "absent" /\ MT!NoFile.servers = {}
  /\ MT!Cut.servers = {}
<1>1. \A s \in SUBSET Servers : /\ MT!Listing(s) \in MT!Files /\ MT!Listing(s).servers = s
                                 /\ MT!Listing(s).shape = "whole"
  BY DEF MT!Files, MT!Listing
<1>2. /\ MT!NoFile \in MT!Files /\ MT!NoFile.shape = "absent" /\ MT!NoFile.servers = {}
      /\ MT!Cut \in MT!Files /\ MT!Cut.servers = {}
  BY DEF MT!Files, MT!NoFile, MT!Cut
<1>3. ASSUME NEW f \in MT!Files PROVE f.servers \subseteq Servers
  <2>1. f = MT!NoFile \/ f = MT!Cut \/ \E s \in SUBSET Servers : f = MT!Listing(s)
    BY DEF MT!Files
  <2> QED
    BY <1>1, <1>2, <2>1
<1> QED
  BY <1>1, <1>2, <1>3

LEMMA MTRest ==
  /\ MT!MTResting \in MT!TrustCall /\ MT!MTResting.at = "idle" /\ MT!MTResting.handle = "none"
  /\ \A x \in MT!Scopes : MT!MTResting.list[x] = {}
<1>1. (CHOOSE s \in Servers : TRUE) \in Servers
  BY PartsAssumption
<1> QED
  BY <1>1 DEF MT!MTResting, MT!TrustCall, MT!Scopes, MT!TrustPlaces

(***************************************************************************)
(* An idle call holds nothing.                                             *)
(***************************************************************************)
LEMMA MTIdle ==
  ASSUME NEW r, NEW t, NEW cl, r.at = "idle", r.handle = "none", \A x \in MT!Scopes : r.list[x] = {}
  PROVE  MTHeld(r, t, cl)
  BY DEF MTHeld

LEMMA MTInitInv == MT!MTInit => MTInv
<1> SUFFICES ASSUME MT!MTInit PROVE MTInv
  OBVIOUS
<1>1. /\ MT!MTTypeOK /\ cleared = {} /\ \A c \in TrustCallers : trustCall[c] = MT!MTResting
      /\ \A x \in MT!Scopes : mcpFile[x] = MT!NoFile
  BY MTFileTypes, MTRest DEF MT!MTInit, MT!MTTypeOK
<1>2. MTBare(mcpFile, cleared) /\ MTWhole(mcpFile)
  BY <1>1, MTFileTypes DEF MTBare, MTWhole
<1> QED
  BY <1>1, <1>2, MTRest, MTIdle DEF MTInv

(***************************************************************************)
(* What a step of one call asks of the others: they keep their place, what *)
(* they hold, and no handle they did not have; and none of them is alone.  *)
(***************************************************************************)
MTLike(q, r) ==
  /\ q.at = r.at /\ q.op = r.op /\ q.list = r.list /\ q.left = r.left /\ q.server = r.server
  /\ r.handle = "none" => q.handle = "none"
  /\ q.at # "idle" => ~q.alone

LEMMA MTLikeHeld ==
  ASSUME NEW q, NEW r, NEW s, NEW t, NEW k, NEW cl, MTLike(q, r), MTHeld(r, s, k), k \subseteq Servers,
         cl \subseteq k \/ r.at = "idle",
         \A x \in MT!Scopes : t[x] = s[x] \/ t[x].servers \cap (cl \ Bundled) = {}
  PROVE  MTHeld(q, t, cl)
<1>1. CASE r.at = "idle"
  BY <1>1, MTIdle DEF MTHeld, MTLike
<1>2. CASE r.at # "idle"
  <2>1. cl \subseteq k /\ MTSaving(q) = MTSaving(r) /\ MTSaving(r) \in MT!Scopes
    BY <1>2 DEF MTLike, MTSaving, MT!Scopes
  <2> QED
    BY <1>2, <2>1 DEF MTHeld, MTLike
<1> QED
  BY <1>1, <1>2

LEMMA MTMoves ==
  ASSUME MTInv, NEW c \in TrustCallers, NEW r \in MT!TrustCall,
         trustCall' \in [TrustCallers -> MT!TrustCall], trustCall'[c] = r,
         mcpFile' \in [MT!Scopes -> MT!Files], tmp' \in [MT!Scopes -> MT!Files], cleared' \subseteq Servers,
         overlapped' \in BOOLEAN, ~overlapped' => ~overlapped,
         \A d \in TrustCallers : d # c => MTLike(trustCall'[d], trustCall[d]),
         cleared' \subseteq cleared \/ \A d \in TrustCallers : d # c => trustCall[d].at = "idle",
         \A x \in MT!Scopes : tmp'[x] = tmp[x] \/ tmp'[x].servers \cap (cleared' \ Bundled) = {},
         MTBare(mcpFile', cleared'), MTHeld(r, tmp', cleared'),
         r.at # "idle" /\ r.alone => /\ MTPlace(r, mcpFile', tmp')
                                     /\ \A d \in TrustCallers : d # c => trustCall[d].at = "idle",
         ~overlapped' => /\ MTWhole(mcpFile') /\ (r.at # "idle" => r.alone)
                         /\ \A d \in TrustCallers : d # c => trustCall[d].at = "idle"
  PROVE  MTInv'
<1>1. MT!MTTypeOK'
  BY DEF MT!MTTypeOK
<1>2. ASSUME NEW d \in TrustCallers PROVE MTHeld(trustCall'[d], tmp', cleared')
  <2>1. CASE d = c
    BY <2>1
  <2>2. CASE d # c
    <3>1. MTHeld(trustCall[d], tmp, cleared) /\ cleared \subseteq Servers
      BY DEF MTInv, MT!MTTypeOK
    <3>2. cleared' \subseteq cleared \/ trustCall[d].at = "idle"
      BY <2>2
    <3> QED
      BY <2>2, <3>1, <3>2, MTLikeHeld
  <2> QED
    BY <2>1, <2>2
<1>3. ASSUME NEW d \in TrustCallers, trustCall'[d].at # "idle", trustCall'[d].alone
      PROVE  /\ MTPlace(trustCall'[d], mcpFile', tmp')
             /\ \A e \in TrustCallers : e # d => trustCall'[e].at = "idle"
  <2>1. d = c
    BY <1>3 DEF MTLike
  <2> QED
    BY <1>3, <2>1 DEF MTLike
<1>4. ASSUME ~overlapped', NEW d \in TrustCallers, trustCall'[d].at # "idle" PROVE trustCall'[d].alone
  BY <1>4 DEF MTLike
<1> QED
  BY <1>1, <1>2, <1>3, <1>4 DEF MTInv

LEMMA MTKnown ==
  ASSUME MTInv, NEW c \in TrustCallers
  PROVE  /\ trustCall[c] \in MT!TrustCall /\ trustCall \in [TrustCallers -> MT!TrustCall]
         /\ mcpFile \in [MT!Scopes -> MT!Files] /\ tmp \in [MT!Scopes -> MT!Files] /\ cleared \subseteq Servers
         /\ overlapped \in BOOLEAN
         /\ trustCall[c].left \subseteq MT!Scopes /\ trustCall[c].list \in [MT!Scopes -> SUBSET Servers]
         /\ trustCall[c].server \in Servers
         /\ MTBare(mcpFile, cleared) /\ MTHeld(trustCall[c], tmp, cleared)
         /\ trustCall[c].at # "idle" /\ trustCall[c].alone =>
              /\ MTPlace(trustCall[c], mcpFile, tmp)
              /\ \A d \in TrustCallers : d # c => trustCall[d].at = "idle"
         /\ ~overlapped => MTWhole(mcpFile) /\ (trustCall[c].at # "idle" => trustCall[c].alone)
  BY DEF MTInv, MT!MTTypeOK, MT!TrustCall

(***************************************************************************)
(* Nobody else is alone while a call is under way.                         *)
(***************************************************************************)
LEMMA MTOthers ==
  ASSUME MTInv, NEW c \in TrustCallers, trustCall[c].at # "idle"
  PROVE  /\ \A d \in TrustCallers : d # c => MTLike(trustCall[d], trustCall[d])
         /\ ~overlapped => trustCall[c].alone
                           /\ \A d \in TrustCallers : d # c => trustCall[d].at = "idle"
  BY DEF MTInv, MTLike

(***************************************************************************)
(* A call begins.                                                          *)
(***************************************************************************)
LEMMA MTBegins ==
  ASSUME MTInv, NEW c \in TrustCallers, NEW n \in MT!TrustCall, MT!TrustBegins(c, n),
         cleared' \subseteq cleared, n.list = trustCall[c].list, n.handle = trustCall[c].handle,
         n.at \in {"project-trust", "load-global"}, n.op = "grant" => n.server \notin cleared',
         n.op = "clear" => n.at = "load-global" /\ n.left = {}
  PROVE  MTInv'
<1> DEFINE o == {d \in TrustCallers : trustCall[d].at # "idle"}
           b == o = {}
           r == [n EXCEPT !.alone = b]
<1>1. /\ trustCall' = [d \in TrustCallers |-> IF d = c THEN r ELSE [trustCall[d] EXCEPT !.alone = FALSE]]
      /\ UNCHANGED <<mcpFile, tmp>> /\ overlapped' = (overlapped \/ o # {}) /\ trustCall[c].at = "idle"
  BY DEF MT!TrustBegins, MT!TrustIdle
<1>2. b \in BOOLEAN /\ (b <=> \A d \in TrustCallers : trustCall[d].at = "idle")
  OBVIOUS
<1> HIDE DEF b
<1>3. /\ r \in MT!TrustCall /\ r.alone = b /\ r.at = n.at /\ r.op = n.op /\ r.list = n.list /\ r.left = n.left
      /\ r.server = n.server /\ r.handle = n.handle
  BY <1>2 DEF MT!TrustCall
<1> HIDE DEF r
<1>4. ASSUME NEW d \in TrustCallers
      PROVE  /\ [trustCall[d] EXCEPT !.alone = FALSE] \in MT!TrustCall
             /\ MTLike([trustCall[d] EXCEPT !.alone = FALSE], trustCall[d])
  BY MTKnown DEF MT!TrustCall, MTLike
<1>5. /\ trustCall' \in [TrustCallers -> MT!TrustCall] /\ trustCall'[c] = r
      /\ \A d \in TrustCallers : d # c => MTLike(trustCall'[d], trustCall[d])
  BY <1>1, <1>3, <1>4
<1>6. /\ mcpFile' \in [MT!Scopes -> MT!Files] /\ tmp' \in [MT!Scopes -> MT!Files] /\ cleared' \subseteq Servers
      /\ overlapped \in BOOLEAN /\ MTBare(mcpFile', cleared') /\ (~overlapped => MTWhole(mcpFile'))
  BY <1>1, MTKnown DEF MTBare
<1>7. MTHeld(r, tmp', cleared')
  <2>1. trustCall[c].handle = "none" /\ \A x \in MT!Scopes : trustCall[c].list[x] = {}
    BY <1>1, MTKnown DEF MTHeld
  <2> QED
    BY <1>3, <2>1 DEF MTHeld
<1>8. MTPlace(r, mcpFile', tmp')
  <2>1. trustCall[c].handle = "none"
    BY <1>1, MTKnown DEF MTHeld
  <2>2. n.op \in {"grant", "clear"}
    BY DEF MT!TrustCall
  <2> QED
    BY <1>3, <2>1, <2>2 DEF MTPlace
<1>9. ~overlapped' => ~overlapped /\ b
  BY <1>1, <1>2
<1>10. overlapped' \in BOOLEAN
  BY <1>1, <1>6
<1> QED
  BY <1>1, <1>2, <1>3, <1>5, <1>6, <1>7, <1>8, <1>9, <1>10, MTMoves

(***************************************************************************)
(* A call under way goes on, or ends.                                      *)
(***************************************************************************)
LEMMA MTGoes ==
  ASSUME MTInv, NEW c \in TrustCallers, NEW r \in MT!TrustCall, trustCall[c].at # "idle",
         MT!TrustStep(c, r), UNCHANGED <<overlapped, cleared>>, r.alone = trustCall[c].alone,
         mcpFile' \in [MT!Scopes -> MT!Files], tmp' \in [MT!Scopes -> MT!Files],
         \A x \in MT!Scopes : tmp'[x] = tmp[x] \/ tmp'[x].servers \cap (cleared \ Bundled) = {},
         MTBare(mcpFile', cleared), MTHeld(r, tmp', cleared),
         trustCall[c].alone => MTPlace(r, mcpFile', tmp'),
         ~overlapped => MTWhole(mcpFile')
  PROVE  MTInv'
<1>1. /\ trustCall' = [trustCall EXCEPT ![c] = r] /\ trustCall \in [TrustCallers -> MT!TrustCall]
      /\ overlapped' \in BOOLEAN /\ cleared' \subseteq Servers /\ cleared' = cleared /\ overlapped' = overlapped
  BY MTKnown DEF MT!TrustStep
<1>2. /\ trustCall' \in [TrustCallers -> MT!TrustCall] /\ trustCall'[c] = r
      /\ \A d \in TrustCallers : d # c => trustCall'[d] = trustCall[d]
  BY <1>1
<1>3. trustCall[c].alone => \A d \in TrustCallers : d # c => trustCall[d].at = "idle"
  BY MTKnown
<1>4. \A d \in TrustCallers : d # c => MTLike(trustCall'[d], trustCall[d])
  BY <1>2, MTOthers
<1>5. ~overlapped => trustCall[c].alone
  BY MTOthers
<1> HIDE DEF MT!TrustStep
<1> QED
  BY <1>1, <1>2, <1>3, <1>4, <1>5, MTMoves

(***************************************************************************)
(* The scope a call saves is one it has left to save.                      *)
(***************************************************************************)
LEMMA MTSaves ==
  ASSUME MTInv, NEW c \in TrustCallers
  PROVE  /\ MT!Saving(c) = MTSaving(trustCall[c]) /\ MT!Saving(c) \in MT!Scopes
         /\ trustCall[c].left # {} => MT!Saving(c) \in trustCall[c].left
  BY MTKnown DEF MT!Saving, MTSaving, MT!Scopes

LEMMA MTLoads ==
  ASSUME MTInv, NEW c \in TrustCallers, NEW x \in MT!Scopes, MT!loadScopeEntries(c, x)
  PROVE  MTInv'
<1> DEFINE t == trustCall[c]
<1>1. /\ t \in MT!TrustCall /\ t.left \subseteq MT!Scopes /\ t.list \in [MT!Scopes -> SUBSET Servers]
      /\ t.server \in Servers /\ mcpFile[x].servers \subseteq Servers
      /\ mcpFile \in [MT!Scopes -> MT!Files] /\ tmp \in [MT!Scopes -> MT!Files] /\ cleared \subseteq Servers
      /\ MTBare(mcpFile, cleared) /\ MTHeld(t, tmp, cleared) /\ (~overlapped => MTWhole(mcpFile))
      /\ t.at # "idle" /\ t.alone => MTPlace(t, mcpFile, tmp)
  BY MTKnown, MTFileTypes
<1>2. /\ t.at = IF x = "global" THEN "load-global" ELSE "load-project"
      /\ UNCHANGED <<mcpFile, tmp, overlapped, cleared>>
      /\ x \in {"global", "project"} /\ t.at # "idle"
      /\ mcpFile[x].servers \cap (cleared \ Bundled) = {}
  BY <1>1 DEF MT!loadScopeEntries, MT!Scopes, MTBare
<1>3. ASSUME t.op = "grant" PROVE MTInv'
  <2> DEFINE l == [t.list EXCEPT ![x] = mcpFile[x].servers \cup {t.server}]
             r == [t EXCEPT !.list = l, !.at = "open"]
  <2>1. /\ l \in [MT!Scopes -> SUBSET Servers] /\ l[x] = mcpFile[x].servers \cup {t.server}
        /\ \A y \in MT!Scopes : y # x => l[y] = t.list[y]
    BY <1>1
  <2>2. MT!TrustStep(c, r)
    BY <1>1, <1>3 DEF MT!loadScopeEntries, MT!loadForGrant, MT!TrustStep, MT!TrustCall
  <2> HIDE DEF l
  <2>3. /\ r \in MT!TrustCall /\ r.list = l /\ r.at = "open" /\ r.left = t.left /\ r.op = "grant"
        /\ r.handle = t.handle /\ r.server = t.server /\ r.alone = t.alone
    BY <1>1, <1>3, <2>1 DEF MT!TrustCall, MT!TrustPlaces
  <2> HIDE DEF r
  <2>4. MTHeld(r, tmp, cleared)
    BY <1>1, <1>2, <1>3, <2>1, <2>3 DEF MTHeld
  <2>5. t.alone => MTPlace(r, mcpFile, tmp)
    BY <1>1, <1>2, <2>3 DEF MTPlace, MTReady
  <2> QED
    BY <1>1, <1>2, <2>2, <2>3, <2>4, <2>5, MTGoes
<1>4. ASSUME t.op # "grant" PROVE MTInv'
  <2> DEFINE l == [t.list EXCEPT ![x] = mcpFile[x].servers \ {t.server}]
             k == t.left \cup {y \in {x} : t.server \in mcpFile[x].servers}
             p == IF x = "global" THEN "load-project" ELSE "open"
             r == [t EXCEPT !.list = l, !.left = k, !.at = p]
  <2>1. /\ l \in [MT!Scopes -> SUBSET Servers] /\ l[x] = mcpFile[x].servers \ {t.server}
        /\ \A y \in MT!Scopes : y # x => l[y] = t.list[y]
        /\ k \subseteq MT!Scopes /\ (x \in k <=> x \in t.left \/ t.server \in mcpFile[x].servers)
        /\ \A y : y # x => (y \in k <=> y \in t.left)
        /\ p \in MT!TrustPlaces
    BY <1>1 DEF MT!TrustPlaces
  <2>2. MT!TrustStep(c, r)
    BY <1>1, <1>4 DEF MT!loadScopeEntries, MT!loadForClear, MT!TrustStep, MT!TrustCall
  <2>3. t.op = "clear"
    BY <1>1, <1>4 DEF MT!TrustCall
  <2> HIDE DEF l, k, p
  <2>4. /\ r \in MT!TrustCall /\ r.list = l /\ r.at = p /\ r.left = k /\ r.op = "clear"
        /\ r.handle = t.handle /\ r.server = t.server /\ r.alone = t.alone
    BY <1>1, <2>1, <2>3 DEF MT!TrustCall
  <2> HIDE DEF r
  <2>5. MTHeld(r, tmp, cleared)
    BY <1>1, <1>2, <2>1, <2>4 DEF MTHeld, p
  <2>6. ASSUME t.alone PROVE MTPlace(r, mcpFile, tmp)
    <3>1. t.handle = "none"
      BY <1>1, <1>2, <2>6 DEF MTPlace
    <3>2. CASE x = "global"
      <4>1. t.left = {}
        BY <1>1, <1>2, <2>3, <2>6, <3>2 DEF MTPlace
      <4>2. MTReady(r, "global", mcpFile) /\ k \subseteq {"global"}
        BY <2>1, <2>4, <3>1, <3>2, <4>1 DEF MTReady
      <4> QED
        BY <2>4, <3>1, <3>2, <4>2 DEF MTPlace, p
    <3>3. CASE x = "project"
      <4>1. t.left \subseteq {"global"} /\ MTReady(t, "global", mcpFile)
        BY <1>1, <1>2, <2>3, <2>6, <3>3 DEF MTPlace
      <4>2. MTReady(r, "global", mcpFile)
        BY <2>1, <2>3, <2>4, <3>3, <4>1 DEF MTReady, MT!Scopes
      <4>3. MTReady(r, "project", mcpFile)
        BY <2>1, <2>4, <3>1, <3>3, <4>1 DEF MTReady
      <4> QED
        BY <2>4, <3>1, <3>3, <4>2, <4>3 DEF MTPlace, MT!Scopes, p
    <3> QED
      BY <1>2, <3>2, <3>3
  <2> QED
    BY <1>1, <1>2, <2>2, <2>4, <2>5, <2>6, MTGoes
<1> QED
  BY <1>3, <1>4

(***************************************************************************)
(* A save: the temporary file is opened, written and renamed.              *)
(***************************************************************************)
LEMMA MTOpens ==
  ASSUME MTInv, NEW c \in TrustCallers, MT!openTmp(c)
  PROVE  MTInv'
<1> DEFINE t == trustCall[c]
           r == [t EXCEPT !.at = "write", !.handle = "tmp"]
<1>1. /\ t \in MT!TrustCall /\ t.at = "open" /\ t.left # {}
      /\ mcpFile \in [MT!Scopes -> MT!Files] /\ tmp \in [MT!Scopes -> MT!Files]
      /\ MTBare(mcpFile, cleared) /\ MTHeld(t, tmp, cleared) /\ (~overlapped => MTWhole(mcpFile))
      /\ t.alone => MTPlace(t, mcpFile, tmp)
      /\ UNCHANGED <<mcpFile, overlapped, cleared>> /\ MT!TrustStep(c, r)
      /\ tmp' = [tmp EXCEPT ![MT!Saving(c)] = MT!Cut]
  BY MTKnown DEF MT!openTmp
<1>2. /\ tmp' \in [MT!Scopes -> MT!Files] /\ tmp'[MT!Saving(c)].servers = {}
      /\ \A x \in MT!Scopes : x # MT!Saving(c) => tmp'[x] = tmp[x]
      /\ MT!Saving(c) = MTSaving(t) /\ MT!Saving(c) \in MT!Scopes
  BY <1>1, MTSaves, MTFileTypes
<1>3. /\ r \in MT!TrustCall /\ r.at = "write" /\ r.handle = "tmp" /\ r.left = t.left /\ r.op = t.op
      /\ r.list = t.list /\ r.server = t.server /\ r.alone = t.alone
  BY <1>1 DEF MT!TrustCall, MT!TrustPlaces
<1> HIDE DEF r
<1>4. MTHeld(r, tmp', cleared)
  <2>1. MTSaving(r) = MT!Saving(c)
    BY <1>2, <1>3 DEF MTSaving
  <2> QED
    BY <1>1, <1>2, <1>3, <2>1 DEF MTHeld
<1>5. t.alone => MTPlace(r, mcpFile', tmp')
  BY <1>1, <1>3 DEF MTPlace, MTReady
<1>6. /\ \A x \in MT!Scopes : tmp'[x] = tmp[x] \/ tmp'[x].servers \cap (cleared \ Bundled) = {}
      /\ MTBare(mcpFile', cleared) /\ mcpFile' \in [MT!Scopes -> MT!Files] /\ (~overlapped => MTWhole(mcpFile'))
  BY <1>1, <1>2
<1> QED
  BY <1>1, <1>2, <1>3, <1>4, <1>5, <1>6, MTGoes

LEMMA MTWrites ==
  ASSUME MTInv, NEW c \in TrustCallers, MT!writeTmp(c)
  PROVE  MTInv'
<1> DEFINE t == trustCall[c]
           x == MT!Saving(c)
           n == MT!Listing(t.list[x])
           r == [t EXCEPT !.at = "rename"]
<1>1. /\ t \in MT!TrustCall /\ t.at = "write" /\ t.list \in [MT!Scopes -> SUBSET Servers]
      /\ mcpFile \in [MT!Scopes -> MT!Files] /\ tmp \in [MT!Scopes -> MT!Files]
      /\ MTBare(mcpFile, cleared) /\ MTHeld(t, tmp, cleared) /\ (~overlapped => MTWhole(mcpFile) /\ t.alone)
      /\ t.alone => MTPlace(t, mcpFile, tmp)
      /\ UNCHANGED <<overlapped, cleared>> /\ MT!TrustStep(c, r)
      /\ tmp' = IF t.handle = "tmp" THEN [tmp EXCEPT ![x] = n] ELSE tmp
      /\ mcpFile' = IF t.handle = "file" THEN [mcpFile EXCEPT ![x] = n] ELSE mcpFile
  BY MTKnown DEF MT!writeTmp
<1>2. x \in MT!Scopes /\ x = MTSaving(t)
  BY MTSaves
<1>3. n \in MT!Files /\ n.servers = t.list[x] /\ n.servers \cap (cleared \ Bundled) = {}
  <2>1. t.list[x] \in SUBSET Servers
    BY <1>1, <1>2
  <2> QED
    BY <1>1, <1>2, <2>1, MTFileTypes DEF MTHeld
<1>4. /\ r \in MT!TrustCall /\ r.at = "rename" /\ r.handle = t.handle /\ r.left = t.left /\ r.op = t.op
      /\ r.list = t.list /\ r.server = t.server /\ r.alone = t.alone
  BY <1>1 DEF MT!TrustCall, MT!TrustPlaces
<1>5. MTSaving(r) = x /\ n = MT!Listing(r.list[MTSaving(r)])
  BY <1>2, <1>4 DEF MTSaving
<1> HIDE DEF r, x, n
<1>6. /\ mcpFile' \in [MT!Scopes -> MT!Files] /\ tmp' \in [MT!Scopes -> MT!Files]
      /\ \A y \in MT!Scopes : tmp'[y] = tmp[y] \/ tmp'[y] = n
      /\ \A y \in MT!Scopes : mcpFile'[y] = mcpFile[y] \/ mcpFile'[y] = n
  BY <1>1, <1>2, <1>3
<1>7. MTBare(mcpFile', cleared)
  BY <1>1, <1>3, <1>6 DEF MTBare
<1>8. \A y \in MT!Scopes : tmp'[y] = tmp[y] \/ tmp'[y].servers \cap (cleared \ Bundled) = {}
  BY <1>3, <1>6
<1>9. MTHeld(r, tmp', cleared)
  <2>1. tmp[x].servers \cap (cleared \ Bundled) = {}
    BY <1>1, <1>2 DEF MTHeld
  <2>2. tmp'[x].servers \cap (cleared \ Bundled) = {}
    BY <1>2, <1>8, <2>1
  <2> QED
    BY <1>1, <1>4, <1>5, <2>2 DEF MTHeld
<1>10. ASSUME t.alone PROVE mcpFile' = mcpFile /\ MTPlace(r, mcpFile', tmp')
  <2>1. t.handle = "tmp" /\ t.left # {} /\ \A y \in MT!Scopes : MTReady(t, y, mcpFile)
    BY <1>1, <1>10 DEF MTPlace
  <2>2. mcpFile' = mcpFile /\ tmp'[x] = n
    BY <1>1, <1>2, <2>1
  <2>3. \A y \in MT!Scopes : MTReady(r, y, mcpFile)
    BY <1>4, <2>1 DEF MTReady
  <2> QED
    BY <1>4, <1>5, <2>1, <2>2, <2>3 DEF MTPlace
<1>11. ~overlapped => MTWhole(mcpFile')
  BY <1>1, <1>10
<1> QED
  BY <1>1, <1>4, <1>6, <1>7, <1>8, <1>9, <1>10, <1>11, MTGoes

(***************************************************************************)
(* The rename gives the scope whatever is under the temporary name; the    *)
(* handles others have on it follow.                                       *)
(***************************************************************************)
LEMMA MTRenames ==
  ASSUME MTInv, NEW c \in TrustCallers, MT!renameTmp(c)
  PROVE  MTInv'
<1> DEFINE t == trustCall[c]
           x == MT!Saving(c)
           r == [t EXCEPT !.at = "open", !.left = @ \ {x}, !.handle = "none"]
           g == MT!Followed(x)
<1>1. /\ t \in MT!TrustCall /\ t.at = "rename" /\ t.left \subseteq MT!Scopes /\ t.list \in [MT!Scopes -> SUBSET Servers]
      /\ mcpFile \in [MT!Scopes -> MT!Files] /\ tmp \in [MT!Scopes -> MT!Files] /\ cleared \subseteq Servers
      /\ MTBare(mcpFile, cleared) /\ MTHeld(t, tmp, cleared) /\ overlapped \in BOOLEAN
      /\ (~overlapped => MTWhole(mcpFile) /\ t.alone)
      /\ t.alone => /\ MTPlace(t, mcpFile, tmp)
                    /\ \A d \in TrustCallers : d # c => trustCall[d].at = "idle"
      /\ UNCHANGED <<overlapped, cleared>> /\ trustCall' = [g EXCEPT ![c] = r]
      /\ tmp' = [tmp EXCEPT ![x] = MT!NoFile] /\ mcpFile' = [mcpFile EXCEPT ![x] = tmp[x]]
  BY MTKnown DEF MT!renameTmp
<1>2. x \in MT!Scopes /\ x = MTSaving(t) /\ (t.left # {} => x \in t.left)
  BY MTSaves
<1>3. /\ r \in MT!TrustCall /\ r.at = "open" /\ r.handle = "none" /\ r.left = t.left \ {x} /\ r.op = t.op
      /\ r.list = t.list /\ r.server = t.server /\ r.alone = t.alone
  BY <1>1 DEF MT!TrustCall, MT!TrustPlaces
<1>4. ASSUME NEW d \in TrustCallers
      PROVE  g[d] \in MT!TrustCall /\ (d # c => MTLike(g[d], trustCall[d]))
  <2>1. trustCall[d] \in MT!TrustCall
    BY MTKnown
  <2>2. d # c => MTLike(trustCall[d], trustCall[d])
    BY <1>1, MTOthers
  <2>3. g[d] = trustCall[d] \/ (trustCall[d].handle # "none"
            /\ g[d] = [trustCall[d] EXCEPT !.handle = IF @ = "tmp" THEN "file" ELSE "gone"])
    BY DEF MT!Followed
  <2> HIDE DEF g
  <2> QED
    BY <2>1, <2>2, <2>3 DEF MTLike, MT!TrustCall
<1>5. /\ mcpFile' \in [MT!Scopes -> MT!Files] /\ tmp' \in [MT!Scopes -> MT!Files]
      /\ mcpFile'[x] = tmp[x] /\ tmp'[x].servers = {}
      /\ \A y \in MT!Scopes : y # x => mcpFile'[y] = mcpFile[y] /\ tmp'[y] = tmp[y]
  BY <1>1, <1>2, MTFileTypes
<1>6. /\ trustCall' \in [TrustCallers -> MT!TrustCall] /\ trustCall'[c] = r
      /\ \A d \in TrustCallers : d # c => MTLike(trustCall'[d], trustCall[d])
  <2>1. DOMAIN g = TrustCallers
    BY DEF MT!Followed
  <2> HIDE DEF g, r
  <2> QED
    BY <1>1, <1>3, <1>4, <2>1
<1> HIDE DEF r, x, g
<1>7. MTBare(mcpFile', cleared')
  BY <1>1, <1>2, <1>5 DEF MTBare, MTHeld
<1>8. \A y \in MT!Scopes : tmp'[y] = tmp[y] \/ tmp'[y].servers \cap (cleared' \ Bundled) = {}
  BY <1>5
<1>9. MTHeld(r, tmp', cleared')
  BY <1>1, <1>3 DEF MTHeld
<1>10. ASSUME t.alone PROVE MTPlace(r, mcpFile', tmp') /\ (MTWhole(mcpFile) => MTWhole(mcpFile'))
  <2>1. /\ t.left # {} /\ \A y \in MT!Scopes : MTReady(t, y, mcpFile)
        /\ tmp[x] = MT!Listing(t.list[x])
    BY <1>1, <1>2, <1>10 DEF MTPlace
  <2>2. x \in t.left /\ t.list[x] \in SUBSET Servers
    BY <1>1, <1>2, <2>1
  <2>3. mcpFile'[x].servers = t.list[x] /\ mcpFile'[x].shape = "whole"
    BY <1>5, <2>1, <2>2, MTFileTypes
  <2>4. \A y \in MT!Scopes : MTReady(r, y, mcpFile')
    <3>1. MTReady(r, x, mcpFile')
      BY <1>2, <1>3, <2>1, <2>2, <2>3 DEF MTReady
    <3>2. \A y \in MT!Scopes : y # x => MTReady(r, y, mcpFile')
      BY <1>3, <1>5, <2>1 DEF MTReady
    <3> QED
      BY <3>1, <3>2
  <2>5. MTWhole(mcpFile) => MTWhole(mcpFile')
    BY <1>5, <2>3 DEF MTWhole
  <2> QED
    BY <1>3, <2>4, <2>5 DEF MTPlace
<1>11. /\ overlapped' \in BOOLEAN /\ overlapped' = overlapped /\ cleared' = cleared /\ cleared' \subseteq Servers
       /\ (~overlapped => MTWhole(mcpFile') /\ t.alone)
  BY <1>1, <1>10
<1>12. t.alone => \A d \in TrustCallers : d # c => trustCall[d].at = "idle"
  BY <1>1
<1>13. r \in MT!TrustCall /\ r.alone = t.alone
  BY <1>3
<1> QED
  BY <1>5, <1>6, <1>7, <1>8, <1>9, <1>10, <1>11, <1>12, <1>13, MTMoves

(***************************************************************************)
(* A call is over: reported, rejected, or cut short by a crash.            *)
(***************************************************************************)
LEMMA MTEnds ==
  ASSUME MTInv, NEW c \in TrustCallers, trustCall[c].at # "idle", MT!TrustEnds(c),
         UNCHANGED <<mcpFile, tmp, overlapped>>,
         \/ cleared' = cleared
         \/ /\ cleared' = cleared \cup {trustCall[c].server} /\ trustCall[c].op = "clear"
            /\ trustCall[c].at = "open" /\ trustCall[c].left = {} /\ trustCall[c].alone
  PROVE  MTInv'
<1>1. /\ mcpFile' \in [MT!Scopes -> MT!Files] /\ tmp' \in [MT!Scopes -> MT!Files] /\ cleared' \subseteq Servers
      /\ overlapped' \in BOOLEAN /\ overlapped' = overlapped /\ (~overlapped => MTWhole(mcpFile'))
  BY MTKnown
<1>2. /\ trustCall' \in [TrustCallers -> MT!TrustCall] /\ trustCall'[c] = MT!MTResting
      /\ \A d \in TrustCallers : d # c => trustCall'[d] = trustCall[d]
  BY MTKnown, MTRest DEF MT!TrustEnds
<1>3. MTBare(mcpFile', cleared')
  BY MTKnown DEF MTBare, MTPlace, MTReady
<1>4. MTHeld(MT!MTResting, tmp', cleared')
  BY MTRest, MTIdle
<1>5. cleared' \subseteq cleared \/ \A d \in TrustCallers : d # c => trustCall[d].at = "idle"
  BY MTKnown
<1>6. \A d \in TrustCallers : d # c => MTLike(trustCall'[d], trustCall[d])
  BY <1>2, MTOthers
<1>7. ~overlapped' => \A d \in TrustCallers : d # c => trustCall[d].at = "idle"
  BY MTOthers
<1> QED
  BY <1>1, <1>2, <1>3, <1>4, <1>5, <1>6, <1>7, MTRest, MTMoves

LEMMA MTNextInv == MTInv /\ [MT!MTNext]_mtVars => MTInv'
<1> SUFFICES ASSUME MTInv, [MT!MTNext]_mtVars PROVE MTInv'
  OBVIOUS
<1>1. ASSUME NEW c \in TrustCallers, NEW s \in Servers, MT!clearTrust(c, s) PROVE MTInv'
  <2> DEFINE r == [trustCall[c] EXCEPT !.op = "clear", !.server = s, !.left = {}, !.at = "load-global"]
  <2>1. /\ r \in MT!TrustCall /\ r.op = "clear" /\ r.left = {} /\ r.at = "load-global"
        /\ r.handle = trustCall[c].handle /\ r.list = trustCall[c].list
    BY MTKnown DEF MT!TrustCall, MT!TrustPlaces
  <2>2. MT!TrustBegins(c, r) /\ cleared' \subseteq cleared
    BY <1>1 DEF MT!clearTrust
  <2> HIDE DEF r
  <2> QED
    BY <2>1, <2>2, MTBegins
<1>2. ASSUME NEW c \in TrustCallers, NEW s \in Servers, NEW x \in MT!Scopes, MT!grantTrust(c, s, x)
      PROVE  MTInv'
  <2> DEFINE p == IF x = "project" THEN "project-trust" ELSE "load-global"
             r == [trustCall[c] EXCEPT !.op = "grant", !.server = s, !.scope = x, !.left = {x}, !.at = p]
  <2>1. p \in MT!TrustPlaces /\ p \in {"project-trust", "load-global"}
    BY DEF MT!TrustPlaces
  <2>2. MT!TrustBegins(c, r) /\ cleared' = cleared \ {s}
    BY <1>2 DEF MT!grantTrust
  <2> HIDE DEF p
  <2>3. /\ r \in MT!TrustCall /\ r.op = "grant" /\ r.at = p /\ r.server = s
        /\ r.handle = trustCall[c].handle /\ r.list = trustCall[c].list
    BY <2>1, MTKnown DEF MT!TrustCall
  <2> HIDE DEF r
  <2> QED
    BY <2>1, <2>2, <2>3, MTBegins
<1>3. ASSUME NEW c \in TrustCallers, MT!projectTrusted(c) PROVE MTInv'
  <2> DEFINE t == trustCall[c]
             r == [t EXCEPT !.at = "load-project"]
  <2>1. /\ t \in MT!TrustCall /\ t.at = "project-trust"
        /\ mcpFile \in [MT!Scopes -> MT!Files] /\ tmp \in [MT!Scopes -> MT!Files]
        /\ MTBare(mcpFile, cleared) /\ MTHeld(t, tmp, cleared) /\ (~overlapped => MTWhole(mcpFile))
        /\ t.alone => MTPlace(t, mcpFile, tmp)
        /\ UNCHANGED <<mcpFile, tmp, overlapped, cleared>> /\ MT!TrustStep(c, r)
    BY <1>3, MTKnown DEF MT!projectTrusted
  <2>2. /\ r \in MT!TrustCall /\ r.at = "load-project" /\ r.op = t.op /\ r.left = t.left /\ r.handle = t.handle
        /\ r.server = t.server /\ r.list = t.list /\ r.alone = t.alone
    BY <2>1 DEF MT!TrustCall, MT!TrustPlaces
  <2> HIDE DEF r
  <2>3. t.alone => MTPlace(r, mcpFile, tmp)
    <3> SUFFICES ASSUME t.alone PROVE MTPlace(r, mcpFile, tmp)
      OBVIOUS
    <3>1. t.op = "grant" /\ t.handle = "none"
      BY <2>1 DEF MTPlace
    <3> QED
      BY <2>2, <3>1 DEF MTPlace
  <2>4. MTHeld(r, tmp, cleared)
    BY <2>1, <2>2 DEF MTHeld
  <2> QED
    BY <2>1, <2>2, <2>3, <2>4, MTGoes
<1>4. ASSUME NEW c \in TrustCallers, MT!trustReports(c) PROVE MTInv'
  BY <1>4, MTEnds DEF MT!trustReports
<1>5. ASSUME NEW c \in TrustCallers, MT!trustFails(c) PROVE MTInv'
  BY <1>5, MTEnds DEF MT!trustFails, MT!TrustRejects, MT!TrustIdle
<1>6. CASE MT!mcpCrash
  <2>1. /\ \A c \in TrustCallers : trustCall'[c] = MT!MTResting
        /\ trustCall' \in [TrustCallers -> MT!TrustCall] /\ UNCHANGED <<mcpFile, tmp, overlapped, cleared>>
    BY <1>6, MTRest DEF MT!mcpCrash
  <2> QED
    BY <2>1, MTRest, MTIdle DEF MTInv, MT!MTTypeOK
<1>7. CASE UNCHANGED mtVars
  BY <1>7 DEF mtVars, MTInv, MT!MTTypeOK
<1> QED
  BY <1>1, <1>2, <1>3, <1>4, <1>5, <1>6, <1>7, MTLoads, MTOpens, MTWrites, MTRenames DEF MT!MTNext

-----------------------------------------------------------------------------
(***************************************************************************)
(* 5. What the runtime is told.  Once the token listeners have returned,   *)
(* and while a publish is under way and no further one is due, the         *)
(* snapshot is the state and those already called have it.                 *)
(***************************************************************************)
RCCounted(s) == /\ s.version <= written /\ s.turns <= written /\ s.total <= written
                /\ s.lastTurn <= written /\ s.errors <= written /\ s.warnings <= written

RCCurrent ==
  ~disposed /\ ~unscheduled /\ emitting = 0 =>
    /\ dirty \/ snapshot = state
    /\ ~timer /\ publishing = -1 => \A i \in 1..Len(subs) : seen[subs[i]] = state
    /\ ~timer /\ publishing # -1 => /\ ~dirty
                                    /\ \A i \in 1..publishing : seen[subs[i]] = state

RCInv ==
  /\ state \in RC!Snapshots /\ snapshot \in RC!Snapshots /\ RCCounted(state) /\ written \in 0..MaxWrites
  /\ dirty \in BOOLEAN /\ timer \in BOOLEAN /\ disposed \in BOOLEAN /\ unscheduled \in BOOLEAN
  /\ subs \in Seq(Listeners) /\ \A i, j \in 1..Len(subs) : subs[i] = subs[j] => i = j
  /\ publishing \in -1..Len(subs) /\ emitting \in 0..written
  /\ seen \in [Listeners -> RC!Snapshots]
  /\ RCCurrent

LEMMA PartNumbers ==
  MaxDeltas \in Nat /\ MaxKeys \in Nat /\ BufferSize \in Nat /\ MaxWrites \in Nat
  BY PartsAssumption

(***************************************************************************)
(* Parts of a sequence, and two put together.                              *)
(***************************************************************************)
LEMMA SeqParts ==
  ASSUME NEW S, NEW a \in Seq(S), NEW k \in 1..2, k <= Len(a) + 1
  PROVE  SubSeq(a, k, Len(a)) \in Seq(S) /\ Len(SubSeq(a, k, Len(a))) = Len(a) - k + 1
  OBVIOUS

LEMMA SeqFunction ==
  ASSUME NEW S, NEW a \in Seq(S) PROVE a \in [1..Len(a) -> S]
  OBVIOUS

LEMMA SeqConcat ==
  ASSUME NEW S, NEW p \in Seq(S), NEW q \in Seq(S)
  PROVE  /\ p \o q \in Seq(S) /\ Len(p \o q) = Len(p) + Len(q)
         /\ \A j \in 1..Len(p) : (p \o q)[j] = p[j]
         /\ \A j \in 1..(Len(p) + Len(q)) : j > Len(p) => (p \o q)[j] = q[j - Len(p)]
<1>1. p \o q \in Seq(S) /\ Len(p \o q) = Len(p) + Len(q)
  OBVIOUS
<1>2. \A j \in 1..Len(p) : (p \o q)[j] = p[j]
  OBVIOUS
<1>3. \A j \in 1..(Len(p) + Len(q)) : j > Len(p) => (p \o q)[j] = q[j - Len(p)]
  OBVIOUS
<1> QED
  BY <1>1, <1>2, <1>3

LEMMA SeqSkips ==
  ASSUME NEW S, NEW s \in Seq(S), NEW p \in Seq(S), NEW q \in Seq(S), NEW i \in 1..Len(s), NEW r \in Seq(S),
         \A j \in 1..(i - 1) : r[j] = p[j],
         \A j \in 1..(i - 1) : p[j] = s[j],
         \A j \in 1..(Len(s) - 1) : j > i - 1 => r[j] = q[j - (i - 1)],
         \A j \in 1..(Len(s) - i) : q[j] = s[i + j]
  PROVE  \A j \in 1..(Len(s) - 1) : r[j] = IF j < i THEN s[j] ELSE s[j + 1]
<1> SUFFICES ASSUME NEW j \in 1..(Len(s) - 1) PROVE r[j] = IF j < i THEN s[j] ELSE s[j + 1]
  OBVIOUS
<1>1. CASE j < i
  BY <1>1
<1>2. CASE ~(j < i)
  <2>1. j - (i - 1) \in 1..(Len(s) - i) /\ i + (j - (i - 1)) = j + 1 /\ j > i - 1
    BY <1>2
  <2>2. r[j] = q[j - (i - 1)]
    BY <2>1
  <2>3. q[j - (i - 1)] = s[i + (j - (i - 1))]
    BY <2>1
  <2> QED
    BY <1>2, <2>1, <2>2, <2>3
<1> QED
  BY <1>1, <1>2

(***************************************************************************)
(* The ring of diagnostics keeps its bound.                                *)
(***************************************************************************)
LEMMA RCRing ==
  ASSUME NEW n \in 0..BufferSize, NEW s \in [1..n -> RC!Levels], NEW v \in RC!Levels
  PROVE  RC!Ring(Append(s, v)) \in UNION {[1..m -> RC!Levels] : m \in 0..BufferSize}
<1> DEFINE a == Append(s, v)
           k == IF Len(a) > BufferSize THEN 2 ELSE 1
           t == SubSeq(a, k, Len(a))
<1>1. s \in Seq(RC!Levels) /\ Len(s) = n /\ n \in Nat /\ BufferSize \in Nat /\ n <= BufferSize
  BY PartNumbers
<1>2. a \in Seq(RC!Levels) /\ Len(a) = n + 1
  BY <1>1, RTAppend
<1>3. RC!Ring(a) = t
  <2>1. CASE Len(a) > BufferSize
    <3>1. Len(a) - BufferSize + 1 = 2
      BY <1>1, <1>2, <2>1
    <3> QED
      BY <2>1, <3>1 DEF RC!Ring
  <2>2. CASE ~(Len(a) > BufferSize)
    BY <2>2 DEF RC!Ring
  <2> QED
    BY <2>1, <2>2
<1> HIDE DEF a
<1>4. k \in 1..2 /\ k <= Len(a) + 1 /\ Len(a) - k + 1 \in 0..BufferSize
  BY <1>1, <1>2
<1> HIDE DEF k
<1>5. t \in Seq(RC!Levels) /\ Len(t) = Len(a) - k + 1
  BY <1>2, <1>4, SeqParts
<1> HIDE DEF t
<1>6. t \in [1..Len(t) -> RC!Levels] /\ Len(t) \in 0..BufferSize
  BY <1>4, <1>5, SeqFunction
<1> QED
  BY <1>3, <1>6 DEF a

LEMMA RCInitInv == RC!RCInit => RCInv
<1> SUFFICES ASSUME RC!RCInit PROVE RCInv
  OBVIOUS
<1> DEFINE e == RC!emptyRuntimeSnapshot
<1>1. /\ e.version = 0 /\ e.turns = 0 /\ e.total = 0 /\ e.lastTurn = 0 /\ e.errors = 0 /\ e.warnings = 0
  BY DEF RC!emptyRuntimeSnapshot
<1>2. e \in RC!Snapshots
  <2>1. 0 \in 0..MaxWrites /\ 0 \in 0..BufferSize
    BY PartNumbers
  <2>2. <<>> \in [1..0 -> RC!Levels]
    OBVIOUS
  <2>3. <<>> \in UNION {[1..n -> RC!Levels] : n \in 0..BufferSize}
    BY <2>1, <2>2
  <2> QED
    BY <2>1, <2>3 DEF RC!Snapshots, RC!emptyRuntimeSnapshot
<1> HIDE DEF e
<1>3. state = e /\ snapshot = e /\ written = 0 /\ subs = <<>> /\ publishing = -1
  BY DEF RC!RCInit, RC!initialState, e
<1>4. RCCounted(state)
  BY <1>1, <1>3 DEF RCCounted
<1>5. written \in 0..MaxWrites /\ publishing \in -1..Len(subs) /\ subs \in Seq(Listeners)
  BY <1>3, PartNumbers
<1>6. /\ dirty = FALSE /\ timer = FALSE /\ disposed = FALSE /\ unscheduled = FALSE /\ emitting = 0
      /\ seen = [l \in Listeners |-> e]
  BY DEF RC!RCInit, RC!initialState, e
<1>9. seen \in [Listeners -> RC!Snapshots] /\ emitting \in 0..written
  BY <1>2, <1>3, <1>6
<1>7. RCCurrent
  BY <1>3, <1>6 DEF RCCurrent
<1>8. \A i, j \in 1..Len(subs) : subs[i] = subs[j] => i = j
  BY <1>3
<1> QED
  BY <1>2, <1>3, <1>4, <1>5, <1>6, <1>7, <1>8, <1>9 DEF RCInv

(***************************************************************************)
(* A listener is removed.                                                  *)
(***************************************************************************)
LEMMA RCRemove ==
  ASSUME NEW S, NEW s \in Seq(S), NEW i \in 1..Len(s)
  PROVE  /\ RC!RemoveAt(s, i) \in Seq(S) /\ Len(RC!RemoveAt(s, i)) = Len(s) - 1
         /\ \A j \in 1..(Len(s) - 1) : RC!RemoveAt(s, i)[j] = IF j < i THEN s[j] ELSE s[j + 1]
<1> DEFINE p == SubSeq(s, 1, i - 1)
           q == SubSeq(s, i + 1, Len(s))
           r == p \o q
<1>1. p \in Seq(S) /\ Len(p) = i - 1 /\ \A j \in 1..(i - 1) : p[j] = s[j]
  OBVIOUS
<1>2. q \in Seq(S) /\ Len(q) = Len(s) - i /\ \A j \in 1..(Len(s) - i) : q[j] = s[i + j]
  OBVIOUS
<1>3. RC!RemoveAt(s, i) = r
  BY DEF RC!RemoveAt
<1> HIDE DEF p, q
<1>4. /\ r \in Seq(S) /\ Len(r) = Len(p) + Len(q)
      /\ \A j \in 1..Len(p) : r[j] = p[j]
      /\ \A j \in 1..(Len(p) + Len(q)) : j > Len(p) => r[j] = q[j - Len(p)]
  BY <1>1, <1>2, SeqConcat
<1> HIDE DEF r
<1>5. Len(p) + Len(q) = Len(s) - 1
  BY <1>1, <1>2
<1>6. /\ \A j \in 1..(i - 1) : r[j] = p[j]
      /\ \A j \in 1..(Len(s) - 1) : j > i - 1 => r[j] = q[j - (i - 1)]
  BY <1>1, <1>4, <1>5
<1>7. \A j \in 1..(Len(s) - 1) : r[j] = IF j < i THEN s[j] ELSE s[j + 1]
  BY <1>1, <1>2, <1>4, <1>6, SeqSkips
<1> QED
  BY <1>3, <1>4, <1>5, <1>7

(***************************************************************************)
(* A write: what it counts stays within the writes made.                   *)
(***************************************************************************)
LEMMA RCWrites ==
  ASSUME RCInv, written < MaxWrites, written' = written + 1,
         state' \in RC!Snapshots,
         /\ state'.version <= written + 1 /\ state'.turns <= written + 1 /\ state'.total <= written + 1
         /\ state'.lastTurn <= written + 1 /\ state'.errors <= written + 1 /\ state'.warnings <= written + 1,
         UNCHANGED <<disposed, subs, tokenSubs, publishing, seen, snapshot>>,
         \/ /\ IF disposed THEN UNCHANGED <<dirty, timer>> ELSE dirty' = TRUE /\ timer' = TRUE
            /\ unscheduled' = FALSE /\ emitting' = emitting
         \/ emitting' = emitting + 1 /\ UNCHANGED <<dirty, timer, unscheduled>>
  PROVE  RCInv'
<1>1. written' \in 0..MaxWrites /\ RCCounted(state)' /\ emitting' \in 0..written'
      /\ (emitting' = emitting \/ emitting' # 0)
  BY PartNumbers DEF RCInv, RCCounted
<1>2. dirty' \in BOOLEAN /\ timer' \in BOOLEAN /\ unscheduled' \in BOOLEAN
  BY DEF RCInv
<1>3. RCCurrent'
  BY <1>1 DEF RCCurrent
<1> QED
  BY <1>1, <1>2, <1>3 DEF RCInv

(***************************************************************************)
(* The token listeners of one addTokens are done.                          *)
(***************************************************************************)
LEMMA RCEmits ==
  ASSUME RCInv, RC!tokensEmitted \/ RC!tokenListenerThrows
  PROVE  RCInv'
<1>1. /\ emitting > 0 /\ emitting' = emitting - 1 /\ UNCHANGED <<state, written>>
      /\ UNCHANGED <<disposed, subs, tokenSubs, publishing, seen, snapshot>>
      /\ \/ IF disposed THEN UNCHANGED <<dirty, timer>> ELSE dirty' = TRUE /\ timer' = TRUE
         \/ unscheduled' = TRUE /\ UNCHANGED <<dirty, timer>>
      /\ unscheduled' \in BOOLEAN
  BY DEF RC!tokensEmitted, RC!tokenListenerThrows, RC!Schedules, RC!scheduleSnapshot, RC!KeepReaders
<1>2. emitting' \in 0..written'
  BY <1>1 DEF RCInv
<1>3. dirty' \in BOOLEAN /\ timer' \in BOOLEAN
  BY <1>1 DEF RCInv
<1>4. RCCurrent'
  BY <1>1 DEF RCCurrent
<1> QED
  BY <1>1, <1>2, <1>3, <1>4 DEF RCInv, RCCounted

LEMMA RCFields ==
  ASSUME RCInv, written < MaxWrites
  PROVE  /\ written + 1 \in 0..MaxWrites
         /\ state.version + 1 \in 0..(written + 1) /\ state.turns + 1 \in 0..(written + 1)
         /\ state.total + 1 \in 0..(written + 1) /\ state.lastTurn + 1 \in 0..(written + 1)
         /\ state.errors + 1 \in 0..(written + 1) /\ state.warnings + 1 \in 0..(written + 1)
         /\ state.version \in 0..(written + 1) /\ state.turns \in 0..(written + 1)
         /\ state.total \in 0..(written + 1) /\ state.lastTurn \in 0..(written + 1)
         /\ state.errors \in 0..(written + 1) /\ state.warnings \in 0..(written + 1)
         /\ 0..(written + 1) \subseteq 0..MaxWrites
<1>1. written \in 0..MaxWrites /\ MaxWrites \in Nat
  BY PartNumbers DEF RCInv
<1>2. /\ state.version \in 0..MaxWrites /\ state.turns \in 0..MaxWrites /\ state.total \in 0..MaxWrites
      /\ state.lastTurn \in 0..MaxWrites /\ state.errors \in 0..MaxWrites /\ state.warnings \in 0..MaxWrites
  BY DEF RCInv, RC!Snapshots
<1>3. /\ state.version <= written /\ state.turns <= written /\ state.total <= written
      /\ state.lastTurn <= written /\ state.errors <= written /\ state.warnings <= written
  BY DEF RCInv, RCCounted
<1>4. ASSUME NEW x \in 0..MaxWrites, x <= written
      PROVE  x \in 0..(written + 1) /\ x + 1 \in 0..(written + 1)
  BY <1>1, <1>4
<1>5. written + 1 \in 0..MaxWrites /\ 0..(written + 1) \subseteq 0..MaxWrites
  BY <1>1
<1> QED
  BY <1>2, <1>3, <1>4, <1>5

LEMMA RCWriteSteps ==
  ASSUME RCInv,
         \/ RC!replacesPart \/ RC!beginTurn \/ RC!addTokens
         \/ \E v \in RC!Levels : RC!pushDiagnostic(v)
  PROVE  RCInv'
<1>0. written < MaxWrites /\ written' = written + 1 /\ state \in RC!Snapshots
  BY DEF RC!replacesPart, RC!beginTurn, RC!addTokens, RC!pushDiagnostic, RC!Writes, RCInv
<1>1. /\ UNCHANGED <<disposed, subs, tokenSubs, publishing, seen, snapshot>>
      /\ \/ /\ IF disposed THEN UNCHANGED <<dirty, timer>> ELSE dirty' = TRUE /\ timer' = TRUE
            /\ unscheduled' = FALSE /\ emitting' = emitting
         \/ emitting' = emitting + 1 /\ UNCHANGED <<dirty, timer, unscheduled>>
  BY DEF RC!replacesPart, RC!beginTurn, RC!addTokens, RC!pushDiagnostic, RC!Schedules, RC!scheduleSnapshot,
         RC!KeepReaders
<1> DEFINE B == 0..(written + 1)
<1>2. /\ B \subseteq 0..MaxWrites /\ 0 \in B
      /\ state.version \in B /\ state.turns \in B /\ state.total \in B /\ state.lastTurn \in B
      /\ state.errors \in B /\ state.warnings \in B
      /\ state.version + 1 \in B /\ state.turns + 1 \in B /\ state.total + 1 \in B
      /\ state.lastTurn + 1 \in B /\ state.errors + 1 \in B /\ state.warnings + 1 \in B
  BY <1>0, RCFields DEF RCInv
<1> HIDE DEF B
<1>3. /\ state' \in RC!Snapshots
      /\ state'.version \in B /\ state'.turns \in B /\ state'.total \in B /\ state'.lastTurn \in B
      /\ state'.errors \in B /\ state'.warnings \in B
  <2>1. CASE RC!replacesPart
    BY <1>0, <1>2, <2>1 DEF RC!replacesPart, RC!Snapshots
  <2>2. CASE RC!beginTurn
    BY <1>0, <1>2, <2>2 DEF RC!beginTurn, RC!Snapshots
  <2>3. CASE RC!addTokens
    BY <1>0, <1>2, <2>3 DEF RC!addTokens, RC!Snapshots
  <2>4. ASSUME NEW v \in RC!Levels, RC!pushDiagnostic(v)
        PROVE  /\ state' \in RC!Snapshots
               /\ state'.version \in B /\ state'.turns \in B /\ state'.total \in B /\ state'.lastTurn \in B
               /\ state'.errors \in B /\ state'.warnings \in B
    <3> DEFINE e == IF v = "error" THEN state.errors + 1 ELSE state.errors
               w == IF v = "warn" THEN state.warnings + 1 ELSE state.warnings
               g == RC!Ring(Append(state.recent, v))
    <3>1. state' = [state EXCEPT !.recent = g, !.errors = e, !.warnings = w]
      BY <1>0, <2>4 DEF RC!pushDiagnostic, RC!Snapshots
    <3>2. e \in B /\ w \in B
      BY <1>2
    <3>3. g \in UNION {[1..m -> RC!Levels] : m \in 0..BufferSize}
      <4>1. PICK n \in 0..BufferSize : state.recent \in [1..n -> RC!Levels]
        BY <1>0 DEF RC!Snapshots
      <4> QED
        BY <4>1, RCRing
    <3> HIDE DEF e, w, g
    <3> QED
      BY <1>0, <1>2, <3>1, <3>2, <3>3 DEF RC!Snapshots
  <2> QED
    BY <2>1, <2>2, <2>3, <2>4
<1>4. /\ state'.version <= written + 1 /\ state'.turns <= written + 1 /\ state'.total <= written + 1
      /\ state'.lastTurn <= written + 1 /\ state'.errors <= written + 1 /\ state'.warnings <= written + 1
  BY <1>3 DEF B, RCInv
<1> QED
  BY <1>0, <1>1, <1>3, <1>4, RCWrites

(***************************************************************************)
(* Readers and listeners come, are called and go.                          *)
(***************************************************************************)
LEMMA RCPublishes ==
  ASSUME RCInv, RC!timerFires \/ RC!publish \/ RC!publishEnds \/ RC!getSnapshot \/ RC!dispose
  PROVE  RCInv'
<1>0. UNCHANGED <<state, emitting, unscheduled, written>>
  BY DEF RC!timerFires, RC!publish, RC!publishEnds, RC!getSnapshot, RC!dispose, RC!KeepState
<1>1. CASE RC!timerFires
  <2>1. publishing' \in -1..Len(subs)
    BY <1>1 DEF RC!timerFires, RCInv
  <2>2. RCCurrent'
    BY <1>0, <1>1 DEF RC!timerFires, RC!refreshSnapshot, RC!freezeSnapshot, RCInv, RCCurrent
  <2> QED
    BY <1>0, <1>1, <2>1, <2>2 DEF RC!timerFires, RC!refreshSnapshot, RC!freezeSnapshot, RCInv, RCCounted
<1>2. CASE RC!publish
  <2>1. /\ publishing \in 0..(Len(subs) - 1) /\ publishing' = publishing + 1
        /\ seen' = [seen EXCEPT ![subs[publishing + 1]] = snapshot]
        /\ UNCHANGED <<snapshot, dirty, timer, disposed, subs, tokenSubs>>
    BY <1>2 DEF RC!publish
  <2>2. publishing' \in -1..Len(subs) /\ publishing' # -1 /\ publishing # -1
    BY <2>1 DEF RCInv
  <2>3. subs[publishing + 1] \in Listeners
    BY <2>1 DEF RCInv
  <2>4. seen' \in [Listeners -> RC!Snapshots]
    BY <2>1, <2>3 DEF RCInv
  <2>5. RCCurrent'
    <3> SUFFICES ASSUME ~disposed, ~unscheduled, emitting = 0, ~timer
                 PROVE  ~dirty /\ snapshot = state /\ \A i \in 1..publishing' : seen'[subs[i]] = state
      BY <1>0, <2>1, <2>2 DEF RCInv, RCCurrent
    <3>1. ~dirty /\ snapshot = state /\ \A i \in 1..publishing : seen[subs[i]] = state
      BY <2>2 DEF RCInv, RCCurrent
    <3>2. ASSUME NEW i \in 1..publishing' PROVE seen'[subs[i]] = state
      <4>1. subs[i] \in Listeners
        BY <2>1 DEF RCInv
      <4>2. CASE i = publishing + 1
        BY <2>1, <2>3, <3>1, <4>2 DEF RCInv
      <4>3. CASE i \in 1..publishing
        BY <2>1, <2>3, <3>1, <4>1, <4>3 DEF RCInv
      <4> QED
        BY <2>1, <4>2, <4>3
    <3> QED
      BY <3>1, <3>2
  <2> QED
    BY <1>0, <2>1, <2>2, <2>4, <2>5 DEF RCInv, RCCounted
<1>3. CASE RC!publishEnds
  <2>1. /\ publishing = Len(subs) /\ publishing' = -1 /\ publishing # -1
        /\ UNCHANGED <<snapshot, dirty, timer, disposed, subs, tokenSubs, seen>>
    BY <1>3 DEF RC!publishEnds, RCInv
  <2>2. publishing' \in -1..Len(subs)
    BY <2>1 DEF RCInv
  <2>3. RCCurrent'
    BY <1>0, <2>1 DEF RCInv, RCCurrent
  <2> QED
    BY <1>0, <2>1, <2>2, <2>3 DEF RCInv, RCCounted
<1>4. CASE RC!getSnapshot
  <2>1. RCCurrent'
    BY <1>0, <1>4 DEF RC!getSnapshot, RC!refreshSnapshot, RC!freezeSnapshot, RCInv, RCCurrent
  <2> QED
    BY <1>0, <1>4, <2>1 DEF RC!getSnapshot, RC!refreshSnapshot, RC!freezeSnapshot, RCInv, RCCounted
<1>5. CASE RC!dispose
  <2>1. /\ disposed' = TRUE /\ subs' = <<>> /\ publishing' \in {-1, 0} /\ timer' = FALSE
        /\ UNCHANGED <<snapshot, dirty, seen>>
    BY <1>5 DEF RC!dispose
  <2>2. /\ subs' \in Seq(Listeners) /\ Len(subs') = 0 /\ publishing' \in -1..Len(subs')
    BY <2>1
  <2>3. \A i, j \in 1..Len(subs') : subs'[i] = subs'[j] => i = j
    BY <2>2
  <2> QED
    BY <1>0, <2>1, <2>2, <2>3 DEF RCInv, RCCounted, RCCurrent
<1> QED
  BY <1>1, <1>2, <1>3, <1>4, <1>5

LEMMA RCSubscribes ==
  ASSUME RCInv, NEW l \in Listeners, RC!subscribe(l) \/ RC!unsubscribe(l)
  PROVE  RCInv'
<1>0. /\ UNCHANGED <<state, emitting, unscheduled, written, snapshot, dirty, timer, disposed>>
      /\ subs \in Seq(Listeners) /\ Len(subs) \in Nat /\ publishing \in -1..Len(subs)
      /\ \A i \in 1..Len(subs) : subs[i] \in Listeners
      /\ seen \in [Listeners -> RC!Snapshots] /\ state \in RC!Snapshots
  BY DEF RC!subscribe, RC!unsubscribe, RC!KeepState, RCInv
<1>1. CASE RC!subscribe(l)
  <2> DEFINE t == Append(subs, l)
  <2>1. /\ subs' = t /\ publishing' = publishing /\ seen' = [seen EXCEPT ![l] = state]
        /\ \A i \in 1..Len(subs) : subs[i] # l
    BY <1>0, <1>1 DEF RC!subscribe, RC!ToSet
  <2>2. /\ t \in Seq(Listeners) /\ Len(t) = Len(subs) + 1 /\ t[Len(subs) + 1] = l
        /\ \A i \in 1..Len(subs) : t[i] = subs[i]
    BY <1>0, RTAppend
  <2> HIDE DEF t
  <2>3. \A i, j \in 1..Len(t) : t[i] = t[j] => i = j
    <3> SUFFICES ASSUME NEW i \in 1..Len(t), NEW j \in 1..Len(t), t[i] = t[j] PROVE i = j
      OBVIOUS
    <3>1. (i \in 1..Len(subs) \/ i = Len(subs) + 1) /\ (j \in 1..Len(subs) \/ j = Len(subs) + 1)
      BY <1>0, <2>2
    <3>2. CASE i \in 1..Len(subs) /\ j \in 1..Len(subs)
      BY <2>2, <3>2 DEF RCInv
    <3> QED
      BY <2>1, <2>2, <3>1, <3>2
  <2>4. publishing' \in -1..Len(t)
    BY <1>0, <2>1, <2>2
  <2>5. seen' \in [Listeners -> RC!Snapshots]
    BY <1>0, <2>1
  <2>6. \A i \in 1..Len(subs) : seen'[t[i]] = seen[subs[i]]
    BY <1>0, <2>1, <2>2
  <2>7. seen'[t[Len(subs) + 1]] = state
    BY <1>0, <2>1, <2>2
  <2>8. RCCurrent'
    <3> SUFFICES ASSUME ~disposed, ~unscheduled, emitting = 0
                 PROVE  /\ dirty \/ snapshot = state
                        /\ ~timer /\ publishing = -1 => \A i \in 1..Len(t) : seen'[t[i]] = state
                        /\ ~timer /\ publishing # -1 => /\ ~dirty
                                                        /\ \A i \in 1..publishing : seen'[t[i]] = state
      BY <1>0, <2>1 DEF RCCurrent
    <3>1. dirty \/ snapshot = state
      BY DEF RCInv, RCCurrent
    <3>2. ASSUME ~timer, publishing = -1, NEW i \in 1..Len(t) PROVE seen'[t[i]] = state
      <4>1. CASE i \in 1..Len(subs)
        BY <2>6, <3>2, <4>1 DEF RCInv, RCCurrent
      <4> QED
        BY <1>0, <2>2, <2>7, <4>1
    <3>3. ASSUME ~timer, publishing # -1 PROVE ~dirty /\ \A i \in 1..publishing : seen'[t[i]] = state
      <4>1. ~dirty /\ \A i \in 1..publishing : seen[subs[i]] = state
        BY <3>3 DEF RCInv, RCCurrent
      <4> QED
        BY <1>0, <2>6, <4>1
    <3> QED
      BY <3>1, <3>2, <3>3
  <2> QED
    BY <1>0, <2>1, <2>2, <2>3, <2>4, <2>5, <2>8 DEF RCInv, RCCounted
<1>2. CASE RC!unsubscribe(l)
  <2>1. PICK k \in 1..Len(subs) :
            /\ subs[k] = l /\ subs' = RC!RemoveAt(subs, k)
            /\ publishing' = IF k <= publishing THEN publishing - 1 ELSE publishing
    BY <1>0, <1>2 DEF RC!unsubscribe
  <2> DEFINE t == RC!RemoveAt(subs, k)
  <2>2. /\ t \in Seq(Listeners) /\ Len(t) = Len(subs) - 1 /\ Len(t) \in Nat
        /\ \A j \in 1..Len(t) : t[j] = IF j < k THEN subs[j] ELSE subs[j + 1]
    <3>1. /\ t \in Seq(Listeners) /\ Len(t) = Len(subs) - 1
          /\ \A j \in 1..(Len(subs) - 1) : t[j] = IF j < k THEN subs[j] ELSE subs[j + 1]
      BY <1>0, RCRemove
    <3> HIDE DEF t
    <3> QED
      BY <1>0, <3>1
  <2> HIDE DEF t
  <2>3. subs' = t /\ seen' = seen
    BY <1>2, <2>1 DEF t, RC!unsubscribe
  <2>4. \A i, j \in 1..Len(t) : t[i] = t[j] => i = j
    <3> SUFFICES ASSUME NEW i \in 1..Len(t), NEW j \in 1..Len(t), t[i] = t[j] PROVE i = j
      OBVIOUS
    <3> DEFINE a == IF i < k THEN i ELSE i + 1
               b == IF j < k THEN j ELSE j + 1
    <3>1. a \in 1..Len(subs) /\ b \in 1..Len(subs) /\ t[i] = subs[a] /\ t[j] = subs[b]
      BY <1>0, <2>2
    <3>2. a = b
      <4> HIDE DEF a, b
      <4> QED
        BY <3>1 DEF RCInv
    <3> QED
      BY <3>2
  <2>5. publishing' \in -1..Len(t)
    BY <1>0, <2>1, <2>2
  <2>6. \A i \in 1..Len(t) : \E j \in 1..Len(subs) : t[i] = subs[j] /\ (i <= publishing' => j <= publishing)
    <3> TAKE i \in 1..Len(t)
    <3>1. CASE i < k
      BY <1>0, <2>1, <2>2, <3>1
    <3>2. CASE ~(i < k)
      <4>1. i + 1 \in 1..Len(subs) /\ t[i] = subs[i + 1]
        BY <1>0, <2>2, <3>2
      <4>2. i <= publishing' => i + 1 <= publishing
        BY <1>0, <2>1, <2>2, <3>2
      <4> QED
        BY <4>1, <4>2
    <3> QED
      BY <3>1, <3>2
  <2>7. RCCurrent'
    <3> SUFFICES ASSUME ~disposed, ~unscheduled, emitting = 0
                 PROVE  /\ dirty \/ snapshot = state
                        /\ ~timer /\ publishing' = -1 => \A i \in 1..Len(t) : seen[t[i]] = state
                        /\ ~timer /\ publishing' # -1 => /\ ~dirty
                                                         /\ \A i \in 1..publishing' : seen[t[i]] = state
      BY <1>0, <2>3 DEF RCCurrent
    <3>0. (publishing = -1) <=> (publishing' = -1)
      BY <1>0, <2>1
    <3>1. dirty \/ snapshot = state
      BY DEF RCInv, RCCurrent
    <3>2. ASSUME ~timer, publishing' = -1, NEW i \in 1..Len(t) PROVE seen[t[i]] = state
      <4>1. \A j \in 1..Len(subs) : seen[subs[j]] = state
        BY <3>0, <3>2 DEF RCInv, RCCurrent
      <4> QED
        BY <2>6, <3>2, <4>1
    <3>3. ASSUME ~timer, publishing' # -1 PROVE ~dirty /\ \A i \in 1..publishing' : seen[t[i]] = state
      <4>1. ~dirty /\ \A j \in 1..publishing : seen[subs[j]] = state
        BY <3>0, <3>3 DEF RCInv, RCCurrent
      <4>2. ASSUME NEW i \in 1..publishing' PROVE seen[t[i]] = state
        <5>1. i \in 1..Len(t) /\ i <= publishing'
          BY <2>2, <2>5
        <5>2. PICK j \in 1..Len(subs) : t[i] = subs[j] /\ j <= publishing
          BY <2>6, <5>1
        <5>3. j \in 1..publishing
          BY <1>0, <5>2
        <5> QED
          BY <4>1, <5>2, <5>3
      <4> QED
        BY <4>1, <4>2
    <3> QED
      BY <3>1, <3>2, <3>3
  <2> QED
    BY <1>0, <2>2, <2>3, <2>4, <2>5, <2>7 DEF RCInv, RCCounted
<1> QED
  BY <1>1, <1>2

LEMMA RCNextInv == RCInv /\ [RC!RCNext]_collectorVars => RCInv'
<1> SUFFICES ASSUME RCInv, [RC!RCNext]_collectorVars PROVE RCInv'
  OBVIOUS
<1>1. ASSUME NEW l \in TokenListeners, RC!subscribeToTokens(l) \/ RC!unsubscribeFromTokens(l)
      PROVE  RCInv'
  BY <1>1 DEF RC!subscribeToTokens, RC!unsubscribeFromTokens, RC!KeepState, RCInv, RCCounted, RCCurrent
<1>2. CASE UNCHANGED collectorVars
  BY <1>2 DEF collectorVars, RCInv, RCCounted, RCCurrent
<1> QED
  BY <1>1, <1>2, RCWriteSteps, RCEmits, RCPublishes, RCSubscribes DEF RC!RCNext

(***************************************************************************)
(* Types, and current listeners.                                           *)
(***************************************************************************)
LEMMA RCKeeps == RCInv => RC!RCTypeOK /\ RC!ListenersAreCurrent
<1> SUFFICES ASSUME RCInv PROVE RC!RCTypeOK /\ RC!ListenersAreCurrent
  OBVIOUS
<1>1. subs \in Seq(Listeners) /\ DOMAIN subs = 1..Len(subs) /\ \A i \in 1..Len(subs) : subs[i] \in Listeners
  BY DEF RCInv
<1>2. RC!ToSet(subs) \subseteq Listeners
  BY <1>1 DEF RC!ToSet
<1>3. RC!IsInjective(subs)
  BY <1>1 DEF RC!IsInjective, RCInv
<1>4. RC!ListenersAreCurrent
  BY <1>1 DEF RC!ListenersAreCurrent, RC!ToSet, RCInv, RCCurrent
<1>5. emitting \in 0..MaxWrites
  BY PartNumbers DEF RCInv
<1> QED
  BY <1>2, <1>3, <1>4, <1>5 DEF RC!RCTypeOK, RCInv

-----------------------------------------------------------------------------
(***************************************************************************)
(* 6. The dialogs.  While nothing overlapped there is one reply at most,   *)
(* and it holds the state as it is, without its request.                   *)
(***************************************************************************)
TDUi == [dialogs : SUBSET Prompts, answered : SUBSET Prompts, pending : SUBSET Prompts]

TDReplies == [id : Prompts, n : Int, waits : BOOLEAN, state : TDUi]

TDAnswered(s, p) == [dialogs |-> s.dialogs \ {p}, answered |-> s.answered \cup {p}, pending |-> s.pending \ {p}]

TDAlone ==
  /\ ui.pending = {p \in Prompts : promise[p] = "open"}
  /\ \A p \in Prompts : accepted[p] = 0 \/ (accepted[p] = 1 /\ p \in ui.answered)
  /\ \A r \in replies : /\ r.state = TDAnswered(ui, r.id) /\ r.waits = (r.id \in ui.pending)
                        /\ r.id \notin ui.answered
  /\ \A r, q \in replies : r = q

TDInv ==
  /\ ui \in TDUi /\ life \in {"out", "in", "closing", "gone"} /\ listening \in BOOLEAN
  /\ promise \in [Prompts -> {"none", "open", "resolved", "rejected"}]
  /\ accepted \in [Prompts -> Nat] /\ replied \in Int /\ replies \subseteq TDReplies /\ raced \in BOOLEAN
  /\ ui.pending \subseteq ui.dialogs
  /\ \A r \in replies : r.state.pending \subseteq r.state.dialogs
  /\ life = "out" => replies = {} /\ ~listening /\ \A p \in Prompts : promise[p] = "none" /\ accepted[p] = 0
  /\ ~raced => TDAlone

LEMMA TDInitInv == TD!TDInit => TDInv
<1> SUFFICES ASSUME TD!TDInit PROVE TDInv
  OBVIOUS
<1>1. ui = [dialogs |-> {}, answered |-> {}, pending |-> {}]
  BY DEF TD!TDInit, TD!createInitialDialogState
<1>2. ui \in TDUi /\ ui.pending = {} /\ ui.dialogs = {}
  BY <1>1 DEF TDUi
<1>3. replies = {} /\ raced = FALSE /\ life = "out" /\ listening = FALSE /\ replied = 0
  BY DEF TD!TDInit
<1>4. /\ promise \in [Prompts -> {"none", "open", "resolved", "rejected"}]
      /\ \A p \in Prompts : promise[p] = "none"
  BY DEF TD!TDInit
<1>5. accepted \in [Prompts -> Nat] /\ \A p \in Prompts : accepted[p] = 0
  BY DEF TD!TDInit
<1>6. TDAlone
  BY <1>2, <1>3, <1>4, <1>5 DEF TDAlone
<1>7. /\ replies \subseteq TDReplies /\ replied \in Int
      /\ \A r \in replies : r.state.pending \subseteq r.state.dialogs
  BY <1>3
<1>8. ui.pending \subseteq ui.dialogs /\ life \in {"out", "in", "closing", "gone"}
  BY <1>2, <1>3
<1>9. listening \in BOOLEAN /\ raced \in BOOLEAN /\ ~listening
  BY <1>3
<1>10. life = "out" => replies = {} /\ ~listening /\ \A p \in Prompts : promise[p] = "none" /\ accepted[p] = 0
  BY <1>3, <1>4, <1>5, <1>9
<1> QED
  BY <1>2, <1>4, <1>5, <1>6, <1>7, <1>8, <1>9, <1>10 DEF TDInv

(***************************************************************************)
(* The states of the dialogs that operations make.                         *)
(***************************************************************************)
LEMMA TDStates ==
  ASSUME NEW s \in TDUi, NEW p \in Prompts, s.pending \subseteq s.dialogs
  PROVE  /\ \A w \in BOOLEAN : /\ TD!raiseDialog(s, p, w) \in TDUi
                                /\ TD!raiseDialog(s, p, w).dialogs = s.dialogs \cup {p}
                                /\ TD!raiseDialog(s, p, w).answered = s.answered
                                /\ TD!raiseDialog(s, p, w).pending = IF w THEN s.pending \cup {p} ELSE s.pending
         /\ TD!dismissDialog(s, p) \in TDUi
         /\ TD!dismissDialog(s, p).dialogs = s.dialogs \ {p}
         /\ TD!dismissDialog(s, p).answered = s.answered
         /\ TD!dismissDialog(s, p).pending = s.pending \ {p}
         /\ [TD!dismissDialog(s, p) EXCEPT !.answered = @ \cup {p}] = TDAnswered(s, p)
         /\ TDAnswered(s, p) \in TDUi
         /\ TDAnswered(s, p).pending \subseteq TDAnswered(s, p).dialogs
<1>0. /\ s = [dialogs |-> s.dialogs, answered |-> s.answered, pending |-> s.pending]
      /\ s.dialogs \in SUBSET Prompts /\ s.answered \in SUBSET Prompts /\ s.pending \in SUBSET Prompts
  BY DEF TDUi
<1>1. ASSUME NEW w \in BOOLEAN
      PROVE  /\ TD!raiseDialog(s, p, w) \in TDUi
             /\ TD!raiseDialog(s, p, w).dialogs = s.dialogs \cup {p}
             /\ TD!raiseDialog(s, p, w).answered = s.answered
             /\ TD!raiseDialog(s, p, w).pending = IF w THEN s.pending \cup {p} ELSE s.pending
  <2>1. s.dialogs \cup {p} \in SUBSET Prompts
    BY <1>0
  <2>2. (IF w THEN s.pending \cup {p} ELSE s.pending) \in SUBSET Prompts
    BY <1>0
  <2> QED
    BY <2>1, <2>2 DEF TD!raiseDialog, TDUi
<1>2. /\ TD!dismissDialog(s, p) \in TDUi
      /\ TD!dismissDialog(s, p).dialogs = s.dialogs \ {p}
      /\ TD!dismissDialog(s, p).answered = s.answered
      /\ TD!dismissDialog(s, p).pending = s.pending \ {p}
  <2>1. s.dialogs \ {p} \in SUBSET Prompts /\ s.pending \ {p} \in SUBSET Prompts
    BY <1>0
  <2> QED
    BY <2>1 DEF TD!dismissDialog, TDUi
<1>3. [TD!dismissDialog(s, p) EXCEPT !.answered = @ \cup {p}] = TDAnswered(s, p)
  <2> DEFINE d == TD!dismissDialog(s, p)
             e == [d EXCEPT !.answered = @ \cup {p}]
  <2>1. d \in TDUi /\ d.answered \cup {p} \in SUBSET Prompts
    BY <1>2 DEF TDUi
  <2> HIDE DEF d
  <2>2. /\ e \in TDUi /\ e.dialogs = d.dialogs /\ e.answered = d.answered \cup {p}
        /\ e.pending = d.pending
    BY <2>1 DEF TDUi
  <2> HIDE DEF e
  <2>3. e = [dialogs |-> e.dialogs, answered |-> e.answered, pending |-> e.pending]
    BY <2>2 DEF TDUi
  <2>4. e = TDAnswered(s, p)
    BY <1>2, <2>2, <2>3 DEF d, TDAnswered
  <2> QED
    BY <2>4 DEF e, d
<1>4. TDAnswered(s, p) \in TDUi /\ TDAnswered(s, p).pending \subseteq TDAnswered(s, p).dialogs
  <2>1. /\ s.dialogs \ {p} \in SUBSET Prompts /\ s.pending \ {p} \in SUBSET Prompts
        /\ s.answered \cup {p} \in SUBSET Prompts
    BY <1>0
  <2> QED
    BY <2>1 DEF TDAnswered, TDUi
<1> QED
  BY <1>1, <1>2, <1>3, <1>4

LEMMA TDRaises ==
  ASSUME TDInv, NEW p \in Prompts, TD!InteractionRaised(p) \/ TD!onInteraction(p)
  PROVE  TDInv'
<1>0. /\ ui \in TDUi /\ ui.pending \subseteq ui.dialogs /\ life # "out" /\ promise \in [Prompts -> {"none", "open", "resolved", "rejected"}]
      /\ UNCHANGED <<replies, accepted, replied, life, listening>> /\ raced' = (raced \/ replies # {})
  BY DEF TD!InteractionRaised, TD!onInteraction, TD!Rest, TD!Changes, TDInv
<1>1. CASE TD!InteractionRaised(p)
  <2>1. ui' = TD!raiseDialog(ui, p, FALSE) /\ promise' = promise
    BY <1>1 DEF TD!InteractionRaised, TD!Changes
  <2>2. /\ ui' \in TDUi /\ ui'.dialogs = ui.dialogs \cup {p} /\ ui'.answered = ui.answered
        /\ ui'.pending = ui.pending
    BY <1>0, <2>1, TDStates
  <2>3. TDAlone' \/ raced'
    BY <1>0, <2>1, <2>2 DEF TDInv, TDAlone
  <2> QED
    BY <1>0, <2>1, <2>2, <2>3 DEF TDInv
<1>2. CASE TD!onInteraction(p)
  <2>1. ui' = TD!raiseDialog(ui, p, TRUE) /\ promise' = [promise EXCEPT ![p] = "open"]
    BY <1>2 DEF TD!onInteraction, TD!Changes
  <2>2. /\ ui' \in TDUi /\ ui'.dialogs = ui.dialogs \cup {p} /\ ui'.answered = ui.answered
        /\ ui'.pending = ui.pending \cup {p}
    BY <1>0, <2>1, TDStates
  <2>3. /\ promise' \in [Prompts -> {"none", "open", "resolved", "rejected"}]
        /\ \A q \in Prompts : promise'[q] = IF q = p THEN "open" ELSE promise[q]
    BY <1>0, <2>1
  <2>4. TDAlone' \/ raced'
    <3> SUFFICES ASSUME ~raced, replies = {} PROVE TDAlone'
      BY <1>0 DEF TDInv
    <3>1. ui'.pending = {q \in Prompts : promise'[q] = "open"}
      BY <2>2, <2>3 DEF TDInv, TDAlone
    <3> QED
      BY <1>0, <2>2, <3>1 DEF TDInv, TDAlone
  <2> QED
    BY <1>0, <2>2, <2>3, <2>4 DEF TDInv
<1> QED
  BY <1>1, <1>2

(***************************************************************************)
(* A promise settles.                                                      *)
(***************************************************************************)
LEMMA TDSettles ==
  ASSUME NEW p \in Prompts, NEW how \in {"resolved", "rejected"}, TD!Settles(p, how),
         promise \in [Prompts -> {"none", "open", "resolved", "rejected"}]
  PROVE  /\ promise' \in [Prompts -> {"none", "open", "resolved", "rejected"}]
         /\ \A q \in Prompts : promise'[q] = "open" <=> promise[q] = "open" /\ q # p
  BY DEF TD!Settles

LEMMA TDAnsweredElsewhere ==
  ASSUME TDInv, NEW p \in Prompts, TD!InteractionAnswered(p)
  PROVE  TDInv'
<1>0. /\ ui \in TDUi /\ ui.pending \subseteq ui.dialogs /\ life # "out"
      /\ promise \in [Prompts -> {"none", "open", "resolved", "rejected"}]
      /\ UNCHANGED <<replies, accepted, replied, life, listening>> /\ raced' = (raced \/ replies # {})
      /\ ui' = TD!dismissDialog(ui, p)
  BY DEF TD!InteractionAnswered, TD!Rest, TD!Changes, TDInv
<1>1. /\ ui' \in TDUi /\ ui'.dialogs = ui.dialogs \ {p} /\ ui'.answered = ui.answered
      /\ ui'.pending = ui.pending \ {p}
  BY <1>0, TDStates
<1>2. promise' \in [Prompts -> {"none", "open", "resolved", "rejected"}]
  BY <1>0, TDSettles DEF TD!InteractionAnswered
<1>3. TDAlone' \/ raced'
  <2> SUFFICES ASSUME ~raced, replies = {} PROVE TDAlone'
    BY <1>0 DEF TDInv
  <2>1. ui.pending = {q \in Prompts : promise[q] = "open"}
    BY DEF TDInv, TDAlone
  <2>2. \A q \in Prompts : promise'[q] = "open" <=> promise[q] = "open" /\ q # p
    <3>1. CASE p \in ui.pending
      BY <1>0, <3>1, TDSettles DEF TD!InteractionAnswered
    <3>2. CASE p \notin ui.pending
      <4>1. promise' = promise /\ promise[p] # "open"
        BY <2>1, <3>2 DEF TD!InteractionAnswered
      <4> QED
        BY <4>1
    <3> QED
      BY <3>1, <3>2
  <2>3. ui'.pending = {q \in Prompts : promise'[q] = "open"}
    BY <1>1, <2>1, <2>2
  <2> QED
    BY <1>0, <1>1, <2>3 DEF TDInv, TDAlone
<1> QED
  BY <1>0, <1>1, <1>2, <1>3 DEF TDInv

LEMMA TDResponds ==
  ASSUME TDInv, NEW p \in Prompts, TD!respondInteraction(p)
  PROVE  TDInv'
<1> DEFINE q == [id |-> p, n |-> replied, waits |-> p \in ui.pending, state |-> TDAnswered(ui, p)]
<1>0. /\ ui \in TDUi /\ ui.pending \subseteq ui.dialogs /\ life # "out" /\ p \notin ui.answered
      /\ UNCHANGED <<ui, promise, accepted, life, listening>> /\ raced' = (raced \/ replies # {})
      /\ replied' = replied + 1 /\ replied \in Int /\ raced \in BOOLEAN /\ replies \subseteq TDReplies
  BY DEF TD!respondInteraction, TDInv
<1>1. TDAnswered(ui, p) \in TDUi /\ TDAnswered(ui, p).pending \subseteq TDAnswered(ui, p).dialogs
  BY <1>0, TDStates
<1>2. replies' = replies \cup {q}
  <2>1. [TD!dismissDialog(ui, p) EXCEPT !.answered = @ \cup {p}] = TDAnswered(ui, p)
    BY <1>0, TDStates
  <2> QED
    BY <2>1 DEF TD!respondInteraction
<1>3. q \in TDReplies /\ q.id = p /\ q.waits = (p \in ui.pending) /\ q.state = TDAnswered(ui, p)
  <2>1. (p \in ui.pending) \in BOOLEAN
    OBVIOUS
  <2> QED
    BY <1>0, <1>1, <2>1 DEF TDReplies
<1> HIDE DEF q
<1>4. replies' \subseteq TDReplies /\ replied' \in Int /\ raced' \in BOOLEAN
  BY <1>0, <1>2, <1>3
<1>5. \A r \in replies' : r.state.pending \subseteq r.state.dialogs
  BY <1>1, <1>2, <1>3 DEF TDInv
<1>6. TDAlone' \/ raced'
  <2> SUFFICES ASSUME ~raced, replies = {} PROVE TDAlone'
    BY <1>0 DEF TDInv
  <2>1. replies' = {q}
    BY <1>2
  <2> QED
    BY <1>0, <1>3, <2>1 DEF TDInv, TDAlone
<1> QED
  BY <1>0, <1>4, <1>5, <1>6 DEF TDInv

LEMMA TDResumes ==
  ASSUME TDInv, NEW r \in replies, TD!replyResumes(r)
  PROVE  TDInv'
<1>0. /\ r \in TDReplies /\ r.id \in Prompts /\ r.state \in TDUi /\ r.state.pending \subseteq r.state.dialogs
      /\ life # "out" /\ promise \in [Prompts -> {"none", "open", "resolved", "rejected"}]
      /\ UNCHANGED <<life, listening, replied, raced>> /\ ui' = r.state /\ replies' = replies \ {r}
      /\ accepted \in [Prompts -> Nat]
  BY DEF TD!replyResumes, TDInv, TDReplies
<1>1. promise' \in [Prompts -> {"none", "open", "resolved", "rejected"}]
  BY <1>0, TDSettles DEF TD!replyResumes
<1>2. /\ accepted' \in [Prompts -> Nat]
      /\ \A p \in Prompts : p # r.id => accepted'[p] = accepted[p]
      /\ accepted'[r.id] \in {accepted[r.id], accepted[r.id] + 1}
  <2>1. CASE life = "gone"
    BY <1>0, <2>1 DEF TD!replyResumes
  <2>2. CASE life # "gone"
    <3>1. accepted' = [accepted EXCEPT ![r.id] = @ + 1]
      BY <2>2 DEF TD!replyResumes
    <3> QED
      BY <1>0, <3>1
  <2> QED
    BY <2>1, <2>2
<1>3. TDAlone' \/ raced'
  <2> SUFFICES ASSUME ~raced PROVE TDAlone'
    BY <1>0 DEF TDInv
  <2>1. /\ ui.pending = {p \in Prompts : promise[p] = "open"} /\ replies = {r}
        /\ r.state = TDAnswered(ui, r.id) /\ r.waits = (r.id \in ui.pending) /\ r.id \notin ui.answered
        /\ \A p \in Prompts : accepted[p] = 0 \/ (accepted[p] = 1 /\ p \in ui.answered)
    BY DEF TDInv, TDAlone
  <2>2. ui'.pending = ui.pending \ {r.id} /\ ui'.answered = ui.answered \cup {r.id}
    BY <1>0, <2>1 DEF TDAnswered
  <2>3. \A p \in Prompts : promise'[p] = "open" <=> promise[p] = "open" /\ p # r.id
    <3>1. CASE r.waits
      BY <1>0, <3>1, TDSettles DEF TD!replyResumes
    <3>2. CASE ~r.waits
      <4>1. promise' = promise /\ promise[r.id] # "open"
        BY <1>0, <2>1, <3>2 DEF TD!replyResumes
      <4> QED
        BY <4>1
    <3> QED
      BY <3>1, <3>2
  <2>4. ui'.pending = {p \in Prompts : promise'[p] = "open"}
    BY <2>1, <2>2, <2>3
  <2>5. \A p \in Prompts : accepted'[p] = 0 \/ (accepted'[p] = 1 /\ p \in ui'.answered)
    <3> TAKE p \in Prompts
    <3>1. CASE p = r.id
      <4>1. accepted[r.id] = 0
        BY <1>0, <2>1
      <4> QED
        BY <1>2, <2>2, <3>1, <4>1
    <3>2. CASE p # r.id
      BY <1>2, <2>1, <2>2, <3>2
    <3> QED
      BY <3>1, <3>2
  <2>6. replies' = {}
    BY <1>0, <2>1
  <2> QED
    BY <2>4, <2>5, <2>6 DEF TDAlone
<1> QED
  BY <1>0, <1>1, <1>2, <1>3 DEF TDInv

LEMMA TDNextInv == TDInv /\ [TD!TDNext]_dialogVars => TDInv'
<1> SUFFICES ASSUME TDInv, [TD!TDNext]_dialogVars PROVE TDInv'
  OBVIOUS
<1>1. CASE TD!init
  <2>1. PICK answered \in SUBSET Prompts : ui' = [dialogs |-> {}, answered |-> answered, pending |-> {}]
    BY <1>1 DEF TD!init, TD!createInitialDialogState
  <2>2. ui' \in TDUi /\ ui'.pending = {} /\ ui'.dialogs = {}
    BY <2>1 DEF TDUi
  <2>3. /\ UNCHANGED <<listening, promise, raced, replies, accepted, replied>> /\ life' = "in"
        /\ replies = {} /\ \A p \in Prompts : promise[p] = "none" /\ accepted[p] = 0
    BY <1>1 DEF TD!init, TD!Rest, TDInv
  <2>4. TDAlone'
    BY <2>2, <2>3 DEF TDAlone
  <2> QED
    BY <2>2, <2>3, <2>4 DEF TDInv
<1>2. ASSUME TD!activate \/ TD!deactivate \/ TD!dispose \/ TD!disposeEnds \/ UNCHANGED dialogVars PROVE TDInv'
  <2>1. UNCHANGED <<ui, promise, raced, replies, accepted, replied>>
    BY <1>2 DEF TD!activate, TD!deactivate, TD!dispose, TD!disposeEnds, TD!Rest, dialogVars
  <2>2. /\ life' \in {"out", "in", "closing", "gone"} /\ listening' \in BOOLEAN
        /\ life' = "out" => life = "out" /\ ~listening'
    <3>1. CASE TD!activate \/ TD!deactivate
      BY <3>1 DEF TD!activate, TD!deactivate
    <3>2. CASE TD!dispose \/ TD!disposeEnds
      BY <3>2 DEF TD!dispose, TD!disposeEnds, TDInv
    <3>3. CASE UNCHANGED dialogVars
      BY <3>3 DEF dialogVars, TDInv
    <3> QED
      BY <1>2, <3>1, <3>2, <3>3
  <2>3. TDAlone => TDAlone'
    BY <2>1 DEF TDAlone
  <2> QED
    BY <2>1, <2>2, <2>3 DEF TDInv
<1> QED
  BY <1>1, <1>2, TDRaises, TDAnsweredElsewhere, TDResponds, TDResumes DEF TD!TDNext

(***************************************************************************)
(* Types, and what is pending has a dialog and a promise.                  *)
(***************************************************************************)
LEMMA TDKeeps == TDInv => TD!TDTypeOK /\ TD!PromptsStayAnswerable
<1> SUFFICES ASSUME TDInv PROVE TD!TDTypeOK /\ TD!PromptsStayAnswerable
  OBVIOUS
<1>1. TD!TDTypeOK
  BY DEF TDInv, TDUi, TD!TDTypeOK
<1>2. ~raced => \A p \in Prompts : accepted[p] <= 1
  BY DEF TDInv, TDAlone
<1>3. TD!PromptsStayAnswerable
  BY <1>2 DEF TDInv, TDAlone, TD!PromptsStayAnswerable
<1> QED
  BY <1>1, <1>3

-----------------------------------------------------------------------------
(***************************************************************************)
(* 7. The transcript: the types of what the screen and the queue hold.     *)
(***************************************************************************)
TTDepth(s) == "depth" \in DOMAIN s /\ s.depth \in Nat

TTQueue(S) == [values : Seq(S), waits : BOOLEAN]

TTInv ==
  /\ turn \in {"waiting", "requesting", "streaming", "calling", "running", "failed", "ended"}
  /\ palette \in [size : 0..2, selected : 0..1] /\ dialog \in {"none", "approval", "select"}
  /\ TTDepth(shown)
  /\ \E S : queue \in TTQueue(S)

LEMMA TTInitInv == TT!TTInit => TTInv
<1> SUFFICES ASSUME TT!TTInit PROVE TTInv
  OBVIOUS
<1>1. TTDepth(shown)
  BY DEF TT!TTInit, TTDepth
<1>2. queue \in TTQueue({})
  BY DEF TT!TTInit, TT!NewQueue, TTQueue
<1>3. palette \in [size : 0..2, selected : 0..1]
  BY DEF TT!TTInit, TT!Closed
<1>4. turn = "waiting" /\ dialog = "none"
  BY DEF TT!TTInit
<1> QED
  BY <1>1, <1>2, <1>3, <1>4 DEF TTInv

(***************************************************************************)
(* What the renderer does to the screen leaves the hint of the queue.      *)
(***************************************************************************)
LEMMA TTScreens ==
  ASSUME NEW s, TTDepth(s)
  PROVE  /\ \A v : /\ TTDepth([s EXCEPT !.items = v]) /\ TTDepth([s EXCEPT !.draft = v])
                   /\ TTDepth([s EXCEPT !.thinking = v]) /\ TTDepth([s EXCEPT !.cards = v])
                   /\ TTDepth([s EXCEPT !.busy = v])
         /\ \A v \in Nat : TTDepth([s EXCEPT !.depth = v])
         /\ \A w : \A v \in Nat : TTDepth([s EXCEPT !.busy = w, !.depth = v])
         /\ \A v, w : /\ TTDepth([s EXCEPT !.items = v, !.thinking = w])
                      /\ TTDepth([s EXCEPT !.items = v, !.draft = w])
                      /\ TTDepth([s EXCEPT !.cards = v, !.items = w])
<1>1. \A v : /\ TTDepth([s EXCEPT !.items = v]) /\ TTDepth([s EXCEPT !.draft = v])
            /\ TTDepth([s EXCEPT !.thinking = v]) /\ TTDepth([s EXCEPT !.cards = v])
            /\ TTDepth([s EXCEPT !.busy = v])
  BY DEF TTDepth
<1>2. \A v \in Nat : TTDepth([s EXCEPT !.depth = v])
  BY DEF TTDepth
<1>3. \A w : \A v \in Nat : TTDepth([s EXCEPT !.busy = w, !.depth = v])
  BY DEF TTDepth
<1>4. \A v, w : /\ TTDepth([s EXCEPT !.items = v, !.thinking = w])
               /\ TTDepth([s EXCEPT !.items = v, !.draft = w])
               /\ TTDepth([s EXCEPT !.cards = v, !.items = w])
  BY DEF TTDepth
<1> QED
  BY <1>1, <1>2, <1>3, <1>4

LEMMA TTFlushes == ASSUME NEW s, TTDepth(s) PROVE TTDepth(TT!flushThinkingDraft(s))
  BY TTScreens DEF TT!flushThinkingDraft

LEMMA TTCommits == ASSUME NEW s, TTDepth(s) PROVE TTDepth(TT!commitAssistantDraft(s))
  BY TTScreens, TTFlushes DEF TT!commitAssistantDraft

LEMMA TTCards ==
  ASSUME NEW s, TTDepth(s), NEW c
  PROVE  TTDepth(TT!pushRunningToolCard(s, c)) /\ TTDepth(TT!commitToolCard(s, c))
<1>1. TTDepth(TT!pushRunningToolCard(s, c))
  BY TTScreens, TTFlushes DEF TT!pushRunningToolCard
<1>2. TTDepth(TT!commitToolCard(s, c))
  BY TTScreens DEF TT!commitToolCard
<1> QED
  BY <1>1, <1>2

LEMMA TTQueues ==
  ASSUME NEW S, NEW q \in TTQueue(S)
  PROVE  /\ \A w \in BOOLEAN : [q EXCEPT !.waits = w] \in TTQueue(S)
         /\ Len(q.values) \in Nat
         /\ q.values # <<>> => /\ [q EXCEPT !.values = Tail(@)] \in TTQueue(S)
                              /\ Len(q.values) - 1 \in Nat
         /\ \A x : \E T : [q EXCEPT !.values = Append(@, x)] \in TTQueue(T)
<1>1. \A w \in BOOLEAN : [q EXCEPT !.waits = w] \in TTQueue(S)
  BY DEF TTQueue
<1>2. Len(q.values) \in Nat /\ q.values \in Seq(S)
  BY DEF TTQueue
<1>3. q.values # <<>> => /\ [q EXCEPT !.values = Tail(@)] \in TTQueue(S)
                         /\ Len(q.values) - 1 \in Nat
  BY <1>2 DEF TTQueue
<1>4. ASSUME NEW x PROVE \E T : [q EXCEPT !.values = Append(@, x)] \in TTQueue(T)
  <2>1. q.values \in Seq(S \cup {x})
    BY <1>2
  <2>2. Append(q.values, x) \in Seq(S \cup {x})
    BY <2>1
  <2>3. [q EXCEPT !.values = Append(@, x)] \in TTQueue(S \cup {x})
    BY <2>1, <2>2 DEF TTQueue
  <2> QED
    BY <2>3
<1> QED
  BY <1>1, <1>2, <1>3, <1>4

(***************************************************************************)
(* What is streamed and what the calls do.                                 *)
(***************************************************************************)
LEMMA TTRendered ==
  ASSUME TTInv, NEW s, NEW o, TTDepth(s), TT!Renders(s, o) PROVE TTDepth(shown)'
  BY DEF TT!Renders, TTInv, TTDepth

LEMMA TTStreams ==
  ASSUME TTInv,
         \/ TT!ProviderRequestStarted \/ TT!ProviderReasoningStreamed \/ TT!ToolInvocationProposed
         \/ TT!renderTurnError \/ \E b \in BOOLEAN : TT!ProviderTokensStreamed(b)
         \/ \E n \in {"calling", "failed", "ended"} : TT!ProviderRequestEnded(n)
  PROVE  TTInv'
<1>0. UNCHANGED <<palette, queue, dialog>> /\ TTDepth(shown)
  BY DEF TT!ProviderRequestStarted, TT!ProviderReasoningStreamed, TT!ToolInvocationProposed, TT!renderTurnError,
         TT!ProviderTokensStreamed, TT!ProviderRequestEnded, TT!KeepInput, TTInv
<1>1. turn' \in {"waiting", "requesting", "streaming", "calling", "running", "failed", "ended"}
  BY DEF TT!ProviderRequestStarted, TT!ProviderReasoningStreamed, TT!ToolInvocationProposed, TT!renderTurnError,
         TT!ProviderTokensStreamed, TT!ProviderRequestEnded, TTInv
<1>2. TTDepth(shown)'
  <2>1. CASE TT!ProviderRequestStarted
    <3>1. TTDepth(TT!flushThinkingDraft([shown EXCEPT !.draft = <<>>]))
      BY <1>0, TTScreens, TTFlushes
    <3> QED
      BY <2>1, <3>1, TTRendered DEF TT!ProviderRequestStarted
  <2>2. CASE TT!ProviderReasoningStreamed
    <3>1. \A v : TTDepth([shown EXCEPT !.thinking = v])
      BY <1>0, TTScreens
    <3> QED
      BY <2>2, <3>1, TTRendered DEF TT!ProviderReasoningStreamed
  <2>3. CASE TT!ToolInvocationProposed
    BY <1>0, <2>3 DEF TT!ToolInvocationProposed, TTDepth
  <2>4. CASE TT!renderTurnError
    <3>1. \A v : TTDepth([shown EXCEPT !.items = v])
      BY <1>0, TTScreens
    <3> QED
      BY <2>4, <3>1, TTRendered DEF TT!renderTurnError
  <2>5. ASSUME NEW b \in BOOLEAN, TT!ProviderTokensStreamed(b) PROVE TTDepth(shown)'
    <3>1. \A v : TTDepth(TT!flushThinkingDraft([shown EXCEPT !.draft = v]))
      BY <1>0, TTScreens, TTFlushes
    <3> QED
      BY <2>5, <3>1, TTRendered DEF TT!ProviderTokensStreamed
  <2>6. ASSUME NEW n, TT!ProviderRequestEnded(n) PROVE TTDepth(shown)'
    <3>1. TTDepth(TT!commitAssistantDraft(shown))
      BY <1>0, TTCommits
    <3> QED
      BY <2>6, <3>1, TTRendered DEF TT!ProviderRequestEnded
  <2> QED
    BY <2>1, <2>2, <2>3, <2>4, <2>5, <2>6
<1> QED
  BY <1>0, <1>1, <1>2 DEF TTInv

LEMMA TTCalls ==
  ASSUME TTInv,
         \/ TT!toolThrows \/ TT!raisesSelect \/ TT!nextRequest \/ TT!decides
         \/ \E c \in CallIds : \/ TT!requestApproval(c) \/ TT!ToolInvocationStarted(c)
                              \/ TT!ToolInvocationEnded(c)
  PROVE  TTInv'
<1>0. UNCHANGED <<palette, queue>> /\ TTDepth(shown)
  BY DEF TT!toolThrows, TT!raisesSelect, TT!nextRequest, TT!decides, TT!requestApproval,
         TT!ToolInvocationStarted, TT!ToolInvocationEnded, TT!KeepInput, TTInv
<1>1. /\ turn' \in {"waiting", "requesting", "streaming", "calling", "running", "failed", "ended"}
      /\ dialog' \in {"none", "approval", "select"}
  BY DEF TT!toolThrows, TT!raisesSelect, TT!nextRequest, TT!decides, TT!requestApproval,
         TT!ToolInvocationStarted, TT!ToolInvocationEnded, TTInv
<1>2. TTDepth(shown)'
  <2>1. CASE UNCHANGED shown
    BY <1>0, <2>1 DEF TTDepth
  <2>2. ASSUME NEW c, TT!ToolInvocationStarted(c) \/ TT!ToolInvocationEnded(c) PROVE TTDepth(shown)'
    <3>1. TTDepth(TT!pushRunningToolCard(shown, c)) /\ TTDepth(TT!commitToolCard(shown, c))
      BY <1>0, TTCards
    <3>2. \E s, o : TTDepth(s) /\ TT!Renders(s, o)
      BY <2>2, <3>1 DEF TT!ToolInvocationStarted, TT!ToolInvocationEnded
    <3> QED
      BY <3>2, TTRendered
  <2> QED
    BY <2>1, <2>2 DEF TT!toolThrows, TT!raisesSelect, TT!nextRequest, TT!decides, TT!requestApproval
<1> QED
  BY <1>0, <1>1, <1>2 DEF TTInv

(***************************************************************************)
(* What the user types, and the lines that reach the loop.                 *)
(***************************************************************************)
LEMMA TTTypes ==
  ASSUME TTInv,
         \/ TT!deletes \/ TT!completes \/ \E n \in 0..1 : TT!movesSelection(n)
         \/ \E chunk \in {"/", "x"}, paste \in BOOLEAN : TT!types(chunk, paste)
  PROVE  TTInv'
<1>0. UNCHANGED <<turn, shown, dialog, queue>>
  BY DEF TT!deletes, TT!completes, TT!movesSelection, TT!types, TT!Typing
<1>1. \A rs : TT!refreshDisplay(rs) => palette' \in [size : 0..2, selected : 0..1]
  <2> SUFFICES ASSUME NEW rs, TT!refreshDisplay(rs) PROVE palette' \in [size : 0..2, selected : 0..1]
    OBVIOUS
  <2> DEFINE d == TT!Display(rs)
  <2>1. TT!Matches(d) \in 0..2
    BY DEF TT!Matches
  <2> HIDE DEF d
  <2>2. palette' = IF TT!Matches(d) = palette.size THEN palette ELSE [size |-> TT!Matches(d), selected |-> 0]
    BY DEF TT!refreshDisplay, d
  <2> QED
    BY <2>1, <2>2 DEF TTInv
<1>2. palette' \in [size : 0..2, selected : 0..1]
  <2>1. ASSUME NEW n \in 0..1, TT!movesSelection(n) PROVE palette' \in [size : 0..2, selected : 0..1]
    BY <2>1 DEF TT!movesSelection, TTInv
  <2> QED
    BY <1>1, <2>1 DEF TT!deletes, TT!completes, TT!types
<1> QED
  BY <1>0, <1>2 DEF TTInv, TTDepth

LEMMA TTResolves ==
  ASSUME TTInv, NEW s, TTDepth(s), NEW x, TT!resolveNext(s, x)
  PROVE  /\ TTDepth(shown)' /\ (\E T : queue' \in TTQueue(T))
         /\ turn' \in {"waiting", "requesting", "streaming", "calling", "running", "failed", "ended"}
<1>1. PICK S : queue \in TTQueue(S)
  BY DEF TTInv
<1>2. /\ FALSE \in BOOLEAN
      /\ [queue EXCEPT !.waits = FALSE] \in TTQueue(S) /\ Len(queue.values) \in Nat
      /\ \E T : [queue EXCEPT !.values = Append(@, x)] \in TTQueue(T)
  BY <1>1, TTQueues
<1>3. CASE queue.waits
  <2>1. queue' = [queue EXCEPT !.waits = FALSE] /\ turn' = TT!Turn(x) /\ shown' = [s EXCEPT !.busy = TRUE]
    BY <1>3 DEF TT!resolveNext
  <2>2. TTDepth([s EXCEPT !.busy = TRUE])
    BY TTScreens
  <2>3. TT!Turn(x) \in {"ended", "requesting"}
    BY DEF TT!Turn
  <2> QED
    BY <1>2, <2>1, <2>2, <2>3 DEF TTDepth
<1>4. CASE ~queue.waits
  <2>1. /\ queue' = [queue EXCEPT !.values = Append(@, x)] /\ turn' = turn
        /\ shown' = [s EXCEPT !.depth = Len(queue.values) + 1]
    BY <1>4 DEF TT!resolveNext
  <2>2. TTDepth([s EXCEPT !.depth = Len(queue.values) + 1])
    <3>1. Len(queue.values) + 1 \in Nat
      BY <1>2
    <3> QED
      BY <3>1, TTScreens
  <2> QED
    BY <1>2, <2>1, <2>2 DEF TTInv, TTDepth
<1> QED
  BY <1>3, <1>4

LEMMA TTLines ==
  ASSUME TTInv,
         \/ TT!awaitNextInput \/ TT!submit
         \/ \E x \in {<<"x">>, <<"/", "x">>} : TT!promptsConsole(x)
  PROVE  TTInv'
<1>1. PICK S : queue \in TTQueue(S)
  BY DEF TTInv
<1>2. TTDepth(shown)
  BY DEF TTInv
<1>3. \A x : TT!Turn(x) \in {"ended", "requesting"}
  BY DEF TT!Turn
<1>4. CASE TT!awaitNextInput
  <2>0. UNCHANGED <<palette, dialog>>
    BY <1>4 DEF TT!awaitNextInput
  <2>1. CASE queue.values = <<>>
    <3>1. turn' = "waiting" /\ queue' = [queue EXCEPT !.waits = TRUE] /\ shown' = [shown EXCEPT !.busy = FALSE]
      BY <1>4, <2>1 DEF TT!awaitNextInput
    <3>2. [queue EXCEPT !.waits = TRUE] \in TTQueue(S) /\ TTDepth([shown EXCEPT !.busy = FALSE])
      BY <1>1, <1>2, TTQueues, TTScreens
    <3> QED
      BY <2>0, <3>1, <3>2 DEF TTInv, TTDepth
  <2>2. CASE queue.values # <<>>
    <3>1. /\ turn' = TT!Turn(Head(queue.values)) /\ queue' = [queue EXCEPT !.values = Tail(@)]
          /\ shown' = [shown EXCEPT !.busy = TRUE, !.depth = Len(queue.values) - 1]
      BY <1>4, <2>2 DEF TT!awaitNextInput
    <3>2. [queue EXCEPT !.values = Tail(@)] \in TTQueue(S) /\ Len(queue.values) - 1 \in Nat
      BY <1>1, <2>2, TTQueues
    <3>3. TTDepth([shown EXCEPT !.busy = TRUE, !.depth = Len(queue.values) - 1])
      BY <1>2, <3>2, TTScreens
    <3> QED
      BY <1>3, <2>0, <3>1, <3>2, <3>3 DEF TTInv, TTDepth
  <2> QED
    BY <2>1, <2>2
<1>5. CASE TT!submit
  <2>1. dialog' = dialog /\ palette' = [size |-> 0, selected |-> 0]
    BY <1>5 DEF TT!submit, TT!Closed
  <2>2. \E s : TTDepth(s) /\ TT!resolveNext(s, TT!Line)
    <3>1. \A v : TTDepth([shown EXCEPT !.items = v])
      BY <1>2, TTScreens
    <3>2. TT!resolveNext(IF TT!Line = <<>> \/ TT!IsCommand(TT!Line) THEN shown
                         ELSE [shown EXCEPT !.items = Append(@, TT!Item("user", TT!Line))], TT!Line)
      BY <1>5 DEF TT!submit
    <3>3. TTDepth(IF TT!Line = <<>> \/ TT!IsCommand(TT!Line) THEN shown
                  ELSE [shown EXCEPT !.items = Append(@, TT!Item("user", TT!Line))])
      BY <1>2, <3>1
    <3> QED
      BY <3>2, <3>3
  <2>3. /\ TTDepth(shown)' /\ (\E T : queue' \in TTQueue(T))
        /\ turn' \in {"waiting", "requesting", "streaming", "calling", "running", "failed", "ended"}
    BY <2>2, TTResolves
  <2>4. palette' \in [size : 0..2, selected : 0..1]
    BY <2>1
  <2> QED
    BY <2>1, <2>3, <2>4 DEF TTInv
<1>6. ASSUME NEW x, TT!promptsConsole(x) PROVE TTInv'
  <2>1. /\ turn' = TT!Turn(x) /\ queue' = [queue EXCEPT !.waits = FALSE]
        /\ UNCHANGED <<palette, dialog, shown>>
    BY <1>6 DEF TT!promptsConsole
  <2>2. [queue EXCEPT !.waits = FALSE] \in TTQueue(S)
    BY <1>1, TTQueues
  <2> QED
    BY <1>3, <2>1, <2>2 DEF TTInv, TTDepth
<1> QED
  BY <1>4, <1>5, <1>6

LEMMA TTNextInv == TTInv /\ [TT!TTNext]_tuiVars => TTInv'
<1> SUFFICES ASSUME TTInv, [TT!TTNext]_tuiVars PROVE TTInv'
  OBVIOUS
<1>1. CASE UNCHANGED tuiVars
  BY <1>1 DEF tuiVars, TTInv, TTDepth
<1>2. CASE TT!TTNext
  BY <1>2, TTStreams, TTCalls, TTTypes, TTLines DEF TT!TTNext
<1> QED
  BY <1>1, <1>2

-----------------------------------------------------------------------------
(***************************************************************************)
(* 8. All the parts.  The parts that a behaviour does not explore keep     *)
(* their initial state, and with it their invariant.                       *)
(***************************************************************************)
PartsInv == part \in Parts /\ IInv /\ RTInv /\ TSInv /\ MTInv /\ TTInv /\ TDInv /\ RCInv

LEMMA PartsInit == MCInit => PartsInv
  BY InitInv, RTInitInv, TSInitInv, MTInitInv, TTInitInv, TDInitInv, RCInitInv DEF MCInit, PartsInv

LEMMA PartsStep ==
  [MCNext]_allVars =>
    /\ UNCHANGED part
    /\ [Next]_vars /\ [RT!TRNext]_routeVars /\ [TS!TSNext]_tsVars /\ [MT!MTNext]_mtVars
    /\ [TT!TTNext]_tuiVars /\ [TD!TDNext]_dialogVars /\ [RC!RCNext]_collectorVars
<1>1. CASE UNCHANGED allVars
  BY <1>1 DEF allVars
<1>2. CASE MCNext
  BY <1>2 DEF MCNext
<1> QED
  BY <1>1, <1>2

LEMMA PartsNext == PartsInv /\ [MCNext]_allVars => PartsInv'
  BY PartsStep, NextInv, RTNextInv, TSNextInv, MTNextInv, TTNextInv, TDNextInv, RCNextInv DEF PartsInv

LEMMA PartsInductive == MCSpec => []PartsInv
  BY PartsInit, PartsNext, PTL DEF MCSpec

(***************************************************************************)
(* Every variable of every part keeps its type, the ring of diagnostics    *)
(* its bound among them.                                                   *)
(***************************************************************************)
THEOREM PartsTypes == MCSpec => []TypesOK
<1>1. PartsInv => TypesOK
  <2> SUFFICES ASSUME PartsInv PROVE TypesOK
    OBVIOUS
  <2>1. TypeOK
    BY DEF PartsInv, IInv
  <2>2. RT!TRTypeOK
    BY DEF PartsInv, RTInv
  <2>3. TS!TSTypeOK
    BY DEF PartsInv, TSInv
  <2>4. MT!MTTypeOK
    BY DEF PartsInv, MTInv
  <2>5. TT!TTTypeOK
    BY DEF PartsInv, TTInv, TTDepth, TT!TTTypeOK
  <2>6. TD!TDTypeOK
    BY TDKeeps DEF PartsInv
  <2>7. RC!RCTypeOK
    BY RCKeeps DEF PartsInv
  <2>8. part \in {"approval stack", "tool routing", "project trust", "mcp trust", "transcript",
                  "dialogs", "collector"}
    BY PartsAssumption DEF PartsInv
  <2> QED
    BY <2>1, <2>2, <2>3, <2>4, <2>5, <2>6, <2>7, <2>8 DEF TypesOK
<1> QED
  BY PartsInductive, <1>1, PTL

(***************************************************************************)
(* For every tree of directories and every set of projects and servers: a  *)
(* call the host resolves touches only what the user approved for its      *)
(* tool, but for the root in a diff that mixes it with another directory,  *)
(* and is closed alike in events and audit; the trust file names only      *)
(* projects consented to, with no refusal written since; a server whose    *)
(* clear no call overlapped stays untrusted, whatever overlaps later.      *)
(***************************************************************************)
THEOREM ConsentKept == MCSpec => []ConsentIsKept
<1>1. PartsInv => ConsentIsKept
  <2> SUFFICES ASSUME PartsInv PROVE ConsentIsKept
    OBVIOUS
  <2>1. RT!GrantsCoverCalls
    BY DEF PartsInv, RTInv
  <2>2. RT!EveryCallClosed
    <3> SUFFICES ASSUME routed.pc = "done" PROVE RT!EveryCallClosed
      BY DEF RT!EveryCallClosed
    <3>1. routed.events \in Seq(RTWords) /\ RTTrail(routed)
      BY DEF PartsInv, RTInv, RTCall
    <3> DEFINE e == routed.events
    <3>2. /\ Len(routed.audit) = 2 /\ routed.audit[1] = "ToolCallStarted" /\ Len(e) \in {1, 2}
          /\ routed.audit[2] = "ToolCallSucceeded" <=> e[Len(e)] = "ToolInvocationSucceeded"
          /\ e[Len(e)] # "ToolInvocationStarted"
          /\ Len(e) = 2 => e[1] = "ToolInvocationStarted"
      BY <3>1 DEF RTTrail
    <3>3. RT!Last(e) = e[Len(e)] /\ DOMAIN e = 1..Len(e)
      BY <3>1 DEF RT!Last
    <3>4. \A i \in DOMAIN e : (i = Len(e)) <=> e[i] # "ToolInvocationStarted"
      BY <3>2, <3>3
    <3> QED
      BY <3>2, <3>3, <3>4 DEF RT!EveryCallClosed
  <2>3. TS!TrustNeedsConsent
    BY DEF PartsInv, TSInv, TSConsent, TS!TrustNeedsConsent
  <2>4. MT!ClearedIsUntrusted
    <3>1. MTBare(mcpFile, cleared) /\ (~overlapped => MTWhole(mcpFile))
      BY DEF PartsInv, MTInv
    <3>2. \A s \in cleared \ Bundled : ~MT!isTrusted(s)
      BY <3>1 DEF MTBare, MT!isTrusted, MT!listTrusted, MT!Scopes
    <3> QED
      BY <3>1, <3>2 DEF MTWhole, MT!ClearedIsUntrusted
  <2> QED
    BY <2>1, <2>2, <2>3, <2>4 DEF ConsentIsKept
<1> QED
  BY PartsInductive, <1>1, PTL

(***************************************************************************)
(* A project is audited as granted only by consent, and once the file says *)
(* so, through failed writes and restarts; the file may lag only where     *)
(* this process has failed to write that very project and no write has     *)
(* succeeded since.                                                        *)
(***************************************************************************)
THEOREM GrantsAreWritten == MCSpec => GrantReportedIsWritten
<1>1. PartsInv /\ [MCNext]_allVars
        => [\A p \in gateAudit' \ gateAudit :
              p \in consented /\ (trustFile.latest[p] = "trusted" \/ p \in unwritten)]_TS!tsVars
  BY PartsStep, TSGateStep DEF PartsInv
<1> QED
  BY PartsInductive, <1>1, PTL DEF MCSpec, GrantReportedIsWritten, TS!GrantReportedIsWritten

(***************************************************************************)
(* For any number of requests and replies: a request that is pending has a *)
(* dialog, and while no reply was overtaken the pending requests are those *)
(* whose promise is open and none is accepted twice.                       *)
(***************************************************************************)
THEOREM PromptsAnswerable == MCSpec => [](part = "dialogs" => TD!PromptsStayAnswerable)
<1>1. PartsInv => (part = "dialogs" => TD!PromptsStayAnswerable)
  BY TDKeeps DEF PartsInv
<1> QED
  BY PartsInductive, <1>1, PTL

(***************************************************************************)
(* For any number of listeners that come and go, also while they are       *)
(* called, and that write while they are called: at rest each has what the *)
(* state holds.  Outside the callbacks of token listeners snapshot() does  *)
(* too, unless one of those threw and nothing was written since.           *)
(***************************************************************************)
THEOREM ListenersCurrent == MCSpec => [](part = "collector" => RC!ListenersAreCurrent)
<1>1. PartsInv => (part = "collector" => RC!ListenersAreCurrent)
  BY RCKeeps DEF PartsInv
<1> QED
  BY PartsInductive, <1>1, PTL

=============================================================================
