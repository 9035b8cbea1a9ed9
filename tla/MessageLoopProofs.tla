------------------------- MODULE MessageLoopProofs -------------------------
(***************************************************************************)
(* What MCMessageLoop's run checks, for every value of its constants.  One *)
(* section per part: the TOOL_CALL stage for every list of tool calls, the *)
(* passes of a turn under any bound, the stage executions of any plan, the *)
(* output of a subprocess under any limit, and an MCP client with any      *)
(* number of callers; the last section puts them together.                 *)
(***************************************************************************)
EXTENDS MCMessageLoop, FiniteSetTheorems, TLAPS

(***************************************************************************)
(* 1. The TOOL_CALL stage.                                                 *)
(***************************************************************************)
DistinctCalls ==
  \A i, j \in 1..Len(toolCalls) : toolCalls[i] = toolCalls[j] => i = j

(***************************************************************************)
(* What the approval loop has established up to the cursor.                *)
(***************************************************************************)
VerdictsInv ==
  /\ \A i \in 1..Len(toolCalls) : i < cursor  => verdicts[i] \in {"approve", "deny"}
  /\ \A i \in 1..Len(toolCalls) : i >= cursor => verdicts[i] \in {"none", "halt"}
  /\ \A i \in 1..Len(toolCalls) : verdicts[i] = "approve" <=> i \in approved

DispatchInv ==
  /\ tcPhase = "approving" => dispatched = {}
  /\ dispatched # {} => cursor = Len(toolCalls) + 1
  /\ dispatched \subseteq approved
  /\ tcPhase = "executing" =>
       /\ cursor = Len(toolCalls) + 1
       /\ running \subseteq approved
       /\ \A i \in approved : i \notin running => settled[i] # "none"

DenialsInv ==
  tcPhase \in {"approving", "executing"} =>
    \A i \in 1..Len(toolCalls) :
      resultsById[toolCalls[i]] = IF verdicts[i] = "deny" THEN "denied" ELSE "none"

TCInv ==
  /\ TCTypeOK
  /\ DistinctCalls
  /\ VerdictsInv
  /\ DispatchInv
  /\ DenialsInv
  /\ ContinuationAnswersEveryCall

(***************************************************************************)
(* The initial state of the handler satisfies the inductive invariant.     *)
(***************************************************************************)
LEMMA TCInitInv == TCInit => TCInv
  BY DEF TCInit, TCInv, TCTypeOK, DistinctCalls, VerdictsInv, DispatchInv, DenialsInv,
         ContinuationAnswersEveryCall, NoOutput, TCPhases, Verdicts, Results

(***************************************************************************)
(* With distinct ids, merging the executed results into the map leaves at  *)
(* each call's id the settlement of that call, or its denial.              *)
(***************************************************************************)
LEMMA MergedLemma ==
  ASSUME TCInv, tcPhase = "executing", running = {},
         NEW i \in 1..Len(toolCalls)
  PROVE  /\ MergedResults[toolCalls[i]] = IF verdicts[i] = "deny" THEN "denied" ELSE settled[i]
         /\ MergedResults[toolCalls[i]] # "none"
         /\ verdicts[i] = "approve" => settled[i] # "none"
<1>1. toolCalls[i] \in CallIds
  BY DEF TCInv, TCTypeOK
<1>2. verdicts[i] \in {"approve", "deny"}
  BY DEF TCInv, VerdictsInv, DispatchInv, TCTypeOK
<1>3. CASE verdicts[i] = "approve"
  <2>1. i \in approved
    BY <1>3 DEF TCInv, VerdictsInv
  <2>2. settled[i] # "none"
    BY <2>1 DEF TCInv, DispatchInv
  <2>3. \A j \in approved : toolCalls[j] = toolCalls[i] => j = i
    BY DEF TCInv, DistinctCalls, TCTypeOK
  <2>4. (CHOOSE j \in approved : toolCalls[j] = toolCalls[i]) = i
    BY <2>1, <2>3
  <2>5. MergedResults[toolCalls[i]] = settled[i]
    BY <1>1, <2>1, <2>4 DEF MergedResults
  <2> QED
    BY <1>3, <2>2, <2>5
<1>4. CASE verdicts[i] = "deny"
  <2>1. i \notin approved
    BY <1>4 DEF TCInv, VerdictsInv
  <2>2. ~ \E j \in approved : toolCalls[j] = toolCalls[i]
    BY <2>1 DEF TCInv, DistinctCalls, TCTypeOK
  <2>3. resultsById[toolCalls[i]] = "denied"
    BY <1>4 DEF TCInv, DenialsInv
  <2> QED
    BY <1>1, <1>4, <2>2, <2>3 DEF MergedResults
<1> QED
  BY <1>2, <1>3, <1>4

(***************************************************************************)
(* Every step of the handler preserves the inductive invariant.            *)
(***************************************************************************)
LEMMA TCNextInv == TCInv /\ [TCNext]_tcVars => TCInv'
<1> SUFFICES ASSUME TCInv, [TCNext]_tcVars PROVE TCInv'
  OBVIOUS
<1> USE DEF TCInv, TCPhases, Verdicts, Results
<1>1. ASSUME NEW calls \in CallLists, ToolCallInvoke(calls) PROVE TCInv'
  BY <1>1, CallListsAssumption
     DEF ToolCallInvoke, TCTypeOK, DistinctCalls, VerdictsInv, DispatchInv, DenialsInv,
         ContinuationAnswersEveryCall, NoOutput
<1>2. CASE ApproveCall
  <2>1. TCTypeOK'
    BY <1>2 DEF ApproveCall, TCTypeOK
  <2>2. (DistinctCalls /\ DispatchInv /\ ContinuationAnswersEveryCall)'
    BY <1>2 DEF ApproveCall, TCTypeOK, DistinctCalls, DispatchInv, ContinuationAnswersEveryCall
  <2>3. VerdictsInv'
    BY <1>2 DEF ApproveCall, TCTypeOK, VerdictsInv
  <2>4. DenialsInv'
    BY <1>2 DEF ApproveCall, TCTypeOK, DistinctCalls, VerdictsInv, DenialsInv
  <2> QED
    BY <2>1, <2>2, <2>3, <2>4
<1>3. CASE DenyCall
  <2>1. TCTypeOK'
    BY <1>3 DEF DenyCall, TCTypeOK
  <2>2. (DistinctCalls /\ DispatchInv /\ ContinuationAnswersEveryCall)'
    BY <1>3 DEF DenyCall, TCTypeOK, DistinctCalls, DispatchInv, ContinuationAnswersEveryCall
  <2>3. VerdictsInv'
    BY <1>3 DEF DenyCall, TCTypeOK, VerdictsInv
  <2>4. DenialsInv'
    BY <1>3 DEF DenyCall, TCTypeOK, DistinctCalls, VerdictsInv, DenialsInv
  <2> QED
    BY <2>1, <2>2, <2>3, <2>4
<1>4. CASE HaltCall
  <2>1. TCTypeOK'
    BY <1>4 DEF HaltCall, TCTypeOK
  <2>2. (DistinctCalls /\ VerdictsInv /\ DispatchInv /\ DenialsInv)'
    BY <1>4 DEF HaltCall, TCTypeOK, DistinctCalls, VerdictsInv, DispatchInv, DenialsInv
  <2>3. ContinuationAnswersEveryCall'
    BY <1>4 DEF HaltCall, ContinuationAnswersEveryCall
  <2> QED
    BY <2>1, <2>2, <2>3
<1>5. CASE ApprovalThrows
  <2>1. TCTypeOK'
    BY <1>5 DEF ApprovalThrows, TCTypeOK
  <2>2. (DistinctCalls /\ VerdictsInv /\ DispatchInv /\ DenialsInv)'
    BY <1>5 DEF ApprovalThrows, TCTypeOK, DistinctCalls, VerdictsInv, DispatchInv, DenialsInv
  <2>3. ContinuationAnswersEveryCall'
    BY <1>5 DEF ApprovalThrows, ContinuationAnswersEveryCall
  <2> QED
    BY <2>1, <2>2, <2>3
<1>6. CASE DispatchAll
  BY <1>6 DEF DispatchAll, TCTypeOK, DistinctCalls, VerdictsInv, DispatchInv, DenialsInv,
              ContinuationAnswersEveryCall
<1>7. ASSUME NEW i \in running, NEW res \in {"result", "error"}, ExecutorSettles(i, res)
      PROVE  TCInv'
  BY <1>7 DEF ExecutorSettles, TCTypeOK, DistinctCalls, VerdictsInv, DispatchInv, DenialsInv,
              ContinuationAnswersEveryCall
<1>8. CASE ReturnResults
  <2>1. \A i \in 1..Len(toolCalls) :
          /\ MergedResults[toolCalls[i]] = IF verdicts[i] = "deny" THEN "denied" ELSE settled[i]
          /\ MergedResults[toolCalls[i]] # "none"
          /\ verdicts[i] = "approve" => settled[i] # "none"
    BY <1>8, MergedLemma DEF ReturnResults
  <2>2. MergedResults \in [CallIds -> {"none", "denied", "result", "error"}]
    <3> SUFFICES ASSUME NEW id \in CallIds
                 PROVE  MergedResults[id] \in {"none", "denied", "result", "error"}
      BY DEF MergedResults
    <3>1. CASE \E i \in approved : toolCalls[i] = id
      <4>1. (CHOOSE i \in approved : toolCalls[i] = id) \in approved
        BY <3>1
      <4> QED
        BY <3>1, <4>1 DEF MergedResults, TCTypeOK
    <3>2. CASE ~ \E i \in approved : toolCalls[i] = id
      BY <3>2 DEF MergedResults, TCTypeOK
    <3> QED
      BY <3>1, <3>2
  <2>3. ContinuationAnswersEveryCall'
    BY <1>8, <2>1 DEF ReturnResults, ContinuationAnswersEveryCall, TCTypeOK
  <2>4. TCTypeOK'
    BY <1>8, <2>2 DEF ReturnResults, TCTypeOK
  <2>5. (DistinctCalls /\ VerdictsInv /\ DispatchInv /\ DenialsInv)'
    BY <1>8 DEF ReturnResults, DistinctCalls, VerdictsInv, DispatchInv, DenialsInv
  <2> QED
    BY <2>3, <2>4, <2>5
<1>9. CASE UNCHANGED tcVars
  <2>1. TCTypeOK'
    BY <1>9 DEF tcVars, TCTypeOK
  <2>2. (DistinctCalls /\ VerdictsInv /\ DispatchInv /\ DenialsInv)'
    BY <1>9 DEF tcVars, TCTypeOK, DistinctCalls, VerdictsInv, DispatchInv, DenialsInv
  <2>3. ContinuationAnswersEveryCall'
    BY <1>9 DEF tcVars, ContinuationAnswersEveryCall
  <2> QED
    BY <2>1, <2>2, <2>3
<1> QED
  BY <1>1, <1>2, <1>3, <1>4, <1>5, <1>6, <1>7, <1>8, <1>9 DEF TCNext, TCStep

(***************************************************************************)
(* The handler's variables keep their types.                               *)
(***************************************************************************)
THEOREM TCTypeCorrect == TCSpec => []TCTypeOK
<1>1. TCInv => TCTypeOK
  BY DEF TCInv
<1> QED
  BY TCInitInv, TCNextInv, <1>1, PTL DEF TCSpec

(***************************************************************************)
(* For every list of calls, no executor is called before the approval      *)
(* stack has answered for all of them, nor for a call it did not approve.  *)
(***************************************************************************)
THEOREM DispatchIsApproved == TCSpec => []NoDispatchBeforeVerdicts
<1>1. TCInv => NoDispatchBeforeVerdicts
  BY DEF TCInv, VerdictsInv, DispatchInv, NoDispatchBeforeVerdicts, TCTypeOK
<1> QED
  BY TCInitInv, TCNextInv, <1>1, PTL DEF TCSpec

(***************************************************************************)
(* For every list of calls, whatever the order in which executors settle,  *)
(* a continuation carries one result per call in request order.            *)
(***************************************************************************)
THEOREM ContinuationIsComplete == TCSpec => []ContinuationAnswersEveryCall
<1>1. TCInv => ContinuationAnswersEveryCall
  BY DEF TCInv
<1> QED
  BY TCInitInv, TCNextInv, <1>1, PTL DEF TCSpec

-----------------------------------------------------------------------------
(***************************************************************************)
(* 2. The passes of a turn.  While a handler is called its StagePreFired   *)
(* is the last event; what is counted depends on where the turn stands.    *)
(***************************************************************************)
LastIsPre == events # <<>> /\ events[Len(events)].name = "StagePreFired"

EventsInv ==
  /\ EventsNest
  /\ inside => pc \in Stages
  /\ pc # "idle" => events # <<>>
  /\ inside <=> LastIsPre

RunningInv ==
  /\ tcPhase \in {"approving", "executing"} => pc = "TOOL_CALL" /\ inside
  /\ tcPhase # "executing" => running = {}

Passes == Cardinality(StagesEntered("COMPOSE_REQUEST"))
Rounds == Cardinality(StagesEntered("TOOL_CALL"))

PassesInv ==
  /\ pc = "RECEIVE_INPUT" => iteration = 0 /\ Passes = 0 /\ Rounds = 0
  /\ pc = "loop" => iteration <= bound.maxIterations /\ Passes = iteration /\ Rounds = iteration
  /\ pc = "COMPOSE_REQUEST" =>
       /\ iteration < bound.maxIterations /\ Rounds = iteration
       /\ Passes = IF inside THEN iteration + 1 ELSE iteration
  /\ pc \in {"SEND_REQUEST", "STREAM_RESPONSE"} =>
       iteration < bound.maxIterations /\ Passes = iteration + 1 /\ Rounds = iteration
  /\ pc = "TOOL_CALL" =>
       /\ iteration < bound.maxIterations /\ Passes = iteration + 1
       /\ Rounds = IF inside THEN iteration + 1 ELSE iteration
  /\ pc = "RENDER" => Passes <= bound.maxIterations
  /\ pc \notin {"finally", "idle"} => ~capHit /\ outcome = "none"
  /\ PassesWithinBound

LoopInv == TCInv /\ TypeOK /\ EventsInv /\ RunningInv /\ PassesInv

(***************************************************************************)
(* Appending an event adds its position to the positions of its stage and  *)
(* leaves the positions of every other stage alone.                        *)
(***************************************************************************)
LEMMA EnteredAppend ==
  ASSUME events \in Seq(Event), NEW e \in Event, NEW s, events' = Append(events, e)
  PROVE  Cardinality(StagesEntered(s))' =
           IF e = Pre(s) THEN Cardinality(StagesEntered(s)) + 1 ELSE Cardinality(StagesEntered(s))
<1> DEFINE n == Len(events)
<1>1. n \in Nat /\ DOMAIN events = 1..n /\ DOMAIN events' = 1..(n + 1)
  OBVIOUS
<1>2. \A i \in 1..n : events'[i] = events[i]
  OBVIOUS
<1>3. events'[n + 1] = e
  OBVIOUS
<1>4. n + 1 \notin StagesEntered(s)
  BY <1>1 DEF StagesEntered
<1>5. IsFiniteSet(StagesEntered(s))
  <2>1. StagesEntered(s) \subseteq 1..n
    BY <1>1 DEF StagesEntered
  <2>2. IsFiniteSet(1..n)
    BY <1>1, FS_Interval
  <2> QED
    BY <2>1, <2>2, FS_Subset
<1>6. StagesEntered(s)' = IF e = Pre(s) THEN StagesEntered(s) \cup {n + 1} ELSE StagesEntered(s)
  <2>1. \A i \in 1..(n + 1) : i \in StagesEntered(s)' <=>
          \/ i = n + 1 /\ e = Pre(s)
          \/ i # n + 1 /\ i \in StagesEntered(s)
    BY <1>1, <1>2, <1>3 DEF StagesEntered
  <2>2. StagesEntered(s)' \subseteq 1..(n + 1) /\ StagesEntered(s) \subseteq 1..n
    BY <1>1 DEF StagesEntered
  <2> QED
    <3>1. CASE e = Pre(s)
      BY <1>1, <2>1, <2>2, <3>1
    <3>2. CASE e # Pre(s)
      <4>1. \A i \in 1..(n + 1) : i \in StagesEntered(s)' <=> i \in StagesEntered(s)
        BY <1>4, <2>1, <3>2
      <4>2. StagesEntered(s) \subseteq 1..(n + 1)
        BY <1>1, <2>2
      <4> QED
        BY <2>2, <3>2, <4>1, <4>2
    <3> QED
      BY <3>1, <3>2
<1>7. CASE e = Pre(s)
  BY <1>4, <1>5, <1>6, <1>7, FS_AddElement
<1>8. CASE e # Pre(s)
  BY <1>6, <1>8
<1> QED
  BY <1>7, <1>8

(***************************************************************************)
(* An initial state satisfies the invariant.                               *)
(***************************************************************************)
LEMMA LoopInit == Init => LoopInv
<1> SUFFICES ASSUME Init PROVE LoopInv
  OBVIOUS
<1>1. TCInv
  BY TCInitInv DEF Init
<1>2. TypeOK
  <2>1. TCTypeOK
    BY <1>1 DEF TCInv
  <2>2. /\ registered \subseteq Stages
        /\ pc \in Stages \cup {"idle", "loop", "finally"}
        /\ bound \in Bounds /\ iteration \in Nat
        /\ outcome \in {"none", "ok", "StageNotRegistered", "StageError", "LoopBoundExceeded"}
    BY DEF Init
  <2>3. inside \in BOOLEAN /\ capHit \in BOOLEAN
    BY DEF Init
  <2>4. events \in Seq(Event)
    BY DEF Init
  <2> QED
    BY <2>1, <2>2, <2>3, <2>4 DEF TypeOK
<1>3. EventsInv
  BY DEF Init, EventsInv, EventsNest, LastIsPre
<1>4. RunningInv
  BY DEF Init, TCInit, RunningInv
<1>5. StagesEntered("COMPOSE_REQUEST") = {}
  BY DEF Init, StagesEntered
<1>6. bound.maxIterations \in Nat
  BY <1>2, MaxBoundAssumption DEF TypeOK, Bounds
<1>7. Passes = 0
  BY <1>5, FS_EmptySet DEF Passes
<1>8. PassesInv
  BY <1>6, <1>7 DEF Init, PassesInv, PassesWithinBound, Passes
<1> QED
  BY <1>1, <1>2, <1>3, <1>4, <1>8 DEF LoopInv

(***************************************************************************)
(* Calling a handler, leaving it and ending the turn keep the nesting.     *)
(***************************************************************************)
LEMMA NestPre ==
  ASSUME events \in Seq(Event), EventsInv, pc \in Stages, ~inside,
         inside', pc' = pc, events' = Append(events, Pre(pc))
  PROVE  EventsInv'
<1> DEFINE n == Len(events)
<1>1. n \in Nat \ {0} /\ Len(events') = n + 1 /\ events' # <<>>
  BY DEF EventsInv, Stages
<1>2. \A i \in 1..n : events'[i] = events[i]
  OBVIOUS
<1>3. events'[n + 1] = Pre(pc)
  OBVIOUS
<1>4. pc # "idle"
  BY DEF Stages
<1>5. events[n].name # "StagePreFired"
  BY <1>1 DEF EventsInv, LastIsPre
<1>6. Pre(pc).name = "StagePreFired" /\ Pre(pc).stage = pc
  BY DEF Pre
<1>7. EventsNest'
  BY <1>1, <1>2, <1>3, <1>4, <1>5, <1>6 DEF EventsInv, EventsNest
<1>8. LastIsPre'
  BY <1>1, <1>3, <1>6 DEF LastIsPre
<1> QED
  BY <1>1, <1>7, <1>8 DEF EventsInv

LEMMA NestPost ==
  ASSUME events \in Seq(Event), EventsInv, inside, ~inside', pc' # "idle",
         NEW failed \in BOOLEAN, events' = Append(events, Post(pc, failed))
  PROVE  EventsInv'
<1> DEFINE n == Len(events)
<1>1. n \in Nat \ {0} /\ Len(events') = n + 1 /\ events' # <<>>
  BY DEF EventsInv, LastIsPre
<1>2. \A i \in 1..n : events'[i] = events[i]
  OBVIOUS
<1>3. events'[n + 1] = Post(pc, failed)
  OBVIOUS
<1>4. pc # "idle"
  BY DEF EventsInv, Stages
<1>5. events[n].name = "StagePreFired" /\ events[n].stage = pc
  BY <1>1 DEF EventsInv, EventsNest, LastIsPre
<1>6. Post(pc, failed).name = "StagePostFired" /\ Post(pc, failed).stage = pc
  BY DEF Post
<1>7. EventsNest'
  BY <1>1, <1>2, <1>3, <1>4, <1>5, <1>6 DEF EventsInv, EventsNest
<1>8. ~LastIsPre'
  BY <1>1, <1>3, <1>6 DEF LastIsPre
<1> QED
  BY <1>1, <1>7, <1>8 DEF EventsInv

LEMMA NestEnd ==
  ASSUME events \in Seq(Event), EventsInv, pc = "finally", pc' = "idle", inside' = inside,
         events' = Append(events, End)
  PROVE  EventsInv'
<1> DEFINE n == Len(events)
<1>1. n \in Nat \ {0} /\ Len(events') = n + 1 /\ events' # <<>>
  BY DEF EventsInv
<1>2. \A i \in 1..n : events'[i] = events[i]
  OBVIOUS
<1>3. events'[n + 1] = End
  OBVIOUS
<1>4. ~inside
  BY DEF EventsInv, Stages
<1>5. events[n].name # "StagePreFired"
  BY <1>1, <1>4 DEF EventsInv, LastIsPre
<1>6. End.name = "SessionTurnEnd"
  BY DEF End
<1>7. EventsNest'
  BY <1>1, <1>2, <1>3, <1>4, <1>5, <1>6 DEF EventsInv, EventsNest
<1>8. ~LastIsPre'
  BY <1>1, <1>3, <1>6 DEF LastIsPre
<1> QED
  BY <1>1, <1>4, <1>7, <1>8 DEF EventsInv

(***************************************************************************)
(* Every step of the loop steps the handler or leaves it alone.            *)
(***************************************************************************)
LEMMA LoopStepsHandler == Next => [TCNext]_tcVars
  BY DEF Next, TurnStep, TCNext, registerStage, runTurnRefused, runTurn, enterStage, Leave,
         leaveReceiveInput, leaveComposeRequest, leaveSendRequest, leaveStreamResponse,
         leaveToolCall, leaveRender, stageThrows, beginPass, hitBound, endTurn, toolCallStep

LEMMA EventTypes ==
  /\ Start \in Event /\ End \in Event
  /\ \A s \in Stages : Pre(s) \in Event /\ Post(s, TRUE) \in Event /\ Post(s, FALSE) \in Event
  /\ \A s, t : Start # Pre(t) /\ End # Pre(t) /\ Post(s, TRUE) # Pre(t) /\ Post(s, FALSE) # Pre(t)
  /\ \A s, t : Pre(s) = Pre(t) <=> s = t
<1>1. /\ Start \in Event /\ End \in Event
      /\ \A s \in Stages : Pre(s) \in Event /\ Post(s, TRUE) \in Event /\ Post(s, FALSE) \in Event
  BY DEF Start, End, Pre, Post, Event
<1>2. \A s, t : Start.name # Pre(t).name /\ End.name # Pre(t).name
                /\ Post(s, TRUE).name # Pre(t).name /\ Post(s, FALSE).name # Pre(t).name
  BY DEF Start, End, Pre, Post
<1>3. \A s : Pre(s).stage = s
  BY DEF Pre
<1> QED
  BY <1>1, <1>2, <1>3

LEMMA AppendType ==
  ASSUME NEW S, NEW q \in Seq(S), NEW x \in S
  PROVE  Append(q, x) \in Seq(S)
  OBVIOUS

LEMMA AppendCounts ==
  ASSUME events \in Seq(Event), NEW e \in Event, events' = Append(events, e)
  PROVE  /\ Passes' = IF e = Pre("COMPOSE_REQUEST") THEN Passes + 1 ELSE Passes
         /\ Rounds' = IF e = Pre("TOOL_CALL") THEN Rounds + 1 ELSE Rounds
  BY EnteredAppend DEF Passes, Rounds

LEMMA LeaveInv ==
  ASSUME LoopInv, TCTypeOK', NEW s \in Stages, NEW nextPc \in Stages \cup {"loop"}, Leave(s, nextPc),
         iteration' \in Nat, s = "TOOL_CALL" => tcPhase = "returned"
  PROVE  /\ TypeOK' /\ EventsInv' /\ RunningInv'
         /\ Passes' = Passes /\ Rounds' = Rounds
<1> USE DEF LoopInv
<1>1. Post(s, FALSE) \in Event /\ \A t : Post(s, FALSE) # Pre(t)
  BY EventTypes
<1>2. events \in Seq(Event) /\ events' = Append(events, Post(s, FALSE))
  BY DEF Leave, TypeOK
<1>3. TypeOK'
  <2>1. events' \in Seq(Event)
    BY <1>1, <1>2, AppendType
  <2> QED
    BY <2>1 DEF Leave, TypeOK
<1>4. Passes' = Passes /\ Rounds' = Rounds
  BY <1>1, <1>2, AppendCounts
<1>5. EventsInv'
  <2>1. pc = s /\ inside /\ ~inside' /\ pc' # "idle"
    BY DEF Leave, Stages
  <2> QED
    BY <1>2, <2>1, NestPost
<1>6. RunningInv'
  BY DEF Leave, RunningInv, tcVars
<1> QED
  BY <1>3, <1>4, <1>5, <1>6

(***************************************************************************)
(* A step that leaves the events alone.                                    *)
(***************************************************************************)
LEMMA SameEvents ==
  ASSUME UNCHANGED events
  PROVE  Passes' = Passes /\ Rounds' = Rounds
  BY DEF Passes, Rounds, StagesEntered

LEMMA SameNesting ==
  ASSUME EventsInv, UNCHANGED <<events, inside, pc>>
  PROVE  EventsInv'
  BY DEF EventsInv, EventsNest, LastIsPre

LEMMA LoopNumbers ==
  ASSUME TypeOK
  PROVE  /\ iteration \in Nat /\ bound.maxIterations \in Nat \ {0}
         /\ Passes \in Nat /\ Rounds \in Nat
<1>1. iteration \in Nat /\ bound.maxIterations \in Nat \ {0}
  BY MaxBoundAssumption DEF TypeOK, Bounds
<1>2. \A s : IsFiniteSet(StagesEntered(s))
  <2>1. Len(events) \in Nat /\ \A s : StagesEntered(s) \subseteq 1..Len(events)
    BY DEF TypeOK, StagesEntered
  <2>2. IsFiniteSet(1..Len(events))
    BY <2>1, FS_Interval
  <2> QED
    BY <2>1, <2>2, FS_Subset
<1> QED
  BY <1>1, <1>2, FS_CardinalityType DEF Passes, Rounds

(***************************************************************************)
(* Every step of the loop preserves the invariant.                         *)
(***************************************************************************)
LEMMA LoopNext == LoopInv /\ [Next]_vars => LoopInv'
<1> SUFFICES ASSUME LoopInv, [Next]_vars PROVE LoopInv'
  OBVIOUS
<1>1. TCInv' /\ TCTypeOK'
  BY LoopStepsHandler, TCNextInv DEF LoopInv, vars, TCInv
<1>2. TypeOK /\ EventsInv /\ RunningInv /\ PassesInv
  BY DEF LoopInv
<1>3. /\ iteration \in Nat /\ bound.maxIterations \in Nat \ {0}
      /\ Passes \in Nat /\ Rounds \in Nat
  BY <1>2, LoopNumbers
<1> SUFFICES TypeOK' /\ EventsInv' /\ RunningInv' /\ PassesInv'
  BY <1>1 DEF LoopInv
<1>4. ASSUME NEW s \in Stages, registerStage(s)
      PROVE  TypeOK' /\ EventsInv' /\ RunningInv' /\ PassesInv'
  <2>1. TypeOK'
    BY <1>1, <1>2, <1>4 DEF registerStage, TypeOK
  <2>2. EventsInv' /\ Passes' = Passes /\ Rounds' = Rounds
    BY <1>2, <1>4, SameEvents, SameNesting DEF registerStage
  <2>3. RunningInv'
    BY <1>2, <1>4 DEF registerStage, RunningInv, tcVars
  <2>4. PassesInv'
    BY <1>2, <1>4, <2>2 DEF registerStage, PassesInv, PassesWithinBound, Passes, Rounds, tcVars
  <2> QED
    BY <2>1, <2>2, <2>3, <2>4
<1>5. CASE runTurnRefused
  <2>1. TypeOK'
    BY <1>1, <1>2, <1>5 DEF runTurnRefused, TypeOK
  <2>2. EventsInv' /\ Passes' = Passes /\ Rounds' = Rounds
    BY <1>2, <1>5, SameEvents, SameNesting DEF runTurnRefused
  <2>3. RunningInv'
    BY <1>2, <1>5 DEF runTurnRefused, RunningInv, tcVars
  <2>4. PassesInv'
    BY <1>2, <1>5, <2>2 DEF runTurnRefused, PassesInv, PassesWithinBound, Passes, Rounds, tcVars
  <2> QED
    BY <2>1, <2>2, <2>3, <2>4
<1>6. ASSUME NEW b \in Bounds, runTurn(b)
      PROVE  TypeOK' /\ EventsInv' /\ RunningInv' /\ PassesInv'
  <2>1. ~inside /\ ~inside' /\ pc' = "RECEIVE_INPUT" /\ events' = <<Start>> /\ iteration' = 0
    BY <1>2, <1>6 DEF runTurn, EventsInv, Stages
  <2>2. TypeOK'
    <3>1. events' \in Seq(Event)
      BY <2>1, EventTypes
    <3> QED
      BY <1>1, <1>2, <1>6, <3>1 DEF runTurn, TypeOK, Stages
  <2>3. EventsInv'
    <3>1. Start.name = "SessionTurnStart"
      BY DEF Start
    <3> QED
      BY <2>1, <3>1 DEF EventsInv, EventsNest, LastIsPre
  <2>4. RunningInv'
    BY <1>2, <1>6 DEF runTurn, RunningInv, tcVars
  <2>5. Passes' = 0 /\ Rounds' = 0
    <3>1. \A s : StagesEntered(s)' = {}
      <4>1. \A i \in DOMAIN events' : events'[i] = Start
        BY <2>1
      <4>2. \A s : Start # Pre(s)
        BY EventTypes
      <4> QED
        BY <4>1, <4>2 DEF StagesEntered
    <3> QED
      BY <3>1, FS_EmptySet DEF Passes, Rounds
  <2>6. bound'.maxIterations \in Nat
    BY <2>2, MaxBoundAssumption DEF TypeOK, Bounds
  <2>7. PassesInv'
    BY <1>6, <2>1, <2>5, <2>6 DEF runTurn, PassesInv, PassesWithinBound, Passes, Rounds
  <2> QED
    BY <2>2, <2>3, <2>4, <2>7
<1>7. CASE enterStage
  <2>1. pc \in Stages /\ ~inside /\ inside' /\ pc' = pc /\ events' = Append(events, Pre(pc))
    BY <1>7 DEF enterStage
  <2>2. TypeOK'
    <3>1. events' \in Seq(Event)
      BY <1>2, <2>1, AppendType, EventTypes DEF TypeOK
    <3> QED
      BY <1>1, <1>2, <1>7, <3>1 DEF enterStage, TypeOK
  <2>3. EventsInv'
    BY <1>2, <2>1, NestPre DEF TypeOK
  <2>4. RunningInv'
    BY <1>2, <1>7, <2>1 DEF enterStage, RunningInv, ToolCallInvoke, tcVars
  <2>5. /\ Passes' = IF pc = "COMPOSE_REQUEST" THEN Passes + 1 ELSE Passes
        /\ Rounds' = IF pc = "TOOL_CALL" THEN Rounds + 1 ELSE Rounds
    <3>1. events \in Seq(Event) /\ Pre(pc) \in Event
      BY <1>2, <2>1, EventTypes DEF TypeOK
    <3> QED
      BY <2>1, <3>1, AppendCounts, EventTypes
  <2>6. PassesInv'
    BY <1>2, <1>3, <1>7, <2>1, <2>5
       DEF enterStage, PassesInv, PassesWithinBound, Passes, Rounds, Stages
  <2> QED
    BY <2>2, <2>3, <2>4, <2>6
<1>8. CASE leaveReceiveInput
  <2>1. TypeOK' /\ EventsInv' /\ RunningInv' /\ Passes' = Passes /\ Rounds' = Rounds
    BY <1>1, <1>3, <1>8, LeaveInv DEF leaveReceiveInput, Stages
  <2>2. PassesInv'
    BY <1>2, <1>3, <1>8, <2>1 DEF leaveReceiveInput, Leave, PassesInv, PassesWithinBound, Passes, Rounds, tcVars
  <2> QED
    BY <2>1, <2>2
<1>9. CASE leaveComposeRequest
  <2>1. TypeOK' /\ EventsInv' /\ RunningInv' /\ Passes' = Passes /\ Rounds' = Rounds
    BY <1>1, <1>3, <1>9, LeaveInv DEF leaveComposeRequest, Stages
  <2>2. PassesInv'
    BY <1>2, <1>3, <1>9, <2>1 DEF leaveComposeRequest, Leave, PassesInv, PassesWithinBound, Passes, Rounds, tcVars
  <2> QED
    BY <2>1, <2>2
<1>10. CASE leaveSendRequest
  <2>1. TypeOK' /\ EventsInv' /\ RunningInv' /\ Passes' = Passes /\ Rounds' = Rounds
    BY <1>1, <1>3, <1>10, LeaveInv DEF leaveSendRequest, Stages
  <2>2. PassesInv'
    BY <1>2, <1>3, <1>10, <2>1 DEF leaveSendRequest, Leave, PassesInv, PassesWithinBound, Passes, Rounds, tcVars
  <2> QED
    BY <2>1, <2>2
<1>11. CASE leaveStreamResponse
  <2>1. TypeOK' /\ EventsInv' /\ RunningInv' /\ Passes' = Passes /\ Rounds' = Rounds
    BY <1>1, <1>3, <1>11, LeaveInv DEF leaveStreamResponse, Stages
  <2>2. PassesInv'
    <3>1. CASE Leave("STREAM_RESPONSE", "TOOL_CALL") /\ UNCHANGED iteration
      BY <1>2, <1>3, <2>1, <3>1 DEF Leave, PassesInv, PassesWithinBound, Passes, Rounds, tcVars
    <3>2. CASE Leave("STREAM_RESPONSE", "RENDER") /\ UNCHANGED iteration
      BY <1>2, <1>3, <2>1, <3>2 DEF Leave, PassesInv, PassesWithinBound, Passes, Rounds, tcVars
    <3> QED
      BY <1>11, <3>1, <3>2 DEF leaveStreamResponse
  <2> QED
    BY <2>1, <2>2
<1>12. CASE leaveToolCall
  <2>1. TypeOK' /\ EventsInv' /\ RunningInv' /\ Passes' = Passes /\ Rounds' = Rounds
    BY <1>1, <1>3, <1>12, LeaveInv DEF leaveToolCall, Stages
  <2>2. PassesInv'
    BY <1>2, <1>3, <1>12, <2>1 DEF leaveToolCall, Leave, PassesInv, PassesWithinBound, Passes, Rounds, tcVars
  <2> QED
    BY <2>1, <2>2
<1>13. CASE leaveRender
  <2>1. /\ pc \in Stages /\ inside /\ ~inside' /\ pc' = "finally"
        /\ events' = Append(events, Post(pc, FALSE))
    BY <1>13 DEF leaveRender, Stages
  <2>2. events \in Seq(Event) /\ Post(pc, FALSE) \in Event /\ \A t : Post(pc, FALSE) # Pre(t)
    BY <1>2, <2>1, EventTypes DEF TypeOK
  <2>3. TypeOK'
    <3>1. events' \in Seq(Event)
      BY <2>1, <2>2, AppendType
    <3> QED
      BY <1>1, <1>2, <1>13, <3>1 DEF leaveRender, TypeOK
  <2>4. EventsInv'
    BY <1>2, <2>1, <2>2, NestPost
  <2>5. RunningInv'
    BY <1>2, <1>13 DEF leaveRender, RunningInv, tcVars
  <2>6. Passes' = Passes /\ Rounds' = Rounds
    BY <2>1, <2>2, AppendCounts
  <2>7. PassesInv'
    BY <1>2, <1>3, <1>13, <2>1, <2>6
       DEF leaveRender, PassesInv, PassesWithinBound, Passes, Rounds, Stages, tcVars
  <2> QED
    BY <2>3, <2>4, <2>5, <2>7
<1>14. CASE stageThrows
  <2>1. /\ pc \in Stages /\ inside /\ ~inside' /\ pc' = "finally"
        /\ events' = Append(events, Post(pc, TRUE))
    BY <1>14 DEF stageThrows, Stages
  <2>2. events \in Seq(Event) /\ Post(pc, TRUE) \in Event /\ \A t : Post(pc, TRUE) # Pre(t)
    BY <1>2, <2>1, EventTypes DEF TypeOK
  <2>3. TypeOK'
    <3>1. events' \in Seq(Event)
      BY <2>1, <2>2, AppendType
    <3> QED
      BY <1>1, <1>2, <1>14, <3>1 DEF stageThrows, TypeOK
  <2>4. EventsInv'
    BY <1>2, <2>1, <2>2, NestPost
  <2>5. RunningInv'
    BY <1>2, <1>14 DEF stageThrows, RunningInv, tcVars
  <2>6. Passes' = Passes /\ Rounds' = Rounds
    BY <2>1, <2>2, AppendCounts
  <2>7. PassesInv'
    BY <1>2, <1>3, <1>14, <2>1, <2>6
       DEF stageThrows, PassesInv, PassesWithinBound, Passes, Rounds, Stages, tcVars
  <2> QED
    BY <2>3, <2>4, <2>5, <2>7
<1>15. CASE beginPass
  <2>1. TypeOK'
    BY <1>1, <1>2, <1>15 DEF beginPass, TypeOK, Stages
  <2>2. EventsInv' /\ Passes' = Passes /\ Rounds' = Rounds
    <3>1. UNCHANGED events /\ ~inside /\ ~inside' /\ events # <<>> /\ pc # "idle" /\ pc' # "idle"
      BY <1>2, <1>15 DEF beginPass, EventsInv, Stages
    <3>2. EventsInv'
      BY <1>2, <3>1 DEF EventsInv, EventsNest, LastIsPre
    <3> QED
      BY <3>1, <3>2, SameEvents
  <2>3. RunningInv'
    BY <1>2, <1>15 DEF beginPass, RunningInv, tcVars
  <2>4. PassesInv'
    <3>1. ~inside' /\ pc = "loop" /\ UNCHANGED <<events, iteration, bound, tcVars>>
      BY <1>2, <1>15 DEF beginPass, EventsInv, Stages
    <3> QED
      BY <1>2, <1>3, <1>15, <2>2, <3>1
         DEF beginPass, BoundReached, shouldTerminate, PassesInv, PassesWithinBound, RunningInv, Passes,
             Rounds, tcVars
  <2> QED
    BY <2>1, <2>2, <2>3, <2>4
<1>16. CASE hitBound
  <2>1. TypeOK'
    BY <1>1, <1>2, <1>16 DEF hitBound, TypeOK, Stages
  <2>2. EventsInv' /\ Passes' = Passes /\ Rounds' = Rounds
    <3>1. UNCHANGED events /\ ~inside /\ ~inside' /\ events # <<>> /\ pc # "idle" /\ pc' # "idle"
      BY <1>2, <1>16 DEF hitBound, EventsInv, Stages
    <3>2. EventsInv'
      BY <1>2, <3>1 DEF EventsInv, EventsNest, LastIsPre
    <3> QED
      BY <3>1, <3>2, SameEvents
  <2>3. RunningInv'
    BY <1>2, <1>16 DEF hitBound, RunningInv, tcVars
  <2>4. PassesInv'
    <3>1. ~inside' /\ pc = "loop" /\ UNCHANGED <<events, iteration, bound, tcVars>>
      BY <1>2, <1>16 DEF hitBound, EventsInv, Stages
    <3> QED
      BY <1>2, <1>3, <1>16, <2>2, <3>1
         DEF hitBound, BoundReached, shouldTerminate, PassesInv, PassesWithinBound, RunningInv, Passes,
             Rounds, tcVars
  <2> QED
    BY <2>1, <2>2, <2>3, <2>4
<1>17. CASE endTurn
  <2>1. pc = "finally" /\ pc' = "idle" /\ inside' = inside /\ events' = Append(events, End)
    BY <1>17 DEF endTurn
  <2>2. events \in Seq(Event) /\ End \in Event
    BY <1>2, EventTypes DEF TypeOK
  <2>3. TypeOK'
    <3>1. events' \in Seq(Event)
      BY <2>1, <2>2, AppendType
    <3> QED
      BY <1>1, <1>2, <1>17, <3>1 DEF endTurn, TypeOK
  <2>4. EventsInv'
    BY <1>2, <2>1, <2>2, NestEnd
  <2>5. RunningInv'
    BY <1>2, <1>17 DEF endTurn, RunningInv, tcVars
  <2>6. Passes' = Passes /\ Rounds' = Rounds
    BY <2>1, <2>2, AppendCounts, EventTypes
  <2>7. PassesInv'
    BY <1>2, <1>3, <1>17, <2>6 DEF endTurn, PassesInv, PassesWithinBound, Passes, Rounds, tcVars
  <2> QED
    BY <2>3, <2>4, <2>5, <2>7
<1>18. CASE toolCallStep
  <2>1. UNCHANGED loopVars /\ pc = "TOOL_CALL" /\ inside
    BY <1>18 DEF toolCallStep
  <2>2. TypeOK'
    BY <1>1, <1>2, <2>1 DEF loopVars, TypeOK
  <2>3. EventsInv' /\ Passes' = Passes /\ Rounds' = Rounds
    BY <1>2, <2>1, SameEvents, SameNesting DEF loopVars
  <2>4. RunningInv'
    BY <1>2, <1>18, <2>1
       DEF toolCallStep, loopVars, RunningInv, TCStep, ApproveCall, DenyCall, HaltCall, ApprovalThrows,
           DispatchAll, ReturnResults, ExecutorSettles
  <2>5. PassesInv'
    BY <1>2, <1>3, <2>1, <2>3 DEF loopVars, PassesInv, PassesWithinBound, Passes, Rounds
  <2> QED
    BY <2>2, <2>3, <2>4, <2>5
<1>19. CASE UNCHANGED vars
  <2>1. UNCHANGED loopVars /\ UNCHANGED tcVars
    BY <1>19 DEF vars
  <2>2. TypeOK'
    BY <1>1, <1>2, <2>1 DEF loopVars, TypeOK
  <2>3. EventsInv' /\ Passes' = Passes /\ Rounds' = Rounds
    BY <1>2, <2>1, SameEvents, SameNesting DEF loopVars
  <2>4. RunningInv'
    BY <1>2, <2>1 DEF loopVars, tcVars, RunningInv
  <2>5. PassesInv'
    BY <1>2, <1>3, <2>1, <2>3 DEF loopVars, tcVars, PassesInv, PassesWithinBound, Passes, Rounds
  <2> QED
    BY <2>2, <2>3, <2>4, <2>5
<1> QED
  BY <1>4, <1>5, <1>6, <1>7, <1>8, <1>9, <1>10, <1>11, <1>12, <1>13, <1>14, <1>15, <1>16, <1>17, <1>18,
     <1>19 DEF Next, TurnStep

(***************************************************************************)
(* Every variable of runTurn keeps its type, for every bound on a turn.    *)
(***************************************************************************)
THEOREM LoopTypes == Spec => []TypeOK
<1>1. LoopInv => TypeOK
  BY DEF LoopInv
<1> QED
  BY LoopInit, LoopNext, <1>1, PTL DEF Spec

(***************************************************************************)
(* Whatever handlers do and wherever a turn is cut, its events nest.       *)
(***************************************************************************)
THEOREM TurnsNest == Spec => []EventsNest
<1>1. LoopInv => EventsNest
  BY DEF LoopInv, EventsInv
<1> QED
  BY LoopInit, LoopNext, <1>1, PTL DEF Spec

(***************************************************************************)
(* No turn composes more requests than its bound, and one that is cut has  *)
(* drained the tool calls of its last pass, for every bound.               *)
(***************************************************************************)
THEOREM TurnsAreBounded == Spec => []PassesWithinBound
<1>1. LoopInv => PassesWithinBound
  BY DEF LoopInv, PassesInv
<1> QED
  BY LoopInit, LoopNext, <1>1, PTL DEF Spec

-----------------------------------------------------------------------------
(***************************************************************************)
(* 3. Stage executions.  A sibling fails or is cancelled only after a      *)
(* first failure is on record; the first failure is a cancellation only    *)
(* when the turn itself was aborted.  From the join on every sibling is    *)
(* done.                                                                   *)
(***************************************************************************)
SMLost(i) == runs[i].at \in {"failed", "cancelled"}

SMFanInv ==
  turn.driver = "parallel" =>
    /\ turn.at \in {"siblings", "join"}
    /\ \A i \in DOMAIN runs : runs[i].sibling /\ SMLost(i) => turn.firstFailure # 0
    /\ failFast => turn.firstFailure # 0
    /\ turn.firstFailure # 0 =>
         /\ turn.firstFailure \in DOMAIN runs
         /\ runs[turn.firstFailure].sibling /\ SMLost(turn.firstFailure)
         /\ runs[turn.firstFailure].at = "cancelled" => aborted
    /\ turn.at = "join" =>
         /\ SM!AllSettled /\ turn.firstFailure = 0
         /\ SM!Driving => turn.join # "none"
    /\ (\E i \in DOMAIN runs : ~runs[i].sibling) => turn.at = "join"
    /\ turn.end = "siblingFailed" => turn.firstFailure # 0
    /\ SM!FanOutSettlesTogether

SMInv ==
  /\ SM!SMTypeOK
  /\ Len(runs) <= MaxRuns
  /\ turn.driver = "idle" => runs = <<>> /\ turn.firstFailure = 0 /\ ~failFast /\ ~SM!Driving
  /\ SMFanInv

LEMMA PartNumbers ==
  /\ MaxRuns \in Nat /\ MaxBytesKept \in Nat /\ MaxWrote \in Nat
  /\ MaxTransports \in Nat /\ MaxAttempts \in Nat \ {0}
  BY PartsAssumption

LEMMA PhaseAfter ==
  ASSUME NEW p \in {SM!Phases[k] : k \in 1..7}, p # "Next"
  PROVE  SM!After(p) \in {SM!Phases[k] : k \in 1..7}
<1>1. \E k \in 1..6 : SM!Phases[k] = p
  <2>1. SM!Phases[7] = "Next"
    BY DEF SM!Phases
  <2>2. PICK k \in 1..7 : SM!Phases[k] = p
    OBVIOUS
  <2> QED
    BY <2>1, <2>2
<1>2. (CHOOSE k \in 1..6 : SM!Phases[k] = p) \in 1..6
  BY <1>1
<1> DEFINE k == CHOOSE k \in 1..6 : SM!Phases[k] = p
<1>3. \A m \in 1..6 : 1 + m \in 1..7
  OBVIOUS
<1>4. SM!After(p) = SM!Phases[1 + k]
  BY DEF SM!After
<1> HIDE DEF k
<1> QED
  BY <1>2, <1>3, <1>4 DEF k

LEMMA SMInitInv == SM!SMInit => SMInv
<1> SUFFICES ASSUME SM!SMInit PROVE SMInv
  OBVIOUS
<1>1. SM!SMTypeOK
  <2>1. /\ turn = [driver |-> "idle", at |-> "stages", join |-> "none", taken |-> 0, firstFailure |-> 0,
                   end |-> "completed"]
        /\ pending = <<>> /\ runs = <<>> /\ {aborted, failFast} \subseteq BOOLEAN
    BY DEF SM!SMInit
  <2>2. 0 \in 0..MaxRuns /\ "none" \in SM!StageIds \cup {"none"} /\ "completed" \in SM!Ends
    BY PartNumbers DEF SM!Ends
  <2> QED
    BY <2>1, <2>2 DEF SM!SMTypeOK
<1> QED
  BY <1>1, PartNumbers DEF SM!SMInit, SMInv, SMFanInv, SM!Driving

(***************************************************************************)
(* A step of one execution that ends in no failure.                        *)
(***************************************************************************)
LEMMA SMQuiet ==
  ASSUME SMInv, NEW i \in DOMAIN runs, runs[i].at \notin SM!Settled,
         NEW r \in SM!Run, runs' = [runs EXCEPT ![i] = r], r.sibling = runs[i].sibling,
         r.at \in {"working", "resolved", "done"}, UNCHANGED <<turn, pending, aborted, failFast>>
  PROVE  SMInv'
<1>1. /\ runs \in Seq(SM!Run) /\ DOMAIN runs' = DOMAIN runs /\ Len(runs') = Len(runs)
      /\ runs' \in Seq(SM!Run) /\ runs'[i] = r
      /\ \A j \in DOMAIN runs : j # i => runs'[j] = runs[j]
  BY DEF SMInv, SM!SMTypeOK
<1>2. SM!SMTypeOK'
  BY <1>1 DEF SMInv, SM!SMTypeOK
<1>3. SMFanInv'
  <2> SUFFICES ASSUME turn.driver = "parallel" PROVE SMFanInv'
    BY DEF SMFanInv
  <2>1. ~SMLost(i) /\ ~SMLost(i)'
    BY <1>1 DEF SMLost, SM!Settled
  <2>2. \A j \in DOMAIN runs : runs'[j].sibling = runs[j].sibling /\ (SMLost(j)' <=> SMLost(j))
    BY <1>1, <2>1 DEF SMLost
  <2>3. turn.at = "join" \/ ~SM!Driving => ~runs[i].sibling
    BY DEF SMInv, SMFanInv, SM!FanOutSettlesTogether, SM!AllSettled, SM!Siblings
  <2>4. SM!Siblings' = SM!Siblings /\ SM!Driving' = SM!Driving
    BY <1>1, <2>2 DEF SM!Siblings, SM!Driving
  <2>5. turn.at = "join" \/ ~SM!Driving => \A j \in SM!Siblings : runs'[j] = runs[j]
    BY <1>1, <2>3 DEF SM!Siblings
  <2> QED
    BY <1>1, <2>1, <2>2, <2>3, <2>4, <2>5
       DEF SMInv, SMFanInv, SM!FanOutSettlesTogether, SM!AllSettled
<1> QED
  BY <1>1, <1>2, <1>3 DEF SMInv, SM!Driving

(***************************************************************************)
(* A step of one execution that fails or is cancelled.                     *)
(***************************************************************************)
LEMMA SMReject ==
  ASSUME SMInv, NEW i \in DOMAIN runs, runs[i].at \notin SM!Settled,
         NEW e \in {"failed", "cancelled"}, NEW p \in {SM!Phases[k] : k \in 1..7},
         e = "cancelled" => SM!Signal(i), SM!Rejects(i, e, p), UNCHANGED <<pending, aborted>>
  PROVE  SMInv'
<1> DEFINE r == [runs[i] EXCEPT !.at = e, !.phase = p]
<1>1. /\ runs \in Seq(SM!Run) /\ runs[i] \in SM!Run
      /\ i \in 1..Len(runs) /\ Len(runs) \in Nat
  BY DEF SMInv, SM!SMTypeOK
<1>2. /\ r \in SM!Run /\ r.at = e /\ r.sibling = runs[i].sibling /\ r.verdict = runs[i].verdict
  BY <1>1 DEF SM!Run, SM!Settled
<1>3. runs' = [runs EXCEPT ![i] = r]
  BY <1>1 DEF SM!Rejects, SM!Run
<1> HIDE DEF r
<1>4. /\ DOMAIN runs' = DOMAIN runs /\ Len(runs') = Len(runs)
      /\ runs' \in Seq(SM!Run) /\ runs'[i] = r
      /\ \A j \in DOMAIN runs : j # i => runs'[j] = runs[j]
  BY <1>1, <1>2, <1>3
<1>5. i \in 1..MaxRuns
  BY <1>1, PartNumbers DEF SMInv
<1>6. SM!SMTypeOK'
  <2>1. turn' \in [driver : {"idle", "sequential", "parallel", "schedule"},
                   at : {"stages", "siblings", "join"}, join : SM!StageIds \cup {"none"},
                   taken : 0..MaxRuns, firstFailure : 0..MaxRuns, end : SM!Ends]
    <3>1. i \in 0..MaxRuns
      BY <1>5, PartNumbers
    <3> QED
      BY <3>1 DEF SMInv, SM!SMTypeOK, SM!Rejects
  <2>2. failFast' \in BOOLEAN
    BY DEF SM!Rejects, SMInv, SM!SMTypeOK, SM!InFanOut
  <2> QED
    BY <1>4, <2>1, <2>2 DEF SMInv, SM!SMTypeOK
<1>7. /\ turn'.driver = turn.driver /\ turn'.at = turn.at /\ turn'.join = turn.join
      /\ turn'.end = turn.end
      /\ turn'.firstFailure = IF SM!InFanOut(i) /\ turn.firstFailure = 0 THEN i ELSE turn.firstFailure
  BY DEF SM!Rejects, SMInv, SM!SMTypeOK
<1>8. turn.driver # "idle"
  BY <1>1 DEF SMInv
<1>9. SMFanInv'
  <2> SUFFICES ASSUME turn.driver = "parallel" PROVE SMFanInv'
    BY <1>7 DEF SMFanInv
  <2>1. ~SMLost(i) /\ SMLost(i)'
    BY <1>2, <1>4 DEF SMLost, SM!Settled
  <2>2. \A j \in DOMAIN runs : runs'[j].sibling = runs[j].sibling /\ (j # i => (SMLost(j)' <=> SMLost(j)))
    BY <1>2, <1>4 DEF SMLost
  <2>3. turn.at = "join" \/ ~SM!Driving => ~runs[i].sibling
    BY DEF SMInv, SMFanInv, SM!FanOutSettlesTogether, SM!AllSettled, SM!Siblings
  <2>4. SM!Siblings' = SM!Siblings /\ SM!Driving' = SM!Driving
    BY <1>4, <1>7, <2>2 DEF SM!Siblings, SM!Driving
  <2>5. turn.at = "join" \/ ~SM!Driving => \A j \in SM!Siblings : runs'[j] = runs[j]
    BY <1>4, <2>3 DEF SM!Siblings
  <2>6. SM!InFanOut(i) <=> runs[i].sibling
    BY DEF SM!InFanOut
  <2>7. failFast' <=> failFast \/ runs[i].sibling
    BY <2>6 DEF SM!Rejects
  <2>8. i # 0 /\ turn.firstFailure # i
    BY <1>1, <2>1 DEF SMInv, SMFanInv
  <2>9. e = "cancelled" /\ runs[i].sibling /\ turn.firstFailure = 0 => aborted
    BY <2>6 DEF SM!Signal, SMInv, SMFanInv
  <2>10. CASE runs[i].sibling /\ turn.firstFailure = 0
    <3>1. turn'.firstFailure = i /\ turn.at # "join" /\ SM!Driving
      BY <1>7, <2>3, <2>6, <2>10
    <3>2. turn.end # "siblingFailed"
      BY <3>1 DEF SM!Driving
    <3>3. ~\E j \in DOMAIN runs : ~runs[j].sibling
      BY <3>1 DEF SMInv, SMFanInv
    <3> QED
      BY <1>2, <1>4, <1>7, <2>1, <2>2, <2>4, <2>7, <2>8, <2>9, <2>10, <3>1, <3>2, <3>3
         DEF SMInv, SMFanInv, SM!FanOutSettlesTogether
  <2>11. CASE ~(runs[i].sibling /\ turn.firstFailure = 0)
    <3>1. turn'.firstFailure = turn.firstFailure
      BY <1>7, <2>6, <2>11
    <3>2. turn.firstFailure # 0 => runs'[turn.firstFailure] = runs[turn.firstFailure]
      BY <1>4, <2>8 DEF SMInv, SMFanInv
    <3>3. (\E j \in DOMAIN runs : ~runs[j].sibling) => turn.at = "join"
      BY DEF SMInv, SMFanInv
    <3>4. turn.end = "siblingFailed" => runs'[turn.firstFailure].at = "failed"
      <4>1. turn.end = "siblingFailed" => runs[turn.firstFailure].at = "failed"
        BY DEF SMInv, SMFanInv, SM!FanOutSettlesTogether
      <4>2. turn.end = "siblingFailed" => turn.firstFailure # 0
        BY DEF SMInv, SMFanInv
      <4> QED
        BY <3>1, <3>2, <4>1, <4>2
    <3>5. \A j \in DOMAIN runs : runs'[j].sibling /\ SMLost(j)' => turn.firstFailure # 0
      BY <2>2, <2>11 DEF SMInv, SMFanInv
    <3>6. turn.firstFailure # 0 =>
            /\ turn.firstFailure \in DOMAIN runs
            /\ runs'[turn.firstFailure].sibling /\ SMLost(turn.firstFailure)'
            /\ runs'[turn.firstFailure].at = "cancelled" => aborted
      BY <3>1, <3>2 DEF SMInv, SMFanInv, SMLost
    <3>7. turn.at = "join" \/ ~SM!Driving => SM!AllSettled'
      <4>1. turn.at = "join" \/ ~SM!Driving => SM!AllSettled
        BY DEF SMInv, SMFanInv, SM!FanOutSettlesTogether
      <4> QED
        BY <2>4, <2>5, <4>1 DEF SM!AllSettled
    <3>8. SM!FanOutSettlesTogether'
      <4>1. (\E j \in DOMAIN runs : ~runs'[j].sibling) =>
              \A j \in SM!Siblings : runs'[j].at = "done" /\ runs'[j].verdict = "ok"
        BY <2>2, <2>5, <3>3 DEF SMInv, SMFanInv, SM!FanOutSettlesTogether
      <4> QED
        BY <1>4, <1>7, <2>4, <3>1, <3>4, <3>7, <4>1 DEF SM!FanOutSettlesTogether
    <3> QED
      BY <1>4, <1>7, <2>2, <2>4, <2>7, <2>11, <3>1, <3>3, <3>5, <3>6, <3>7, <3>8 DEF SMInv, SMFanInv
  <2> QED
    BY <2>10, <2>11
<1> QED
  BY <1>4, <1>6, <1>7, <1>8, <1>9 DEF SMInv

(***************************************************************************)
(* Every step of a stage execution.                                        *)
(***************************************************************************)
LEMMA SMRunStep ==
  ASSUME SMInv, NEW i \in DOMAIN runs,
         SM!workResolves(i) \/ SM!workThrows(i) \/ SM!phaseCancelled(i) \/ SM!phaseStarts(i)
           \/ SM!runStageReturns(i)
  PROVE  SMInv'
<1>1. runs \in Seq(SM!Run) /\ runs[i] \in SM!Run
  BY DEF SMInv, SM!SMTypeOK
<1>2. /\ runs[i].phase \in {SM!Phases[k] : k \in 1..7}
      /\ runs[i].verdict \in SM!Verdicts \cup SM!Outcomes
  BY <1>1 DEF SM!Run
<1>3. CASE SM!workResolves(i)
  <2>1. PICK v \in SM!Verdicts \cup SM!Outcomes : SM!Resolves(i, v)
    BY <1>2, <1>3 DEF SM!workResolves
  <2>2. /\ runs' = [runs EXCEPT ![i] = [runs[i] EXCEPT !.at = "resolved", !.verdict = v]]
        /\ runs[i].at \notin SM!Settled /\ UNCHANGED <<turn, pending, aborted, failFast>>
    BY <1>1, <2>1 DEF SM!Resolves, SM!Run, SM!Settled
  <2>3. [runs[i] EXCEPT !.at = "resolved", !.verdict = v] \in SM!Run
    BY <1>1 DEF SM!Run
  <2>4. /\ [runs[i] EXCEPT !.at = "resolved", !.verdict = v].sibling = runs[i].sibling
        /\ [runs[i] EXCEPT !.at = "resolved", !.verdict = v].at = "resolved"
    BY <1>1 DEF SM!Run
  <2> QED
    BY <2>2, <2>3, <2>4, SMQuiet
<1>4. CASE SM!workThrows(i)
  <2>1. runs[i].at \notin SM!Settled /\ SM!Rejects(i, "failed", runs[i].phase) /\ UNCHANGED <<pending, aborted>>
    BY <1>4 DEF SM!workThrows, SM!Settled
  <2> QED
    BY <1>2, <2>1, SMReject
<1>5. CASE SM!phaseCancelled(i)
  <2>1. /\ runs[i].at \notin SM!Settled /\ SM!Rejects(i, "cancelled", runs[i].phase)
        /\ UNCHANGED <<pending, aborted>> /\ SM!Signal(i)
    BY <1>5 DEF SM!phaseCancelled, SM!Cancels, SM!Settled
  <2> QED
    BY <1>2, <2>1, SMReject
<1>6. CASE SM!phaseStarts(i)
  <2>1. runs[i].at \notin SM!Settled /\ SM!After(runs[i].phase) \in {SM!Phases[k] : k \in 1..7}
    BY <1>2, <1>6, PhaseAfter DEF SM!phaseStarts, SM!Settled
  <2>2. CASE SM!Signal(i)
    <3>1. SM!Rejects(i, "cancelled", SM!After(runs[i].phase)) /\ UNCHANGED <<pending, aborted>>
      BY <1>6, <2>2 DEF SM!phaseStarts, SM!Cancels
    <3> QED
      BY <2>1, <2>2, <3>1, SMReject
  <2>3. CASE ~SM!Signal(i)
    <3> DEFINE q == SM!After(runs[i].phase)
    <3> HIDE DEF q
    <3>1. /\ runs' = [runs EXCEPT ![i] = [runs[i] EXCEPT !.phase = q, !.at = "working"]]
          /\ UNCHANGED <<turn, pending, aborted, failFast>>
      BY <1>1, <1>6, <2>3 DEF SM!phaseStarts, SM!Run, q
    <3>2. q \in {SM!Phases[k] : k \in 1..7}
      BY <2>1 DEF q
    <3>3. [runs[i] EXCEPT !.phase = q, !.at = "working"] \in SM!Run
      BY <1>1, <3>2 DEF SM!Run
    <3>4. /\ [runs[i] EXCEPT !.phase = q, !.at = "working"].sibling = runs[i].sibling
          /\ [runs[i] EXCEPT !.phase = q, !.at = "working"].at = "working"
      BY <1>1 DEF SM!Run
    <3> QED
      BY <2>1, <3>1, <3>3, <3>4, SMQuiet
  <2> QED
    BY <2>2, <2>3
<1>7. CASE SM!runStageReturns(i)
  <2>1. runs[i].at \notin SM!Settled /\ UNCHANGED <<pending, aborted>>
    BY <1>7 DEF SM!runStageReturns, SM!Settled
  <2>2. CASE SM!InFanOut(i) /\ runs[i].verdict = "fail"
    <3>1. SM!Rejects(i, "failed", "Next")
      BY <1>7, <2>2 DEF SM!runStageReturns
    <3>2. "Next" \in {SM!Phases[k] : k \in 1..7}
      <4>1. SM!Phases[7] = "Next"
        BY DEF SM!Phases
      <4> QED
        BY <4>1
    <3> QED
      BY <2>1, <3>1, <3>2, SMReject
  <2>3. CASE ~(SM!InFanOut(i) /\ runs[i].verdict = "fail")
    <3>1. /\ runs' = [runs EXCEPT ![i] = [runs[i] EXCEPT !.at = "done"]]
          /\ UNCHANGED <<turn, failFast>>
      BY <1>1, <1>7, <2>3 DEF SM!runStageReturns, SM!Run
    <3>2. [runs[i] EXCEPT !.at = "done"] \in SM!Run
      BY <1>1 DEF SM!Run, SM!Settled
    <3>3. /\ [runs[i] EXCEPT !.at = "done"].sibling = runs[i].sibling
          /\ [runs[i] EXCEPT !.at = "done"].at = "done"
      BY <1>1 DEF SM!Run
    <3> QED
      BY <2>1, <3>1, <3>2, <3>3, SMQuiet
  <2> QED
    BY <2>2, <2>3
<1> QED
  BY <1>3, <1>4, <1>5, <1>6, <1>7

(***************************************************************************)
(* The drivers: what a launch appends, and what a stage says comes next.   *)
(***************************************************************************)
SMTurn == [driver : {"idle", "sequential", "parallel", "schedule"}, at : {"stages", "siblings", "join"},
           join : SM!StageIds \cup {"none"}, taken : 0..MaxRuns, firstFailure : 0..MaxRuns, end : SM!Ends]

LEMMA SMTypes ==
  SM!SMTypeOK <=> /\ turn \in SMTurn /\ pending \in Seq(SM!StageIds) /\ runs \in Seq(SM!Run)
                  /\ aborted \in BOOLEAN /\ failFast \in BOOLEAN
  BY DEF SM!SMTypeOK, SMTurn

LEMMA SMTypesNext ==
  SM!SMTypeOK' <=> /\ turn' \in SMTurn /\ pending' \in Seq(SM!StageIds) /\ runs' \in Seq(SM!Run)
                   /\ aborted' \in BOOLEAN /\ failFast' \in BOOLEAN
  BY DEF SM!SMTypeOK, SMTurn

LEMMA ConcatLemma ==
  ASSUME NEW S, NEW p \in Seq(S), NEW q \in Seq(S)
  PROVE  /\ p \o q \in Seq(S) /\ Len(p \o q) = Len(p) + Len(q)
         /\ \A j \in DOMAIN p : j \in DOMAIN (p \o q) /\ (p \o q)[j] = p[j]
         /\ \A j \in DOMAIN (p \o q) : j \notin DOMAIN p => \E k \in DOMAIN q : (p \o q)[j] = q[k]
<1>1. p \o q \in Seq(S) /\ Len(p \o q) = Len(p) + Len(q)
  OBVIOUS
<1>2. DOMAIN p = 1..Len(p) /\ DOMAIN q = 1..Len(q) /\ DOMAIN (p \o q) = 1..(Len(p) + Len(q))
  BY <1>1
<1>3. \A j \in 1..Len(p) : (p \o q)[j] = p[j]
  OBVIOUS
<1>4. \A j \in 1..(Len(p) + Len(q)) : j > Len(p) => (p \o q)[j] = q[j - Len(p)] /\ j - Len(p) \in 1..Len(q)
  OBVIOUS
<1> QED
  BY <1>1, <1>2, <1>3, <1>4

LEMMA ConcatResult ==
  ASSUME NEW S, NEW p, NEW q, NEW r, p \in Seq(S), q \in Seq(S), r = p \o q
  PROVE  /\ r \in Seq(S) /\ Len(r) = Len(p) + Len(q)
         /\ \A j \in DOMAIN p : j \in DOMAIN r /\ r[j] = p[j]
         /\ \A j \in DOMAIN r : j \notin DOMAIN p => \E k \in DOMAIN q : r[j] = q[k]
  BY ConcatLemma

LEMMA SMLaunch ==
  ASSUME runs \in Seq(SM!Run), NEW stages \in Seq(SM!StageIds), NEW sib \in BOOLEAN,
         SM!Launch(stages, sib)
  PROVE  /\ runs' \in Seq(SM!Run) /\ Len(runs') = Len(runs) + Len(stages) /\ Len(runs') <= MaxRuns
         /\ \A j \in DOMAIN runs : j \in DOMAIN runs' /\ runs'[j] = runs[j]
         /\ \A j \in DOMAIN runs' : j \notin DOMAIN runs =>
              runs'[j].sibling = sib /\ runs'[j].at = IF aborted THEN "cancelled" ELSE "working"
<1> DEFINE new == [k \in DOMAIN stages |->
                    [stage |-> stages[k], phase |-> "Setup", at |-> IF aborted THEN "cancelled" ELSE "working",
                     sibling |-> sib, verdict |-> "proceed"]]
<1>1. "Setup" \in {SM!Phases[k] : k \in 1..7}
  <2>1. SM!Phases[1] = "Setup"
    BY DEF SM!Phases
  <2> QED
    BY <2>1
<1>2. \A k \in DOMAIN stages : new[k] \in SM!Run /\ new[k].sibling = sib
                              /\ new[k].at = IF aborted THEN "cancelled" ELSE "working"
  BY <1>1 DEF SM!Run, SM!Settled, SM!Verdicts
<1>3. DOMAIN stages = 1..Len(stages) /\ Len(stages) \in Nat
  OBVIOUS
<1>4. DOMAIN new = DOMAIN stages
  OBVIOUS
<1>5. runs' = runs \o new /\ Len(runs) + Len(stages) <= MaxRuns
  BY DEF SM!Launch
<1> HIDE DEF new
<1>6. new \in Seq(SM!Run) /\ Len(new) = Len(stages)
  <2>1. new = [k \in 1..Len(stages) |-> new[k]]
    BY <1>3 DEF new
  <2> QED
    BY <1>2, <1>3, <1>4, <2>1
<1>7. /\ runs' \in Seq(SM!Run) /\ Len(runs') = Len(runs) + Len(new)
      /\ \A j \in DOMAIN runs : j \in DOMAIN runs' /\ runs'[j] = runs[j]
      /\ \A j \in DOMAIN runs' : j \notin DOMAIN runs => \E k \in DOMAIN new : runs'[j] = new[k]
  <2>1. runs' = runs \o new
    BY <1>5
  <2>2. new \in Seq(SM!Run)
    BY <1>6
  <2>3. runs' \in Seq(SM!Run) /\ Len(runs') = Len(runs) + Len(new)
    BY <2>1, <2>2, ConcatResult
  <2>4. \A j \in DOMAIN runs : j \in DOMAIN runs' /\ runs'[j] = runs[j]
    BY <2>1, <2>2, ConcatResult, SMTT(30)
  <2>5. \A j \in DOMAIN runs' : j \notin DOMAIN runs => \E k \in DOMAIN new : runs'[j] = new[k]
    BY <2>1, <2>2, ConcatResult, SMTT(30)
  <2> QED
    BY <2>3, <2>4, <2>5
<1> QED
  BY <1>2, <1>4, <1>5, <1>6, <1>7

LEMMA SMNextOf ==
  ASSUME NEW s \in SM!StageIds
  PROVE  SM!NextOf[s].stageIds \in Seq(SM!StageIds) /\ SM!NextOf[s].join \in SM!StageIds \cup {"none"}
<1>1. SM!Terminate.stageIds = <<>> /\ SM!Terminate.join = "none"
  BY DEF SM!Terminate
<1>2. ASSUME NEW q \in Seq(SM!StageIds)
      PROVE  SM!Sequential(q).stageIds \in Seq(SM!StageIds) /\ SM!Sequential(q).join = "none"
  BY <1>1 DEF SM!Sequential
<1>3. /\ SM!Parallel(<<"BuildA", "BuildB">>, "JoinReview").stageIds = <<"BuildA", "BuildB">>
      /\ SM!Parallel(<<"BuildA", "BuildB">>, "JoinReview").join = "JoinReview"
  BY DEF SM!Parallel
<1>4. /\ <<"Decompose">> \in Seq(SM!StageIds) /\ <<"Complete">> \in Seq(SM!StageIds)
      /\ <<>> \in Seq(SM!StageIds) /\ <<"BuildA", "BuildB">> \in Seq(SM!StageIds)
      /\ "JoinReview" \in SM!StageIds
  BY DEF SM!StageIds
<1>5. SM!NextOf[s] \in {SM!Sequential(<<"Decompose">>), SM!Parallel(<<"BuildA", "BuildB">>, "JoinReview"),
                       SM!Sequential(<<"Complete">>), SM!Sequential(<<>>)}
  BY DEF SM!NextOf
<1>6. SM!Parallel(<<"BuildA", "BuildB">>, "JoinReview").stageIds \in Seq(SM!StageIds)
  BY <1>3, <1>4
<1> QED
  BY <1>2, <1>3, <1>4, <1>5, <1>6

(***************************************************************************)
(* The drivers that walk one stage after the other.                        *)
(***************************************************************************)
LEMMA SMOther ==
  ASSUME turn'.driver \in {"sequential", "schedule"}, SM!SMTypeOK', Len(runs') <= MaxRuns
  PROVE  SMInv'
  BY DEF SMInv, SMFanInv

LEMMA SMSettles ==
  ASSUME SMInv, turn.driver \in {"sequential", "schedule"}, NEW e \in SM!Ends, SM!Settle(e)
  PROVE  SMInv'
<1>1. turn' \in SMTurn /\ turn'.driver = turn.driver
  BY SMTypes DEF SMInv, SM!Settle, SMTurn
<1>2. SM!SMTypeOK' /\ Len(runs') <= MaxRuns
  BY <1>1, SMTypes, SMTypesNext DEF SMInv, SM!Settle
<1> QED
  BY <1>1, <1>2, SMOther

LEMMA SMWalkStep ==
  ASSUME SMInv,
         \/ SM!startNext \/ SM!stagesEnd \/ SM!stageFailed
         \/ SM!takeSequential \/ SM!takeScheduled \/ SM!scheduledSiblings
  PROVE  SMInv'
<1>1. turn \in SMTurn /\ pending \in Seq(SM!StageIds) /\ runs \in Seq(SM!Run)
      /\ aborted \in BOOLEAN /\ failFast \in BOOLEAN /\ Len(runs) <= MaxRuns /\ Len(runs) \in Nat
  BY SMTypes DEF SMInv
<1>2. turn.driver \in {"sequential", "schedule"}
  <2>1. turn.driver # "idle" /\ (turn.driver = "parallel" => turn.at # "stages")
    BY DEF SMInv, SMFanInv, SM!startNext, SM!stagesEnd, SM!stageFailed, SM!takeSequential, SM!takeScheduled,
           SM!scheduledSiblings, SM!Awaited, SM!AtStages
  <2> QED
    BY <1>1, <2>1 DEF SMTurn, SM!startNext, SM!stagesEnd, SM!stageFailed, SM!takeSequential,
         SM!takeScheduled, SM!scheduledSiblings, SM!Awaited, SM!AtStages
<1>3. Len(runs) \in 0..MaxRuns
  BY <1>1, PartNumbers
<1>4. CASE SM!startNext
  <2>1. Head(pending) \in SM!StageIds /\ Tail(pending) \in Seq(SM!StageIds)
    BY <1>1, <1>4 DEF SM!startNext
  <2>2. <<Head(pending)>> \in Seq(SM!StageIds)
    BY <2>1
  <2>3. runs' \in Seq(SM!Run) /\ Len(runs') <= MaxRuns
    BY <1>1, <1>4, <2>2, SMLaunch DEF SM!startNext
  <2> QED
    BY <1>1, <1>2, <1>4, <2>1, <2>3, SMTypesNext, SMOther DEF SM!startNext
<1>5. CASE SM!stagesEnd
  <2>1. \E e \in SM!Ends : SM!Settle(e)
    BY <1>5 DEF SM!stagesEnd, SM!Ends
  <2> QED
    BY <1>2, <2>1, SMSettles
<1>6. CASE SM!stageFailed
  <2>1. \E e \in SM!Ends : SM!Settle(e)
    BY <1>6 DEF SM!stageFailed, SM!Ends
  <2> QED
    BY <1>2, <2>1, SMSettles
<1>7. CASE SM!takeSequential
  <2>1. turn' \in SMTurn /\ turn'.driver = turn.driver
    BY <1>1, <1>3, <1>7 DEF SM!takeSequential, SMTurn, SM!Ends
  <2> QED
    BY <1>1, <1>2, <1>7, <2>1, SMTypesNext, SMOther DEF SM!takeSequential
<1>8. CASE SM!takeScheduled
  <2> DEFINE next == SM!NextOf[SM!Latest.stage]
  <2>1. SM!Latest.stage \in SM!StageIds
    <3>1. Len(runs) \in DOMAIN runs
      BY <1>1, <1>8 DEF SM!takeScheduled, SM!Awaited, SMTurn
    <3>2. runs[Len(runs)] \in SM!Run
      BY <1>1, <3>1
    <3> QED
      BY <3>2 DEF SM!Latest, SM!Run
  <2>2. next.stageIds \in Seq(SM!StageIds) /\ next.join \in SM!StageIds \cup {"none"}
    BY <2>1, SMNextOf
  <2>3. UNCHANGED <<aborted, failFast>>
    BY <1>8 DEF SM!takeScheduled
  <2>4. CASE next.execution = "parallel"
    <3>1. /\ turn' = [turn EXCEPT !.taken = Len(runs), !.at = "siblings", !.join = next.join]
          /\ SM!Launch(next.stageIds, TRUE) /\ UNCHANGED pending
      BY <1>8, <2>4 DEF SM!takeScheduled
    <3>2. turn' \in SMTurn /\ turn'.driver = turn.driver
      BY <1>1, <1>3, <2>2, <3>1 DEF SMTurn
    <3>3. runs' \in Seq(SM!Run) /\ Len(runs') <= MaxRuns
      BY <1>1, <2>2, <3>1, SMLaunch
    <3> QED
      BY <1>1, <1>2, <2>3, <3>1, <3>2, <3>3, SMTypesNext, SMOther
  <2>5. CASE next.execution # "parallel"
    <3>1. /\ turn' = [turn EXCEPT !.taken = Len(runs)]
          /\ pending' = next.stageIds \o pending /\ UNCHANGED runs
      BY <1>8, <2>5 DEF SM!takeScheduled
    <3>2. turn' \in SMTurn /\ turn'.driver = turn.driver
      BY <1>1, <1>3, <3>1 DEF SMTurn
    <3>3. pending' \in Seq(SM!StageIds)
      BY <1>1, <2>2, <3>1, ConcatLemma
    <3> QED
      BY <1>1, <1>2, <2>3, <3>1, <3>2, <3>3, SMTypesNext, SMOther
  <2> QED
    BY <2>4, <2>5
<1>9. CASE SM!scheduledSiblings
  <2>1. ASSUME SM!Settle("siblingFailed") PROVE SMInv'
    BY <1>2, <2>1, SMSettles DEF SM!Ends
  <2>2. ASSUME turn' = [turn EXCEPT !.taken = Len(runs), !.at = "stages"],
               pending' = IF turn.join = "none" THEN pending ELSE <<turn.join>> \o pending,
               UNCHANGED <<runs, aborted, failFast>>
        PROVE  SMInv'
    <3>1. turn' \in SMTurn /\ turn'.driver = turn.driver
      BY <1>1, <1>3, <2>2 DEF SMTurn
    <3>2. pending' \in Seq(SM!StageIds)
      <4>1. turn.join \in SM!StageIds \cup {"none"}
        BY <1>1 DEF SMTurn
      <4>2. turn.join # "none" => <<turn.join>> \in Seq(SM!StageIds)
        BY <4>1
      <4> QED
        BY <1>1, <2>2, <4>2, ConcatLemma
    <3> QED
      BY <1>1, <1>2, <2>2, <3>1, <3>2, SMTypesNext, SMOther
  <2> QED
    BY <1>9, <2>1, <2>2 DEF SM!scheduledSiblings
<1> QED
  BY <1>4, <1>5, <1>6, <1>7, <1>8, <1>9

(***************************************************************************)
(* runParallel and the join that follows it.                               *)
(***************************************************************************)
LEMMA SMParallelCalled ==
  ASSUME SMInv, NEW p \in StagePlans, SM!runParallel(p)
  PROVE  SMInv'
<1>1. turn \in SMTurn /\ pending \in Seq(SM!StageIds) /\ runs \in Seq(SM!Run)
      /\ aborted \in BOOLEAN /\ failFast \in BOOLEAN
  BY SMTypes DEF SMInv
<1>2. /\ p.driver = "parallel" /\ p.stages \in Seq(SM!StageIds) /\ p.join \in SM!StageIds \cup {"none"}
      /\ UNCHANGED <<pending, aborted, failFast>>
  BY PartsAssumption DEF SM!runParallel
<1>3. turn.driver = "idle" /\ runs = <<>> /\ turn.firstFailure = 0 /\ ~failFast
  BY DEF SMInv, SM!runParallel, SM!Calling
<1>4. ASSUME NEW e \in {"failed", "cancelled", "running"}, SM!Calling(p, e, "siblings")
      PROVE  /\ turn' \in SMTurn /\ turn'.driver = "parallel" /\ turn'.at = "siblings"
             /\ turn'.end = e /\ turn'.firstFailure = 0
  BY <1>1, <1>2, <1>3, <1>4 DEF SM!Calling, SMTurn, SM!Ends
<1>5. CASE Len(p.stages) < 2 \/ aborted
  <2>1. /\ UNCHANGED runs
        /\ SM!Calling(p, IF Len(p.stages) < 2 THEN "failed" ELSE "cancelled", "siblings")
    <3>1. ~(Len(p.stages) >= 2 /\ ~aborted)
      <4>1. Len(p.stages) \in Nat
        BY <1>2
      <4>2. Len(p.stages) < 2 => ~(Len(p.stages) >= 2)
        BY <4>1
      <4> QED
        BY <1>5, <4>2
    <3> QED
      BY <3>1 DEF SM!runParallel
  <2>2. \E e \in {"failed", "cancelled"} : SM!Calling(p, e, "siblings")
    BY <2>1
  <2>3. SM!SMTypeOK'
    BY <1>1, <1>2, <1>4, <2>1, <2>2, SMTypesNext
  <2> QED
    BY <1>2, <1>3, <1>4, <2>1, <2>2, <2>3, PartNumbers
       DEF SMInv, SMFanInv, SM!FanOutSettlesTogether, SM!AllSettled, SM!Siblings, SM!Driving
<1>6. CASE ~(Len(p.stages) < 2 \/ aborted)
  <2>1. ~aborted /\ SM!Calling(p, "running", "siblings") /\ SM!Launch(p.stages, TRUE)
    BY <1>1, <1>2, <1>6 DEF SM!runParallel
  <2>2. /\ runs' \in Seq(SM!Run) /\ Len(runs') <= MaxRuns
        /\ \A j \in DOMAIN runs' : runs'[j].sibling /\ runs'[j].at = "working"
    <3>1. \A j : j \notin DOMAIN runs
      BY <1>3
    <3> QED
      BY <1>1, <1>2, <2>1, <3>1, SMLaunch
  <2>3. SM!SMTypeOK'
    BY <1>1, <1>2, <1>4, <2>1, <2>2, SMTypesNext
  <2> QED
    BY <1>2, <1>3, <1>4, <2>1, <2>2, <2>3
       DEF SMInv, SMFanInv, SM!FanOutSettlesTogether, SM!Driving, SMLost
<1> QED
  BY <1>5, <1>6

LEMMA SMParallelEnds ==
  ASSUME SMInv, SM!parallelSettles \/ SM!joinSettles \/ SM!runJoin
  PROVE  SMInv'
<1>1. turn \in SMTurn /\ pending \in Seq(SM!StageIds) /\ runs \in Seq(SM!Run)
      /\ aborted \in BOOLEAN /\ failFast \in BOOLEAN /\ Len(runs) <= MaxRuns /\ Len(runs) \in Nat
  BY SMTypes DEF SMInv
<1>2. turn.driver = "parallel" /\ SM!Driving /\ SMFanInv
  BY DEF SMInv, SM!parallelSettles, SM!joinSettles, SM!runJoin, SM!AtJoin
<1>3. SM!AllSettled
  BY <1>2 DEF SM!parallelSettles, SM!joinSettles, SM!runJoin, SM!AtJoin, SMFanInv
<1>4. ASSUME NEW e \in SM!Ends \ {"running"}, SM!Settle(e),
             e = "siblingFailed" => ~aborted /\ turn.firstFailure # 0
      PROVE  SMInv'
  <2>1. /\ turn' \in SMTurn /\ turn'.driver = "parallel" /\ turn'.at = turn.at /\ turn'.join = turn.join
        /\ turn'.end = e /\ turn'.firstFailure = turn.firstFailure
        /\ UNCHANGED <<pending, runs, aborted, failFast>>
    BY <1>1, <1>2, <1>4 DEF SM!Settle, SMTurn
  <2>2. SM!SMTypeOK'
    BY <1>1, <2>1, SMTypesNext
  <2>3. e = "siblingFailed" => runs[turn.firstFailure].at = "failed"
    BY <1>2, <1>4 DEF SMFanInv, SMLost
  <2> QED
    BY <1>1, <1>2, <1>3, <1>4, <2>1, <2>2, <2>3
       DEF SMInv, SMFanInv, SMLost, SM!FanOutSettlesTogether, SM!AllSettled, SM!Siblings, SM!Driving
<1>5. CASE SM!parallelSettles
  <2>1. CASE aborted /\ SM!Settle("cancelled")
    BY <1>4, <2>1 DEF SM!Ends
  <2>2. CASE ~aborted /\ turn.firstFailure # 0 /\ SM!Settle("siblingFailed")
    BY <1>4, <2>2 DEF SM!Ends
  <2>3. ASSUME ~aborted, turn.firstFailure = 0,
               turn' = [turn EXCEPT !.at = "join", !.taken = Len(runs),
                                    !.end = IF turn.join = "none" THEN "completed" ELSE "running"],
               UNCHANGED <<pending, runs, aborted, failFast>>
        PROVE  SMInv'
    <3>1. Len(runs) \in 0..MaxRuns
      BY <1>1, PartNumbers
    <3>2. /\ turn' \in SMTurn /\ turn'.driver = "parallel" /\ turn'.at = "join" /\ turn'.join = turn.join
          /\ turn'.end = IF turn.join = "none" THEN "completed" ELSE "running"
          /\ turn'.firstFailure = 0
      BY <1>1, <1>2, <2>3, <3>1 DEF SMTurn, SM!Ends
    <3>3. SM!SMTypeOK'
      BY <1>1, <2>3, <3>2, SMTypesNext
    <3>4. turn.at = "siblings" /\ \A i \in DOMAIN runs : runs[i].sibling
      BY <1>2, <1>5 DEF SM!parallelSettles, SMFanInv
    <3> QED
      BY <1>1, <1>2, <1>3, <2>3, <3>2, <3>3, <3>4
         DEF SMInv, SMFanInv, SMLost, SM!FanOutSettlesTogether, SM!AllSettled, SM!Siblings, SM!Driving
  <2> QED
    BY <1>5, <2>1, <2>2, <2>3 DEF SM!parallelSettles
<1>6. CASE SM!joinSettles
  <2>1. Len(runs) \in DOMAIN runs /\ SM!Latest \in SM!Run
    <3>1. Len(runs) \in DOMAIN runs
      BY <1>1, <1>6 DEF SM!joinSettles, SMTurn
    <3> QED
      BY <1>1, <3>1 DEF SM!Latest
  <2>2. PICK e \in {"failed", "cancelled", "completed"} : SM!Settle(e)
    BY <1>6, <2>1 DEF SM!joinSettles, SM!Settled
  <2> QED
    BY <1>4, <2>2 DEF SM!Ends
<1>7. CASE SM!runJoin
  <2>1. CASE aborted /\ SM!Settle("cancelled")
    BY <1>4, <2>1 DEF SM!Ends
  <2>2. CASE ~aborted /\ ~SM!SiblingsOk /\ SM!Settle("joinRefused")
    BY <1>4, <2>2 DEF SM!Ends
  <2>3. ASSUME ~aborted, SM!SiblingsOk, SM!Launch(<<turn.join>>, FALSE),
               UNCHANGED <<turn, pending, aborted, failFast>>
        PROVE  SMInv'
    <3>1. turn.at = "join" /\ turn.join # "none" /\ turn.firstFailure = 0
      BY <1>2, <1>7 DEF SM!runJoin, SM!AtJoin, SMFanInv
    <3>2. <<turn.join>> \in Seq(SM!StageIds)
      <4>1. turn.join \in SM!StageIds
        BY <1>1, <3>1 DEF SMTurn
      <4> QED
        BY <4>1
    <3>3. /\ runs' \in Seq(SM!Run) /\ Len(runs') <= MaxRuns
          /\ \A j \in DOMAIN runs : j \in DOMAIN runs' /\ runs'[j] = runs[j]
          /\ \A j \in DOMAIN runs' : j \notin DOMAIN runs => ~runs'[j].sibling
      BY <1>1, <2>3, <3>2, SMLaunch
    <3>4. SM!SMTypeOK'
      BY <1>1, <2>3, <3>3, SMTypesNext
    <3>5. SM!Siblings' = SM!Siblings
      BY <3>3 DEF SM!Siblings
    <3>6. \A i \in SM!Siblings : runs'[i] = runs[i] /\ runs[i].at = "done" /\ runs[i].verdict = "ok"
      <4>1. \A i \in SM!Siblings : runs[i].at \in SM!Settled /\ ~SMLost(i)
        BY <1>2, <1>3, <3>1 DEF SM!AllSettled, SMFanInv, SM!Siblings
      <4> QED
        BY <2>3, <3>3, <4>1 DEF SM!SiblingsOk, SM!Siblings, SM!Settled, SMLost
    <3>7. SM!AllSettled'
      BY <3>5, <3>6 DEF SM!AllSettled, SM!Settled
    <3>8. \A i \in DOMAIN runs' : runs'[i].sibling => i \in SM!Siblings
      BY <3>3 DEF SM!Siblings
    <3>9. SMFanInv'
      BY <1>2, <2>3, <3>1, <3>5, <3>6, <3>7, <3>8
         DEF SMFanInv, SMLost, SM!FanOutSettlesTogether, SM!Driving
    <3> QED
      BY <1>2, <2>3, <3>3, <3>4, <3>9 DEF SMInv
  <2> QED
    BY <1>7, <2>1, <2>2, <2>3 DEF SM!runJoin
<1> QED
  BY <1>5, <1>6, <1>7

(***************************************************************************)
(* Every step of the stages preserves the invariant.                       *)
(***************************************************************************)
LEMMA SMNextInv == SMInv /\ [SM!SMNext]_smVars => SMInv'
<1> SUFFICES ASSUME SMInv, [SM!SMNext]_smVars PROVE SMInv'
  OBVIOUS
<1>1. CASE UNCHANGED smVars
  BY <1>1 DEF smVars, SMInv, SMFanInv, SMLost, SM!SMTypeOK, SM!FanOutSettlesTogether, SM!AllSettled,
              SM!Siblings, SM!Driving
<1>2. CASE SM!abort
  <2>1. SM!SMTypeOK'
    BY <1>2, SMTypes, SMTypesNext DEF SM!abort, SMInv
  <2> QED
    BY <1>2, <2>1 DEF SM!abort, SMInv, SMFanInv, SMLost, SM!FanOutSettlesTogether, SM!AllSettled,
                      SM!Siblings, SM!Driving
<1>3. ASSUME NEW p \in StagePlans, SM!runParallel(p) PROVE SMInv'
  BY <1>3, SMParallelCalled
<1>4. ASSUME NEW p \in StagePlans, SM!runStages(p) PROVE SMInv'
  <2>1. p.driver \in {"sequential", "schedule"} /\ p.stages \in Seq(SM!StageIds)
        /\ p.join \in SM!StageIds \cup {"none"}
    BY <1>4, PartsAssumption DEF SM!runStages
  <2>2. turn \in SMTurn /\ runs \in Seq(SM!Run) /\ aborted \in BOOLEAN /\ failFast \in BOOLEAN
    BY SMTypes DEF SMInv
  <2>3. turn' \in SMTurn /\ turn'.driver = p.driver
    BY <1>4, <2>1, <2>2 DEF SM!runStages, SM!Calling, SMTurn, SM!Ends
  <2>4. SM!SMTypeOK' /\ Len(runs') <= MaxRuns
    BY <1>4, <2>1, <2>2, <2>3, SMTypesNext DEF SM!runStages, SMInv
  <2> QED
    BY <2>1, <2>3, <2>4, SMOther
<1> QED
  BY <1>1, <1>2, <1>3, <1>4, SMRunStep, SMWalkStep, SMParallelEnds DEF SM!SMNext, SM!Continuation

-----------------------------------------------------------------------------
(***************************************************************************)
(* 4. What runs outside the process.  The bytes kept of a command or a     *)
(* fetch are at every moment the first MaxBytesKept of those written, not  *)
(* only once it is over; a command that is over has let go of its pipes.   *)
(***************************************************************************)
TRJob == [kind : TR!JobKinds \cup {"none"}, pc : {"idle", "running", "request", "body", "settled"},
          res : TR!Results, procs : SUBSET {"sh", "kid"}, stray : BOOLEAN, wrote : 0..MaxWrote,
          kept : 0..MaxWrote, cut : BOOLEAN, timer : {"off", "armed", "fired"}, late : BOOLEAN]

TRSound(r) ==
  /\ r.kept <= r.wrote
  /\ r.kind \in {"bash", "fetch"} =>
       /\ r.kept = IF r.wrote < MaxBytesKept THEN r.wrote ELSE MaxBytesKept
       /\ r.cut <=> r.wrote > MaxBytesKept
  /\ r.pc = "idle" => r = TR!NoJob
  /\ r.kind = "none" => r.pc = "idle"
  /\ r.kind = "bash" /\ r.pc = "settled" => r.procs = {} /\ ~r.stray
  /\ r.pc = "running" => r.kind # "fetch"

TRInv ==
  /\ job \in [{1} -> TRJob] /\ TRSound(job[1])
  /\ signalled \in BOOLEAN /\ executable \in BOOLEAN

(***************************************************************************)
(* A job that is set to a sound record.                                    *)
(***************************************************************************)
LEMMA TRSet ==
  ASSUME TRInv, NEW r \in TRJob, TRSound(r), TR!Set(1, r), signalled' \in BOOLEAN, executable' \in BOOLEAN
  PROVE  TRInv'
<1>1. job' = [job EXCEPT ![1] = r]
  BY DEF TR!Set
<1>2. job' \in [{1} -> TRJob] /\ job'[1] = r
  BY <1>1 DEF TRInv
<1>3. TRSound(job[1])'
  BY <1>2 DEF TRSound
<1> QED
  BY <1>2, <1>3 DEF TRInv

LEMMA TRFresh ==
  /\ TR!NoJob \in TRJob
  /\ \A k \in TR!JobKinds, x \in TR!Results :
       /\ TR!Settled([TR!NoJob EXCEPT !.kind = k], x) \in TRJob
       /\ TRSound(TR!Settled([TR!NoJob EXCEPT !.kind = k], x))
  /\ \A k \in TR!JobKinds, p \in {"running", "request"} : (p = "running" => k # "fetch") =>
       TR!Begin(k, p) \in TRJob /\ TRSound(TR!Begin(k, p))
<1>1. 0 \in 0..MaxWrote
  BY PartNumbers
<1>2. TR!NoJob \in TRJob
  BY <1>1 DEF TR!NoJob, TRJob, TR!JobKinds, TR!Results
<1>3. /\ TR!NoJob.procs = {} /\ ~TR!NoJob.stray /\ TR!NoJob.wrote = 0 /\ TR!NoJob.kept = 0 /\ ~TR!NoJob.cut
  BY DEF TR!NoJob
<1>4. ASSUME NEW r \in TRJob, r.pc # "idle", r.pc = "settled" => r.procs = {},
             ~r.stray, r.wrote = 0, r.kept = 0, ~r.cut, r.pc = "running" => r.kind # "fetch",
             r.kind \in TR!JobKinds
      PROVE  TRSound(r)
  <2>1. 0 < MaxBytesKept \/ MaxBytesKept = 0
    BY PartNumbers
  <2>2. ~(0 > MaxBytesKept)
    BY PartNumbers
  <2> QED
    BY <1>4, <2>1, <2>2 DEF TRSound, TR!JobKinds
<1>5. ASSUME NEW k \in TR!JobKinds, NEW x \in TR!Results
      PROVE  /\ TR!Settled([TR!NoJob EXCEPT !.kind = k], x) \in TRJob
             /\ TRSound(TR!Settled([TR!NoJob EXCEPT !.kind = k], x))
  <2> DEFINE r == TR!Settled([TR!NoJob EXCEPT !.kind = k], x)
  <2>1. r \in TRJob
    BY <1>2 DEF TR!Settled, TRJob
  <2>2. r.kind = k /\ r.pc = "settled" /\ r.procs = {} /\ ~r.stray /\ r.wrote = 0 /\ r.kept = 0 /\ ~r.cut
    BY <1>2, <1>3 DEF TR!Settled, TRJob
  <2> HIDE DEF r
  <2>3. TRSound(r)
    BY <1>4, <2>1, <2>2
  <2> QED
    BY <2>1, <2>3 DEF r
<1>6. ASSUME NEW k \in TR!JobKinds, NEW p \in {"running", "request"}, p = "running" => k # "fetch"
      PROVE  TR!Begin(k, p) \in TRJob /\ TRSound(TR!Begin(k, p))
  <2> DEFINE r == TR!Begin(k, p)
  <2>1. r \in TRJob
    BY <1>2 DEF TR!Begin, TRJob
  <2>2. r.kind = k /\ r.pc = p /\ ~r.stray /\ r.wrote = 0 /\ r.kept = 0 /\ ~r.cut
    BY <1>2, <1>3 DEF TR!Begin, TRJob
  <2> HIDE DEF r
  <2>3. TRSound(r)
    BY <1>4, <1>6, <2>1, <2>2
  <2> QED
    BY <2>1, <2>3 DEF r
<1> QED
  BY <1>2, <1>5, <1>6

(***************************************************************************)
(* Records that differ only in what a limit does not depend on.            *)
(***************************************************************************)
LEMMA TRSettled ==
  ASSUME NEW r \in TRJob, TRSound(r), NEW x \in TR!Results, r.pc # "idle",
         r.kind = "bash" => r.procs = {} /\ ~r.stray
  PROVE  TR!Settled(r, x) \in TRJob /\ TRSound(TR!Settled(r, x))
<1>1. TR!Settled(r, x) \in TRJob
  BY DEF TR!Settled, TRJob
<1> QED
  BY <1>1, PartNumbers DEF TR!Settled, TRJob, TRSound

LEMMA TRInitInv == TR!RInit => TRInv
<1> SUFFICES ASSUME TR!RInit PROVE TRInv
  OBVIOUS
<1>1. job = [j \in {1} |-> TR!NoJob] /\ signalled \in BOOLEAN /\ executable \in BOOLEAN
  BY DEF TR!RInit
<1>2. TRSound(TR!NoJob)
  BY PartNumbers DEF TRSound, TR!NoJob
<1> QED
  BY <1>1, <1>2, TRFresh DEF TRInv

(***************************************************************************)
(* Signals, forks and exits change the processes of a record alone.        *)
(***************************************************************************)
LEMMA TRSame ==
  ASSUME NEW q \in TRJob, TRSound(q), q.pc # "idle", NEW r \in TRJob,
         r.kind = q.kind, r.pc = q.pc, r.wrote = q.wrote, r.kept = q.kept, r.cut = q.cut,
         r.kind = "bash" /\ r.pc = "settled" => r.procs = {} /\ ~r.stray
  PROVE  TRSound(r)
  BY DEF TRSound

LEMMA TRKilled ==
  ASSUME NEW q \in TRJob, TRSound(q), q.pc \notin {"idle", "settled"}
  PROVE  /\ TR!killGroup(q) \in TRJob /\ TRSound(TR!killGroup(q))
         /\ \A r \in TR!Terminated(q) : r \in TRJob /\ TRSound(r)
<1>1. /\ TR!killGroup(q) \in TRJob /\ TR!killGroup(q).kind = q.kind /\ TR!killGroup(q).pc = q.pc
      /\ TR!killGroup(q).wrote = q.wrote /\ TR!killGroup(q).kept = q.kept /\ TR!killGroup(q).cut = q.cut
  BY DEF TR!killGroup, TRJob
<1>2. ASSUME NEW r \in TR!Terminated(q)
      PROVE  /\ r \in TRJob /\ r.kind = q.kind /\ r.pc = q.pc
             /\ r.wrote = q.wrote /\ r.kept = q.kept /\ r.cut = q.cut
  BY DEF TR!Terminated, TRJob
<1>3. TRSound(TR!killGroup(q))
  BY <1>1, TRSame
<1>4. ASSUME NEW r \in TR!Terminated(q) PROVE TRSound(r)
  BY <1>2, TRSame
<1> QED
  BY <1>1, <1>2, <1>3, <1>4

(***************************************************************************)
(* A chunk: what fits is kept, and what does not fit is on record as cut.  *)
(***************************************************************************)
LEMMA TRChunk ==
  ASSUME NEW q \in TRJob, TRSound(q), q.kind = "bash", q.pc = "running", NEW n \in {1, 2},
         q.wrote + n <= MaxWrote
  PROVE  LET r == TR!collectStream([q EXCEPT !.wrote = @ + n], n) IN r \in TRJob /\ TRSound(r)
<1> DEFINE w == [q EXCEPT !.wrote = @ + n]
           r == TR!collectStream(w, n)
<1>1. /\ q.wrote \in Nat /\ q.kept \in Nat /\ MaxBytesKept \in Nat /\ MaxWrote \in Nat /\ q.cut \in BOOLEAN
      /\ n \in Nat \ {0} /\ q.kept <= q.wrote
      /\ q.kept = IF q.wrote < MaxBytesKept THEN q.wrote ELSE MaxBytesKept
      /\ q.cut <=> q.wrote > MaxBytesKept
  BY PartNumbers DEF TRJob, TRSound
<1>2. q.wrote + n \in 0..MaxWrote
  BY <1>1
<1>3. /\ w \in TRJob /\ w.kind = "bash" /\ w.pc = "running" /\ w.wrote = q.wrote + n /\ w.kept = q.kept
      /\ w.cut = q.cut
  BY <1>2 DEF TRJob
<1> HIDE DEF w
<1>4. CASE w.cut \/ w.kept >= MaxBytesKept
  <2>1. r = [w EXCEPT !.cut = TRUE]
    BY <1>4 DEF TR!collectStream
  <2>2. r \in TRJob /\ r.pc = w.pc /\ r.wrote = w.wrote /\ r.kept = w.kept /\ r.cut /\ r.kind = w.kind
    BY <1>3, <2>1 DEF TRJob
  <2>3. w.wrote > MaxBytesKept /\ w.kept = MaxBytesKept /\ w.kept <= w.wrote
    BY <1>1, <1>3, <1>4
  <2> QED
    BY <1>1, <1>3, <2>2, <2>3 DEF TRSound, w
<1>5. CASE ~(w.cut \/ w.kept >= MaxBytesKept) /\ n <= MaxBytesKept - w.kept
  <2>1. r = [w EXCEPT !.kept = @ + n]
    BY <1>5 DEF TR!collectStream
  <2>2. w.kept + n = w.wrote /\ w.wrote <= MaxBytesKept /\ w.kept + n \in 0..MaxWrote
    BY <1>1, <1>2, <1>3, <1>5
  <2>3. /\ r \in TRJob /\ r.pc = w.pc /\ r.wrote = w.wrote /\ r.kept = w.kept + n /\ r.cut = w.cut
        /\ r.kind = w.kind
    BY <1>3, <2>1, <2>2 DEF TRJob
  <2>4. ~r.cut /\ ~(r.wrote > MaxBytesKept)
    BY <1>1, <1>5, <2>2, <2>3
  <2>5. r.kept = IF r.wrote < MaxBytesKept THEN r.wrote ELSE MaxBytesKept
    BY <1>1, <1>3, <2>2, <2>3
  <2>6. r.kept <= r.wrote
    BY <1>1, <1>3, <2>2, <2>3
  <2> QED
    BY <1>3, <2>3, <2>4, <2>5, <2>6 DEF TRSound, w
<1>6. CASE ~(w.cut \/ w.kept >= MaxBytesKept) /\ ~(n <= MaxBytesKept - w.kept)
  <2>1. r = [w EXCEPT !.kept = MaxBytesKept, !.cut = TRUE]
    BY <1>6 DEF TR!collectStream
  <2>2. w.wrote > MaxBytesKept /\ MaxBytesKept \in 0..MaxWrote /\ MaxBytesKept <= w.wrote
    BY <1>1, <1>2, <1>3, <1>6
  <2>3. /\ r \in TRJob /\ r.pc = w.pc /\ r.wrote = w.wrote /\ r.kept = MaxBytesKept /\ r.cut
        /\ r.kind = w.kind
    BY <1>3, <2>1, <2>2 DEF TRJob
  <2>4. ~(w.wrote < MaxBytesKept)
    BY <1>1, <1>3, <2>2
  <2> QED
    BY <1>3, <2>2, <2>3, <2>4 DEF TRSound, w
<1> QED
  BY <1>4, <1>5, <1>6 DEF w

LEMMA TRNextInv == TRInv /\ [TR!RNext]_runVars => TRInv'
<1> SUFFICES ASSUME TRInv, [TR!RNext]_runVars PROVE TRInv'
  OBVIOUS
<1> DEFINE q == job[1]
<1>1. q \in TRJob /\ TRSound(q) /\ signalled \in BOOLEAN /\ executable \in BOOLEAN
  BY DEF TRInv
<1> HIDE DEF q
<1>2. ASSUME NEW r \in TRJob, TRSound(r), TR!Set(1, r), TR!KeepWorld PROVE TRInv'
  BY <1>1, <1>2, TRSet DEF TR!KeepWorld
<1>3. ASSUME q.pc # "idle", q.kind # "bash", NEW x \in TR!Results, TR!settle(1, x), TR!KeepWorld
      PROVE  TRInv'
  BY <1>1, <1>2, <1>3, TRSettled DEF TR!settle, q
<1>4. ASSUME NEW r \in TRJob, r.kind = q.kind, r.pc = q.pc, r.wrote = q.wrote, r.kept = q.kept, r.cut = q.cut,
             r.kind = "bash" /\ r.pc = "settled" => r.procs = {} /\ ~r.stray, q.pc # "idle",
             TR!Set(1, r), TR!KeepWorld
      PROVE  TRInv'
  BY <1>1, <1>2, <1>4, TRSame
<1>5. TR!JobKinds = {"bash", "cli", "fetch", "ask"}
  BY DEF TR!JobKinds
<1>6. {"refused", "cancelled", "failed", "crash", "ok", "timeout", "abandoned"} \subseteq TR!Results
  BY DEF TR!Results
<1>7. TR!executeBash(1) => TRInv'
  BY <1>2, <1>5, <1>6, TRFresh DEF TR!executeBash
<1>8. TR!spawnCLI(1) => TRInv'
  BY <1>2, <1>5, <1>6, TRFresh DEF TR!spawnCLI
<1>9. TR!executeWebFetch(1) => TRInv'
  BY <1>2, <1>5, <1>6, TRFresh DEF TR!executeWebFetch
<1>10. TR!executeAskUser(1) => TRInv'
  BY <1>2, <1>5, <1>6, TRFresh DEF TR!executeAskUser
<1>11. TR!answered(1) => TRInv'
  BY <1>3, <1>6 DEF TR!answered, q
<1>12. ASSUME TR!forks(1) PROVE TRInv'
  <2> DEFINE r == [q EXCEPT !.procs = @ \cup {"kid"}]
  <2>1. TR!Set(1, r) /\ TR!KeepWorld /\ "sh" \in q.procs
    BY <1>12 DEF TR!forks, q
  <2>2. q.pc # "idle" /\ ~(q.kind = "bash" /\ q.pc = "settled")
    BY <1>1, <2>1 DEF TRSound, TR!NoJob
  <2>3. /\ r \in TRJob /\ r.kind = q.kind /\ r.pc = q.pc /\ r.wrote = q.wrote /\ r.kept = q.kept
        /\ r.cut = q.cut
    BY <1>1 DEF TRJob
  <2> HIDE DEF r
  <2> QED
    BY <1>4, <2>1, <2>2, <2>3
<1>13. ASSUME TR!leavesGroup(1) PROVE TRInv'
  <2> DEFINE r == [q EXCEPT !.procs = @ \ {"kid"}, !.stray = TRUE]
  <2>1. TR!Set(1, r) /\ TR!KeepWorld /\ "kid" \in q.procs
    BY <1>13 DEF TR!leavesGroup, q
  <2>2. q.pc # "idle" /\ ~(q.kind = "bash" /\ q.pc = "settled")
    BY <1>1, <2>1 DEF TRSound, TR!NoJob
  <2>3. /\ r \in TRJob /\ r.kind = q.kind /\ r.pc = q.pc /\ r.wrote = q.wrote /\ r.kept = q.kept
        /\ r.cut = q.cut
    BY <1>1 DEF TRJob
  <2> HIDE DEF r
  <2> QED
    BY <1>4, <2>1, <2>2, <2>3
<1>14. ASSUME TR!exits(1) PROVE TRInv'
  <2>1. PICK r \in {[q EXCEPT !.procs = @ \ {p}] : p \in q.procs} \cup {[q EXCEPT !.stray = FALSE]} :
          TR!Set(1, r) /\ TR!KeepWorld
    BY <1>14 DEF TR!exits, q
  <2>2. q.pc # "idle" /\ ~(q.kind = "bash" /\ q.pc = "settled")
    <3>1. q.procs # {} \/ q.stray
      BY <1>14 DEF TR!exits, TR!PipesOpen, TR!Alive, q
    <3> QED
      BY <1>1, <3>1 DEF TRSound, TR!NoJob
  <2>3. /\ r \in TRJob /\ r.kind = q.kind /\ r.pc = q.pc /\ r.wrote = q.wrote /\ r.kept = q.kept
        /\ r.cut = q.cut
    <3>1. CASE r = [q EXCEPT !.stray = FALSE]
      BY <1>1, <3>1 DEF TRJob
    <3>2. ASSUME NEW p, r = [q EXCEPT !.procs = @ \ {p}]
          PROVE  /\ r \in TRJob /\ r.kind = q.kind /\ r.pc = q.pc /\ r.wrote = q.wrote /\ r.kept = q.kept
                 /\ r.cut = q.cut
      BY <1>1, <3>2 DEF TRJob
    <3> QED
      BY <2>1, <3>1, <3>2
  <2> QED
    BY <1>4, <2>1, <2>2, <2>3
<1>15. ASSUME TR!writes(1) PROVE TRInv'
  <2>1. PICK n \in {1, 2} :
          /\ q.wrote + n <= MaxWrote
          /\ LET w == [q EXCEPT !.wrote = @ + n] IN
             TR!Set(1, IF w.kind = "bash" THEN TR!collectStream(w, n) ELSE [w EXCEPT !.kept = @ + n])
    BY <1>15 DEF TR!writes, q
  <2>2. q.pc = "running" /\ TR!KeepWorld
    BY <1>15 DEF TR!writes, q
  <2> DEFINE w == [q EXCEPT !.wrote = @ + n]
  <2>3. w.kind = q.kind
    BY <1>1 DEF TRJob
  <2>4. CASE q.kind = "bash"
    BY <1>1, <1>2, <2>1, <2>2, <2>3, <2>4, TRChunk
  <2>5. CASE q.kind # "bash"
    <3> DEFINE r == [w EXCEPT !.kept = @ + n]
    <3>1. TR!Set(1, r)
      BY <2>1, <2>3, <2>5
    <3>2. /\ q.kept \in Nat /\ q.wrote \in Nat /\ q.kept <= q.wrote
      BY <1>1 DEF TRJob, TRSound
    <3>3. q.wrote + n \in 0..MaxWrote /\ q.kept + n \in 0..MaxWrote /\ q.kept + n <= q.wrote + n
      BY <2>1, <3>2, PartNumbers
    <3>4. /\ r \in TRJob /\ r.kind = q.kind /\ r.pc = q.pc /\ r.wrote = q.wrote + n /\ r.kept = q.kept + n
      BY <1>1, <3>3 DEF TRJob
    <3> HIDE DEF r
    <3>5. q.kind \notin {"fetch", "none"}
      BY <1>1, <2>2 DEF TRSound
    <3>6. TRSound(r)
      BY <2>2, <2>5, <3>3, <3>4, <3>5 DEF TRSound
    <3> QED
      BY <1>2, <2>2, <3>1, <3>4, <3>6
  <2> QED
    BY <2>4, <2>5
<1>16. ASSUME TR!subprocessCloses(1) PROVE TRInv'
  <2>1. q.pc = "running" /\ q.procs = {} /\ ~q.stray /\ TR!KeepWorld
    BY <1>16 DEF TR!subprocessCloses, TR!PipesOpen, TR!Alive, q
  <2>2. PICK x \in {"ok", "timeout", "failed"} : TR!settle(1, x)
    BY <1>16 DEF TR!subprocessCloses
  <2>3. TR!Settled(q, x) \in TRJob /\ TRSound(TR!Settled(q, x))
    BY <1>1, <1>6, <2>1, TRSettled
  <2> QED
    BY <1>2, <2>1, <2>2, <2>3 DEF TR!settle, q
<1>17. TR!abandons(1) => TRInv'
  BY <1>3, <1>6 DEF TR!abandons, q
<1>18. ASSUME TR!responds(1) PROVE TRInv'
  <2>1. q.kind = "fetch" /\ q.pc = "request" /\ TR!KeepWorld
    BY <1>18 DEF TR!responds, q
  <2>2. CASE \E x \in {"failed", "ok"} : TR!settle(1, x)
    BY <1>3, <1>6, <2>1, <2>2
  <2>3. CASE TR!Set(1, [q EXCEPT !.pc = "body", !.timer = "off"])
    <3> DEFINE r == [q EXCEPT !.pc = "body", !.timer = "off"]
    <3>1. /\ r \in TRJob /\ r.kind = q.kind /\ r.pc = "body" /\ r.wrote = q.wrote /\ r.kept = q.kept
          /\ r.cut = q.cut
      BY <1>1 DEF TRJob
    <3> HIDE DEF r
    <3>2. TRSound(r)
      BY <1>1, <2>1, <3>1 DEF TRSound
    <3> QED
      BY <1>2, <2>1, <2>3, <3>1, <3>2 DEF r
  <2> QED
    BY <1>18, <2>2, <2>3 DEF TR!responds, q
<1>19. ASSUME TR!readsBody(1) PROVE TRInv'
  <2>1. q.kind = "fetch" /\ q.pc = "body" /\ TR!KeepWorld
    BY <1>19 DEF TR!readsBody, q
  <2>2. CASE \E x \in {"failed", "ok"} : TR!settle(1, x)
    BY <1>3, <1>6, <2>1, <2>2
  <2>3. ASSUME NEW n \in {1, 2}, q.wrote + n <= MaxWrote,
               TR!Set(1, IF q.kept + n > MaxBytesKept
                         THEN TR!Settled([q EXCEPT !.wrote = @ + n, !.kept = MaxBytesKept, !.cut = TRUE], "ok")
                         ELSE [q EXCEPT !.wrote = @ + n, !.kept = @ + n])
        PROVE  TRInv'
    <3>1. /\ q.wrote \in Nat /\ q.kept \in Nat /\ MaxBytesKept \in Nat /\ q.cut \in BOOLEAN
          /\ n \in Nat \ {0} /\ q.kept <= q.wrote
          /\ q.kept = IF q.wrote < MaxBytesKept THEN q.wrote ELSE MaxBytesKept
          /\ q.cut <=> q.wrote > MaxBytesKept
      BY <1>1, <2>1, PartNumbers DEF TRJob, TRSound
    <3>2. q.wrote + n \in 0..MaxWrote
      BY <2>3, <3>1, PartNumbers
    <3>3. CASE q.kept + n > MaxBytesKept
      <4> DEFINE w == [q EXCEPT !.wrote = @ + n, !.kept = MaxBytesKept, !.cut = TRUE]
      <4>1. q.wrote + n > MaxBytesKept /\ MaxBytesKept \in 0..MaxWrote /\ MaxBytesKept <= q.wrote + n
        BY <3>1, <3>2, <3>3, PartNumbers
      <4>2. /\ w \in TRJob /\ w.kind = "fetch" /\ w.pc = "body" /\ w.wrote = q.wrote + n
            /\ w.kept = MaxBytesKept /\ w.cut
        BY <1>1, <2>1, <3>2, <4>1 DEF TRJob
      <4> HIDE DEF w
      <4>3. ~(w.wrote < MaxBytesKept)
        BY <3>1, <4>1, <4>2
      <4>4. TRSound(w)
        BY <4>1, <4>2, <4>3 DEF TRSound
      <4>5. TR!Settled(w, "ok") \in TRJob /\ TRSound(TR!Settled(w, "ok"))
        BY <1>6, <4>2, <4>4, TRSettled
      <4> QED
        BY <1>2, <2>1, <2>3, <3>3, <4>5 DEF w
    <3>4. CASE ~(q.kept + n > MaxBytesKept)
      <4> DEFINE w == [q EXCEPT !.wrote = @ + n, !.kept = @ + n]
      <4>1. q.kept + n = q.wrote + n /\ q.wrote + n <= MaxBytesKept /\ ~q.cut
        BY <3>1, <3>4
      <4>2. /\ w \in TRJob /\ w.kind = "fetch" /\ w.pc = "body" /\ w.wrote = q.wrote + n
            /\ w.kept = q.wrote + n /\ ~w.cut
        BY <1>1, <2>1, <3>2, <4>1 DEF TRJob
      <4> HIDE DEF w
      <4>3. /\ w.kept = IF w.wrote < MaxBytesKept THEN w.wrote ELSE MaxBytesKept
            /\ ~(w.wrote > MaxBytesKept) /\ w.kept <= w.wrote
        BY <3>1, <4>1, <4>2
      <4>4. TRSound(w)
        BY <4>2, <4>3 DEF TRSound
      <4> QED
        BY <1>2, <2>1, <2>3, <3>4, <4>2, <4>4 DEF w
    <3> QED
      BY <3>3, <3>4
  <2>4. \/ \E x \in {"failed", "ok"} : TR!settle(1, x)
        \/ \E n \in {1, 2} :
             LET r == [q EXCEPT !.wrote = @ + n] IN
             /\ r.wrote <= MaxWrote
             /\ TR!Set(1, IF q.kept + n > MaxBytesKept
                          THEN TR!Settled([r EXCEPT !.kept = MaxBytesKept, !.cut = TRUE], "ok")
                          ELSE [r EXCEPT !.kept = @ + n])
    BY <1>19 DEF TR!readsBody, q
  <2>5. ASSUME NEW n \in {1, 2}
        PROVE  /\ [q EXCEPT !.wrote = @ + n].wrote = q.wrote + n
               /\ [[q EXCEPT !.wrote = @ + n] EXCEPT !.kept = MaxBytesKept, !.cut = TRUE] =
                     [q EXCEPT !.wrote = @ + n, !.kept = MaxBytesKept, !.cut = TRUE]
               /\ [[q EXCEPT !.wrote = @ + n] EXCEPT !.kept = @ + n] =
                     [q EXCEPT !.wrote = @ + n, !.kept = @ + n]
    BY <1>1 DEF TRJob
  <2> QED
    BY <2>2, <2>3, <2>4, <2>5
<1>20. ASSUME TR!timeoutElapses(1) PROVE TRInv'
  <2> DEFINE r == [q EXCEPT !.late = TRUE]
             w == [r EXCEPT !.timer = "fired"]
  <2>1. q.pc \in {"running", "request", "body"} /\ TR!KeepWorld
    BY <1>20 DEF TR!timeoutElapses, q
  <2>2. /\ r \in TRJob /\ r.kind = q.kind /\ r.pc = q.pc /\ r.wrote = q.wrote /\ r.kept = q.kept
        /\ r.cut = q.cut
    BY <1>1 DEF TRJob
  <2>3. TRSound(r)
    BY <1>1, <2>1, <2>2, TRSame
  <2>4. /\ w \in TRJob /\ w.kind = q.kind /\ w.pc = q.pc /\ w.wrote = q.wrote /\ w.kept = q.kept
        /\ w.cut = q.cut
    BY <1>1 DEF TRJob
  <2>5. TRSound(w)
    BY <1>1, <2>1, <2>4, TRSame
  <2>6. \/ TR!Set(1, r)
        \/ TR!Set(1, TR!killGroup(w))
        \/ \E t \in TR!Terminated(w) : TR!Set(1, t)
        \/ r.kind = "fetch" /\ TR!Set(1, TR!Settled(r, "timeout"))
    <3>1. q.kind \in {"bash", "cli", "fetch"}
      <4>1. q.kind # "ask" /\ q.kind \in TR!JobKinds \cup {"none"}
        BY <1>1, <1>20 DEF TR!timeoutElapses, q, TRJob
      <4>2. q.kind # "none"
        BY <1>1, <2>1 DEF TRSound
      <4> QED
        BY <4>1, <4>2 DEF TR!JobKinds
    <3> QED
      BY <1>20, <2>2, <3>1 DEF TR!timeoutElapses, q
  <2> HIDE DEF r, w
  <2>7. TR!Settled(r, "timeout") \in TRJob /\ (r.kind = "fetch" => TRSound(TR!Settled(r, "timeout")))
    <3>1. TR!Settled(r, "timeout") \in TRJob
      BY <1>6, <2>2 DEF TR!Settled, TRJob
    <3> QED
      BY <1>6, <2>1, <2>2, <2>3, <3>1, TRSettled
  <2>8. w.pc \notin {"idle", "settled"}
    BY <2>1, <2>4
  <2> QED
    BY <1>2, <2>1, <2>2, <2>3, <2>4, <2>5, <2>6, <2>7, <2>8, TRKilled
<1>21. ASSUME TR!signalAborts PROVE TRInv'
  <2>1. PICK f \in [{1} -> UNION {TR!Hit(j) : j \in {1}}] :
          (\A j \in {1} : f[j] \in TR!Hit(j)) /\ job' = f
    BY <1>21 DEF TR!signalAborts
  <2>2. DOMAIN job' = {1} /\ job' = [j \in {1} |-> job'[j]] /\ job'[1] \in TR!Hit(1)
    BY <2>1
  <2>3. TR!Hit(1) \subseteq {q, TR!killGroup(q)} \cup TR!Terminated(q)
        /\ (TR!Hit(1) # {q} => q.pc = "running")
    BY DEF TR!Hit, q
  <2>4. job'[1] \in TRJob /\ TRSound(job'[1])
    BY <1>1, <2>2, <2>3, TRKilled
  <2>5. signalled' \in BOOLEAN /\ executable' \in BOOLEAN
    BY <1>1, <1>21 DEF TR!signalAborts
  <2>6. TRSound(job[1])'
    BY <2>4 DEF TRSound
  <2> QED
    BY <2>2, <2>4, <2>5, <2>6 DEF TRInv
<1>22. CASE TR!executableGoes
  BY <1>22 DEF TR!executableGoes, TRInv, TRSound
<1>23. CASE UNCHANGED runVars
  BY <1>23 DEF runVars, TRInv, TRSound
<1> QED
  BY <1>7, <1>8, <1>9, <1>10, <1>11, <1>12, <1>13, <1>14, <1>15, <1>16, <1>17, <1>18, <1>19, <1>20, <1>21,
     <1>22, <1>23 DEF TR!RNext

-----------------------------------------------------------------------------
(***************************************************************************)
(* 5. The MCP client.  A transport being dialled is not open, is not the   *)
(* registered one and is its caller's alone; one being closed is not the   *)
(* registered one.  A reconnection sleeps only before another attempt.     *)
(***************************************************************************)
MCPPlaceInv(c) ==
  /\ call[c].transport \in 0..transports
  /\ call[c].at = "dial" =>
       /\ call[c].transport # 0 /\ call[c].transport \notin open /\ call[c].transport # connection
       /\ \A d \in Callers : d # c => call[d].transport # call[c].transport
  /\ call[c].at = "closing" => call[c].transport # 0 /\ call[c].transport # connection
  /\ call[c].at = "sleep" => call[c].op = "reconnect" /\ call[c].attempt < MaxAttempts
  /\ call[c].op = "reconnect" /\ call[c].at \in MCP!Errors => call[c].attempt = MaxAttempts

MCPInv ==
  /\ MCP!MCPTypeOK
  /\ MCP!RegisteredIsOpen
  /\ \A c \in Callers : MCPPlaceInv(c)

LEMMA MCPInitInv == MCP!MCPInit => MCPInv
<1> SUFFICES ASSUME MCP!MCPInit PROVE MCPInv
  OBVIOUS
<1>1. MCP!MCPTypeOK
  BY PartNumbers DEF MCP!MCPInit, MCP!MCPTypeOK, MCP!Call, MCP!Ops, MCP!Places
<1>2. \A c \in Callers : MCPPlaceInv(c)
  BY PartNumbers DEF MCP!MCPInit, MCPPlaceInv, MCP!Errors
<1> QED
  BY <1>1, <1>2 DEF MCP!MCPInit, MCPInv, MCP!RegisteredIsOpen

(***************************************************************************)
(* A step of one caller that leaves the transports and those open alone    *)
(* and at most drops the registration: its new record is all there is to   *)
(* look at.                                                                *)
(***************************************************************************)
LEMMA MCPQuiet ==
  ASSUME MCPInv, NEW c \in Callers, NEW r \in MCP!Call, call' = [call EXCEPT ![c] = r],
         connection' \in {connection, 0}, UNCHANGED <<transports, open>>,
         r.transport \in {0, connection, call[c].transport}, r.at \notin {"dial", "closing"},
         r.at = "sleep" => r.op = "reconnect" /\ r.attempt < MaxAttempts,
         r.op = "reconnect" /\ r.at \in MCP!Errors => r.attempt = MaxAttempts
  PROVE  MCPInv'
<1>1. /\ call' \in [Callers -> MCP!Call] /\ call'[c] = r
      /\ \A d \in Callers : d # c => call'[d] = call[d]
  BY DEF MCPInv, MCP!MCPTypeOK
<1>2. MCP!MCPTypeOK' /\ MCP!RegisteredIsOpen'
  BY <1>1 DEF MCPInv, MCP!MCPTypeOK, MCP!RegisteredIsOpen
<1>3. MCPPlaceInv(c)'
  BY <1>1 DEF MCPInv, MCPPlaceInv, MCP!MCPTypeOK
<1>4. ASSUME NEW d \in Callers, d # c PROVE MCPPlaceInv(d)'
  <2>1. call[d].at = "dial" => r.transport # call[d].transport
    BY <1>4 DEF MCPInv, MCPPlaceInv
  <2> QED
    BY <1>1, <1>4, <2>1 DEF MCPInv, MCPPlaceInv
<1> QED
  BY <1>2, <1>3, <1>4 DEF MCPInv

(***************************************************************************)
(* What a caller does next after an error.                                 *)
(***************************************************************************)
LEMMA MCPAfter ==
  ASSUME MCPInv, NEW c \in Callers, NEW e \in MCP!Errors
  PROVE  /\ MCP!After(c, e) \in MCP!Errors \cup {"sleep"}
         /\ MCP!After(c, e) = "sleep" => call[c].op = "reconnect" /\ call[c].attempt < MaxAttempts
         /\ call[c].op = "reconnect" /\ MCP!After(c, e) \in MCP!Errors => call[c].attempt = MaxAttempts
<1>1. call[c].attempt \in 0..MaxAttempts /\ MaxAttempts \in Nat
  BY PartNumbers DEF MCPInv, MCP!MCPTypeOK, MCP!Call
<1>2. "MCPConnectionLost" \in MCP!Errors /\ "PromptMissing" \in MCP!Errors /\ "sleep" \notin MCP!Errors
  BY DEF MCP!Errors
<1>3. ~(call[c].attempt < MaxAttempts) => call[c].attempt = MaxAttempts
  BY <1>1
<1>4. MCP!After(c, e) = IF call[c].op = "prompt" /\ e # "MCPUntrusted" THEN "PromptMissing"
                        ELSE IF call[c].op = "reconnect" /\ call[c].attempt < MaxAttempts THEN "sleep"
                        ELSE IF call[c].op = "reconnect" THEN "MCPConnectionLost" ELSE e
  BY <1>1 DEF MCP!After
<1> QED
  BY <1>2, <1>3, <1>4

(***************************************************************************)
(* A caller that goes on to a place other than a dial or a close.          *)
(***************************************************************************)
LEMMA MCPGoes ==
  ASSUME MCPInv, NEW c \in Callers, NEW p \in MCP!Places \ {"dial", "closing"}, MCP!Go(c, p),
         connection' \in {connection, 0}, UNCHANGED <<transports, open>>,
         p = "sleep" => call[c].op = "reconnect" /\ call[c].attempt < MaxAttempts,
         call[c].op = "reconnect" /\ p \in MCP!Errors => call[c].attempt = MaxAttempts
  PROVE  MCPInv'
<1> DEFINE t == IF p \in MCP!Resting THEN 0 ELSE call[c].transport
           r == [call[c] EXCEPT !.at = p, !.transport = t]
<1>1. call[c] \in MCP!Call
  BY DEF MCPInv, MCP!MCPTypeOK
<1>2. t \in {0, call[c].transport} /\ t \in 0..MaxTransports
  BY <1>1, PartNumbers DEF MCP!Call
<1>3. call' = [call EXCEPT ![c] = r]
  BY <1>1 DEF MCP!Go, MCP!Call
<1> HIDE DEF t
<1>4. r \in MCP!Call /\ r.at = p /\ r.op = call[c].op /\ r.attempt = call[c].attempt /\ r.transport = t
  BY <1>1, <1>2 DEF MCP!Call
<1> HIDE DEF r
<1> QED
  BY <1>2, <1>3, <1>4, MCPQuiet

LEMMA MCPFails ==
  ASSUME MCPInv, NEW c \in Callers, NEW e \in MCP!Errors, MCP!Go(c, MCP!After(c, e)),
         connection' \in {connection, 0}, UNCHANGED <<transports, open>>
  PROVE  MCPInv'
<1>1. MCP!Errors \cup {"sleep"} \subseteq MCP!Places \ {"dial", "closing"}
  BY DEF MCP!Errors, MCP!Places
<1>2. MCP!After(c, e) \in MCP!Places \ {"dial", "closing"}
  BY <1>1, MCPAfter
<1> QED
  BY <1>2, MCPAfter, MCPGoes

LEMMA MCPConnecting ==
  ASSUME MCPInv, NEW c \in Callers, NEW o \in MCP!Ops, NEW k \in 0..MaxAttempts, MCP!Connecting(c, o, k),
         UNCHANGED <<connection, transports, open>>
  PROVE  MCPInv'
<1> DEFINE r == [op |-> o, attempt |-> k, transport |-> 0,
                 at |-> IF connection = 0 THEN "trust" ELSE "connected"]
<1>1. call' = [call EXCEPT ![c] = r]
  BY DEF MCP!Connecting
<1>2. r \in MCP!Call /\ r.at \in {"trust", "connected"} /\ r.transport = 0
  BY PartNumbers DEF MCP!Call, MCP!Places
<1>3. r.at \notin MCP!Errors
  BY <1>2 DEF MCP!Errors
<1> HIDE DEF r
<1> QED
  BY <1>1, <1>2, <1>3, MCPQuiet

(***************************************************************************)
(* disconnect drops the registration before it closes the transport.       *)
(***************************************************************************)
LEMMA MCPDisconnects ==
  ASSUME MCPInv, NEW c \in Callers, NEW o \in MCP!Ops, NEW k \in 0..MaxAttempts,
         NEW next \in {"ok", "attempt"}, MCP!Disconnect(c, o, k, next)
  PROVE  MCPInv'
<1> DEFINE r == [op |-> o, attempt |-> k, transport |-> connection,
                 at |-> IF connection = 0 THEN next ELSE "closing"]
<1>1. call' = [call EXCEPT ![c] = r] /\ connection' = 0 /\ UNCHANGED <<transports, open>>
  BY DEF MCP!Disconnect
<1>2. /\ connection \in 0..transports /\ transports \in 0..MaxTransports /\ call \in [Callers -> MCP!Call]
      /\ open \subseteq 1..transports
  BY DEF MCPInv, MCP!MCPTypeOK
<1>3. connection \in 0..MaxTransports
  BY <1>2, PartNumbers
<1>4. /\ r \in MCP!Call /\ r.transport = connection
      /\ r.at \in {"ok", "attempt", "closing"} /\ (r.at = "closing" => connection # 0)
  BY <1>3 DEF MCP!Call, MCP!Places
<1>5. r.at \notin MCP!Errors /\ r.at # "dial" /\ r.at # "sleep"
  BY <1>4 DEF MCP!Errors
<1> HIDE DEF r
<1>6. /\ call' \in [Callers -> MCP!Call] /\ call'[c] = r
      /\ \A d \in Callers : d # c => call'[d] = call[d]
  BY <1>1, <1>2, <1>4
<1>7. MCP!MCPTypeOK' /\ MCP!RegisteredIsOpen'
  BY <1>1, <1>2, <1>6, PartNumbers DEF MCP!MCPTypeOK, MCP!RegisteredIsOpen
<1>8. MCPPlaceInv(c)'
  BY <1>1, <1>2, <1>4, <1>5, <1>6 DEF MCPPlaceInv
<1>9. ASSUME NEW d \in Callers, d # c PROVE MCPPlaceInv(d)'
  <2>1. call[d].at = "dial" => connection # call[d].transport
    BY DEF MCPInv, MCPPlaceInv
  <2> QED
    BY <1>1, <1>4, <1>6, <1>9, <2>1 DEF MCPInv, MCPPlaceInv
<1> QED
  BY <1>7, <1>8, <1>9 DEF MCPInv

LEMMA MCPContinues ==
  ASSUME MCPInv, NEW c \in Callers, MCP!Continue(c)
  PROVE  MCPInv'
<1>1. /\ connection \in 0..transports /\ transports \in 0..MaxTransports /\ call \in [Callers -> MCP!Call]
      /\ open \subseteq 1..transports /\ transports \in Nat /\ MaxTransports \in Nat
  BY PartNumbers DEF MCPInv, MCP!MCPTypeOK
<1>2. /\ call[c] \in MCP!Call /\ call[c].op \in MCP!Ops /\ call[c].attempt \in 0..MaxAttempts
      /\ MCPPlaceInv(c)
  BY <1>1 DEF MCPInv, MCP!Call
<1>3. /\ {"MCPUntrusted", "MCPConnectionLost", "MCPToolFailed", "ResourceMissing", "Raw", "CloseFailed"}
            \subseteq MCP!Errors
      /\ {"ok", "connected", "using", "attempt"} \subseteq MCP!Places \ {"dial", "closing"}
      /\ MCP!Errors \cap {"ok", "connected", "using", "attempt"} = {}
      /\ {"connect", "disconnect", "reconnect"} \cup MCP!Uses \subseteq MCP!Ops
      /\ "reconnect" \notin MCP!Uses
  BY DEF MCP!Errors, MCP!Places, MCP!Ops, MCP!Uses
<1>4. CASE MCP!checkTrust(c)
  <2>1. CASE MCP!Go(c, MCP!After(c, "MCPUntrusted")) /\ UNCHANGED transports
    BY <1>3, <1>4, <2>1, MCPFails DEF MCP!checkTrust
  <2>2. ASSUME transports < MaxTransports, transports' = transports + 1,
               call' = [call EXCEPT ![c].at = "dial", ![c].transport = transports + 1]
        PROVE  MCPInv'
    <3> DEFINE r == [call[c] EXCEPT !.at = "dial", !.transport = transports + 1]
    <3>1. transports + 1 \in 1..MaxTransports /\ transports + 1 \notin open
          /\ transports + 1 # connection /\ \A d \in Callers : call[d].transport # transports + 1
      BY <1>1, <2>2 DEF MCPInv, MCPPlaceInv
    <3>2. call' = [call EXCEPT ![c] = r]
      BY <1>2, <2>2 DEF MCP!Call
    <3>3. r \in MCP!Call /\ r.at = "dial" /\ r.transport = transports + 1
      <4>1. transports + 1 \in 0..MaxTransports
        BY <1>1, <2>2
      <4>2. "dial" \in MCP!Places
        BY DEF MCP!Places
      <4> DEFINE u == transports + 1
      <4> HIDE DEF u
      <4>3. u \in 0..MaxTransports
        BY <4>1 DEF u
      <4>4. /\ [call[c] EXCEPT !.at = "dial", !.transport = u] \in MCP!Call
            /\ [call[c] EXCEPT !.at = "dial", !.transport = u].at = "dial"
            /\ [call[c] EXCEPT !.at = "dial", !.transport = u].transport = u
        BY <1>2, <4>2, <4>3 DEF MCP!Call
      <4> QED
        BY <4>4 DEF u
    <3> HIDE DEF r
    <3>4. /\ call' \in [Callers -> MCP!Call] /\ call'[c] = r
          /\ \A d \in Callers : d # c => call'[d] = call[d]
      BY <1>1, <3>2, <3>3
    <3>5. UNCHANGED <<connection, open>>
      BY <1>4 DEF MCP!checkTrust
    <3>6. MCP!MCPTypeOK' /\ MCP!RegisteredIsOpen'
      BY <1>1, <2>2, <3>4, <3>5 DEF MCPInv, MCP!MCPTypeOK, MCP!RegisteredIsOpen
    <3>7. MCPPlaceInv(c)'
      BY <1>1, <2>2, <3>1, <3>3, <3>4, <3>5 DEF MCPPlaceInv, MCP!Errors
    <3>8. ASSUME NEW d \in Callers, d # c PROVE MCPPlaceInv(d)'
      <4>1. call[d].transport \in 0..transports + 1 /\ call[d].transport # transports + 1
        BY <1>1, <3>1 DEF MCPInv, MCPPlaceInv
      <4> QED
        BY <1>1, <2>2, <3>3, <3>4, <3>5, <3>8, <4>1 DEF MCPInv, MCPPlaceInv
    <3> QED
      BY <3>6, <3>7, <3>8 DEF MCPInv
  <2> QED
    BY <1>4, <2>1, <2>2 DEF MCP!checkTrust
<1>5. CASE MCP!dialled(c)
  <2> DEFINE t == call[c].transport
             r == [call[c] EXCEPT !.at = "connected"]
  <2>1. t \in 1..transports /\ \A d \in Callers : d # c => call[d].transport # t
    BY <1>1, <1>2, <1>5 DEF MCP!dialled, MCPPlaceInv
  <2>2. open' = open \cup {t} /\ connection' = t /\ UNCHANGED transports
    BY <1>5 DEF MCP!dialled
  <2>3. call' = [call EXCEPT ![c] = r]
    BY <1>2, <1>5 DEF MCP!dialled, MCP!Go, MCP!Call, MCP!Resting, MCP!Errors
  <2>4. r \in MCP!Call /\ r.at = "connected" /\ r.transport = t
    BY <1>2 DEF MCP!Call, MCP!Places
  <2> HIDE DEF r, t
  <2>5. /\ call' \in [Callers -> MCP!Call] /\ call'[c] = r
        /\ \A d \in Callers : d # c => call'[d] = call[d]
    BY <1>1, <2>3, <2>4
  <2>6. MCP!MCPTypeOK' /\ MCP!RegisteredIsOpen'
    BY <1>1, <2>1, <2>2, <2>5 DEF MCP!MCPTypeOK, MCP!RegisteredIsOpen
  <2>7. MCPPlaceInv(c)'
    BY <1>1, <2>1, <2>2, <2>4, <2>5 DEF MCPPlaceInv, MCP!Errors
  <2>8. ASSUME NEW d \in Callers, d # c PROVE MCPPlaceInv(d)'
    BY <2>1, <2>2, <2>4, <2>5, <2>8 DEF MCPInv, MCPPlaceInv
  <2> QED
    BY <2>6, <2>7, <2>8 DEF MCPInv
<1>6. CASE MCP!dialFails(c)
  BY <1>3, <1>6, MCPFails DEF MCP!dialFails
<1>7. CASE MCP!connected(c)
  <2> DEFINE p == IF call[c].op \notin MCP!Uses THEN "ok"
                  ELSE IF connection = 0 THEN MCP!After(c, "MCPConnectionLost") ELSE "using"
             r == [call[c] EXCEPT !.at = p, !.transport = connection]
  <2>1. MCP!Errors \cup {"sleep", "ok", "using"} \subseteq MCP!Places \ {"dial", "closing"}
    BY DEF MCP!Errors, MCP!Places
  <2>2. /\ p \in MCP!Errors \cup {"sleep", "ok", "using"}
        /\ p = "sleep" => call[c].op = "reconnect" /\ call[c].attempt < MaxAttempts
        /\ call[c].op = "reconnect" /\ p \in MCP!Errors => call[c].attempt = MaxAttempts
    BY <1>3, MCPAfter
  <2>3. call' = [call EXCEPT ![c] = r] /\ UNCHANGED <<connection, transports, open>>
    BY <1>2, <1>7 DEF MCP!connected, MCP!Call
  <2> HIDE DEF p
  <2>4. connection \in 0..MaxTransports
    BY <1>1
  <2>5. /\ r \in MCP!Call /\ r.at = p /\ r.op = call[c].op /\ r.attempt = call[c].attempt
        /\ r.transport = connection
    BY <1>2, <2>1, <2>2, <2>4 DEF MCP!Call
  <2> HIDE DEF r
  <2> QED
    BY <2>1, <2>2, <2>3, <2>5, MCPQuiet
<1>8. CASE MCP!answered(c)
  <2>1. \A o : MCP!Failures(o) \subseteq MCP!Errors
    BY <1>3 DEF MCP!Failures
  <2>2. CASE MCP!Go(c, "ok")
    BY <1>3, <1>8, <2>2, MCPGoes DEF MCP!answered
  <2>3. CASE \E e \in MCP!Failures(call[c].op) : MCP!Go(c, MCP!After(c, e))
    BY <1>8, <2>1, <2>3, MCPFails DEF MCP!answered
  <2> QED
    BY <1>8, <2>2, <2>3 DEF MCP!answered
<1>9. CASE MCP!closed(c)
  <2>1. CASE open' = open \ {call[c].transport} /\ MCP!Go(c, IF call[c].op = "reconnect" THEN "attempt" ELSE "ok")
    <3> DEFINE t == call[c].transport
               p == IF call[c].op = "reconnect" THEN "attempt" ELSE "ok"
               r == [call[c] EXCEPT !.at = p, !.transport = IF p \in MCP!Resting THEN 0 ELSE @]
    <3>1. t # connection /\ UNCHANGED <<connection, transports>>
      BY <1>2, <1>9 DEF MCP!closed, MCPPlaceInv
    <3>2. call' = [call EXCEPT ![c] = r]
      BY <1>2, <2>1 DEF MCP!Go, MCP!Call
    <3>3. t \in 0..transports /\ 0 \in 0..MaxTransports /\ t \in 0..MaxTransports
      BY <1>1, <1>2 DEF MCPPlaceInv
    <3>4. r \in MCP!Call /\ r.at \in {"attempt", "ok"} /\ r.transport \in {0, t}
      BY <1>2, <3>3 DEF MCP!Call, MCP!Places
    <3> HIDE DEF r, p
    <3>5. /\ call' \in [Callers -> MCP!Call] /\ call'[c] = r
          /\ \A d \in Callers : d # c => call'[d] = call[d]
      BY <1>1, <3>2, <3>4
    <3>6. MCP!MCPTypeOK' /\ MCP!RegisteredIsOpen'
      BY <1>1, <2>1, <3>1, <3>5 DEF MCPInv, MCP!MCPTypeOK, MCP!RegisteredIsOpen
    <3>7. MCPPlaceInv(c)'
      BY <1>1, <3>1, <3>3, <3>4, <3>5 DEF MCPPlaceInv, MCP!Errors
    <3>8. ASSUME NEW d \in Callers, d # c PROVE MCPPlaceInv(d)'
      <4>1. call[d].at = "dial" => r.transport # call[d].transport
        BY <3>4, <3>8 DEF MCPInv, MCPPlaceInv
      <4> QED
        BY <2>1, <3>1, <3>5, <3>8, <4>1 DEF MCPInv, MCPPlaceInv
    <3> QED
      BY <3>6, <3>7, <3>8 DEF MCPInv
  <2>2. CASE UNCHANGED open /\ MCP!Go(c, MCP!After(c, "CloseFailed"))
    BY <1>3, <1>9, <2>2, MCPFails DEF MCP!closed
  <2> QED
    BY <1>9, <2>1, <2>2 DEF MCP!closed
<1>10. CASE MCP!delayElapsed(c)
  <2>1. call[c].attempt + 1 \in 0..MaxAttempts
    BY <1>2, <1>10, PartNumbers DEF MCP!delayElapsed, MCPPlaceInv
  <2> QED
    BY <1>3, <1>10, <2>1, MCPDisconnects DEF MCP!delayElapsed
<1>11. CASE MCP!attemptConnects(c)
  BY <1>2, <1>3, <1>11, MCPConnecting DEF MCP!attemptConnects
<1> QED
  BY <1>4, <1>5, <1>6, <1>7, <1>8, <1>9, <1>10, <1>11 DEF MCP!Continue

LEMMA MCPNextInv == MCPInv /\ [MCP!MCPNext]_mcpVars => MCPInv'
<1> SUFFICES ASSUME MCPInv, [MCP!MCPNext]_mcpVars PROVE MCPInv'
  OBVIOUS
<1>1. ASSUME NEW c \in Callers, MCP!disconnect(c) \/ MCP!reconnect(c) PROVE MCPInv'
  <2>1. 0 \in 0..MaxAttempts /\ 1 \in 0..MaxAttempts
    BY PartNumbers
  <2>2. "disconnect" \in MCP!Ops /\ "reconnect" \in MCP!Ops
    BY DEF MCP!Ops
  <2> QED
    BY <1>1, <2>1, <2>2, MCPDisconnects DEF MCP!disconnect, MCP!reconnect
<1>2. ASSUME NEW c \in Callers, NEW o \in MCP!Ops, MCP!invoke(c, o) PROVE MCPInv'
  <2>1. 0 \in 0..MaxAttempts
    BY PartNumbers
  <2> QED
    BY <1>2, <2>1, MCPConnecting DEF MCP!invoke
<1>3. ASSUME NEW t \in 1..transports, MCP!onclose(t) \/ MCP!onerror(t) PROVE MCPInv'
  <2>1. open' \subseteq open /\ connection' = 0 /\ UNCHANGED <<transports, call>>
    BY <1>3 DEF MCP!onclose, MCP!onerror
  <2>2. MCP!MCPTypeOK' /\ MCP!RegisteredIsOpen'
    BY <2>1, PartNumbers DEF MCPInv, MCP!MCPTypeOK, MCP!RegisteredIsOpen
  <2>3. \A c \in Callers : MCPPlaceInv(c)'
    BY <2>1 DEF MCPInv, MCPPlaceInv
  <2> QED
    BY <2>2, <2>3 DEF MCPInv
<1>4. CASE UNCHANGED mcpVars
  BY <1>4 DEF mcpVars, MCPInv, MCPPlaceInv, MCP!MCPTypeOK, MCP!RegisteredIsOpen
<1> QED
  BY <1>1, <1>2, <1>3, <1>4, MCPContinues DEF MCP!MCPNext

-----------------------------------------------------------------------------
(***************************************************************************)
(* 6. All the parts.  The parts that a behaviour does not explore keep     *)
(* their initial state, and with it their invariant.                       *)
(***************************************************************************)
PartsInv == LoopInv /\ SMInv /\ TRInv /\ MCPInv

LEMMA PartsInit == MCInit => PartsInv
  BY LoopInit, SMInitInv, TRInitInv, MCPInitInv DEF MCInit, PartsInv

LEMMA PartsNext == PartsInv /\ [MCNext]_allVars => PartsInv'
<1> SUFFICES ASSUME PartsInv, [MCNext]_allVars PROVE PartsInv'
  OBVIOUS
<1>1. [Next]_vars /\ [SM!SMNext]_smVars /\ [TR!RNext]_runVars /\ [MCP!MCPNext]_mcpVars
  <2>1. CASE UNCHANGED allVars
    BY <2>1 DEF allVars
  <2>2. CASE MCNext
    BY <2>1, <2>2 DEF MCNext
  <2> QED
    BY <2>1, <2>2
<1> QED
  BY <1>1, LoopNext, SMNextInv, TRNextInv, MCPNextInv DEF PartsInv

LEMMA PartsInductive == MCSpec => []PartsInv
  BY PartsInit, PartsNext, PTL DEF MCSpec

(***************************************************************************)
(* Every variable of every part keeps its type.                            *)
(***************************************************************************)
THEOREM PartsTypes == MCSpec => []TypesOK
<1>1. PartsInv => TypesOK
  <2>1. TRInv => TR!RTypeOK
    BY DEF TRInv, TRJob, TR!RTypeOK
  <2> QED
    BY <2>1 DEF PartsInv, LoopInv, SMInv, MCPInv, TypesOK
<1> QED
  BY PartsInductive, <1>1, PTL

(***************************************************************************)
(* Nothing is dispatched before every call has its verdict, and the        *)
(* continuation carries one result per call: the two hold of the stage     *)
(* inside the loop that runs it, pass after pass.                          *)
(***************************************************************************)
THEOREM LoopApprovesAndAnswers ==
  MCSpec => [](NoDispatchBeforeVerdicts /\ ContinuationAnswersEveryCall)
<1>1. PartsInv => NoDispatchBeforeVerdicts /\ ContinuationAnswersEveryCall
  BY DEF PartsInv, LoopInv, TCInv, VerdictsInv, DispatchInv, NoDispatchBeforeVerdicts, TCTypeOK
<1> QED
  BY PartsInductive, <1>1, PTL

(***************************************************************************)
(* For every bound of a turn, every plan of stages and every limit on the  *)
(* output: the events nest, the passes stay within the bound, a fan-out    *)
(* ends only when all its siblings have settled and joins only what all    *)
(* completed, and the output kept is the first bytes of what was written.  *)
(***************************************************************************)
THEOREM StagesAreWhole == MCSpec => []StagesAndOutputWhole
<1>1. PartsInv => StagesAndOutputWhole
  <2> SUFFICES ASSUME PartsInv PROVE StagesAndOutputWhole
    OBVIOUS
  <2>1. EventsNest /\ PassesWithinBound
    BY DEF PartsInv, LoopInv, EventsInv, PassesInv
  <2>2. SM!FanOutSettlesTogether
    BY DEF PartsInv, SMInv, SMFanInv, SM!FanOutSettlesTogether
  <2>3. TR!OutputIsAsWritten
    <3>1. TRSound(job[1])
      BY DEF PartsInv, TRInv
    <3> QED
      BY <3>1 DEF TRSound, TR!OutputIsAsWritten, TR!PipesOpen, TR!Alive
  <2> QED
    BY <2>1, <2>2, <2>3 DEF StagesAndOutputWhole
<1> QED
  BY PartsInductive, <1>1, PTL

(***************************************************************************)
(* For any number of concurrent callers and of attempts: what is           *)
(* registered is open, and a reconnection gives up after all its attempts. *)
(***************************************************************************)
THEOREM ConnectionsAreFound == MCSpec => []McpCallsFindConnections
<1>1. PartsInv => McpCallsFindConnections
  BY DEF PartsInv, MCPInv, MCPPlaceInv, McpCallsFindConnections, MCP!ReconnectExhausts
<1> QED
  BY PartsInductive, <1>1, PTL
============================================================================
