---------------------------- MODULE MessageLoop ----------------------------
(***************************************************************************)
(* The six-stage turn runner (core/loop/orchestrator.ts, stage-runner.ts,  *)
(* loop-bound.ts) composed with its TOOL_CALL handler (ToolCallStage).     *)
(*                                                                         *)
(*   RECEIVE_INPUT, then passes of COMPOSE_REQUEST, SEND_REQUEST,          *)
(*   STREAM_RESPONSE, [TOOL_CALL], then RENDER.                            *)
(*                                                                         *)
(* A pass is repeated while TOOL_CALL asks for a continuation; the loop    *)
(* bound is tested at the top of every pass but the first.  Each stage is  *)
(* bracketed by StagePreFired/StagePostFired and the turn by               *)
(* SessionTurnStart/SessionTurnEnd.  Stage handlers other than TOOL_CALL   *)
(* are injected: whether they throw and where they route is free.          *)
(***************************************************************************)
EXTENDS ToolCallStage

CONSTANT MaxBound    \* the largest maxIterations a turn is run with

ASSUME MaxBoundAssumption == MaxBound \in Nat \ {0}

VARIABLES
  registered,  \* handlerMap: stages that have a handler
  pc,          \* control point of runTurn
  inside,      \* the handler of stage pc has been called and not settled
  bound,       \* the turn's LoopBound
  iteration,   \* iterationCount
  capHit,
  outcome,     \* how runTurn settled (history until the next turn)
  events       \* what the bus carried during the turn, in order

loopVars == <<registered, pc, inside, bound, iteration, capHit, outcome, events>>
vars == <<loopVars, tcVars>>

Stages == {"RECEIVE_INPUT", "COMPOSE_REQUEST", "SEND_REQUEST",
           "STREAM_RESPONSE", "TOOL_CALL", "RENDER"}

Bounds == [kind : {"default-chat", "sm"}, maxIterations : 1..MaxBound]

Start           == [name |-> "SessionTurnStart", stage |-> "-", error |-> FALSE]
End             == [name |-> "SessionTurnEnd", stage |-> "-", error |-> FALSE]
Pre(s)          == [name |-> "StagePreFired", stage |-> s, error |-> FALSE]
Post(s, failed) == [name |-> "StagePostFired", stage |-> s, error |-> failed]

Event == [name  : {"SessionTurnStart", "SessionTurnEnd", "StagePreFired", "StagePostFired"},
          stage : Stages \cup {"-"}, error : BOOLEAN]

shouldTerminate(n, b) == n >= b.maxIterations

Init ==
  /\ TCInit
  /\ registered = {}
  /\ pc = "idle"
  /\ inside = FALSE
  /\ bound \in Bounds
  /\ iteration = 0
  /\ capHit = FALSE
  /\ outcome = "none"
  /\ events = <<>>

registerStage(s) ==
  /\ s \notin registered
  /\ registered' = registered \cup {s}
  /\ UNCHANGED <<pc, inside, bound, iteration, capHit, outcome, events, tcVars>>

(***************************************************************************)
(* runTurn up to its first stage.  Turns do not overlap (TurnSerializer).  *)
(***************************************************************************)
assertAllRegistered == registered = Stages

runTurnRefused ==
  /\ pc = "idle" /\ ~assertAllRegistered
  /\ outcome' = "StageNotRegistered"
  /\ UNCHANGED <<registered, pc, inside, bound, iteration, capHit, events, tcVars>>

runTurn(b) ==
  /\ pc = "idle" /\ assertAllRegistered
  /\ pc' = "RECEIVE_INPUT"
  /\ bound' = b
  /\ iteration' = 0
  /\ capHit' = FALSE
  /\ outcome' = "none"
  /\ events' = <<Start>>
  /\ UNCHANGED <<registered, inside, tcVars>>

(***************************************************************************)
(* runStage: emit StagePreFired and call the handler.  TOOL_CALL gets the  *)
(* calls that the response carried.                                        *)
(***************************************************************************)
enterStage ==
  /\ pc \in Stages /\ ~inside
  /\ inside' = TRUE
  /\ events' = Append(events, Pre(pc))
  /\ IF pc = "TOOL_CALL"
     THEN \E calls \in CallLists : ToolCallInvoke(calls)
     ELSE UNCHANGED tcVars
  /\ UNCHANGED <<registered, pc, bound, iteration, capHit, outcome>>

Leave(s, nextPc) ==
  /\ pc = s /\ inside
  /\ inside' = FALSE
  /\ pc' = nextPc
  /\ events' = Append(events, Post(s, FALSE))
  /\ UNCHANGED <<registered, bound, capHit, outcome, tcVars>>

leaveReceiveInput   == Leave("RECEIVE_INPUT", "loop")        /\ UNCHANGED iteration
leaveComposeRequest == Leave("COMPOSE_REQUEST", "SEND_REQUEST") /\ UNCHANGED iteration
leaveSendRequest    == Leave("SEND_REQUEST", "STREAM_RESPONSE") /\ UNCHANGED iteration
leaveStreamResponse ==
  \/ Leave("STREAM_RESPONSE", "TOOL_CALL") /\ UNCHANGED iteration
  \/ Leave("STREAM_RESPONSE", "RENDER")    /\ UNCHANGED iteration

leaveToolCall ==
  /\ tcPhase = "returned"
  /\ IF output.next = "COMPOSE_REQUEST"
     THEN Leave("TOOL_CALL", "loop")   /\ iteration' = iteration + 1
     ELSE Leave("TOOL_CALL", "RENDER") /\ UNCHANGED iteration

leaveRender ==
  /\ pc = "RENDER" /\ inside
  /\ inside' = FALSE
  /\ pc' = "finally"
  /\ outcome' = "ok"
  /\ events' = Append(events, Post("RENDER", FALSE))
  /\ UNCHANGED <<registered, bound, iteration, capHit, tcVars>>

(***************************************************************************)
(* The handler throws: StagePostFired with error, then runTurn unwinds.    *)
(* TOOL_CALL throws only when its approval stack did.                      *)
(***************************************************************************)
stageThrows ==
  /\ pc \in Stages /\ inside
  /\ pc = "TOOL_CALL" => tcPhase = "threw"
  /\ inside' = FALSE
  /\ pc' = "finally"
  /\ outcome' = "StageError"
  /\ events' = Append(events, Post(pc, TRUE))
  /\ UNCHANGED <<registered, bound, iteration, capHit, tcVars>>

(***************************************************************************)
(* The top of the continuation loop.                                       *)
(***************************************************************************)
BoundReached == iteration > 0 /\ shouldTerminate(iteration, bound)

beginPass ==
  /\ pc = "loop" /\ ~BoundReached
  /\ pc' = "COMPOSE_REQUEST"
  /\ UNCHANGED <<registered, inside, bound, iteration, capHit, outcome, events, tcVars>>

(* Mutant: the break after the cap is missing. *)
hitBoundNeverBreaks ==
  /\ pc = "loop" /\ BoundReached
  /\ IF bound.kind = "sm"
     THEN capHit' = TRUE   /\ pc' = "loop"    /\ UNCHANGED outcome
     ELSE capHit' = capHit /\ pc' = "finally" /\ outcome' = "LoopBoundExceeded"
  /\ UNCHANGED <<registered, inside, bound, iteration, events, tcVars>>

hitBound ==
  /\ pc = "loop" /\ BoundReached
  /\ pc' = "finally"
  /\ IF bound.kind = "sm"
     THEN capHit' = TRUE   /\ outcome' = "ok"
     ELSE capHit' = capHit /\ outcome' = "LoopBoundExceeded"
  /\ UNCHANGED <<registered, inside, bound, iteration, events, tcVars>>

(***************************************************************************)
(* finally: SessionTurnEnd, whatever happened.                             *)
(***************************************************************************)
endTurn ==
  /\ pc = "finally"
  /\ pc' = "idle"
  /\ events' = Append(events, End)
  /\ UNCHANGED <<registered, inside, bound, iteration, capHit, outcome, tcVars>>

toolCallStep ==
  /\ pc = "TOOL_CALL" /\ inside
  /\ TCStep
  /\ UNCHANGED loopVars

TurnStep ==
  \/ enterStage \/ leaveReceiveInput \/ leaveComposeRequest \/ leaveSendRequest
  \/ leaveStreamResponse \/ leaveToolCall \/ leaveRender \/ stageThrows
  \/ beginPass \/ hitBound \/ endTurn \/ toolCallStep

Next ==
  \/ TurnStep
  \/ \E s \in Stages : registerStage(s)
  \/ runTurnRefused
  \/ \E b \in Bounds : runTurn(b)

Spec == Init /\ [][Next]_vars

(***************************************************************************)
(* Handlers, approvals and executors settle: the turn keeps stepping.      *)
(***************************************************************************)
FairSpec == Spec /\ WF_vars(TurnStep)

----------------------------------------------------------------------------
(***************************************************************************)
(* Every variable of runTurn has its type.                                 *)
(***************************************************************************)
TypeOK ==
  /\ TCTypeOK
  /\ registered \subseteq Stages
  /\ pc \in Stages \cup {"idle", "loop", "finally"}
  /\ inside \in BOOLEAN
  /\ bound \in Bounds
  /\ iteration \in Nat
  /\ capHit \in BOOLEAN
  /\ outcome \in {"none", "ok", "StageNotRegistered", "StageError", "LoopBoundExceeded"}
  /\ events \in Seq(Event)

StagesEntered(s) == {i \in DOMAIN events : events[i] = Pre(s)}

(***************************************************************************)
(* On every path (normal, throw, bound) the turn's events nest: one        *)
(* SessionTurnStart first, every StagePreFired directly followed by its    *)
(* own StagePostFired, and SessionTurnEnd last, fired exactly when runTurn *)
(* has settled.                                                            *)
(***************************************************************************)
EventsNest ==
  LET n == Len(events) IN
  /\ \A i \in 1..n :
       /\ events[i].name = "SessionTurnStart" <=> i = 1
       /\ events[i].name = "SessionTurnEnd" => i = n /\ pc = "idle"
       /\ events[i].name = "StagePreFired" =>
            \/ i = n /\ inside /\ pc = events[i].stage
            \/ i < n /\ events[i+1].name = "StagePostFired"
                     /\ events[i+1].stage = events[i].stage
       /\ events[i].name = "StagePostFired" => events[i-1].name = "StagePreFired"
  /\ (pc = "idle" /\ n > 0) => events[n] = End

(***************************************************************************)
(* The loop bound limits the passes of a turn, tool rounds included: at    *)
(* most maxIterations requests are composed, and a turn cut by the bound   *)
(* composed exactly that many and drained TOOL_CALL before it was cut.     *)
(***************************************************************************)
PassesWithinBound ==
  /\ Cardinality(StagesEntered("COMPOSE_REQUEST")) <= bound.maxIterations
  /\ (capHit \/ outcome = "LoopBoundExceeded") =>
       /\ Cardinality(StagesEntered("TOOL_CALL")) = bound.maxIterations
       /\ Cardinality(StagesEntered("COMPOSE_REQUEST")) = bound.maxIterations
       /\ running = {}

(***************************************************************************)
(* A started turn settles: the bound cuts a provider that asks for tools   *)
(* for ever.                                                               *)
(***************************************************************************)
TurnSettles == (pc # "idle") ~> (pc = "idle")
============================================================================
