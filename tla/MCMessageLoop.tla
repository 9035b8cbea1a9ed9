--------------------------- MODULE MCMessageLoop ---------------------------
(***************************************************************************)
(* What happens inside a turn, part by part.  A behaviour explores one     *)
(* part: the message loop with its TOOL_CALL stage, or one of the modules  *)
(* instantiated below; the others stay in an initial state of theirs.      *)
(***************************************************************************)
EXTENDS MessageLoop, TLC

CONSTANTS c1, c2,
          Parts,          \* the parts a run explores
          StagePlans, MaxRuns,                                             \* StageMachine
          MaxBytesKept, MaxWrote,                                          \* ToolRuns
          Callers, MaxTransports, MaxAttempts                              \* McpClient

MCCallIds   == {c1, c2}
MCCallLists == {<<>>, <<c1>>, <<c1, c2>>}

(* A chain that ends, a fan-out with its join, one that is too small, and  *)
(* what the scheduler makes of the whole graph.                            *)
Plan(driver, stages, join) == [driver |-> driver, stages |-> stages, join |-> join]
MCPlans == {Plan("schedule", <<"Decompose">>, "none"), Plan("sequential", <<"Discovery", "Complete">>, "none"),
            Plan("parallel", <<"BuildA", "BuildB">>, "JoinReview"), Plan("parallel", <<"BuildA">>, "none")}

VARIABLES part,
  turn, pending, runs, aborted, failFast,                                  \* StageMachine
  job, signalled, executable,                                              \* ToolRuns
  connection, transports, open, call                                       \* McpClient

SM == INSTANCE StageMachine WITH Plans <- StagePlans

(* A plan names stages of the machine; a policy has at least one attempt.  *)
ASSUME PartsAssumption ==
  /\ \A p \in StagePlans :
       /\ p.driver \in {"sequential", "parallel", "schedule"}
       /\ p.stages \in Seq(SM!StageIds) /\ p.join \in SM!StageIds \cup {"none"}
  /\ {MaxRuns, MaxBytesKept, MaxWrote, MaxTransports} \subseteq Nat
  /\ MaxAttempts \in Nat \ {0}

TR == INSTANCE ToolRuns WITH Jobs <- {1}

MCP == INSTANCE McpClient

(* Where nothing is left to do is the end of these parts.                  *)
MayStop == {"stages", "tool runs", "mcp"}
smVars    == <<turn, pending, runs, aborted, failFast>>
runVars   == <<job, signalled, executable>>
mcpVars   == <<connection, transports, open, call>>
allVars   == <<part, vars, smVars, runVars, mcpVars>>

MCInit ==
  /\ part \in Parts
  /\ Init /\ SM!SMInit /\ TR!RInit /\ MCP!MCPInit
  /\ part # "loop" => bound = [kind |-> "default-chat", maxIterations |-> 1]

MCNext ==
  \/ /\ UNCHANGED part
     /\ IF part = "loop" THEN Next ELSE UNCHANGED vars
     /\ IF part = "stages" THEN SM!SMNext ELSE UNCHANGED smVars
     /\ IF part = "tool runs" THEN TR!RNext ELSE UNCHANGED runVars
     /\ IF part = "mcp" THEN MCP!MCPNext ELSE UNCHANGED mcpVars
  \/ part \in MayStop /\ UNCHANGED allVars

(* Handlers, executors and the continuations of promises go on, each MCP   *)
(* call on its own; timers elapse, and a subprocess whose process group is *)
(* killed closes.                                                          *)
Continues(c) ==
  /\ UNCHANGED part
  /\ IF part = "loop" THEN TurnStep ELSE UNCHANGED vars
  /\ IF part = "stages" THEN SM!Continuation ELSE UNCHANGED smVars
  /\ IF part = "tool runs" THEN TR!subprocessCloses(1) \/ TR!timeoutElapses(1) ELSE UNCHANGED runVars
  /\ IF part = "mcp" THEN MCP!Continue(c) ELSE UNCHANGED mcpVars

MCSpec == MCInit /\ [][MCNext]_allVars /\ \A c \in Callers : WF_allVars(Continues(c))

-----------------------------------------------------------------------------
(***************************************************************************)
(* Every variable of every part has its type.                              *)
(***************************************************************************)
TypesOK == TypeOK /\ SM!SMTypeOK /\ TR!RTypeOK /\ MCP!MCPTypeOK

(***************************************************************************)
(* The passes of a turn nest their events and stay within the bound        *)
(* (core/loop/orchestrator.ts), the stages of a fan-out settle together    *)
(* (core/sm/fan-out.ts), and a tool keeps the output of its subprocess as  *)
(* it was written, up to the bytes it may keep (tools/bash,                *)
(* tools/script-runner).                                                   *)
(***************************************************************************)
StagesAndOutputWhole ==
  EventsNest /\ PassesWithinBound /\ SM!FanOutSettlesTogether /\ TR!OutputIsAsWritten

(***************************************************************************)
(* The connection an MCP call finds is open, and a reconnection that gives *)
(* up has made all its attempts (core/mcp/client.ts, reconnect.ts).  It is *)
(* not said that an open connection stays registered: the late callback of *)
(* the transport before it takes it out.                                   *)
(***************************************************************************)
McpCallsFindConnections == MCP!RegisteredIsOpen /\ MCP!ReconnectExhausts

(***************************************************************************)
(* What is aborted, late or called ends: the driver of a state machine's   *)
(* stages, the subprocess of a tool unless it left its process group, a    *)
(* call of an MCP client with all its attempts (one leads-to for the three *)
(* parts).                                                                 *)
(***************************************************************************)
MustEnd(c) ==
  \/ part = "stages" /\ SM!Driving /\ (aborted \/ failFast)
  \/ part = "tool runs" /\ TR!TimedOut(1)
  \/ part = "mcp" /\ call[c].at \notin MCP!Resting
Ended(c) ==
  \/ part = "stages" /\ ~SM!Driving
  \/ part = "tool runs" /\ (job[1].pc = "settled" \/ job[1].stray)
  \/ part = "mcp" /\ call[c].at \in MCP!Resting
AbortedWorkEnds == \A c \in Callers : MustEnd(c) ~> Ended(c)
=============================================================================
