--------------------------- MODULE ToolCallStage ---------------------------
(***************************************************************************)
(* The TOOL_CALL stage handler of the message loop                         *)
(* (core/loop/stages/tool-call.ts).  One invocation asks the approval      *)
(* stack about every requested call strictly in order, then dispatches all *)
(* approved calls at once, waits for every executor, and returns one       *)
(* result per call in request order.  A halt verdict ends the stage before *)
(* anything is dispatched.                                                 *)
(*                                                                         *)
(* The approval stack and the executors are injected: what they answer and *)
(* when they settle is nondeterministic.  Tool names, arguments and        *)
(* messages are abstracted away; a call is its id.                         *)
(***************************************************************************)
EXTENDS Naturals, Sequences, FiniteSets

CONSTANTS
  CallIds,     \* ids a provider may give to tool calls
  CallLists    \* the tool-call lists a STREAM_RESPONSE may hand over

(***************************************************************************)
(* Within one response the provider's call ids are distinct: resultsById   *)
(* is keyed by id.                                                         *)
(***************************************************************************)
ASSUME CallListsAssumption ==
  \A cs \in CallLists :
     /\ cs \in Seq(CallIds)
     /\ \A i, j \in 1..Len(cs) : cs[i] = cs[j] => i = j

VARIABLES
  tcPhase,      \* where the handler is
  toolCalls,    \* input.payload.toolCalls
  cursor,       \* the call the approval loop is at
  approved,     \* positions pushed to approvedCalls
  running,      \* positions whose executor has not settled
  settled,      \* position -> how its executor settled ("none" before)
  resultsById,  \* id -> entry of the results map ("none" when absent)
  output,       \* what the handler returned
  verdicts,     \* history: position -> what the approval stack answered
  dispatched    \* history: positions whose executor was called

tcVars == <<tcPhase, toolCalls, cursor, approved, running, settled,
            resultsById, output, verdicts, dispatched>>

TCPhases == {"idle", "approving", "executing", "returned", "threw"}
Verdicts == {"none", "approve", "deny", "halt"}
Results  == {"none", "denied", "result", "error"}

NoOutput == [next |-> "none", results |-> <<>>, halt |-> FALSE]

TCInit ==
  /\ tcPhase = "idle"
  /\ toolCalls = <<>>
  /\ cursor = 1
  /\ approved = {}
  /\ running = {}
  /\ settled = <<>>
  /\ resultsById = [id \in CallIds |-> "none"]
  /\ output = NoOutput
  /\ verdicts = <<>>
  /\ dispatched = {}

(***************************************************************************)
(* The orchestrator calls the handler with the response's tool calls.      *)
(***************************************************************************)
ToolCallInvoke(calls) ==
  /\ tcPhase # "approving" /\ tcPhase # "executing"
  /\ tcPhase' = "approving"
  /\ toolCalls' = calls
  /\ cursor' = 1
  /\ approved' = {}
  /\ running' = {}
  /\ settled' = [i \in 1..Len(calls) |-> "none"]
  /\ resultsById' = [id \in CallIds |-> "none"]
  /\ output' = NoOutput
  /\ verdicts' = [i \in 1..Len(calls) |-> "none"]
  /\ dispatched' = {}

(* Mutant: the approval loop runs one call past the end of the list. *)
ApprovePastEnd ==
  /\ tcPhase = "approving" /\ cursor <= Len(toolCalls) + 1
  /\ verdicts' = [verdicts EXCEPT ![cursor] = "approve"]
  /\ approved' = approved \cup {cursor}
  /\ cursor' = cursor + 1
  /\ UNCHANGED <<tcPhase, toolCalls, running, settled, resultsById, output, dispatched>>

(***************************************************************************)
(* One round of the FIFO approval loop: approvalStack(call) has answered.  *)
(***************************************************************************)
ApproveCall ==
  /\ tcPhase = "approving" /\ cursor <= Len(toolCalls)
  /\ verdicts' = [verdicts EXCEPT ![cursor] = "approve"]
  /\ approved' = approved \cup {cursor}
  /\ cursor' = cursor + 1
  /\ UNCHANGED <<tcPhase, toolCalls, running, settled, resultsById, output, dispatched>>

DenyCall ==
  /\ tcPhase = "approving" /\ cursor <= Len(toolCalls)
  /\ verdicts' = [verdicts EXCEPT ![cursor] = "deny"]
  /\ resultsById' = [resultsById EXCEPT ![toolCalls[cursor]] = "denied"]
  /\ cursor' = cursor + 1
  /\ UNCHANGED <<tcPhase, toolCalls, approved, running, settled, output, dispatched>>

ResultOf(id) == [id |-> id, res |-> resultsById[id]]
RecordedCalls == SelectSeq(toolCalls, LAMBDA id : resultsById[id] # "none")

(* Mutant: a halt skips its call and the loop goes on. *)
HaltSkipsCall ==
  /\ tcPhase = "approving" /\ cursor <= Len(toolCalls)
  /\ verdicts' = [verdicts EXCEPT ![cursor] = "halt"]
  /\ cursor' = cursor + 1
  /\ UNCHANGED <<tcPhase, toolCalls, approved, running, settled, resultsById, output, dispatched>>

(***************************************************************************)
(* Halt: return at once with the denials recorded so far.                  *)
(***************************************************************************)
HaltCall ==
  /\ tcPhase = "approving" /\ cursor <= Len(toolCalls)
  /\ verdicts' = [verdicts EXCEPT ![cursor] = "halt"]
  /\ tcPhase' = "returned"
  /\ output' = [next    |-> "END_OF_TURN",
                results |-> [i \in 1..Len(RecordedCalls) |-> ResultOf(RecordedCalls[i])],
                halt    |-> TRUE]
  /\ UNCHANGED <<toolCalls, cursor, approved, running, settled, resultsById, dispatched>>

(***************************************************************************)
(* approvalStack rejects (a cancellation, for one): the handler rejects.   *)
(***************************************************************************)
ApprovalThrows ==
  /\ tcPhase = "approving" /\ cursor <= Len(toolCalls)
  /\ tcPhase' = "threw"
  /\ UNCHANGED <<toolCalls, cursor, approved, running, settled, resultsById,
                 output, verdicts, dispatched>>

(***************************************************************************)
(* approvedCalls.map(...): every approved executor starts synchronously.   *)
(***************************************************************************)
DispatchAll ==
  /\ tcPhase = "approving" /\ cursor > Len(toolCalls)
  /\ tcPhase' = "executing"
  /\ running' = approved
  /\ dispatched' = approved
  /\ UNCHANGED <<toolCalls, cursor, approved, settled, resultsById, output, verdicts>>

(***************************************************************************)
(* An executor settles; a rejection is shaped into an error result and     *)
(* never fails its siblings.                                               *)
(***************************************************************************)
ExecutorSettles(i, res) ==
  /\ tcPhase = "executing" /\ i \in running
  /\ running' = running \ {i}
  /\ settled' = [settled EXCEPT ![i] = res]
  /\ UNCHANGED <<tcPhase, toolCalls, cursor, approved, resultsById, output,
                 verdicts, dispatched>>

(***************************************************************************)
(* Promise.all has resolved: merge the executed results into the map and   *)
(* answer every call in input order ("error" stands for a missing entry).  *)
(***************************************************************************)
MergedResults ==
  [id \in CallIds |->
     IF \E i \in approved : toolCalls[i] = id
     THEN settled[CHOOSE i \in approved : toolCalls[i] = id]
     ELSE resultsById[id]]

(* Mutant: the stage returns without waiting for every executor. *)
ReturnEarly ==
  /\ tcPhase = "executing"
  /\ tcPhase' = "returned"
  /\ resultsById' = MergedResults
  /\ output' = [next    |-> "COMPOSE_REQUEST",
                results |-> [i \in 1..Len(toolCalls) |->
                               [id |-> toolCalls[i], res |-> MergedResults[toolCalls[i]]]],
                halt    |-> FALSE]
  /\ UNCHANGED <<toolCalls, cursor, approved, running, settled, verdicts, dispatched>>

ReturnResults ==
  /\ tcPhase = "executing" /\ running = {}
  /\ tcPhase' = "returned"
  /\ resultsById' = MergedResults
  /\ output' = [next    |-> "COMPOSE_REQUEST",
                results |-> [i \in 1..Len(toolCalls) |->
                               [id  |-> toolCalls[i],
                                res |-> IF MergedResults[toolCalls[i]] = "none"
                                        THEN "error" ELSE MergedResults[toolCalls[i]]]],
                halt    |-> FALSE]
  /\ UNCHANGED <<toolCalls, cursor, approved, running, settled, verdicts, dispatched>>

(***************************************************************************)
(* Steps the handler takes once it has been invoked.                       *)
(***************************************************************************)
TCStep ==
  \/ ApproveCall \/ DenyCall \/ HaltCall \/ ApprovalThrows
  \/ DispatchAll \/ ReturnResults
  \/ \E i \in running, res \in {"result", "error"} : ExecutorSettles(i, res)

TCNext == TCStep \/ \E calls \in CallLists : ToolCallInvoke(calls)

TCSpec == TCInit /\ [][TCNext]_tcVars

----------------------------------------------------------------------------
(***************************************************************************)
(* Every variable of the handler has its type.                             *)
(***************************************************************************)
TCTypeOK ==
  /\ tcPhase \in TCPhases
  /\ toolCalls \in Seq(CallIds)
  /\ cursor \in 1..(Len(toolCalls) + 1)
  /\ approved \subseteq 1..Len(toolCalls)
  /\ running \subseteq 1..Len(toolCalls)
  /\ settled \in [1..Len(toolCalls) -> {"none", "result", "error"}]
  /\ resultsById \in [CallIds -> Results]
  /\ output.next \in {"none", "COMPOSE_REQUEST", "END_OF_TURN"}
  /\ verdicts \in [1..Len(toolCalls) -> Verdicts]
  /\ dispatched \subseteq 1..Len(toolCalls)

(***************************************************************************)
(* No executor is called before the approval stack has answered for every  *)
(* call of the response, and then only for calls it approved; a halt, even *)
(* at the last call, leaves no tool dispatched.                            *)
(***************************************************************************)
NoDispatchBeforeVerdicts ==
  dispatched # {} =>
    /\ \A i \in 1..Len(toolCalls) : verdicts[i] \in {"approve", "deny"}
    /\ \A i \in dispatched : verdicts[i] = "approve"

(***************************************************************************)
(* A returned continuation answers exactly the requested calls, in request *)
(* order: a denied call is reported as denied and an approved one with     *)
(* what its own executor produced.                                         *)
(***************************************************************************)
ContinuationAnswersEveryCall ==
  (tcPhase = "returned" /\ output.next = "COMPOSE_REQUEST") =>
    /\ Len(output.results) = Len(toolCalls)
    /\ \A i \in 1..Len(toolCalls) :
         output.results[i] =
           [id |-> toolCalls[i],
            res |-> IF verdicts[i] = "deny" THEN "denied" ELSE settled[i]]
    /\ \A i \in 1..Len(toolCalls) :
         verdicts[i] = "approve" => settled[i] # "none"

============================================================================
