---------------------------- MODULE StageMachine ----------------------------
(***************************************************************************)
(* Stage executions of an attached state machine (core/sm): one execution  *)
(* walks seven phases, each raced against the abort signal it runs under;  *)
(* four drivers start executions: runSequential, runParallel followed by   *)
(* runJoin, and schedule, which follows what each stage says comes next.   *)
(*                                                                         *)
(* An abort makes a phase lose its race at once.  The work of the phase    *)
(* goes on behind it, and nobody awaits its end: it is not in the state.   *)
(***************************************************************************)
EXTENDS Integers, Sequences, FiniteSets

CONSTANTS
  Plans,        \* the plans drivers are called with
  MaxRuns       \* bound: executions started by one driver

Terminate          == [execution |-> "terminate", stageIds |-> <<>>, join |-> "none"]
Sequential(s)      == IF s = <<>> THEN Terminate
                      ELSE [execution |-> "sequential", stageIds |-> s, join |-> "none"]
Parallel(s, j)     == [execution |-> "parallel", stageIds |-> s, join |-> j]

(* The machine the program brings along (ralph): two stages in a row, two  *)
(* siblings, their join, and the stage that ends it.                       *)
StageIds == {"Discovery", "Decompose", "BuildA", "BuildB", "JoinReview", "Complete"}
NextOf ==   \* what each stage's next() returns
  [s \in StageIds |->
     CASE s = "Discovery"  -> Sequential(<<"Decompose">>)
       [] s = "Decompose"  -> Parallel(<<"BuildA", "BuildB">>, "JoinReview")
       [] s = "JoinReview" -> Sequential(<<"Complete">>)
       [] OTHER            -> Sequential(<<>>)]

VARIABLES
  turn,      \* the driver's call: its plan, where it stands, how it settled
  pending,   \* stages the driver will start, nearest first
  runs,      \* the stage executions, in the order they were started
  aborted,   \* the turn's signal
  failFast   \* runParallel's own controller

smVars == <<turn, pending, runs, aborted, failFast>>

Phases   == <<"Setup", "Init", "CheckGate", "Act", "Assert", "Exit", "Next">>
After(p) == Phases[1 + CHOOSE i \in 1..6 : Phases[i] = p]

Verdicts == {"proceed", "retry", "skip"}
Outcomes == {"ok", "retry", "skip", "fail"}
Settled  == {"done", "failed", "cancelled"}

Run == [stage : StageIds, phase : {Phases[k] : k \in 1..7}, at : {"working", "resolved"} \cup Settled,
        sibling : BOOLEAN, verdict : Verdicts \cup Outcomes]

Ends == {"running", "completed", "terminated", "cancelled", "failed", "siblingFailed", "joinRefused"}

(* Types.                                                                  *)
SMTypeOK ==
  /\ turn \in [driver : {"idle", "sequential", "parallel", "schedule"}, at : {"stages", "siblings", "join"},
               join : StageIds \cup {"none"}, taken : 0..MaxRuns, firstFailure : 0..MaxRuns, end : Ends]
  /\ pending \in Seq(StageIds)
  /\ runs \in Seq(Run)
  /\ {aborted, failFast} \subseteq BOOLEAN

SMInit ==
  /\ turn = [driver |-> "idle", at |-> "stages", join |-> "none", taken |-> 0, firstFailure |-> 0,
             end |-> "completed"]
  /\ pending = <<>> /\ runs = <<>>
  /\ aborted = FALSE /\ failFast = FALSE

Driving   == turn.end = "running"
Latest      == runs[Len(runs)]
Siblings  == {i \in DOMAIN runs : runs[i].sibling}
InFanOut(i) == turn.driver = "parallel" /\ runs[i].sibling
Signal(i) == aborted \/ (InFanOut(i) /\ failFast)

(***************************************************************************)
(* One stage execution.  A sibling of runParallel that rejects, or whose   *)
(* Assert said fail, is the first failure if there is none, and aborts the *)
(* others.                                                                 *)
(***************************************************************************)
(* Mutant: the last failure is the one reported.                           *)
RejectsLast(i, end, phase) ==
  /\ runs' = [runs EXCEPT ![i].at = end, ![i].phase = phase]
  /\ failFast' = (failFast \/ InFanOut(i))
  /\ turn' = IF InFanOut(i) THEN [turn EXCEPT !.firstFailure = i] ELSE turn

Rejects(i, end, phase) ==
  /\ runs' = [runs EXCEPT ![i].at = end, ![i].phase = phase]
  /\ failFast' = (failFast \/ InFanOut(i))
  /\ turn' = IF InFanOut(i) /\ turn.firstFailure = 0 THEN [turn EXCEPT !.firstFailure = i] ELSE turn

(* The phase's work settles while its race is open.                        *)
Resolves(i, verdict) ==
  /\ runs[i].at = "working" /\ ~Signal(i)
  /\ runs' = [runs EXCEPT ![i].at = "resolved", ![i].verdict = verdict]
  /\ UNCHANGED <<turn, pending, aborted, failFast>>

workResolves(i) ==
  \/ runs[i].phase \notin {"CheckGate", "Assert"} /\ Resolves(i, runs[i].verdict)
  \/ runs[i].phase = "CheckGate" /\ \E v \in Verdicts : Resolves(i, v)
  \/ runs[i].phase = "Assert" /\ runs[i].verdict = "proceed" /\ \E o \in Outcomes : Resolves(i, o)
  \/ runs[i].phase = "Assert" /\ runs[i].verdict /= "proceed" /\ Resolves(i, runs[i].verdict)

workThrows(i) ==
  /\ runs[i].at = "working" /\ runs[i].phase /= "Next" /\ ~Signal(i)
  /\ Rejects(i, "failed", runs[i].phase)
  /\ UNCHANGED <<pending, aborted>>

Cancels(i, phase) ==
  /\ Rejects(i, "cancelled", phase)
  /\ UNCHANGED <<pending, aborted>>

phaseCancelled(i) == runs[i].at = "working" /\ Signal(i) /\ Cancels(i, runs[i].phase)

(* withCancellation is handed work already called: under an aborted signal *)
(* the next phase's work starts, and then the phase is cancelled.          *)
phaseStarts(i) ==
  /\ runs[i].at = "resolved" /\ runs[i].phase /= "Next"
  /\ IF Signal(i) THEN Cancels(i, After(runs[i].phase))
     ELSE /\ runs' = [runs EXCEPT ![i].phase = After(@), ![i].at = "working"]
          /\ UNCHANGED <<turn, pending, aborted, failFast>>

runStageReturns(i) ==
  /\ runs[i].at = "resolved" /\ runs[i].phase = "Next"
  /\ IF InFanOut(i) /\ runs[i].verdict = "fail"
     THEN Rejects(i, "failed", "Next")
     ELSE runs' = [runs EXCEPT ![i].at = "done"] /\ UNCHANGED <<turn, failFast>>
  /\ UNCHANGED <<pending, aborted>>

(* Executions start together; under an aborted signal Setup is called and  *)
(* cancelled.                                                              *)
Launch(stages, sibling) ==
  /\ Len(runs) + Len(stages) <= MaxRuns
  /\ runs' = runs \o [k \in DOMAIN stages |->
      [stage |-> stages[k], phase |-> "Setup", at |-> IF aborted THEN "cancelled" ELSE "working",
       sibling |-> sibling, verdict |-> "proceed"]]

(***************************************************************************)
(* The drivers.  A plan is called once; its signal may be aborted by then. *)
(***************************************************************************)
abort ==
  /\ ~aborted
  /\ aborted' = TRUE
  /\ UNCHANGED <<turn, pending, runs, failFast>>

Calling(p, end, at) ==
  /\ turn.driver = "idle" /\ p.driver \in {"sequential", "parallel", "schedule"}
  /\ turn' = [turn EXCEPT !.driver = p.driver, !.join = p.join, !.end = end, !.at = at]

runParallel(p) ==
  /\ p.driver = "parallel"
  /\ \/ /\ Len(p.stages) < 2 \/ aborted
        /\ Calling(p, IF Len(p.stages) < 2 THEN "failed" ELSE "cancelled", "siblings")
        /\ UNCHANGED runs
     \/ /\ Len(p.stages) >= 2 /\ ~aborted
        /\ Calling(p, "running", "siblings")
        /\ Launch(p.stages, TRUE)
  /\ UNCHANGED <<pending, aborted, failFast>>

runStages(p) ==
  /\ p.driver \in {"sequential", "schedule"}
  /\ Calling(p, "running", "stages")
  /\ pending' = p.stages
  /\ UNCHANGED <<runs, aborted, failFast>>

Settle(end) ==
  /\ turn' = [turn EXCEPT !.end = end]
  /\ UNCHANGED <<pending, runs, aborted, failFast>>

(* runSequential and schedule: one stage at a time.  runSequential looks   *)
(* at the signal before each.                                              *)
AtStages == Driving /\ turn.at = "stages"

startNext ==
  /\ AtStages /\ turn.taken = Len(runs) /\ pending /= <<>>
  /\ ~(turn.driver = "sequential" /\ aborted)
  /\ Launch(<<Head(pending)>>, FALSE)
  /\ pending' = Tail(pending)
  /\ UNCHANGED <<turn, aborted, failFast>>

stagesEnd ==
  /\ AtStages /\ turn.taken = Len(runs)
  /\ \/ pending = <<>> /\ Settle("completed")
     \/ pending /= <<>> /\ turn.driver = "sequential" /\ aborted /\ Settle("cancelled")

Awaited == AtStages /\ turn.taken = Len(runs) - 1

stageFailed ==
  /\ Awaited /\ Latest.at \in {"failed", "cancelled"}
  /\ Settle(IF turn.driver = "sequential" /\ aborted THEN "cancelled" ELSE Latest.at)

(* runSequential goes on unless the stage says terminate; what else it     *)
(* says comes next is not looked at.                                       *)
takeSequential ==
  /\ Awaited /\ Latest.at = "done" /\ turn.driver = "sequential"
  /\ turn' = IF NextOf[Latest.stage].execution = "terminate"
             THEN [turn EXCEPT !.taken = Len(runs), !.end = "terminated"]
             ELSE [turn EXCEPT !.taken = Len(runs)]
  /\ UNCHANGED <<pending, runs, aborted, failFast>>

(* schedule walks depth first: what a stage says comes before the rest.    *)
takeScheduled ==
  LET next == NextOf[Latest.stage] IN
  /\ Awaited /\ Latest.at = "done" /\ turn.driver = "schedule"
  /\ IF next.execution = "parallel"
     THEN /\ turn' = [turn EXCEPT !.taken = Len(runs), !.at = "siblings", !.join = next.join]
          /\ Launch(next.stageIds, TRUE)
          /\ UNCHANGED pending
     ELSE /\ turn' = [turn EXCEPT !.taken = Len(runs)]
          /\ pending' = next.stageIds \o pending
          /\ UNCHANGED runs
  /\ UNCHANGED <<aborted, failFast>>

(* schedule awaits its siblings with Promise.all: it leaves at the first   *)
(* rejection, and to it a sibling whose Assert said fail has succeeded.    *)
scheduledSiblings ==
  LET group == {i \in Siblings : i > turn.taken} IN
  /\ Driving /\ turn.driver = "schedule" /\ turn.at = "siblings"
  /\ \/ /\ \E i \in group : runs[i].at \in {"failed", "cancelled"}
        /\ Settle("siblingFailed")
     \/ /\ \A i \in group : runs[i].at = "done"
        /\ turn' = [turn EXCEPT !.taken = Len(runs), !.at = "stages"]
        /\ pending' = IF turn.join = "none" THEN pending ELSE <<turn.join>> \o pending
        /\ UNCHANGED <<runs, aborted, failFast>>

(* runParallel awaits all of them, whatever they do (allSettled).          *)
AllSettled == \A i \in Siblings : runs[i].at \in Settled

parallelSettles ==
  /\ Driving /\ turn.driver = "parallel" /\ turn.at = "siblings" /\ AllSettled
  /\ \/ aborted /\ Settle("cancelled")
     \/ ~aborted /\ turn.firstFailure /= 0 /\ Settle("siblingFailed")
     \/ /\ ~aborted /\ turn.firstFailure = 0
        /\ turn' = [turn EXCEPT !.at = "join", !.taken = Len(runs),
                                !.end = IF turn.join = "none" THEN "completed" ELSE "running"]
        /\ UNCHANGED <<pending, runs, aborted, failFast>>

(* runJoin, called with what runParallel returned.                         *)
AtJoin == Driving /\ turn.driver = "parallel" /\ turn.at = "join"
SiblingsOk == \A i \in Siblings : runs[i].verdict = "ok"

runJoin ==
  /\ AtJoin /\ turn.taken = Len(runs)
  /\ \/ aborted /\ Settle("cancelled")
     \/ ~aborted /\ ~SiblingsOk /\ Settle("joinRefused")
     \/ /\ ~aborted /\ SiblingsOk
        /\ Launch(<<turn.join>>, FALSE)
        /\ UNCHANGED <<turn, pending, aborted, failFast>>

joinSettles ==
  /\ AtJoin /\ turn.taken = Len(runs) - 1 /\ Latest.at \in Settled
  /\ Settle(IF Latest.at /= "done" THEN Latest.at
            ELSE IF Latest.verdict = "fail" THEN "failed" ELSE "completed")

Continuation ==
  \/ \E i \in DOMAIN runs : phaseCancelled(i) \/ phaseStarts(i) \/ runStageReturns(i)
  \/ startNext \/ stagesEnd \/ stageFailed \/ takeSequential \/ takeScheduled
  \/ scheduledSiblings \/ parallelSettles \/ runJoin \/ joinSettles

SMNext ==
  \/ \E p \in Plans : runParallel(p) \/ runStages(p)
  \/ \E i \in DOMAIN runs : workResolves(i) \/ workThrows(i)
  \/ abort
  \/ Continuation

SMSpec == SMInit /\ [][SMNext]_smVars /\ WF_smVars(Continuation)

(***************************************************************************)
(* A fan-out that has settled has left no sibling between two phases or at *)
(* an await: each has returned, failed or been cancelled.  The failure it  *)
(* reports is a sibling's own, never the cancellation the failure caused.  *)
(* The join runs only when every sibling's Assert said ok.                 *)
(***************************************************************************)
FanOutSettlesTogether ==
  turn.driver = "parallel" =>
    /\ ~Driving => AllSettled
    /\ turn.end = "siblingFailed" => runs[turn.firstFailure].at = "failed"
    /\ (\E i \in DOMAIN runs : ~runs[i].sibling) => \A i \in Siblings : runs[i].at = "done" /\ runs[i].verdict = "ok"

=============================================================================
