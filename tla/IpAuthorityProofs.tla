------------------------- MODULE IpAuthorityProofs -------------------------
(***************************************************************************)
(* Requests put to the user, for every number of subagents, requests and   *)
(* interactors: in the session's queue none is stranded, one loop shows    *)
(* one prompt at a time and the authority implements the prompt service    *)
(* (section 1); the single-interactor protocol serves its callers in order *)
(* and tells each the truth, the race arbiter dismisses every loser once   *)
(* and leaks nothing (section 2).                                          *)
(***************************************************************************)
EXTENDS MCIpAuthority, FiniteSetTheorems, TLAPS

-----------------------------------------------------------------------------
(***************************************************************************)
(* 1. The authority.                                                       *)
(***************************************************************************)

(***************************************************************************)
(* Entries in the queue or on screen carry distinct ids that have been     *)
(* handed out and are not settled.                                         *)
(***************************************************************************)
Live == queue \cup open

LiveInv ==
  /\ queue \cap open = {}
  /\ \A e \in Live : e.arrivalOrder < arrivalCounter
  /\ \A e, f \in Live : e.arrivalOrder = f.arrivalOrder => e = f
  /\ \A e \in Live : settled[e.arrivalOrder] = Unsettled
  /\ \A id \in Ids : id >= arrivalCounter => settled[id] = Unsettled

(***************************************************************************)
(* Within a session a subagent has raised no more requests than arrived.   *)
(***************************************************************************)
RaiseInv == \A s \in Subagents : subagents[s].raiseSequence <= arrivalCounter

IInv == TypeOK /\ RaiseInv /\ NoLostWakeup /\ SingleLoop /\ SettledByOwnAnswer /\ LiveInv

(***************************************************************************)
(* Whatever the comparator, the sort's first entry is one of the queue's.  *)
(***************************************************************************)
LEMMA FirstIsQueued == ASSUME NEW Q PROVE SortedFirst(Q) \subseteq Q
  BY DEF SortedFirst

(***************************************************************************)
(* The initial state of the authority satisfies the inductive invariant.   *)
(***************************************************************************)
LEMMA InitInv == Init => IInv
<1> SUFFICES ASSUME Init PROVE IInv
  OBVIOUS
<1> USE IpAssumption DEF Init
<1>1. TypeOK
  <2>1. Absent \in [spawnedAt : Ticks \cup {-1}, raiseSequence : 0..MaxRaises]
    BY DEF Absent
  <2>2. Unsettled \in [status : Statuses \cup {"none"}, by : Ids \cup {-1}]
    BY DEF Unsettled
  <2>3. shown \in Seq(QueueEntry)
    OBVIOUS
  <2>4. clock \in Ticks /\ arrivalCounter \in 0..MaxRaises /\ wakeups \in Nat /\ resuming \in Nat
    BY DEF Ticks
  <2>5. /\ gone \subseteq Subagents /\ processing \in BOOLEAN
        /\ queue \subseteq QueueEntry /\ open \subseteq QueueEntry /\ timers \subseteq QueueEntry
    OBVIOUS
  <2> QED
    BY <2>1, <2>2, <2>3, <2>4, <2>5 DEF TypeOK
<1>2. RaiseInv /\ NoLostWakeup /\ SingleLoop
  BY DEF RaiseInv, NoLostWakeup, SingleLoop, Absent
<1>3. SettledByOwnAnswer /\ LiveInv
  BY DEF SettledByOwnAnswer, LiveInv, Live
<1> QED
  BY <1>1, <1>2, <1>3 DEF IInv

(***************************************************************************)
(* A new entry gets an id that no live entry has.                          *)
(***************************************************************************)
LEMMA EnqueueInv ==
  ASSUME IInv, NEW o \in Subagents \cup {Parent}, NEW sp \in Ticks \cup {-1},
         NEW q \in 0..MaxRaises, NEW timed \in BOOLEAN,
         enqueue(o, sp, q, timed)
  PROVE  /\ queue' \subseteq QueueEntry
         /\ arrivalCounter' \in 0..MaxRaises
         /\ wakeups' \in Nat
         /\ NoLostWakeup'
         /\ LiveInv'
<1> DEFINE new == [arrivalOrder |-> arrivalCounter, raisedAt |-> clock, subagentId |-> o,
                   spawnedAt |-> sp, raiseSequenceWithinSubagent |-> q, timed |-> timed]
<1>1. new \in QueueEntry
  BY IpAssumption DEF QueueEntry, IInv, TypeOK, enqueue, Ids, Ticks
<1>2. queue' = queue \cup {new} /\ open' = open /\ settled' = settled
  BY DEF enqueue
<1>3. arrivalCounter' = arrivalCounter + 1 /\ arrivalCounter \in Nat
      /\ arrivalCounter < MaxRaises /\ MaxRaises \in Nat
  BY IpAssumption DEF enqueue, IInv, TypeOK
<1>4. queue' \subseteq QueueEntry /\ arrivalCounter' \in 0..MaxRaises
  BY <1>1, <1>2, <1>3 DEF IInv, TypeOK
<1>5. wakeups' \in Nat /\ NoLostWakeup'
  BY DEF enqueue, IInv, TypeOK, NoLostWakeup
<1>6. \A e \in Live : e \in QueueEntry /\ e.arrivalOrder \in Nat /\ e.arrivalOrder < arrivalCounter
  BY IpAssumption DEF IInv, TypeOK, LiveInv, Live, QueueEntry, Ids
<1>7. new \notin Live /\ new.arrivalOrder = arrivalCounter
  BY <1>3, <1>6
<1>8. Live' = Live \cup {new}
  BY <1>2 DEF Live
<1>9. settled[arrivalCounter] = Unsettled
  BY <1>3 DEF IInv, LiveInv, Ids
<1>10. queue' \cap open' = {}
  BY <1>2, <1>7 DEF IInv, LiveInv, Live
<1>11. \A e \in Live' : e.arrivalOrder < arrivalCounter' /\ settled'[e.arrivalOrder] = Unsettled
  BY <1>2, <1>3, <1>6, <1>7, <1>8, <1>9 DEF IInv, LiveInv
<1>12. \A e, f \in Live' : e.arrivalOrder = f.arrivalOrder => e = f
  BY <1>3, <1>6, <1>7, <1>8 DEF IInv, LiveInv
<1>13. \A id \in Ids : id >= arrivalCounter' => settled'[id] = Unsettled
  BY <1>2, <1>3, IpAssumption DEF IInv, LiveInv, Ids
<1> QED
  BY <1>4, <1>5, <1>10, <1>11, <1>12, <1>13 DEF LiveInv

(***************************************************************************)
(* Showing an entry moves it from the queue to the screen.                 *)
(***************************************************************************)
LEMMA RunEntryInv ==
  ASSUME IInv, NEW e \in SortedFirst(queue), runEntryAgainst(e), open = {},
         settled' = settled, arrivalCounter' = arrivalCounter
  PROVE  /\ e \in queue
         /\ queue' \subseteq QueueEntry /\ open' = {e} /\ open' \subseteq QueueEntry
         /\ timers' \subseteq open' /\ timers' \subseteq QueueEntry
         /\ shown' \in Seq(QueueEntry)
         /\ SettledByOwnAnswer'
         /\ LiveInv'
<1>1. e \in queue
  BY FirstIsQueued
<1>2. timers = {}
  BY DEF IInv, SettledByOwnAnswer
<1>3. queue' = queue \ {e} /\ open' = {e}
  BY DEF runEntryAgainst
<1>4. timers' \subseteq {e}
  BY <1>2 DEF runEntryAgainst
<1>5. shown' \in Seq(QueueEntry)
  BY <1>1 DEF runEntryAgainst, IInv, TypeOK
<1>6. Live' = Live
  BY <1>1, <1>3 DEF Live
<1>7. LiveInv'
  BY <1>3, <1>6 DEF IInv, LiveInv
<1> QED
  BY <1>1, <1>3, <1>4, <1>5, <1>7 DEF IInv, TypeOK, SettledByOwnAnswer

(***************************************************************************)
(* Settling the open entry closes it and resumes the one loop.             *)
(***************************************************************************)
LEMMA SettleInv ==
  ASSUME IInv, NEW e \in open, NEW status \in Statuses,
         settleEntry(e, status, e.arrivalOrder),
         timers' = timers \ {e},
         UNCHANGED <<clock, subagents, gone, queue, arrivalCounter, processing, wakeups, shown>>
  PROVE  IInv'
<1>1. processing /\ resuming = 0 /\ open = {e}
  BY DEF IInv, SingleLoop
<1>2. open' = {} /\ resuming' = 1
  BY <1>1 DEF settleEntry
<1>3. e \in QueueEntry /\ e.arrivalOrder \in Ids
  BY DEF IInv, TypeOK, QueueEntry
<1>4. settled[e.arrivalOrder] = Unsettled
  BY DEF IInv, LiveInv, Live
<1>5. settled' = [settled EXCEPT ![e.arrivalOrder] = [status |-> status, by |-> e.arrivalOrder]]
  BY <1>4 DEF settleEntry
<1>6. timers' = {}
  BY <1>1 DEF IInv, SettledByOwnAnswer
<1>7. TypeOK'
  BY <1>2, <1>3, <1>5, <1>6 DEF IInv, TypeOK
<1>8. RaiseInv' /\ NoLostWakeup' /\ SingleLoop'
  BY <1>1, <1>2 DEF IInv, RaiseInv, NoLostWakeup, SingleLoop
<1>9. SettledByOwnAnswer'
  BY <1>3, <1>5, <1>6 DEF IInv, TypeOK, SettledByOwnAnswer
<1>10. \A f \in Live' : f \in queue /\ f.arrivalOrder # e.arrivalOrder
  BY <1>2 DEF IInv, LiveInv, Live
<1>11. LiveInv'
  BY <1>2, <1>3, <1>5, <1>10, IpAssumption DEF IInv, TypeOK, LiveInv, Live, Ids
<1> QED
  BY <1>7, <1>8, <1>9, <1>11 DEF IInv

(***************************************************************************)
(* Every step of the authority preserves the inductive invariant.          *)
(***************************************************************************)
LEMMA NextInv == IInv /\ [Next]_vars => IInv'
<1> SUFFICES ASSUME IInv, [Next]_vars PROVE IInv'
  OBVIOUS
<1> USE IpAssumption
<1>1. ASSUME NEW timed \in Timed, raise(timed) PROVE IInv'
  <2>1. enqueue(Parent, -1, 0, timed) /\ subagents' = subagents /\ timed \in BOOLEAN
    BY <1>1 DEF raise
  <2>2. queue' \subseteq QueueEntry /\ arrivalCounter' \in 0..MaxRaises /\ wakeups' \in Nat
        /\ NoLostWakeup' /\ LiveInv'
    BY <2>1, EnqueueInv
  <2>3. UNCHANGED <<clock, gone, processing, open, resuming, timers, shown, settled>>
        /\ arrivalCounter' = arrivalCounter + 1
    BY <2>1 DEF enqueue
  <2>4. TypeOK'
    BY <2>1, <2>2, <2>3 DEF IInv, TypeOK
  <2>5. RaiseInv'
    BY <2>1, <2>3 DEF IInv, TypeOK, RaiseInv
  <2>6. SingleLoop' /\ SettledByOwnAnswer'
    BY <2>3 DEF IInv, SingleLoop, SettledByOwnAnswer
  <2> QED
    BY <2>2, <2>4, <2>5, <2>6 DEF IInv
<1>2. ASSUME NEW s \in Subagents, NEW timed \in Timed, raiseFromSubagent(s, timed) PROVE IInv'
  <2>1. /\ enqueue(s, subagents[s].spawnedAt, subagents[s].raiseSequence, timed)
        /\ subagents' = [subagents EXCEPT ![s].raiseSequence = @ + 1]
        /\ timed \in BOOLEAN
    BY <1>2 DEF raiseFromSubagent
  <2>2. /\ subagents[s].spawnedAt \in Ticks \cup {-1}
        /\ subagents[s].raiseSequence \in 0..MaxRaises
        /\ subagents[s].raiseSequence <= arrivalCounter
    BY DEF IInv, TypeOK, RaiseInv
  <2>3. queue' \subseteq QueueEntry /\ arrivalCounter' \in 0..MaxRaises /\ wakeups' \in Nat
        /\ NoLostWakeup' /\ LiveInv'
    BY <2>1, <2>2, EnqueueInv
  <2>4. UNCHANGED <<clock, gone, processing, open, resuming, timers, shown, settled>>
        /\ arrivalCounter' = arrivalCounter + 1 /\ arrivalCounter < MaxRaises
    BY <2>1 DEF enqueue
  <2>5. RaiseInv'
    BY <2>1, <2>4 DEF IInv, TypeOK, RaiseInv
  <2>6. subagents' \in [Subagents -> [spawnedAt : Ticks \cup {-1}, raiseSequence : 0..MaxRaises]]
    <3> DEFINE Registration == [spawnedAt : Ticks \cup {-1}, raiseSequence : 0..MaxRaises]
               next == [subagents[s] EXCEPT !.raiseSequence = @ + 1]
    <3>1. subagents \in [Subagents -> Registration] /\ arrivalCounter \in Nat /\ MaxRaises \in Nat
      BY IpAssumption DEF IInv, TypeOK
    <3>2. subagents[s] \in Registration
      BY <3>1
    <3>3. subagents[s].raiseSequence + 1 \in 0..MaxRaises
      BY <2>2, <2>4, <3>1
    <3>4. next \in Registration
      BY <3>2, <3>3
    <3>5. subagents' = [subagents EXCEPT ![s] = next]
      BY <2>1
    <3> QED
      BY <3>1, <3>4, <3>5
  <2>7. TypeOK'
    BY <2>3, <2>4, <2>6 DEF IInv, TypeOK
  <2>8. SingleLoop' /\ SettledByOwnAnswer'
    BY <2>4 DEF IInv, SingleLoop, SettledByOwnAnswer
  <2> QED
    BY <2>3, <2>5, <2>7, <2>8 DEF IInv
<1>3. ASSUME NEW s \in Subagents, registerSubagent(s) \/ unregisterSubagent(s) PROVE IInv'
  <2>1. UNCHANGED <<clock, queue, arrivalCounter, processing, wakeups, open, resuming,
                    timers, shown, settled>>
    BY <1>3 DEF registerSubagent, unregisterSubagent
  <2> DEFINE Registration == [spawnedAt : Ticks \cup {-1}, raiseSequence : 0..MaxRaises]
  <2>a. PICK r \in Registration :
          r.raiseSequence = 0 /\ subagents' = [subagents EXCEPT ![s] = r]
    <3>1. CASE registerSubagent(s)
      <4>1. [spawnedAt |-> clock, raiseSequence |-> 0] \in Registration
        BY DEF IInv, TypeOK
      <4> QED
        BY <3>1, <4>1 DEF registerSubagent
    <3>2. CASE unregisterSubagent(s)
      <4>1. Absent \in Registration /\ Absent.raiseSequence = 0
        BY DEF Absent
      <4> QED
        BY <3>2, <4>1 DEF unregisterSubagent
    <3> QED
      BY <1>3, <3>1, <3>2
  <2>b. gone' \subseteq Subagents
    BY <1>3 DEF registerSubagent, unregisterSubagent, IInv, TypeOK
  <2>2. TypeOK' /\ RaiseInv'
    BY <2>1, <2>a, <2>b DEF IInv, TypeOK, RaiseInv
  <2>3. NoLostWakeup' /\ SingleLoop' /\ SettledByOwnAnswer' /\ LiveInv'
    BY <2>1 DEF IInv, NoLostWakeup, SingleLoop, SettledByOwnAnswer, LiveInv, Live
  <2> QED
    BY <2>2, <2>3 DEF IInv
<1>4. CASE processNextReturns
  <2>1. TypeOK' /\ RaiseInv'
    BY <1>4 DEF processNextReturns, IInv, TypeOK, RaiseInv
  <2>2. NoLostWakeup'
    BY <1>4 DEF processNextReturns, IInv, NoLostWakeup
  <2>3. SingleLoop' /\ SettledByOwnAnswer' /\ LiveInv'
    BY <1>4 DEF processNextReturns, IInv, SingleLoop, SettledByOwnAnswer, LiveInv, Live
  <2> QED
    BY <2>1, <2>2, <2>3 DEF IInv
<1>5. CASE processNextStarts
  <2>1. PICK e \in SortedFirst(queue) : runEntryAgainst(e)
    BY <1>5 DEF processNextStarts
  <2>2. /\ processing' = TRUE /\ wakeups' \in Nat
        /\ UNCHANGED <<clock, subagents, gone, arrivalCounter, resuming, settled>>
        /\ open = {} /\ resuming = 0
    BY <1>5 DEF processNextStarts, IInv, TypeOK, SingleLoop
  <2>3. /\ queue' \subseteq QueueEntry /\ open' = {e} /\ open' \subseteq QueueEntry
        /\ timers' \subseteq QueueEntry /\ shown' \in Seq(QueueEntry)
        /\ SettledByOwnAnswer' /\ LiveInv'
    BY <2>1, <2>2, RunEntryInv
  <2>4. TypeOK' /\ RaiseInv'
    BY <2>2, <2>3 DEF IInv, TypeOK, RaiseInv
  <2>5. NoLostWakeup' /\ SingleLoop'
    BY <2>2, <2>3 DEF NoLostWakeup, SingleLoop
  <2> QED
    BY <2>3, <2>4, <2>5 DEF IInv
<1>6. CASE processNextContinues
  <2>1. PICK e \in SortedFirst(queue) : runEntryAgainst(e)
    BY <1>6 DEF processNextContinues
  <2>2. /\ processing' = TRUE /\ resuming' = 0 /\ wakeups' \in Nat
        /\ UNCHANGED <<clock, subagents, gone, arrivalCounter, settled>>
        /\ open = {}
    BY <1>6 DEF processNextContinues, IInv, TypeOK, SingleLoop
  <2>3. /\ queue' \subseteq QueueEntry /\ open' = {e} /\ open' \subseteq QueueEntry
        /\ timers' \subseteq QueueEntry /\ shown' \in Seq(QueueEntry)
        /\ SettledByOwnAnswer' /\ LiveInv'
    BY <2>1, <2>2, RunEntryInv
  <2>4. TypeOK' /\ RaiseInv'
    BY <2>2, <2>3 DEF IInv, TypeOK, RaiseInv
  <2>5. NoLostWakeup' /\ SingleLoop'
    BY <2>2, <2>3 DEF NoLostWakeup, SingleLoop
  <2> QED
    BY <2>3, <2>4, <2>5 DEF IInv
<1>7. CASE processNextLeaves
  <2>1. processing /\ resuming = 1 /\ open = {} /\ resuming' = 0
    BY <1>7 DEF processNextLeaves, IInv, TypeOK, SingleLoop
  <2>a. /\ processing' = FALSE
        /\ UNCHANGED <<clock, subagents, gone, queue, arrivalCounter, wakeups, open, timers,
                       shown, settled>>
    BY <1>7 DEF processNextLeaves
  <2>b. resuming' \in Nat
    BY <2>1
  <2>2. TypeOK'
    BY <2>a, <2>b, Zenon DEF IInv, TypeOK
  <2>5. RaiseInv'
    BY <1>7 DEF processNextLeaves, IInv, RaiseInv
  <2>3. NoLostWakeup' /\ SingleLoop'
    BY <1>7, <2>1 DEF processNextLeaves, NoLostWakeup, SingleLoop
  <2>4. SettledByOwnAnswer' /\ LiveInv'
    BY <1>7 DEF processNextLeaves, IInv, SettledByOwnAnswer, LiveInv, Live
  <2> QED
    BY <2>2, <2>3, <2>4, <2>5 DEF IInv
<1>8. ASSUME NEW id \in ShownIds, NEW e \in open, NEW status \in Answers, answered(id, e, status)
      PROVE  IInv'
  BY <1>8, SettleInv DEF answered, matchesRequest, Statuses
<1>9. ASSUME NEW e \in timers, timerFires(e) PROVE IInv'
  <2>1. e \in open
    BY DEF IInv, SettledByOwnAnswer
  <2> QED
    BY <1>9, <2>1, SettleInv DEF timerFires, Statuses
<1>10. CASE tick
  <2>1. TypeOK'
    BY <1>10 DEF tick, IInv, TypeOK, Ticks
  <2>2. RaiseInv' /\ NoLostWakeup' /\ SingleLoop' /\ SettledByOwnAnswer' /\ LiveInv'
    BY <1>10 DEF tick, IInv, RaiseInv, NoLostWakeup, SingleLoop, SettledByOwnAnswer, LiveInv, Live
  <2> QED
    BY <2>1, <2>2 DEF IInv
<1>11. CASE UNCHANGED vars
  BY <1>11 DEF vars, IInv, TypeOK, RaiseInv, NoLostWakeup, SingleLoop, SettledByOwnAnswer,
               LiveInv, Live
<1> QED
  BY <1>1, <1>2, <1>3, <1>4, <1>5, <1>6, <1>7, <1>8, <1>9, <1>10, <1>11 DEF Next, Loop

(***************************************************************************)
(* The inductive invariant holds in every reachable state.                 *)
(***************************************************************************)
THEOREM Invariance == Spec => []IInv
  BY InitInv, NextInv, PTL DEF Spec

(***************************************************************************)
(* While a request waits, a loop runs or a microtask will start one.       *)
(***************************************************************************)
THEOREM NeverStranded == Spec => []NoLostWakeup
<1>1. IInv => NoLostWakeup
  BY DEF IInv
<1> QED
  BY Invariance, <1>1, PTL

(***************************************************************************)
(* One loop holds the processing flag and shows at most one prompt.        *)
(***************************************************************************)
THEOREM OnePrompt == Spec => []SingleLoop
<1>1. IInv => SingleLoop
  BY DEF IInv
<1> QED
  BY Invariance, <1>1, PTL

(***************************************************************************)
(* No answer or timer settles another request than its own.                *)
(***************************************************************************)
THEOREM OwnAnswer == Spec => []SettledByOwnAnswer
<1>1. IInv => SettledByOwnAnswer
  BY DEF IInv
<1> QED
  BY Invariance, <1>1, PTL

----------------------------------------------------------------------------
(***************************************************************************)
(* What the comparator promises although it may run in circles: an entry   *)
(* from which every other one is reached along Precedes has a smallest     *)
(* value of whatever Precedes never decreases.                             *)
(***************************************************************************)
LEMMA PrecedesKeepsTicks ==
  ASSUME NEW a \in QueueEntry, NEW b \in QueueEntry, Precedes(a, b)
  PROVE  a.raisedAt <= b.raisedAt
<1>1. /\ a.raisedAt \in Int /\ b.raisedAt \in Int
      /\ a.arrivalOrder \in Int /\ b.arrivalOrder \in Int
  BY IpAssumption DEF QueueEntry, Ticks, Ids
<1>2. a.raisedAt # b.raisedAt => compareEntries(a, b) = a.raisedAt - b.raisedAt
  BY DEF compareEntries
<1> QED
  BY <1>1, <1>2 DEF Precedes

LEMMA FirstIsEarliest ==
  ASSUME NEW Q \in SUBSET QueueEntry, NEW e \in SortedFirst(Q), NEW f \in Q
  PROVE  e.raisedAt <= f.raisedAt
<1> DEFINE A == {g \in Q : e.raisedAt <= g.raisedAt}
<1>1. \A g \in Q : g.raisedAt \in Int
  BY IpAssumption DEF QueueEntry, Ticks
<1>2. e \in Q
  BY FirstIsQueued
<1>3. e \in A
  BY <1>1, <1>2
<1>4. ASSUME NEW g \in A, NEW h \in Q, Precedes(g, h) PROVE h \in A
  BY <1>1, <1>2, <1>4, PrecedesKeepsTicks
<1>5. A = Q
  BY <1>3, <1>4 DEF SortedFirst, Closed
<1> QED
  BY <1>5

(***************************************************************************)
(* Requests of one subagent wait under one spawn time, numbered in the     *)
(* order they arrived.                                                     *)
(***************************************************************************)
SameChildInOrder ==
  \A e, f \in queue : IsChild(e) /\ e.subagentId = f.subagentId =>
    /\ e.spawnedAt = f.spawnedAt
    /\ e.raiseSequenceWithinSubagent <= f.raiseSequenceWithinSubagent
         => e.arrivalOrder <= f.arrivalOrder

(***************************************************************************)
(* Two subagents' entries of one tick: the one that precedes the other     *)
(* was spawned no later, and if at the same time, it arrived no later.     *)
(***************************************************************************)
LEMMA PrecedesKeepsSpawns ==
  ASSUME TypeOK, SameChildInOrder, NEW a \in queue, NEW b \in queue,
         IsChild(a), IsChild(b), a.raisedAt = b.raisedAt, Precedes(a, b)
  PROVE  \/ a.spawnedAt < b.spawnedAt
         \/ a.spawnedAt = b.spawnedAt /\ a.arrivalOrder <= b.arrivalOrder
<1>1. a \in QueueEntry /\ b \in QueueEntry
  BY DEF TypeOK
<1>2. /\ a.spawnedAt \in Int /\ b.spawnedAt \in Int
      /\ a.arrivalOrder \in Int /\ b.arrivalOrder \in Int
      /\ a.raiseSequenceWithinSubagent \in Int /\ b.raiseSequenceWithinSubagent \in Int
  BY <1>1, IpAssumption DEF QueueEntry, Ticks, Ids
<1>3. CASE a.subagentId # b.subagentId
  <2>1. compareEntries(a, b) = a.spawnedAt - b.spawnedAt
    BY <1>3 DEF compareEntries
  <2>2. \/ a.spawnedAt - b.spawnedAt < 0
        \/ a.spawnedAt - b.spawnedAt = 0 /\ a.arrivalOrder < b.arrivalOrder
    BY <2>1 DEF Precedes
  <2> QED
    BY <2>2, <1>2
<1>4. CASE a.subagentId = b.subagentId
  <2>1. compareEntries(a, b) = a.raiseSequenceWithinSubagent - b.raiseSequenceWithinSubagent
    BY <1>4 DEF compareEntries
  <2>2. a.raiseSequenceWithinSubagent <= b.raiseSequenceWithinSubagent
    BY <2>1, <1>2 DEF Precedes
  <2> QED
    BY <2>2, <1>4 DEF SameChildInOrder
<1> QED
  BY <1>3, <1>4

(***************************************************************************)
(* If only subagents have entries of the first tick, the sort's first      *)
(* entry was spawned first, and of those spawned then it arrived first.    *)
(***************************************************************************)
LEMMA FirstIsSpawnedFirst ==
  ASSUME TypeOK, SameChildInOrder, NEW e \in SortedFirst(queue),
         \A f \in queue : f.raisedAt = e.raisedAt => IsChild(f),
         NEW f \in queue, f.raisedAt = e.raisedAt
  PROVE  \/ e.spawnedAt < f.spawnedAt
         \/ e.spawnedAt = f.spawnedAt /\ e.arrivalOrder <= f.arrivalOrder
<1> DEFINE After(g) == \/ e.raisedAt < g.raisedAt
                       \/ e.raisedAt = g.raisedAt /\ e.spawnedAt < g.spawnedAt
                       \/ /\ e.raisedAt = g.raisedAt /\ e.spawnedAt = g.spawnedAt
                          /\ e.arrivalOrder <= g.arrivalOrder
           A == {g \in queue : After(g)}
<1>1. \A g \in queue : g \in QueueEntry /\ g.raisedAt \in Int /\ g.spawnedAt \in Int
                         /\ g.arrivalOrder \in Int
  BY IpAssumption DEF TypeOK, QueueEntry, Ticks, Ids
<1>2. e \in queue
  BY FirstIsQueued
<1>3. e \in A
  BY <1>1, <1>2
<1>4. ASSUME NEW g \in A, NEW h \in queue, Precedes(g, h) PROVE h \in A
  <2>1. g.raisedAt <= h.raisedAt
    BY <1>1, <1>4, PrecedesKeepsTicks
  <2>2. CASE e.raisedAt = g.raisedAt /\ g.raisedAt = h.raisedAt
    <3>1. \/ g.spawnedAt < h.spawnedAt
          \/ g.spawnedAt = h.spawnedAt /\ g.arrivalOrder <= h.arrivalOrder
      BY <1>4, <2>2, PrecedesKeepsSpawns
    <3> QED
      BY <1>1, <1>2, <2>2, <3>1
  <2> QED
    BY <1>1, <1>2, <2>1, <2>2
<1>5. A = queue
  <2> HIDE DEF A
  <2>1. A \subseteq queue
    BY DEF A
  <2> QED
    BY <1>3, <1>4, <2>1 DEF SortedFirst, Closed
<1>6. After(f)
  BY <1>5
<1>7. e.raisedAt \in Int /\ f.raisedAt \in Int
  BY <1>1, <1>2
<1> QED
  BY <1>6, <1>7

(***************************************************************************)
(* The history of prompts, the queue and the registrations: nothing shown  *)
(* is later than anything waiting, and nothing waiting later than now; a   *)
(* subagent's waiting requests bear its spawn time and numbers it has used *)
(* up, and were numbered as they arrived.  An id that is gone stays so.    *)
(***************************************************************************)
TicksInOrder ==
  /\ \A e \in queue : e.raisedAt <= clock
  /\ \A i \in DOMAIN shown : shown[i].raisedAt <= clock
  /\ \A i \in DOMAIN shown, e \in queue : shown[i].raisedAt <= e.raisedAt

ChildrenRegistered ==
  /\ \A s \in Subagents : subagents[s] # Absent => s \notin gone
  /\ \A e \in queue : IsChild(e) /\ e.subagentId \notin gone =>
       /\ subagents[e.subagentId].spawnedAt = e.spawnedAt
       /\ e.raiseSequenceWithinSubagent < subagents[e.subagentId].raiseSequence

OrderInv == ShownByTick /\ TicksInOrder /\ SameChildInOrder /\ ChildrenRegistered

(***************************************************************************)
(* enqueue puts the latest request last.                                   *)
(***************************************************************************)
LEMMA EnqueueOrder ==
  ASSUME IInv, OrderInv, NEW o \in Subagents \cup {Parent}, NEW sp \in Ticks \cup {-1},
         NEW q \in 0..MaxRaises, NEW timed \in BOOLEAN, enqueue(o, sp, q, timed),
         \A e \in queue : e.subagentId = o /\ o # Parent =>
           e.spawnedAt = sp /\ e.raiseSequenceWithinSubagent < q
  PROVE  ShownByTick' /\ TicksInOrder' /\ SameChildInOrder'
<1> DEFINE new == [arrivalOrder |-> arrivalCounter, raisedAt |-> clock, subagentId |-> o,
                   spawnedAt |-> sp, raiseSequenceWithinSubagent |-> q, timed |-> timed]
<1>1. queue' = queue \cup {new} /\ shown' = shown /\ clock' = clock
  BY DEF enqueue
<1>2. /\ new.raisedAt = clock /\ new.subagentId = o /\ new.spawnedAt = sp
      /\ new.raiseSequenceWithinSubagent = q /\ new.arrivalOrder = arrivalCounter
  OBVIOUS
<1>3. clock \in Int /\ arrivalCounter \in Int /\ q \in Int
  BY IpAssumption DEF IInv, TypeOK, Ticks
<1>4. \A e \in queue : /\ e.arrivalOrder \in Int /\ e.arrivalOrder < arrivalCounter
                       /\ e.raiseSequenceWithinSubagent \in Int
  BY IpAssumption DEF IInv, TypeOK, LiveInv, Live, QueueEntry, Ids
<1> HIDE DEF new
<1>5. ShownByTick'
  BY <1>1 DEF OrderInv, ShownByTick
<1>6. TicksInOrder'
  BY <1>1, <1>2, <1>3 DEF OrderInv, TicksInOrder
<1>7. ASSUME NEW e \in queue', NEW f \in queue', IsChild(e), e.subagentId = f.subagentId
      PROVE  /\ e.spawnedAt = f.spawnedAt
             /\ e.raiseSequenceWithinSubagent <= f.raiseSequenceWithinSubagent
                  => e.arrivalOrder <= f.arrivalOrder
  <2>1. CASE e \in queue /\ f \in queue
    BY <1>7, <2>1 DEF OrderInv, SameChildInOrder
  <2>2. CASE e = new /\ f \in queue
    <3>1. o # Parent /\ f.subagentId = o
      BY <1>2, <1>7, <2>2 DEF IsChild
    <3> QED
      BY <1>2, <1>3, <1>4, <2>2, <3>1
  <2>3. CASE e \in queue /\ f = new
    <3>1. o # Parent /\ e.subagentId = o
      BY <1>2, <1>7, <2>3 DEF IsChild
    <3> QED
      BY <1>2, <1>3, <1>4, <2>3, <3>1
  <2>4. CASE e = new /\ f = new
    BY <1>2, <1>3, <2>4
  <2> QED
    BY <1>1, <2>1, <2>2, <2>3, <2>4
<1> QED
  BY <1>5, <1>6, <1>7 DEF SameChildInOrder

(***************************************************************************)
(* The entry the loop takes is the earliest, so the history stays in order.*)
(***************************************************************************)
LEMMA RunEntryOrder ==
  ASSUME IInv, OrderInv, NEW e \in SortedFirst(queue), runEntryAgainst(e),
         UNCHANGED <<clock, subagents, gone>>
  PROVE  OrderInv'
<1>1. e \in queue /\ queue \in SUBSET QueueEntry /\ shown \in Seq(QueueEntry)
  BY FirstIsQueued DEF IInv, TypeOK
<1>2. queue' = queue \ {e} /\ shown' = Append(shown, e)
  BY DEF runEntryAgainst
<1>3. \A f \in queue : e.raisedAt <= f.raisedAt
  BY <1>1, FirstIsEarliest
<1>4. DOMAIN shown = 1..Len(shown) /\ DOMAIN shown' = 1..(Len(shown) + 1) /\ Len(shown) \in Nat
  BY <1>1, <1>2
<1>5. /\ \A i \in DOMAIN shown : shown'[i] = shown[i]
      /\ shown'[Len(shown) + 1] = e
  BY <1>1, <1>2
<1>6. /\ e.raisedAt \in Int /\ clock \in Int
      /\ \A i \in DOMAIN shown : shown[i].raisedAt <= e.raisedAt
  BY <1>1, IpAssumption DEF OrderInv, TicksInOrder, IInv, TypeOK, QueueEntry, Ticks
<1>7. ShownByTick'
  BY <1>4, <1>5, <1>6 DEF OrderInv, ShownByTick
<1>8. ASSUME NEW i \in DOMAIN shown'
      PROVE  shown'[i].raisedAt <= clock' /\ \A f \in queue' : shown'[i].raisedAt <= f.raisedAt
  <2>1. CASE i \in DOMAIN shown
    BY <1>2, <1>5, <2>1 DEF OrderInv, TicksInOrder
  <2>2. CASE i = Len(shown) + 1
    BY <1>1, <1>2, <1>3, <1>5, <2>2 DEF OrderInv, TicksInOrder
  <2> QED
    BY <1>4, <2>1, <2>2
<1>9. TicksInOrder'
  BY <1>2, <1>8 DEF OrderInv, TicksInOrder
<1>10. SameChildInOrder' /\ ChildrenRegistered'
  BY <1>2 DEF OrderInv, SameChildInOrder, ChildrenRegistered
<1> QED
  BY <1>7, <1>9, <1>10 DEF OrderInv

LEMMA OrderInit == Init => OrderInv
  BY DEF Init, OrderInv, ShownByTick, TicksInOrder, SameChildInOrder, ChildrenRegistered

LEMMA OrderNext == IInv /\ OrderInv /\ [Next]_vars => OrderInv'
<1> SUFFICES ASSUME IInv, OrderInv, [Next]_vars PROVE OrderInv'
  OBVIOUS
<1> USE IpAssumption
<1>1. ASSUME NEW timed \in Timed, raise(timed) PROVE OrderInv'
  <2>1. enqueue(Parent, -1, 0, timed) /\ subagents' = subagents /\ timed \in BOOLEAN
    BY <1>1 DEF raise
  <2>2. ShownByTick' /\ TicksInOrder' /\ SameChildInOrder'
    BY <2>1, EnqueueOrder
  <2>3. ChildrenRegistered'
    BY <2>1 DEF enqueue, OrderInv, ChildrenRegistered, IsChild
  <2> QED
    BY <2>2, <2>3 DEF OrderInv
<1>2. ASSUME NEW s \in Subagents, NEW timed \in Timed, raiseFromSubagent(s, timed) PROVE OrderInv'
  <2> DEFINE sp == subagents[s].spawnedAt
             q  == subagents[s].raiseSequence
  <2>1. /\ enqueue(s, sp, q, timed) /\ subagents[s] # Absent
        /\ subagents' = [subagents EXCEPT ![s].raiseSequence = @ + 1]
        /\ timed \in BOOLEAN
    BY <1>2 DEF raiseFromSubagent
  <2>2. sp \in Ticks \cup {-1} /\ q \in 0..MaxRaises /\ q \in Int
    BY DEF IInv, TypeOK
  <2>3. s \notin gone /\ s # Parent
    BY <2>1 DEF OrderInv, ChildrenRegistered
  <2>4. \A e \in queue : e.subagentId = s /\ s # Parent =>
          e.spawnedAt = sp /\ e.raiseSequenceWithinSubagent < q
    BY <2>3 DEF OrderInv, ChildrenRegistered, IsChild
  <2>5. ShownByTick' /\ TicksInOrder' /\ SameChildInOrder'
    <3> HIDE DEF sp, q
    <3> QED
      BY <2>1, <2>2, <2>4, EnqueueOrder
  <2>6. /\ subagents'[s].spawnedAt = sp /\ subagents'[s].raiseSequence = q + 1
        /\ \A t \in Subagents \ {s} : subagents'[t] = subagents[t]
        /\ gone' = gone
    BY <2>1 DEF IInv, TypeOK, enqueue
  <2>7. ASSUME NEW e \in queue', IsChild(e), e.subagentId \notin gone'
        PROVE  /\ subagents'[e.subagentId].spawnedAt = e.spawnedAt
               /\ e.raiseSequenceWithinSubagent < subagents'[e.subagentId].raiseSequence
    <3>1. CASE e \in queue
      <4>1. e.subagentId \in Subagents /\ e.raiseSequenceWithinSubagent \in Int
        BY <2>7, <3>1 DEF IInv, TypeOK, QueueEntry, IsChild
      <4>2. /\ subagents[e.subagentId].spawnedAt = e.spawnedAt
            /\ e.raiseSequenceWithinSubagent < subagents[e.subagentId].raiseSequence
        BY <2>6, <2>7, <3>1 DEF OrderInv, ChildrenRegistered
      <4> QED
        BY <2>2, <2>6, <4>1, <4>2
    <3>2. CASE e \notin queue
      <4>1. e.subagentId = s /\ e.spawnedAt = sp /\ e.raiseSequenceWithinSubagent = q
        BY <2>1, <2>7, <3>2 DEF enqueue
      <4> QED
        BY <2>2, <2>6, <4>1
    <3> QED
      BY <3>1, <3>2
  <2>8. \A t \in Subagents : subagents'[t] # Absent => t \notin gone'
    BY <2>3, <2>6 DEF OrderInv, ChildrenRegistered
  <2> QED
    BY <2>5, <2>7, <2>8 DEF OrderInv, ChildrenRegistered
<1>3. ASSUME NEW s \in Subagents, registerSubagent(s) PROVE OrderInv'
  <2>1. /\ subagents[s] = Absent /\ s \notin gone
        /\ subagents' = [subagents EXCEPT ![s] = [spawnedAt |-> clock, raiseSequence |-> 0]]
        /\ UNCHANGED <<queue, shown, clock, gone>>
    BY <1>3 DEF registerSubagent
  <2>2. \A e \in queue : IsChild(e) /\ e.subagentId \notin gone => e.subagentId # s
    BY <2>1 DEF OrderInv, ChildrenRegistered, Absent, IInv, TypeOK, QueueEntry
  <2>3. \A t \in Subagents \ {s} : subagents'[t] = subagents[t]
    BY <2>1 DEF IInv, TypeOK
  <2>4. \A e \in queue : IsChild(e) => e.subagentId \in Subagents
    BY DEF IInv, TypeOK, QueueEntry, IsChild
  <2>5. ChildrenRegistered'
    BY <2>1, <2>2, <2>3, <2>4 DEF OrderInv, ChildrenRegistered
  <2> QED
    BY <2>1, <2>5 DEF OrderInv, ShownByTick, TicksInOrder, SameChildInOrder
<1>4. ASSUME NEW s \in Subagents, unregisterSubagent(s) PROVE OrderInv'
  <2>1. /\ subagents' = [subagents EXCEPT ![s] = Absent] /\ gone' = gone \cup {s}
        /\ UNCHANGED <<queue, shown, clock>>
    BY <1>4 DEF unregisterSubagent
  <2>2. \A t \in Subagents : subagents'[t] = IF t = s THEN Absent ELSE subagents[t]
    BY <2>1 DEF IInv, TypeOK
  <2>3. \A e \in queue : IsChild(e) => e.subagentId \in Subagents
    BY DEF IInv, TypeOK, QueueEntry, IsChild
  <2>4. ChildrenRegistered'
    BY <2>1, <2>2, <2>3 DEF OrderInv, ChildrenRegistered
  <2> QED
    BY <2>1, <2>4 DEF OrderInv, ShownByTick, TicksInOrder, SameChildInOrder
<1>5. CASE processNextStarts \/ processNextContinues
  BY <1>5, RunEntryOrder DEF processNextStarts, processNextContinues
<1>6. CASE tick
  <2>1. clock' = clock + 1 /\ UNCHANGED <<subagents, gone, queue, shown>>
    BY <1>6 DEF tick
  <2>2. clock \in Int /\ \A e \in queue : e.raisedAt \in Int
    BY DEF IInv, TypeOK, QueueEntry, Ticks
  <2>3. \A i \in DOMAIN shown : shown[i].raisedAt \in Int
    <3>1. \A i \in DOMAIN shown : shown[i] \in QueueEntry
      BY DEF IInv, TypeOK
    <3> QED
      BY <3>1 DEF QueueEntry, Ticks
  <2>4. TicksInOrder'
    BY <2>1, <2>2, <2>3 DEF OrderInv, TicksInOrder
  <2> QED
    BY <2>1, <2>4 DEF OrderInv, ShownByTick, SameChildInOrder, ChildrenRegistered
<1>7. ASSUME UNCHANGED <<clock, subagents, gone, queue, shown>> PROVE OrderInv'
  BY <1>7 DEF OrderInv, ShownByTick, TicksInOrder, SameChildInOrder, ChildrenRegistered
<1>8. CASE processNextReturns \/ processNextLeaves \/ UNCHANGED vars
  BY <1>7, <1>8 DEF processNextReturns, processNextLeaves, vars
<1>9. ASSUME NEW id \in ShownIds, NEW e \in open, NEW status \in Answers, answered(id, e, status)
      PROVE  OrderInv'
  BY <1>7, <1>9 DEF answered
<1>10. ASSUME NEW e \in timers, timerFires(e) PROVE OrderInv'
  BY <1>7, <1>10 DEF timerFires
<1> QED
  BY <1>1, <1>2, <1>3, <1>4, <1>5, <1>6, <1>8, <1>9, <1>10 DEF Next, Loop

(***************************************************************************)
(* Prompts come up in the order of their ticks, although the comparator is *)
(* not transitive.                                                         *)
(***************************************************************************)
THEOREM TicksKeepOrder == Spec => []ShownByTick
<1>1. OrderInv => ShownByTick
  BY DEF OrderInv
<1> QED
  BY <1>1, Invariance, OrderInit, OrderNext, PTL DEF Spec

(***************************************************************************)
(* While only subagents have entries of a tick, the one spawned first is   *)
(* served first, and each subagent's requests in the order it raised them. *)
(***************************************************************************)
THEOREM ChildrenKeepOrder == Spec => SpawnOrderAmongChildren
<1> DEFINE Tied(e) == {f \in queue : f.raisedAt = e.raisedAt}
           InOrder == \A e \in queue \ queue' : (\A f \in Tied(e) : IsChild(f)) =>
                        \A f \in Tied(e) :
                          /\ e.spawnedAt <= f.spawnedAt
                          /\ e.subagentId = f.subagentId => e.arrivalOrder <= f.arrivalOrder
<1>1. ASSUME IInv, OrderInv, [Next]_vars PROVE InOrder
  <2> SUFFICES ASSUME NEW e \in queue \ queue', \A f \in Tied(e) : IsChild(f), NEW f \in Tied(e)
               PROVE  /\ e.spawnedAt <= f.spawnedAt
                      /\ e.subagentId = f.subagentId => e.arrivalOrder <= f.arrivalOrder
    OBVIOUS
  <2>1. e \in SortedFirst(queue)
    <3>1. CASE queue' = queue
      BY <3>1
    <3>2. ASSUME NEW o, NEW sp, NEW q, NEW timed, enqueue(o, sp, q, timed) PROVE FALSE
      BY <3>2 DEF enqueue
    <3>3. CASE processNextStarts \/ processNextContinues
      <4>1. PICK g \in SortedFirst(queue) : runEntryAgainst(g)
        BY <3>3 DEF processNextStarts, processNextContinues
      <4> QED
        BY <4>1 DEF runEntryAgainst
    <3> QED
      BY <1>1, <3>1, <3>2, <3>3 DEF Next, Loop, vars, raise, raiseFromSubagent, registerSubagent,
           unregisterSubagent, processNextReturns, processNextLeaves, answered, timerFires, tick
  <2>2. \/ e.spawnedAt < f.spawnedAt
        \/ e.spawnedAt = f.spawnedAt /\ e.arrivalOrder <= f.arrivalOrder
    BY <1>1, <2>1, FirstIsSpawnedFirst DEF IInv, OrderInv
  <2>3. e \in queue /\ f \in queue /\ e.spawnedAt \in Int /\ f.spawnedAt \in Int
    BY <1>1, IpAssumption DEF IInv, TypeOK, QueueEntry, Ticks
  <2>4. e.subagentId = f.subagentId => e.spawnedAt = f.spawnedAt
    BY <1>1, <2>3 DEF OrderInv, SameChildInOrder
  <2> QED
    BY <2>2, <2>3, <2>4
<1>2. IInv /\ OrderInv /\ [Next]_vars => [InOrder]_vars
  BY <1>1
<1> QED
  BY <1>2, Invariance, OrderInit, OrderNext, PTL DEF Spec, SpawnOrderAmongChildren

----------------------------------------------------------------------------
(***************************************************************************)
(* The abstract state that the authority's state stands for.               *)
(***************************************************************************)
Done == {id \in Ids : settled[id] # Unsettled}

LEMMA RefinesInit == Init => Service!Init
  BY DEF Init, Service!Init, IdsOf

(***************************************************************************)
(* An enqueued entry is a request nobody has asked before.                 *)
(***************************************************************************)
LEMMA EnqueueRefines ==
  ASSUME IInv, NEW o, NEW sp, NEW q, NEW timed, enqueue(o, sp, q, timed)
  PROVE  Service!Next
<1> USE IpAssumption
<1> DEFINE new == [arrivalOrder |-> arrivalCounter, raisedAt |-> clock, subagentId |-> o,
                   spawnedAt |-> sp, raiseSequenceWithinSubagent |-> q, timed |-> timed]
<1>1. arrivalCounter \in Ids
  BY DEF enqueue, IInv, TypeOK, Ids
<1>2. queue' = queue \cup {new} /\ open' = open /\ settled' = settled
  BY DEF enqueue
<1>a. new.arrivalOrder = arrivalCounter
  OBVIOUS
<1>3. IdsOf(queue)' = IdsOf(queue) \cup {arrivalCounter} /\ IdsOf(open)' = IdsOf(open)
  <2> HIDE DEF new
  <2> QED
    BY <1>2, <1>a DEF IdsOf
<1>4. \A e \in Live : e.arrivalOrder # arrivalCounter
  BY <1>1 DEF IInv, TypeOK, LiveInv, Live, QueueEntry, Ids
<1>5. arrivalCounter \notin IdsOf(queue) \cup IdsOf(open)
  BY <1>4 DEF IdsOf, Live
<1>6. settled[arrivalCounter] = Unsettled
  BY <1>1 DEF IInv, LiveInv, Ids
<1>7. Service!Ask(arrivalCounter)
  BY <1>2, <1>3, <1>5, <1>6 DEF Service!Ask
<1> QED
  BY <1>1, <1>7 DEF Service!Next

(***************************************************************************)
(* Showing an entry is the service's Show of its id.                       *)
(***************************************************************************)
LEMMA RunEntryRefines ==
  ASSUME IInv, NEW e \in SortedFirst(queue), runEntryAgainst(e), open = {}, settled' = settled
  PROVE  Service!Next
<1>1. e \in queue /\ e.arrivalOrder \in Ids
  BY FirstIsQueued DEF IInv, TypeOK, QueueEntry
<1>2. queue' = queue \ {e} /\ open' = {e}
  BY DEF runEntryAgainst
<1>3. \A f \in queue : f.arrivalOrder = e.arrivalOrder => f = e
  BY <1>1 DEF IInv, LiveInv, Live
<1>4. IdsOf(queue)' = IdsOf(queue) \ {e.arrivalOrder}
  BY <1>1, <1>2, <1>3 DEF IdsOf
<1>5. IdsOf(open) = {} /\ IdsOf(open)' = {e.arrivalOrder} /\ e.arrivalOrder \in IdsOf(queue)
  BY <1>1, <1>2 DEF IdsOf
<1>6. Service!Show(e.arrivalOrder)
  BY <1>4, <1>5 DEF Service!Show
<1> QED
  BY <1>1, <1>6 DEF Service!Next

(***************************************************************************)
(* A settlement, by answer or by timer, is the service's Settle.           *)
(***************************************************************************)
LEMMA SettleRefines ==
  ASSUME IInv, NEW e \in open, NEW status \in Statuses, NEW by,
         settleEntry(e, status, by), queue' = queue
  PROVE  Service!Next
<1>1. open = {e} /\ e.arrivalOrder \in Ids
  BY DEF IInv, TypeOK, SingleLoop, QueueEntry
<1>2. settled' = [settled EXCEPT ![e.arrivalOrder] = [status |-> status, by |-> by]]
  BY DEF settleEntry, IInv, LiveInv, Live
<1>3. [status |-> status, by |-> by] # Unsettled
  BY IpAssumption DEF Unsettled, Statuses
<1>4. {id \in Ids : settled'[id] # Unsettled} = Done \cup {e.arrivalOrder}
  BY <1>1, <1>2, <1>3 DEF Done, IInv, TypeOK
<1>5. IdsOf(open) = {e.arrivalOrder} /\ IdsOf(open)' = {}
  BY <1>1 DEF settleEntry, IdsOf
<1>6. Service!Settle(e.arrivalOrder)
  BY <1>4, <1>5 DEF Service!Settle, Done, IdsOf
<1> QED
  BY <1>1, <1>6 DEF Service!Next

(***************************************************************************)
(* Every step of the authority is a step of the service or leaves its      *)
(* state alone.                                                            *)
(***************************************************************************)
LEMMA RefinesNext ==
  IInv /\ [Next]_vars => [Service!Next]_<<IdsOf(queue), IdsOf(open), Done>>
<1> SUFFICES ASSUME IInv, [Next]_vars
             PROVE  Service!Next \/ UNCHANGED <<IdsOf(queue), IdsOf(open), Done>>
  OBVIOUS
<1> DEFINE Same == queue' = queue /\ open' = open /\ settled' = settled
<1>0. Same => UNCHANGED <<IdsOf(queue), IdsOf(open), Done>>
  BY DEF IdsOf, Done
<1>1. ASSUME NEW timed \in Timed, raise(timed) PROVE Service!Next
  BY <1>1, EnqueueRefines DEF raise
<1>2. ASSUME NEW s \in Subagents, NEW timed \in Timed, raiseFromSubagent(s, timed)
      PROVE  Service!Next
  BY <1>2, EnqueueRefines DEF raiseFromSubagent
<1>3. ASSUME NEW s \in Subagents, registerSubagent(s) \/ unregisterSubagent(s) PROVE Same
  BY <1>3 DEF registerSubagent, unregisterSubagent
<1>4. CASE processNextReturns \/ processNextLeaves \/ tick \/ UNCHANGED vars
  <2>1. Same
    BY <1>4 DEF processNextReturns, processNextLeaves, tick, vars
  <2> QED
    BY <2>1, <1>0
<1>5. CASE processNextStarts \/ processNextContinues
  <2>1. PICK e \in SortedFirst(queue) : runEntryAgainst(e)
    BY <1>5 DEF processNextStarts, processNextContinues
  <2>2. open = {} /\ settled' = settled
    BY <1>5 DEF processNextStarts, processNextContinues, IInv, TypeOK, SingleLoop
  <2> QED
    BY <2>1, <2>2, RunEntryRefines
<1>6. ASSUME NEW id \in ShownIds, NEW e \in open, NEW status \in Answers, answered(id, e, status)
      PROVE  Service!Next
  BY <1>6, SettleRefines DEF answered, Statuses
<1>7. ASSUME NEW e \in timers, timerFires(e) PROVE Service!Next
  <2>1. e \in open
    BY DEF IInv, SettledByOwnAnswer
  <2> QED
    BY <1>7, <2>1, SettleRefines DEF timerFires, Statuses
<1> QED
  BY <1>0, <1>1, <1>2, <1>3, <1>4, <1>5, <1>6, <1>7 DEF Next, Loop

(***************************************************************************)
(* For every number of subagents, requests and ticks, the queue with its   *)
(* microtasks and timers implements the prompt service.                    *)
(***************************************************************************)
THEOREM ImplementsService == Spec => ServiceSpec
<1>1. Init => Service!Init
  BY RefinesInit
<1>2. IInv /\ [Next]_vars => [Service!Next]_<<IdsOf(queue), IdsOf(open), Done>>
  BY RefinesNext
<1> QED
  BY <1>1, <1>2, Invariance, PTL DEF Spec, ServiceSpec, Service!Spec, Done

-----------------------------------------------------------------------------
(***************************************************************************)
(* 2. The protocol and the arbiter, and what MCIpAuthority's run checks.   *)
(***************************************************************************)

(***************************************************************************)
(* The line of the protocol: a request raised is in it once, and its       *)
(* caller knows of nothing but a timeout until it is finished.  Something  *)
(* runs whenever the race is not in its initial state, and what runs was   *)
(* the last to be announced.                                               *)
(***************************************************************************)
IPArrived(r) == \E k \in DOMAIN arrivals : arrivals[k] = r

IPLineInv ==
  /\ \A j, k \in DOMAIN arrivals : arrivals[j] = arrivals[k] => j = k
  /\ ~IP!isRunning => waiting = <<>> /\ race = "open"

IPEvents == {IP!Raised(r) : r \in IPRequests} \cup {IP!Answered(r) : r \in IPRequests}

IPPaired(l, out) ==
  /\ \A k \in DOMAIN l : l[k].name = "InteractionAnswered" =>
       k > 1 /\ l[k - 1] = IP!Raised(l[k].cid)
  /\ \A r \in IPRequests : out[r] = "response" <=> \E k \in DOMAIN l : l[k] = IP!Answered(r)

IPLogInv ==
  /\ IP!isRunning => Len(log) > 0 /\ log[Len(log)] = IP!Raised(running)
  /\ IPPaired(log, outcome)

IPCallerInv ==
  /\ \A r \in IPRequests : IPArrived(r) => caller[r] \in {"none", "timeout"} \/ caller[r] = outcome[r]
  /\ \A r \in IPRequests : outcome[r] \notin {"none", "refused"} => IPArrived(r)
  /\ \A r \in IPRequests : timer[r] => caller[r] = "none" /\ IPArrived(r)

IPInv == /\ IP!TypeOK /\ IP!NeverIdle /\ IP!Fifo /\ IP!CallerToldTruth
         /\ IPLineInv /\ IPLogInv /\ IPCallerInv

(***************************************************************************)
(* What the line says of the running request: it is the first that is not  *)
(* finished.                                                               *)
(***************************************************************************)
LEMMA IPRunning ==
  ASSUME IPInv, IP!isRunning
  PROVE  LET n == Len(arrivals) - Len(waiting) IN
         /\ n \in Nat \ {0} /\ n = IP!NFinished + 1 /\ IP!NFinished \in Nat
         /\ n \in DOMAIN arrivals /\ arrivals[n] = running
         /\ running \in IPRequests /\ outcome[running] = "none"
         /\ \A k \in DOMAIN waiting : arrivals[n + k] = waiting[k]
<1> USE PartsAssumption
<1> DEFINE n == Len(arrivals) - Len(waiting)
<1>1. /\ waiting \in Seq(IPRequests) /\ arrivals \in Seq(IPRequests)
      /\ Len(waiting) \in Nat /\ Len(arrivals) \in Nat
      /\ running \in IPRequests
  BY DEF IPInv, IP!TypeOK, IP!isRunning
<1>2. IP!Line = <<running>> \o waiting
  BY DEF IP!Line, IP!isRunning
<1>3. /\ Len(IP!Line) = Len(waiting) + 1 /\ DOMAIN IP!Line = 1..(Len(waiting) + 1)
      /\ IP!Line[1] = running
      /\ \A k \in DOMAIN waiting : k + 1 \in DOMAIN IP!Line /\ IP!Line[k + 1] = waiting[k]
  BY <1>1, <1>2
<1>4. n = IP!NFinished + 1 /\ IP!NFinished >= 0 /\ IP!NFinished \in Nat
  BY <1>1, <1>3 DEF IP!NFinished, IPInv, IP!Fifo
<1>5. n \in DOMAIN arrivals /\ n \in Nat \ {0}
  BY <1>1, <1>4
<1>6. \A k \in DOMAIN IP!Line : arrivals[IP!NFinished + k] = IP!Line[k]
  BY DEF IPInv, IP!Fifo
<1>7. arrivals[n] = running
  BY <1>3, <1>4, <1>6
<1>8. outcome[running] = "none"
  BY <1>4, <1>5, <1>7 DEF IPInv, IP!Fifo
<1>9. \A k \in DOMAIN waiting : arrivals[n + k] = waiting[k]
  BY <1>1, <1>3, <1>4, <1>6
<1> QED
  BY <1>1, <1>4, <1>5, <1>7, <1>8, <1>9

(***************************************************************************)
(* The line after a step, in the terms of its two cases.                   *)
(***************************************************************************)
LEMMA IPFifoFrom ==
  ASSUME waiting' \in Seq(IPRequests), arrivals' \in Seq(IPRequests),
         running' \in IPRequests \cup {None},
         NEW n \in Nat, n <= Len(arrivals'),
         IF IP!isRunning' THEN n = Len(arrivals') - Len(waiting') - 1 /\ arrivals'[n + 1] = running'
         ELSE n = Len(arrivals') /\ waiting' = <<>>,
         \A k \in DOMAIN waiting' : arrivals'[Len(arrivals') - Len(waiting') + k] = waiting'[k],
         \A k \in DOMAIN arrivals' : outcome'[arrivals'[k]] # "none" <=> k <= n
  PROVE  IP!Fifo'
<1>1. Len(waiting') \in Nat /\ Len(arrivals') \in Nat /\ DOMAIN waiting' = 1..Len(waiting')
  OBVIOUS
<1>2. CASE IP!isRunning'
  <2>1. IP!Line' = <<running'>> \o waiting'
    BY <1>2 DEF IP!Line
  <2>2. /\ Len(IP!Line') = Len(waiting') + 1 /\ DOMAIN IP!Line' = 1..(Len(waiting') + 1)
        /\ IP!Line'[1] = running'
        /\ \A k \in 2..(Len(waiting') + 1) : IP!Line'[k] = waiting'[k - 1]
    BY <2>1, <1>1
  <2>3. IP!NFinished' = n
    BY <1>1, <1>2, <2>2 DEF IP!NFinished
  <2>4. ASSUME NEW k \in DOMAIN IP!Line' PROVE arrivals'[n + k] = IP!Line'[k]
    <3>1. CASE k = 1
      BY <1>2, <2>2, <3>1
    <3>2. CASE k # 1
      <4>1. k \in 2..(Len(waiting') + 1)
        BY <1>1, <2>2, <3>2
      <4>2. k - 1 \in DOMAIN waiting'
        BY <1>1, <4>1
      <4>3. Len(arrivals') - Len(waiting') + (k - 1) = n + k
        BY <1>1, <1>2, <4>1
      <4> QED
        BY <2>2, <4>1, <4>2, <4>3
    <3> QED
      BY <3>1, <3>2
  <2> QED
    BY <2>3, <2>4 DEF IP!Fifo
<1>3. CASE ~IP!isRunning'
  <2>1. IP!Line' = <<>> /\ Len(IP!Line') = 0 /\ DOMAIN IP!Line' = {}
    BY <1>3 DEF IP!Line
  <2>2. IP!NFinished' = n
    BY <1>1, <1>3, <2>1 DEF IP!NFinished
  <2> QED
    BY <2>1, <2>2 DEF IP!Fifo
<1> QED
  BY <1>2, <1>3

(***************************************************************************)
(* Three ways to go on with a log of paired events: announce a request,    *)
(* announce the response to the request announced last, or give a request  *)
(* another outcome.                                                        *)
(***************************************************************************)
LEMMA IPAppend ==
  ASSUME NEW l \in Seq(IPEvents), NEW ev \in IPEvents
  PROVE  LET m == Append(l, ev) IN
         /\ m \in Seq(IPEvents) /\ DOMAIN l = 1..Len(l) /\ Len(l) \in Nat
         /\ DOMAIN m = 1..(Len(l) + 1) /\ Len(m) = Len(l) + 1 /\ m[Len(l) + 1] = ev
         /\ \A k \in DOMAIN l : m[k] = l[k]
  OBVIOUS

LEMMA IPPairedRaised ==
  ASSUME NEW l \in Seq(IPEvents), NEW out, IPPaired(l, out), NEW r \in IPRequests
  PROVE  IPPaired(Append(l, IP!Raised(r)), out)
<1> DEFINE m == Append(l, IP!Raised(r))
<1>1. IP!Raised(r) \in IPEvents
  BY DEF IPEvents
<1>2. /\ DOMAIN l = 1..Len(l) /\ Len(l) \in Nat
      /\ DOMAIN m = 1..(Len(l) + 1) /\ m[Len(l) + 1] = IP!Raised(r)
      /\ \A k \in DOMAIN l : m[k] = l[k]
  BY <1>1, IPAppend
<1> HIDE DEF m
<1>3. /\ IP!Raised(r).name # "InteractionAnswered"
      /\ \A t \in IPRequests : IP!Raised(r) # IP!Answered(t)
  BY DEF IP!Raised, IP!Answered
<1>4. ASSUME NEW k \in DOMAIN m, m[k].name = "InteractionAnswered"
      PROVE  k > 1 /\ m[k - 1] = IP!Raised(m[k].cid)
  <2>1. k \in DOMAIN l
    BY <1>2, <1>3, <1>4
  <2>2. k > 1 /\ l[k - 1] = IP!Raised(l[k].cid)
    BY <1>2, <1>4, <2>1 DEF IPPaired
  <2>3. k - 1 \in DOMAIN l
    BY <1>2, <2>1, <2>2
  <2> QED
    BY <1>2, <2>1, <2>2, <2>3
<1>5. \A t \in IPRequests : (\E k \in DOMAIN l : l[k] = IP!Answered(t))
                            <=> \E k \in DOMAIN m : m[k] = IP!Answered(t)
  <2>1. \A k \in DOMAIN m : k \in DOMAIN l \/ k = Len(l) + 1
    BY <1>2
  <2>2. \A k \in DOMAIN l : k \in DOMAIN m
    BY <1>2
  <2> QED
    BY <1>2, <1>3, <2>1, <2>2
<1> QED
  BY <1>4, <1>5 DEF IPPaired, m

LEMMA IPPairedAnswered ==
  ASSUME NEW l \in Seq(IPEvents), NEW out \in [IPRequests -> IP!Outcomes], IPPaired(l, out),
         NEW r \in IPRequests, Len(l) > 0, l[Len(l)] = IP!Raised(r)
  PROVE  IPPaired(Append(l, IP!Answered(r)), [out EXCEPT ![r] = "response"])
<1> DEFINE m == Append(l, IP!Answered(r))
           out2 == [out EXCEPT ![r] = "response"]
<1>1. IP!Answered(r) \in IPEvents
  BY DEF IPEvents
<1>2. /\ DOMAIN l = 1..Len(l) /\ Len(l) \in Nat
      /\ DOMAIN m = 1..(Len(l) + 1) /\ m[Len(l) + 1] = IP!Answered(r)
      /\ \A k \in DOMAIN l : m[k] = l[k]
  BY <1>1, IPAppend
<1>3. \A t \in IPRequests : out2[t] = IF t = r THEN "response" ELSE out[t]
  OBVIOUS
<1> HIDE DEF m, out2
<1>4. IP!Answered(r).cid = r /\ \A t \in IPRequests : IP!Answered(r) = IP!Answered(t) => t = r
  BY DEF IP!Answered
<1>5. ASSUME NEW k \in DOMAIN m, m[k].name = "InteractionAnswered"
      PROVE  k > 1 /\ m[k - 1] = IP!Raised(m[k].cid)
  <2>1. CASE k \in DOMAIN l
    <3>1. k > 1 /\ l[k - 1] = IP!Raised(l[k].cid)
      BY <1>2, <1>5, <2>1 DEF IPPaired
    <3>2. k - 1 \in DOMAIN l
      BY <1>2, <2>1, <3>1
    <3> QED
      BY <1>2, <2>1, <3>1, <3>2
  <2>2. CASE k = Len(l) + 1
    <3>1. k > 1 /\ k - 1 = Len(l) /\ Len(l) \in DOMAIN l
      BY <1>2, <2>2
    <3> QED
      BY <1>2, <1>4, <2>2, <3>1
  <2> QED
    BY <1>2, <2>1, <2>2
<1>6. ASSUME NEW t \in IPRequests
      PROVE  out2[t] = "response" <=> \E k \in DOMAIN m : m[k] = IP!Answered(t)
  <2>1. CASE t = r
    <3>1. Len(l) + 1 \in DOMAIN m
      BY <1>2
    <3> QED
      BY <1>2, <1>3, <2>1, <3>1
  <2>2. CASE t # r
    <3>1. \A k \in DOMAIN m : m[k] = IP!Answered(t) => k \in DOMAIN l
      BY <1>2, <1>4, <2>2
    <3>2. \A k \in DOMAIN l : k \in DOMAIN m
      BY <1>2
    <3> QED
      BY <1>2, <1>3, <2>2, <3>1, <3>2 DEF IPPaired
  <2> QED
    BY <2>1, <2>2
<1> QED
  BY <1>5, <1>6 DEF IPPaired, m, out2

LEMMA IPPairedOutcome ==
  ASSUME NEW l, NEW out \in [IPRequests -> IP!Outcomes], IPPaired(l, out),
         NEW r \in IPRequests, out[r] # "response", NEW v, v # "response"
  PROVE  IPPaired(l, [out EXCEPT ![r] = v])
  BY DEF IPPaired

(***************************************************************************)
(* Raising a request, plainly or under a timer, puts it last in the line.  *)
(***************************************************************************)
LEMMA IPRaiseKeeps ==
  ASSUME IPInv, NEW r \in IPRequests, IP!Fresh(r), IP!raise(r),
         outcome' = outcome, caller' = caller,
         timer' = timer \/ timer' = [timer EXCEPT ![r] = TRUE]
  PROVE  IPInv'
<1> USE PartsAssumption
<1>1. /\ waiting \in Seq(IPRequests) /\ arrivals \in Seq(IPRequests)
      /\ Len(waiting) \in Nat /\ Len(arrivals) \in Nat /\ log \in Seq(IPEvents)
      /\ DOMAIN arrivals = 1..Len(arrivals) /\ DOMAIN waiting = 1..Len(waiting)
  BY DEF IPInv, IP!TypeOK, IPEvents
<1>2. /\ arrivals' = Append(arrivals, r) /\ arrivals' \in Seq(IPRequests)
      /\ Len(arrivals') = Len(arrivals) + 1 /\ DOMAIN arrivals' = 1..(Len(arrivals) + 1)
      /\ arrivals'[Len(arrivals) + 1] = r
      /\ \A k \in DOMAIN arrivals : arrivals'[k] = arrivals[k]
  BY <1>1 DEF IP!raise
<1>3. /\ ~IPArrived(r) /\ caller[r] = "none" /\ outcome[r] = "none"
  BY <1>1 DEF IP!Fresh, IP!Contains, IPArrived
<1>4. pending' = pending + 1 /\ pending \in Nat
  BY DEF IP!raise, IPInv, IP!TypeOK
<1>5. \A t \in IPRequests : IPArrived(t)' <=> IPArrived(t) \/ t = r
  BY <1>1, <1>2 DEF IPArrived
<1>6. timer' \in [IPRequests -> BOOLEAN] /\ \A t \in IPRequests : timer'[t] => timer[t] \/ t = r
  BY DEF IPInv, IP!TypeOK
<1>7. IPCallerInv' /\ IP!CallerToldTruth'
  BY <1>3, <1>5, <1>6 DEF IPInv, IPCallerInv, IP!CallerToldTruth
<1>8. \A j, k \in DOMAIN arrivals' : arrivals'[j] = arrivals'[k] => j = k
  <2>1. \A k \in DOMAIN arrivals : arrivals[k] # r
    BY <1>3 DEF IPArrived
  <2> QED
    BY <1>1, <1>2, <2>1 DEF IPInv, IPLineInv
<1>9. CASE IP!isRunning
  <2> DEFINE n == IP!NFinished
  <2>1. /\ waiting' = Append(waiting, r) /\ running' = running /\ race' = race /\ log' = log
        /\ IP!isRunning'
    BY <1>9 DEF IP!raise, IP!isRunning
  <2>2. /\ waiting' \in Seq(IPRequests) /\ Len(waiting') = Len(waiting) + 1
        /\ DOMAIN waiting' = 1..(Len(waiting) + 1)
        /\ waiting'[Len(waiting) + 1] = r
        /\ \A k \in DOMAIN waiting : waiting'[k] = waiting[k]
    BY <1>1, <2>1
  <2>3. /\ n \in Nat /\ n = Len(arrivals) - Len(waiting) - 1
        /\ n + 1 \in DOMAIN arrivals /\ arrivals[n + 1] = running
        /\ \A k \in DOMAIN waiting : arrivals[Len(arrivals) - Len(waiting) + k] = waiting[k]
    <3> DEFINE m == Len(arrivals) - Len(waiting)
    <3>1. /\ m \in Nat \ {0} /\ m = n + 1 /\ n \in Nat
          /\ m \in DOMAIN arrivals /\ arrivals[m] = running
          /\ \A k \in DOMAIN waiting : arrivals[m + k] = waiting[k]
      BY <1>9, IPRunning
    <3>2. n = m - 1
      BY <3>1
    <3> QED
      BY <3>1, <3>2
  <2>4. \A k \in DOMAIN arrivals : outcome[arrivals[k]] # "none" <=> k <= n
    BY DEF IPInv, IP!Fifo
  <2> HIDE DEF n
  <2>5. n <= Len(arrivals') /\ n = Len(arrivals') - Len(waiting') - 1 /\ arrivals'[n + 1] = running'
    BY <1>1, <1>2, <2>1, <2>2, <2>3
  <2>6. ASSUME NEW k \in DOMAIN waiting'
        PROVE  arrivals'[Len(arrivals') - Len(waiting') + k] = waiting'[k]
    <3>1. Len(arrivals') - Len(waiting') + k = Len(arrivals) - Len(waiting) + k
      BY <1>1, <1>2, <2>2
    <3>2. CASE k \in DOMAIN waiting
      <4>1. Len(arrivals) - Len(waiting) + k \in DOMAIN arrivals
        BY <1>1, <2>3, <3>2
      <4> QED
        BY <1>2, <2>2, <2>3, <3>1, <3>2, <4>1
    <3>3. CASE k = Len(waiting) + 1
      BY <1>1, <1>2, <2>2, <3>1, <3>3
    <3> QED
      BY <1>1, <2>2, <3>2, <3>3
  <2>7. ASSUME NEW k \in DOMAIN arrivals'
        PROVE  outcome'[arrivals'[k]] # "none" <=> k <= n
    <3>1. CASE k \in DOMAIN arrivals
      BY <1>2, <2>4, <3>1
    <3>2. CASE k = Len(arrivals) + 1
      BY <1>1, <1>2, <1>3, <2>3, <3>2
    <3> QED
      BY <1>1, <1>2, <3>1, <3>2
  <2>8. running' \in IPRequests \cup {None} /\ n <= Len(arrivals')
    BY <2>1, <2>5 DEF IPInv, IP!TypeOK
  <2>9. IP!Fifo'
    BY <1>2, <2>1, <2>2, <2>3, <2>5, <2>6, <2>7, <2>8, IPFifoFrom
  <2>10. IP!TypeOK'
    BY <1>2, <1>4, <1>6, <2>1, <2>2 DEF IPInv, IP!TypeOK
  <2>11. IP!NeverIdle'
    BY <1>1, <1>4, <1>9, <2>1, <2>2 DEF IPInv, IP!NeverIdle
  <2>12. IPLineInv' /\ IPLogInv'
    BY <1>8, <2>1 DEF IPInv, IPLineInv, IPLogInv, IP!isRunning
  <2> QED
    BY <1>7, <2>9, <2>10, <2>11, <2>12 DEF IPInv
<1>10. CASE ~IP!isRunning
  <2>1. waiting = <<>> /\ race = "open"
    BY <1>10 DEF IPInv, IPLineInv
  <2>2. Append(waiting, r) = <<r>> /\ Head(<<r>>) = r /\ Tail(<<r>>) = <<>> /\ <<r>> # <<>>
    BY <2>1
  <2>3. /\ waiting' = <<>> /\ running' = r /\ race' = "open"
        /\ log' = Append(log, IP!Raised(r))
    BY <1>10, <2>2 DEF IP!raise, IP!processNext
  <2>4. IP!isRunning' /\ IP!Raised(r) \in IPEvents
    BY <2>3 DEF IP!isRunning, IPEvents
  <2>5. /\ log' \in Seq(IPEvents) /\ Len(log') > 0 /\ log'[Len(log')] = IP!Raised(running')
    BY <1>1, <2>3, <2>4, IPAppend
  <2>6. IPPaired(log', outcome')
    BY <1>1, <2>3, IPPairedRaised DEF IPInv, IPLogInv
  <2>7. IP!Line = <<>>
    BY <1>10, <2>1 DEF IP!Line
  <2>8. IP!NFinished = Len(arrivals)
    BY <1>1, <2>7 DEF IP!NFinished
  <2>9. \A k \in DOMAIN arrivals : outcome[arrivals[k]] # "none"
    BY <1>1, <2>8 DEF IPInv, IP!Fifo
  <2>10. \A k \in DOMAIN arrivals' : outcome'[arrivals'[k]] # "none" <=> k <= Len(arrivals)
    BY <1>1, <1>2, <1>3, <2>9
  <2>11. IP!Fifo'
    <3>1. DOMAIN waiting' = {} /\ Len(waiting') = 0 /\ waiting' \in Seq(IPRequests)
      BY <2>3
    <3> QED
      BY <1>1, <1>2, <2>3, <2>4, <2>10, <3>1, IPFifoFrom
  <2>12. IP!TypeOK'
    BY <1>2, <1>4, <1>6, <2>3, <2>5 DEF IPInv, IP!TypeOK, IP!Races, IPEvents
  <2>13. IP!NeverIdle'
    BY <1>4, <1>10, <2>1, <2>3, <2>4 DEF IPInv, IP!NeverIdle
  <2>14. IPLineInv' /\ IPLogInv'
    BY <1>8, <2>4, <2>5, <2>6 DEF IPLineInv, IPLogInv
  <2> QED
    BY <1>7, <2>11, <2>12, <2>13, <2>14 DEF IPInv
<1> QED
  BY <1>9, <1>10

(***************************************************************************)
(* The running entry finishes: it gets its outcome, its caller is told     *)
(* unless the timer has told him, and the next in line is shown.           *)
(***************************************************************************)
LEMMA IPFinishKeeps == ASSUME IPInv, IP!finish PROVE IPInv'
<1> USE PartsAssumption
<1> DEFINE n == Len(arrivals) - Len(waiting)
           l == IP!announce(log)
<1>1. /\ waiting \in Seq(IPRequests) /\ arrivals \in Seq(IPRequests)
      /\ Len(waiting) \in Nat /\ Len(arrivals) \in Nat /\ log \in Seq(IPEvents)
      /\ DOMAIN arrivals = 1..Len(arrivals) /\ DOMAIN waiting = 1..Len(waiting)
      /\ outcome \in [IPRequests -> IP!Outcomes] /\ race \in IP!Races
      /\ caller \in [IPRequests -> IP!Callers] /\ timer \in [IPRequests -> BOOLEAN]
      /\ pending \in Nat
  BY DEF IPInv, IP!TypeOK, IPEvents
<1>2. /\ IP!isRunning /\ race # "open" /\ arrivals' = arrivals /\ pending' = pending - 1
      /\ outcome' = [outcome EXCEPT ![running] = race]
      /\ caller' = [caller EXCEPT ![running] = IF @ = "none" THEN race ELSE @]
      /\ timer' = [timer EXCEPT ![running] = FALSE]
      /\ race' = "open" /\ IP!processNext(waiting, l)
  BY DEF IP!finish, IP!tellCaller, IP!showNext
<1>3. /\ n \in Nat \ {0} /\ n = IP!NFinished + 1 /\ IP!NFinished \in Nat
      /\ n \in DOMAIN arrivals /\ arrivals[n] = running
      /\ running \in IPRequests /\ outcome[running] = "none"
      /\ \A k \in DOMAIN waiting : arrivals[n + k] = waiting[k]
  BY <1>2, IPRunning
<1> HIDE DEF n
<1>4. race \in {"response", "error", "TurnCancelled"}
  BY <1>1, <1>2 DEF IP!Races
<1>5. \A t \in IPRequests : /\ outcome'[t] = IF t = running THEN race ELSE outcome[t]
                            /\ timer'[t] = IF t = running THEN FALSE ELSE timer[t]
                            /\ t # running => caller'[t] = caller[t]
  BY <1>1, <1>2
<1>6. caller'[running] = IF caller[running] = "none" THEN race ELSE caller[running]
  BY <1>1, <1>2, <1>3
<1>7. IPArrived(running) /\ caller[running] \in {"none", "timeout"}
  BY <1>3 DEF IPInv, IPArrived, IPCallerInv
<1>8. \A t \in IPRequests : IPArrived(t)' <=> IPArrived(t)
  BY <1>2 DEF IPArrived
<1>9. IPCallerInv' /\ IP!CallerToldTruth'
  BY <1>4, <1>5, <1>6, <1>7, <1>8 DEF IPInv, IPCallerInv, IP!CallerToldTruth, IP!Outcomes
<1>10. /\ outcome' \in [IPRequests -> IP!Outcomes] /\ caller' \in [IPRequests -> IP!Callers]
       /\ timer' \in [IPRequests -> BOOLEAN]
  BY <1>1, <1>2, <1>3, <1>4 DEF IP!Outcomes, IP!Callers
<1>11. \A k \in DOMAIN arrivals' : outcome'[arrivals'[k]] # "none" <=> k <= n
  <2> SUFFICES ASSUME NEW k \in DOMAIN arrivals PROVE outcome'[arrivals[k]] # "none" <=> k <= n
    BY <1>2
  <2>1. arrivals[k] \in IPRequests /\ (arrivals[k] = running <=> k = n)
    <3>1. \A i, j \in DOMAIN arrivals : arrivals[i] = arrivals[j] => i = j
      BY DEF IPInv, IPLineInv
    <3> QED
      BY <1>1, <1>3, <3>1
  <2>2. outcome[arrivals[k]] # "none" <=> k <= n - 1
    <3>1. outcome[arrivals[k]] # "none" <=> k <= IP!NFinished
      BY DEF IPInv, IP!Fifo
    <3>2. IP!NFinished = n - 1
      BY <1>3
    <3> QED
      BY <3>1, <3>2
  <2>3. k \in Int /\ n \in Int
    BY <1>1, <1>3
  <2> QED
    <3>1. CASE k = n
      <4>1. arrivals[k] = running
        BY <1>3, <3>1
      <4>2. outcome'[running] = race /\ race # "none"
        BY <1>3, <1>4, <1>5
      <4> QED
        BY <2>3, <3>1, <4>1, <4>2
    <3>2. CASE k # n
      <4>1. outcome'[arrivals[k]] = outcome[arrivals[k]]
        BY <1>5, <2>1, <3>2
      <4>2. k <= n <=> k <= n - 1
        BY <2>3, <3>2
      <4> QED
        BY <2>2, <4>1, <4>2
    <3> QED
      BY <3>1, <3>2
<1>12. /\ l \in Seq(IPEvents) /\ IPPaired(l, outcome')
  <2>1. Len(log) > 0 /\ log[Len(log)] = IP!Raised(running) /\ IPPaired(log, outcome)
    BY <1>2 DEF IPInv, IPLogInv
  <2>2. CASE race = "response"
    <3>1. l = Append(log, IP!Answered(running)) /\ IP!Answered(running) \in IPEvents
      BY <1>3, <2>2 DEF IP!announce, IPEvents
    <3>2. outcome' = [outcome EXCEPT ![running] = "response"]
      BY <1>2, <2>2
    <3>3. l \in Seq(IPEvents)
      BY <1>1, <3>1
    <3>4. IPPaired(Append(log, IP!Answered(running)), [outcome EXCEPT ![running] = "response"])
      BY <1>1, <1>3, <2>1, IPPairedAnswered
    <3> QED
      BY <3>1, <3>2, <3>3, <3>4
  <2>3. CASE race # "response"
    <3>1. l = log
      BY <2>3 DEF IP!announce
    <3>2. IPPaired(log, [outcome EXCEPT ![running] = race])
      BY <1>1, <1>3, <2>1, <2>3, IPPairedOutcome
    <3> QED
      BY <1>1, <1>2, <3>1, <3>2
  <2> QED
    BY <2>2, <2>3
<1> HIDE DEF l
<1>13. CASE waiting = <<>>
  <2>1. waiting' = <<>> /\ running' = None /\ log' = l /\ ~IP!isRunning'
    BY <1>2, <1>13 DEF IP!processNext, IP!isRunning
  <2>2. n = Len(arrivals)
    BY <1>1, <1>13 DEF n
  <2>3. IP!Fifo'
    <3>1. DOMAIN waiting' = {} /\ waiting' \in Seq(IPRequests) /\ running' \in IPRequests \cup {None}
      BY <2>1
    <3>2. arrivals' \in Seq(IPRequests) /\ n = Len(arrivals') /\ n <= Len(arrivals') /\ n \in Nat
      BY <1>1, <1>2, <2>2
    <3> QED
      BY <1>11, <2>1, <3>1, <3>2, IPFifoFrom
  <2>4. IP!NeverIdle'
    <3>1. pending = 1
      BY <1>1, <1>2, <1>13 DEF IPInv, IP!NeverIdle
    <3> QED
      BY <1>2, <2>1, <3>1 DEF IP!NeverIdle
  <2>5. pending' \in Nat
    BY <2>1, <2>4 DEF IP!NeverIdle
  <2>6. IP!TypeOK'
    BY <1>1, <1>2, <1>10, <1>12, <2>1, <2>5 DEF IP!TypeOK, IP!Races, IPEvents
  <2>7. IPLineInv' /\ IPLogInv'
    BY <1>2, <1>12, <2>1 DEF IPInv, IPLineInv, IPLogInv
  <2> QED
    BY <1>9, <2>3, <2>4, <2>6, <2>7 DEF IPInv
<1>14. CASE waiting # <<>>
  <2>1. /\ waiting' = Tail(waiting) /\ running' = Head(waiting)
        /\ log' = Append(l, IP!Raised(Head(waiting)))
    BY <1>2, <1>14 DEF IP!processNext
  <2>2. /\ waiting' \in Seq(IPRequests) /\ Len(waiting') = Len(waiting) - 1 /\ Len(waiting) > 0
        /\ DOMAIN waiting' = 1..(Len(waiting) - 1)
        /\ running' = waiting[1] /\ running' \in IPRequests
        /\ \A k \in DOMAIN waiting' : waiting'[k] = waiting[k + 1] /\ k + 1 \in DOMAIN waiting
    BY <1>1, <1>14, <2>1
  <2>3. IP!isRunning' /\ IP!Raised(running') \in IPEvents
    BY <2>2 DEF IP!isRunning, IPEvents
  <2>4. /\ n = Len(arrivals') - Len(waiting') - 1 /\ n <= Len(arrivals') /\ n \in Nat
    <3>1. n = Len(arrivals) - Len(waiting)
      BY DEF n
    <3>2. n = Len(arrivals') - Len(waiting') - 1
      BY <1>1, <1>2, <2>2, <3>1
    <3>3. n <= Len(arrivals)
      BY <1>1, <3>1
    <3> QED
      BY <1>2, <1>3, <3>2, <3>3
  <2>5. arrivals'[n + 1] = running'
    <3>1. 1 \in DOMAIN waiting
      BY <1>1, <2>2
    <3> QED
      BY <1>2, <1>3, <2>2, <3>1
  <2>6. ASSUME NEW k \in DOMAIN waiting'
        PROVE  arrivals'[Len(arrivals') - Len(waiting') + k] = waiting'[k]
    <3>1. Len(arrivals') - Len(waiting') + k = n + (k + 1)
      BY <1>1, <1>2, <2>2 DEF n
    <3> QED
      BY <1>2, <1>3, <2>2, <3>1
  <2>7. IP!Fifo'
    BY <1>1, <1>2, <1>11, <2>2, <2>3, <2>4, <2>5, <2>6, IPFifoFrom
  <2>8. IP!NeverIdle'
    <3>1. pending = Len(waiting) + 1
      BY <1>2 DEF IPInv, IP!NeverIdle
    <3> QED
      BY <1>1, <1>2, <2>2, <2>3, <3>1 DEF IP!NeverIdle
  <2>9. pending' \in Nat
    BY <2>2, <2>8 DEF IP!NeverIdle
  <2>10. /\ log' \in Seq(IPEvents) /\ Len(log') > 0 /\ log'[Len(log')] = IP!Raised(running')
    BY <1>12, <2>1, <2>3, IPAppend
  <2>11. IPPaired(log', outcome')
    BY <1>12, <2>1, <2>2, IPPairedRaised
  <2>12. IP!TypeOK'
    BY <1>1, <1>2, <1>10, <2>2, <2>9, <2>10 DEF IP!TypeOK, IP!Races, IPEvents
  <2>13. IPLineInv' /\ IPLogInv'
    BY <1>2, <2>3, <2>10, <2>11 DEF IPInv, IPLineInv, IPLogInv
  <2> QED
    BY <1>9, <2>7, <2>8, <2>12, <2>13 DEF IPInv
<1> QED
  BY <1>13, <1>14

(***************************************************************************)
(* Steps that leave the line and its log alone: refusals, replies of the   *)
(* interactor, dismissals and timers.                                      *)
(***************************************************************************)
LEMMA IPAsideKeeps ==
  ASSUME IPInv, UNCHANGED <<waiting, running, pending, arrivals, log>>,
         race' = race \/ (IP!isRunning /\ race' \in IP!Races),
         outcome' \in [IPRequests -> IP!Outcomes],
         \A r \in IPRequests : outcome'[r] = outcome[r]
                                \/ (~IPArrived(r) /\ outcome[r] = "none" /\ outcome'[r] = "refused"),
         caller' \in [IPRequests -> IP!Callers], timer' \in [IPRequests -> BOOLEAN],
         IPCallerInv', IP!CallerToldTruth'
  PROVE  IPInv'
<1>1. \A k \in DOMAIN arrivals : arrivals[k] \in IPRequests /\ IPArrived(arrivals[k])
  BY DEF IPInv, IP!TypeOK, IPArrived
<1>2. IP!Line' = IP!Line /\ IP!NFinished' = IP!NFinished
  BY DEF IP!Line, IP!NFinished, IP!isRunning
<1>3. IP!Fifo'
  BY <1>1, <1>2 DEF IPInv, IP!Fifo
<1>4. IP!TypeOK'
  BY DEF IPInv, IP!TypeOK
<1>5. IP!NeverIdle' /\ IPLineInv'
  BY DEF IPInv, IP!NeverIdle, IPLineInv, IP!isRunning
<1>6. IPLogInv'
  BY DEF IPInv, IPLogInv, IPPaired, IP!isRunning
<1> QED
  BY <1>3, <1>4, <1>5, <1>6 DEF IPInv

LEMMA IPInit == IP!Init => IPInv
<1> SUFFICES ASSUME IP!Init PROVE IPInv
  OBVIOUS
<1>1. /\ waiting = <<>> /\ running = None /\ race = "open" /\ pending = 0 /\ arrivals = <<>> /\ log = <<>>
      /\ outcome = [r \in IPRequests |-> "none"] /\ caller = [r \in IPRequests |-> "none"]
      /\ timer = [r \in IPRequests |-> FALSE]
  BY DEF IP!Init
<1>2. IP!TypeOK /\ IP!NeverIdle
  BY <1>1 DEF IP!TypeOK, IP!NeverIdle, IP!Races, IP!Outcomes, IP!Callers, IP!isRunning
<1>3. IP!Fifo
  BY <1>1 DEF IP!Fifo, IP!Line, IP!NFinished, IP!isRunning
<1>4. IP!CallerToldTruth /\ IPLineInv /\ IPLogInv /\ IPCallerInv
  BY <1>1 DEF IP!CallerToldTruth, IPLineInv, IPLogInv, IPPaired, IPCallerInv, IP!isRunning, IP!Outcomes
<1> QED
  BY <1>2, <1>3, <1>4 DEF IPInv

LEMMA IPNext == IPInv /\ [IP!Next]_ipVars => IPInv'
<1> SUFFICES ASSUME IPInv, [IP!Next]_ipVars PROVE IPInv'
  OBVIOUS
<1> USE PartsAssumption
<1>0. /\ outcome \in [IPRequests -> IP!Outcomes] /\ caller \in [IPRequests -> IP!Callers]
      /\ timer \in [IPRequests -> BOOLEAN]
  BY DEF IPInv, IP!TypeOK
<1>1. ASSUME NEW r \in IPRequests, IP!raisePlain(r) \/ IP!raiseWithTimeout(r) PROVE IPInv'
  BY <1>1, IPRaiseKeeps DEF IP!raisePlain, IP!raiseWithTimeout
<1>2. ASSUME NEW r \in IPRequests, IP!timeoutMsInvalid(r) \/ IP!validateRequestRefuses(r) PROVE IPInv'
  <2>1. ~IPArrived(r) /\ caller[r] = "none" /\ outcome[r] = "none"
    BY <1>2 DEF IP!timeoutMsInvalid, IP!validateRequestRefuses, IP!Fresh, IP!Contains, IPArrived,
                IPInv, IP!TypeOK
  <2>2. UNCHANGED <<waiting, running, race, pending, timer, arrivals, log>>
    BY <1>2 DEF IP!timeoutMsInvalid, IP!validateRequestRefuses
  <2>3. \A t \in IPRequests : IPArrived(t)' <=> IPArrived(t)
    BY <2>2 DEF IPArrived
  <2>4. /\ outcome' \in [IPRequests -> IP!Outcomes] /\ caller' \in [IPRequests -> IP!Callers]
        /\ \A t \in IPRequests \ {r} : outcome'[t] = outcome[t] /\ caller'[t] = caller[t]
        /\ \/ outcome'[r] = "none" /\ caller'[r] = "TimeoutMsInvalid"
           \/ outcome'[r] = "refused" /\ caller'[r] = "refused"
    BY <1>0, <1>2, <2>1 DEF IP!timeoutMsInvalid, IP!validateRequestRefuses, IP!Outcomes, IP!Callers
  <2>5. ~timer[r]
    BY <2>1 DEF IPInv, IPCallerInv
  <2>6. IPCallerInv' /\ IP!CallerToldTruth'
    BY <2>1, <2>2, <2>3, <2>4, <2>5 DEF IPInv, IPCallerInv, IP!CallerToldTruth, IP!Outcomes
  <2> QED
    BY <1>0, <2>1, <2>2, <2>4, <2>6, IPAsideKeeps
<1>3. ASSUME UNCHANGED <<waiting, running, pending, outcome, caller, timer, arrivals, log>>,
             race' = race \/ (IP!isRunning /\ race' \in IP!Races)
      PROVE  IPInv'
  <2>1. IPCallerInv' /\ IP!CallerToldTruth'
    BY <1>3 DEF IPInv, IPCallerInv, IP!CallerToldTruth, IPArrived
  <2> QED
    BY <1>0, <1>3, <2>1, IPAsideKeeps
<1>4. ASSUME NEW r \in IPRequests, IP!dismiss(r) PROVE IPInv'
  BY <1>3, <1>4 DEF IP!dismiss, IP!Races
<1>5. ASSUME NEW reply \in {"response", "error"}, IP!interactorReplies(reply) PROVE IPInv'
  BY <1>3, <1>5 DEF IP!interactorReplies, IP!Races
<1>6. ASSUME NEW r \in IPRequests, IP!timerFires(r) PROVE IPInv'
  <2>1. /\ timer[r] /\ UNCHANGED <<waiting, running, race, pending, outcome, arrivals, log>>
        /\ timer' = [timer EXCEPT ![r] = FALSE] /\ caller' = [caller EXCEPT ![r] = "timeout"]
    BY <1>6 DEF IP!timerFires
  <2>2. /\ caller' \in [IPRequests -> IP!Callers] /\ timer' \in [IPRequests -> BOOLEAN]
        /\ caller'[r] = "timeout" /\ timer'[r] = FALSE
        /\ \A t \in IPRequests \ {r} : caller'[t] = caller[t] /\ timer'[t] = timer[t]
    BY <1>0, <2>1 DEF IP!Callers
  <2>3. \A t \in IPRequests : IPArrived(t)' <=> IPArrived(t)
    BY <2>1 DEF IPArrived
  <2>4. IPCallerInv' /\ IP!CallerToldTruth'
    BY <2>1, <2>2, <2>3 DEF IPInv, IPCallerInv, IP!CallerToldTruth, IP!Outcomes
  <2> QED
    BY <1>0, <2>1, <2>2, <2>4, IPAsideKeeps
<1>7. CASE UNCHANGED ipVars
  BY <1>3, <1>7 DEF ipVars
<1> QED
  BY <1>1, <1>2, <1>4, <1>5, <1>6, <1>7, IPFinishKeeps DEF IP!Next

----------------------------------------------------------------------------
(***************************************************************************)
(* The race arbiter, request by request: who settled first has a reply,    *)
(* subscriptions are held while racing, and a resolved request has the     *)
(* winner's response and the whole announcement.                           *)
(***************************************************************************)
RAEvents == [what : {"InteractionAnswered", "dismiss"}, who : RA!Interactors]

RAAnnouncement(w) == <<RA!Answered(w)>> \o RA!DismissAll(w)

RARaceInv(r) ==
  /\ phase[r] = "idle" => first[r] = 0 /\ \A i \in RA!Interactors : replies[r][i] = "none"
  /\ first[r] # 0 => replies[r][first[r]] # "none"
  /\ phase[r] \in {"idle", "racing", "thrown"} => announced[r] = <<>>
  /\ phase[r] = "resolved" => /\ first[r] # 0 /\ replies[r][first[r]] = "response"
                              /\ got[r] = first[r] /\ announced[r] = RAAnnouncement(first[r])
  /\ subs[r] = IF r \in RA!Held THEN RA!Interactors ELSE {}

RAInv == RA!TypeOK /\ racing = Cardinality(RA!Held) /\ \A r \in RARequests : RARaceInv(r)

(***************************************************************************)
(* The dismiss loop skips the winner and no other interactor.              *)
(***************************************************************************)
LEMMA RAAnnounced ==
  ASSUME NEW w \in RA!Interactors
  PROVE  LET s == RAAnnouncement(w) IN
         /\ s \in Seq(RAEvents) /\ Len(s) = NInteractors
         /\ \A k \in 1..(NInteractors - 1) : SubSeq(RA!DismissAll(w), 1, k) \in Seq(RAEvents)
         /\ \A i \in RA!Interactors :
              /\ {k \in DOMAIN s : s[k] = RA!Answered(i)} = IF i = w THEN {1} ELSE {}
              /\ {k \in DOMAIN s : s[k] = RA!Dismiss(i)} =
                   IF i = w THEN {} ELSE {IF i < w THEN i + 1 ELSE i}
<1> USE PartsAssumption
<1> DEFINE d == RA!DismissAll(w)
           s == RAAnnouncement(w)
           loser(k) == IF k < w THEN k ELSE k + 1
<1>1. NInteractors \in Nat \ {0} /\ w \in 1..NInteractors /\ RA!Interactors = 1..NInteractors
  BY DEF RA!Interactors
<1>2. \A k \in 1..(NInteractors - 1) : loser(k) \in 1..NInteractors
  BY <1>1
<1>3. d = [k \in 1..(NInteractors - 1) |-> RA!Dismiss(loser(k))]
  BY DEF RA!DismissAll, RA!Losers
<1>4. /\ \A i \in RA!Interactors : RA!Dismiss(i) \in RAEvents /\ RA!Answered(i) \in RAEvents
      /\ \A i, j : RA!Dismiss(i) # RA!Answered(j) /\ (RA!Dismiss(i) = RA!Dismiss(j) => i = j)
                  /\ (RA!Answered(i) = RA!Answered(j) => i = j)
  BY DEF RA!Dismiss, RA!Answered, RAEvents
<1>5. d \in Seq(RAEvents) /\ Len(d) = NInteractors - 1 /\ DOMAIN d = 1..(NInteractors - 1)
  <2> HIDE DEF d
  <2>1. d \in [1..(NInteractors - 1) -> RAEvents]
    BY <1>1, <1>2, <1>3, <1>4
  <2>2. NInteractors - 1 \in Nat
    BY <1>1
  <2> QED
    BY <2>1, <2>2
<1>6. \A k \in DOMAIN d : d[k] = RA!Dismiss(loser(k))
  BY <1>3, <1>5
<1>7. s = <<RA!Answered(w)>> \o d
  BY DEF RAAnnouncement
<1> HIDE DEF d, s
<1>8. /\ s \in Seq(RAEvents) /\ Len(s) = NInteractors /\ DOMAIN s = 1..NInteractors
      /\ s[1] = RA!Answered(w)
      /\ \A k \in 2..NInteractors : s[k] = d[k - 1]
  BY <1>1, <1>4, <1>5, <1>7
<1>9. \A k \in 2..NInteractors : s[k] = RA!Dismiss(loser(k - 1))
  <2> SUFFICES ASSUME NEW k \in 2..NInteractors PROVE s[k] = RA!Dismiss(loser(k - 1))
    OBVIOUS
  <2>1. k - 1 \in DOMAIN d
    BY <1>1, <1>5
  <2> HIDE DEF loser
  <2> QED
    BY <1>6, <1>8, <2>1
<1>10. ASSUME NEW k \in 1..(NInteractors - 1) PROVE SubSeq(d, 1, k) \in Seq(RAEvents)
  BY <1>1, <1>5
<1>11. ASSUME NEW i \in RA!Interactors
       PROVE  {k \in DOMAIN s : s[k] = RA!Answered(i)} = IF i = w THEN {1} ELSE {}
  <2>1. \A k \in DOMAIN s : s[k] = RA!Answered(i) <=> k = 1 /\ i = w
    <3> SUFFICES ASSUME NEW k \in DOMAIN s PROVE s[k] = RA!Answered(i) <=> k = 1 /\ i = w
      OBVIOUS
    <3>1. CASE k = 1
      BY <1>4, <1>8, <3>1
    <3>2. CASE k # 1
      <4>1. k \in 2..NInteractors
        BY <1>1, <1>8, <3>2
      <4> QED
        BY <1>4, <1>9, <3>2, <4>1
    <3> QED
      BY <3>1, <3>2
  <2>2. 1 \in DOMAIN s
    BY <1>1, <1>8
  <2> QED
    BY <2>1, <2>2
<1>12. ASSUME NEW i \in RA!Interactors
       PROVE  {k \in DOMAIN s : s[k] = RA!Dismiss(i)} =
                IF i = w THEN {} ELSE {IF i < w THEN i + 1 ELSE i}
  <2> DEFINE place == IF i < w THEN i + 1 ELSE i
  <2>1. \A k \in DOMAIN s : s[k] = RA!Dismiss(i) <=> k \in 2..NInteractors /\ loser(k - 1) = i
    <3> SUFFICES ASSUME NEW k \in DOMAIN s
                 PROVE  s[k] = RA!Dismiss(i) <=> k \in 2..NInteractors /\ loser(k - 1) = i
      OBVIOUS
    <3>1. CASE k = 1
      BY <1>4, <1>8, <3>1
    <3>2. CASE k # 1
      <4>1. k \in 2..NInteractors
        BY <1>1, <1>8, <3>2
      <4> HIDE DEF loser
      <4> QED
        BY <1>4, <1>9, <4>1
    <3> QED
      BY <3>1, <3>2
  <2>2. \A k \in 2..NInteractors : loser(k - 1) = i <=> i # w /\ k = place
    BY <1>1
  <2>3. i # w => place \in 2..NInteractors
    BY <1>1
  <2> HIDE DEF loser, place
  <2>4. 2..NInteractors \subseteq DOMAIN s
    BY <1>1, <1>8
  <2>5. {k \in DOMAIN s : s[k] = RA!Dismiss(i)} = IF i = w THEN {} ELSE {place}
    BY <2>1, <2>2, <2>3, <2>4
  <2> QED
    BY <2>5 DEF place
<1> QED
  BY <1>8, <1>10, <1>11, <1>12 DEF d, s

(***************************************************************************)
(* The arbiter's module counts as this one does.                           *)
(***************************************************************************)
LEMMA RACounts == ASSUME NEW S PROVE RA!Cardinality(S) = Cardinality(S)
  BY DEF RA!Cardinality, Cardinality

(***************************************************************************)
(* The invariant gives both properties of the arbiter.                     *)
(***************************************************************************)
LEMMA RAProperties ==
  ASSUME RAInv PROVE RA!NoLeak /\ RA!WinnerAnnouncedLosersDismissed
<1> USE PartsAssumption
<1>1. RA!NoLeak
  <2>1. RA!Interactors # {}
    <3>1. 1 \in RA!Interactors
      BY DEF RA!Interactors
    <3> QED
      BY <3>1
  <2>2. \A r \in RARequests : subs[r] # {} <=> r \in RA!Held
    BY <2>1 DEF RAInv, RARaceInv, RA!Held
  <2> QED
    BY <2>2, RACounts DEF RAInv, RA!NoLeak
<1>2. ASSUME NEW r \in RARequests, phase[r] = "resolved"
      PROVE  /\ replies[r][got[r]] = "response"
             /\ Len(announced[r]) = NInteractors
             /\ \A i \in RA!Interactors :
                  /\ RA!Count(r, RA!Answered(i)) = IF i = got[r] THEN 1 ELSE 0
                  /\ RA!Count(r, RA!Dismiss(i))  = IF i = got[r] THEN 0 ELSE 1
  <2> DEFINE w == first[r]
  <2>1. /\ replies[r][w] = "response" /\ got[r] = w /\ announced[r] = RAAnnouncement(w)
        /\ w \in RA!Interactors
    BY <1>2 DEF RAInv, RARaceInv, RA!TypeOK, RA!Interactors
  <2> HIDE DEF w
  <2>2. Cardinality({}) = 0 /\ \A k : Cardinality({k}) = 1
    BY FS_EmptySet, FS_Singleton
  <2>3. /\ Len(announced[r]) = NInteractors
        /\ \A i \in RA!Interactors :
             /\ {k \in DOMAIN announced[r] : announced[r][k] = RA!Answered(i)}
                  = IF i = w THEN {1} ELSE {}
             /\ {k \in DOMAIN announced[r] : announced[r][k] = RA!Dismiss(i)}
                  = IF i = w THEN {} ELSE {IF i < w THEN i + 1 ELSE i}
    BY <2>1, RAAnnounced
  <2>4. ASSUME NEW i \in RA!Interactors
        PROVE  /\ RA!Count(r, RA!Answered(i)) = IF i = w THEN 1 ELSE 0
               /\ RA!Count(r, RA!Dismiss(i))  = IF i = w THEN 0 ELSE 1
    <3> DEFINE A == {k \in DOMAIN announced[r] : announced[r][k] = RA!Answered(i)}
               D == {k \in DOMAIN announced[r] : announced[r][k] = RA!Dismiss(i)}
               place == IF i < w THEN i + 1 ELSE i
    <3>1. RA!Count(r, RA!Answered(i)) = Cardinality(A) /\ RA!Count(r, RA!Dismiss(i)) = Cardinality(D)
      BY RACounts DEF RA!Count
    <3>2. A = (IF i = w THEN {1} ELSE {}) /\ D = (IF i = w THEN {} ELSE {place})
      BY <2>3
    <3> HIDE DEF A, D, place
    <3>3. CASE i = w
      BY <2>2, <3>1, <3>2, <3>3
    <3>4. CASE i # w
      BY <2>2, <3>1, <3>2, <3>4
    <3> QED
      BY <3>3, <3>4
  <2> QED
    BY <2>1, <2>3, <2>4
<1> QED
  BY <1>1, <1>2 DEF RA!WinnerAnnouncedLosersDismissed

LEMMA RAInit == RA!Init => RAInv
<1> SUFFICES ASSUME RA!Init PROVE RAInv
  OBVIOUS
<1> USE PartsAssumption DEF RA!Init
<1>1. RA!TypeOK
  BY DEF RA!TypeOK, RA!Phases, RA!Replies
<1>2. racing = Cardinality(RA!Held)
  <2>1. RA!Held = {}
    BY DEF RA!Held
  <2> QED
    BY <2>1, FS_EmptySet
<1>3. \A r \in RARequests : RARaceInv(r)
  BY DEF RARaceInv, RA!Held
<1> QED
  BY <1>1, <1>2, <1>3 DEF RAInv

(***************************************************************************)
(* A step that changes one request keeps what holds of the others.         *)
(***************************************************************************)
LEMMA RAOthers ==
  ASSUME RAInv, NEW r \in RARequests, RARaceInv(r)',
         \A q \in RARequests \ {r} :
           /\ phase'[q] = phase[q] /\ replies'[q] = replies[q] /\ first'[q] = first[q]
           /\ subs'[q] = subs[q] /\ announced'[q] = announced[q] /\ got'[q] = got[q]
  PROVE  \A q \in RARequests : RARaceInv(q)'
<1> SUFFICES ASSUME NEW q \in RARequests \ {r} PROVE RARaceInv(q)'
  OBVIOUS
<1> QED
  BY DEF RAInv, RARaceInv, RA!Held

(***************************************************************************)
(* The end of a race, however it ends, takes one from the count.           *)
(***************************************************************************)
LEMMA RASettlesKeeps ==
  ASSUME RAInv, NEW r \in RARequests, RA!raceSettles(r) PROVE RAInv'
<1> USE PartsAssumption
<1> DEFINE w == first[r]
<1>1. /\ phase \in [RARequests -> RA!Phases]
      /\ replies \in [RARequests -> [RA!Interactors -> RA!Replies]]
      /\ first \in [RARequests -> 0..NInteractors]
      /\ subs \in [RARequests -> SUBSET RA!Interactors] /\ racing \in Nat
      /\ announced \in [RARequests -> Seq(RAEvents)] /\ got \in [RARequests -> 0..NInteractors]
  BY DEF RAInv, RA!TypeOK, RAEvents
<1>2. /\ phase[r] = "racing" /\ w # 0 /\ racing' = racing - 1
      /\ subs' = [subs EXCEPT ![r] = {}] /\ replies' = replies /\ first' = first
  BY DEF RA!raceSettles, RA!raceWon, RA!dismissThrows, RA!raceFailed, RA!cleanup
<1>3. w \in RA!Interactors /\ announced[r] = <<>>
  BY <1>1, <1>2 DEF RAInv, RARaceInv, RA!Interactors
<1>4. \/ /\ RA!raceWon(r) /\ phase' = [phase EXCEPT ![r] = "resolved"]
         /\ replies[r][w] = "response" /\ got' = [got EXCEPT ![r] = w]
         /\ announced' = [announced EXCEPT ![r] = @ \o <<RA!Answered(w)>> \o RA!DismissAll(w)]
      \/ /\ phase' = [phase EXCEPT ![r] = "rejected"] /\ got' = got
         /\ \/ announced' = announced
            \/ \E k \in 1..(NInteractors - 1) :
                 announced' = [announced EXCEPT ![r] =
                                @ \o <<RA!Answered(w)>> \o SubSeq(RA!DismissAll(w), 1, k)]
  BY DEF RA!raceSettles, RA!raceWon, RA!dismissThrows, RA!raceFailed
<1> HIDE DEF w
<1>5. RA!Answered(w) \in RAEvents
  BY <1>3 DEF RAEvents, RA!Answered
<1>6. /\ RAAnnouncement(w) \in Seq(RAEvents)
      /\ \A k \in 1..(NInteractors - 1) : SubSeq(RA!DismissAll(w), 1, k) \in Seq(RAEvents)
  BY <1>3, RAAnnounced
<1>7. /\ announced' \in [RARequests -> Seq(RAEvents)]
      /\ \A q \in RARequests \ {r} : announced'[q] = announced[q]
      /\ phase'[r] = "resolved" => announced'[r] = RAAnnouncement(w)
  <2>1. CASE announced' = announced /\ phase' = [phase EXCEPT ![r] = "rejected"]
    BY <1>1, <2>1
  <2>2. ASSUME NEW k \in 1..(NInteractors - 1), phase' = [phase EXCEPT ![r] = "rejected"],
               announced' = [announced EXCEPT ![r] =
                              @ \o <<RA!Answered(w)>> \o SubSeq(RA!DismissAll(w), 1, k)]
        PROVE  announced' \in [RARequests -> Seq(RAEvents)]
    <3>1. <<RA!Answered(w)>> \in Seq(RAEvents) /\ announced[r] \in Seq(RAEvents)
      BY <1>1, <1>5
    <3>2. announced[r] \o <<RA!Answered(w)>> \o SubSeq(RA!DismissAll(w), 1, k) \in Seq(RAEvents)
      BY <1>6, <3>1
    <3> QED
      BY <1>1, <2>2, <3>2
  <2>3. CASE announced' = [announced EXCEPT ![r] = @ \o <<RA!Answered(w)>> \o RA!DismissAll(w)]
    <3>1. announced[r] \o <<RA!Answered(w)>> \o RA!DismissAll(w) = RAAnnouncement(w)
      <4>1. announced[r] \o <<RA!Answered(w)>> = <<RA!Answered(w)>>
        BY <1>3
      <4> QED
        BY <4>1 DEF RAAnnouncement
    <3> QED
      BY <1>1, <1>6, <2>3, <3>1
  <2> QED
    BY <1>1, <1>4, <2>1, <2>2, <2>3
<1>8. /\ phase' \in [RARequests -> RA!Phases] /\ phase'[r] \in {"resolved", "rejected"}
      /\ \A q \in RARequests \ {r} : phase'[q] = phase[q] /\ got'[q] = got[q] /\ subs'[q] = subs[q]
      /\ got' \in [RARequests -> 0..NInteractors]
      /\ subs' \in [RARequests -> SUBSET RA!Interactors] /\ subs'[r] = {}
      /\ phase'[r] = "resolved" => got'[r] = w /\ replies[r][w] = "response"
  <2>1. w \in 0..NInteractors
    BY <1>3 DEF RA!Interactors
  <2>2. /\ phase' \in [RARequests -> RA!Phases] /\ phase'[r] \in {"resolved", "rejected"}
        /\ \A q \in RARequests \ {r} : phase'[q] = phase[q]
    BY <1>1, <1>4 DEF RA!Phases
  <2>3. /\ got' \in [RARequests -> 0..NInteractors]
        /\ \A q \in RARequests \ {r} : got'[q] = got[q]
    BY <1>1, <1>4, <2>1
  <2>4. phase'[r] = "resolved" => got'[r] = w /\ replies[r][w] = "response"
    BY <1>1, <1>4
  <2>5. /\ subs' \in [RARequests -> SUBSET RA!Interactors] /\ subs'[r] = {}
        /\ \A q \in RARequests \ {r} : subs'[q] = subs[q]
    BY <1>1, <1>2
  <2> QED
    BY <2>2, <2>3, <2>4, <2>5
<1>9. RARaceInv(r)'
  BY <1>2, <1>7, <1>8 DEF RAInv, RARaceInv, RA!Held, w
<1>10. \A q \in RARequests : RARaceInv(q)'
  BY <1>2, <1>7, <1>8, <1>9, RAOthers
<1>11. racing' = Cardinality(RA!Held') /\ racing' \in Nat
  <2>1. RA!Held' = RA!Held \ {r} /\ r \in RA!Held
    BY <1>2, <1>8 DEF RA!Held
  <2>2. IsFiniteSet(RA!Held)
    BY FS_Subset DEF RA!Held
  <2>3. IsFiniteSet(RA!Held') /\ Cardinality(RA!Held') = Cardinality(RA!Held) - 1
    BY <2>1, <2>2, FS_RemoveElement
  <2>4. Cardinality(RA!Held') \in Nat
    BY <2>3, FS_CardinalityType
  <2> QED
    BY <1>2, <2>3, <2>4 DEF RAInv
<1>12. RA!TypeOK'
  BY <1>1, <1>2, <1>7, <1>8, <1>11 DEF RA!TypeOK, RAEvents
<1> QED
  BY <1>10, <1>11, <1>12 DEF RAInv

LEMMA RANext == RAInv /\ [RA!Next]_raVars => RAInv'
<1> SUFFICES ASSUME RAInv, [RA!Next]_raVars PROVE RAInv'
  OBVIOUS
<1> USE PartsAssumption
<1>1. ASSUME NEW r \in RARequests, RA!raise(r) \/ RA!raiseThrows(r) PROVE RAInv'
  <2>1. /\ phase[r] = "idle" /\ racing' = racing + 1
        /\ phase' = [phase EXCEPT ![r] = "racing"] \/ phase' = [phase EXCEPT ![r] = "thrown"]
        /\ subs' = [subs EXCEPT ![r] = RA!Interactors]
        /\ UNCHANGED <<replies, first, announced, got>>
    BY <1>1 DEF RA!raise, RA!raiseThrows
  <2>2. RA!TypeOK'
    <3>1. racing \in Nat /\ racing' \in Nat
      BY <2>1 DEF RAInv, RA!TypeOK
    <3>2. phase' \in [RARequests -> RA!Phases] /\ subs' \in [RARequests -> SUBSET RA!Interactors]
      BY <2>1 DEF RAInv, RA!TypeOK, RA!Phases
    <3> QED
      BY <2>1, <3>1, <3>2 DEF RAInv, RA!TypeOK
  <2>3. /\ phase'[r] \in {"racing", "thrown"} /\ subs'[r] = RA!Interactors
        /\ \A q \in RARequests \ {r} : phase'[q] = phase[q] /\ subs'[q] = subs[q]
    BY <2>1 DEF RAInv, RA!TypeOK
  <2>4. RARaceInv(r)'
    BY <2>1, <2>3 DEF RAInv, RARaceInv, RA!Held
  <2>5. \A q \in RARequests : RARaceInv(q)'
    BY <2>1, <2>3, <2>4, RAOthers
  <2>6. racing' = Cardinality(RA!Held')
    <3>1. RA!Held' = RA!Held \cup {r} /\ r \notin RA!Held
      BY <2>1, <2>3 DEF RA!Held
    <3>2. IsFiniteSet(RA!Held)
      BY FS_Subset DEF RA!Held
    <3> QED
      BY <2>1, <3>1, <3>2, FS_AddElement DEF RAInv
  <2> QED
    BY <2>2, <2>5, <2>6 DEF RAInv
<1>2. ASSUME NEW r \in RARequests, NEW i \in RA!Interactors, NEW reply \in {"response", "error"},
             RA!settle(r, i, reply)
      PROVE  RAInv'
  <2>1. /\ phase[r] # "idle" /\ replies[r][i] = "none"
        /\ replies' = [replies EXCEPT ![r][i] = reply]
        /\ first' = IF first[r] = 0 THEN [first EXCEPT ![r] = i] ELSE first
        /\ UNCHANGED <<phase, subs, racing, announced, got>>
    BY <1>2 DEF RA!settle
  <2>2. i \in 0..NInteractors /\ i # 0 /\ reply \in RA!Replies
    BY DEF RA!Interactors, RA!Replies
  <2>3. RA!TypeOK'
    BY <2>1, <2>2 DEF RAInv, RA!TypeOK
  <2>4. /\ first'[r] = IF first[r] = 0 THEN i ELSE first[r]
        /\ replies'[r][i] = reply /\ \A j \in RA!Interactors \ {i} : replies'[r][j] = replies[r][j]
        /\ \A q \in RARequests \ {r} : first'[q] = first[q] /\ replies'[q] = replies[q]
    BY <2>1 DEF RAInv, RA!TypeOK
  <2>5. first[r] # 0 => first[r] \in RA!Interactors /\ first[r] # i
    BY <2>1 DEF RAInv, RARaceInv, RA!TypeOK, RA!Interactors
  <2>6. RARaceInv(r)'
    <3>1. r \in RA!Held <=> r \in RA!Held'
      BY <2>1 DEF RA!Held
    <3> QED
      BY <2>1, <2>2, <2>4, <2>5, <3>1 DEF RAInv, RARaceInv
  <2>7. \A q \in RARequests : RARaceInv(q)'
    BY <2>1, <2>4, <2>6, RAOthers
  <2> QED
    BY <2>1, <2>3, <2>7 DEF RAInv, RA!Held
<1>3. CASE UNCHANGED raVars
  <2>1. RA!TypeOK' /\ RA!Held' = RA!Held /\ racing' = racing
    BY <1>3 DEF raVars, RAInv, RA!TypeOK, RA!Held
  <2>2. \A r \in RARequests : RARaceInv(r)'
    BY <1>3, <2>1 DEF raVars, RAInv, RARaceInv
  <2> QED
    BY <2>1, <2>2 DEF RAInv
<1> QED
  BY <1>1, <1>2, <1>3, RASettlesKeeps DEF RA!Next

----------------------------------------------------------------------------
(***************************************************************************)
(* Together: a behaviour of MCIpAuthority is one of each of its parts.     *)
(***************************************************************************)
LEMMA PartsInvariant ==
  MCSpec => [](part \in Parts /\ IInv /\ OrderInv /\ IPInv /\ RAInv)
<1> DEFINE I == part \in Parts /\ IInv /\ OrderInv /\ IPInv /\ RAInv
<1>1. MCInit => I
  BY InitInv, OrderInit, IPInit, RAInit DEF MCInit
<1>2. ASSUME I, [MCNext]_allVars PROVE I'
  <2>1. UNCHANGED part /\ [Next]_vars /\ [IP!Next]_ipVars /\ [RA!Next]_raVars
    BY <1>2 DEF MCNext, allVars
  <2> QED
    BY <1>2, <2>1, NextInv, OrderNext, IPNext, RANext
<1> QED
  BY <1>1, <1>2, PTL DEF MCSpec

(***************************************************************************)
(* The variables of the queue, the protocol and the arbiter keep types.    *)
(***************************************************************************)
THEOREM InteractionTypes == MCSpec => []TypesOK
<1>1. part \in Parts /\ IInv /\ OrderInv /\ IPInv /\ RAInv => TypesOK
  BY PartsAssumption DEF TypesOK, IInv, IPInv, RAInv
<1> QED
  BY <1>1, PartsInvariant, PTL

(***************************************************************************)
(* One answer reaches one caller, in order: by ticks in the authority, as  *)
(* raised in the protocol, and in the race with every loser dismissed once.*)
(***************************************************************************)
THEOREM AnswersReachTheirCallers == MCSpec => []OneAnswerPerRequest
<1>1. ASSUME IInv, OrderInv, IPInv, RAInv PROVE OneAnswerPerRequest
  <2>1. IP!EventsPaired
    <3>1. \A r \in IPRequests : (\E k \in DOMAIN log : log[k] = IP!Answered(r))
                                 <=> IP!Contains(log, IP!Answered(r))
      BY <1>1 DEF IP!Contains, IPInv, IP!TypeOK
    <3> QED
      BY <1>1, <3>1 DEF IPInv, IPLogInv, IPPaired, IP!EventsPaired
  <2> QED
    BY <1>1, <2>1, RAProperties DEF OneAnswerPerRequest, OrderInv, IPInv
<1> QED
  BY <1>1, PartsInvariant, PTL
============================================================================
