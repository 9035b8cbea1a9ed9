---------------------------- MODULE IpAuthority ----------------------------
(***************************************************************************)
(* The parent session's interaction-protocol authority                     *)
(* (cli/runtime/ip-authority.ts): one queue of prompts for the session and *)
(* all of its concurrently running subagents.                              *)
(*                                                                         *)
(* enqueue appends an entry and queues a microtask; the microtask starts   *)
(* the processing loop unless one is running.  The loop sorts, shifts and  *)
(* shows one entry, waits for its InteractionAnswered event or its timer,  *)
(* and goes on.  Raises, answers, timers and subagent (un)registration     *)
(* happen at any time in between.                                          *)
(*                                                                         *)
(* An entry is identified by its arrivalOrder, which also stands for the   *)
(* random requestId of its events.  Prompt text, options and display       *)
(* attribution are left out.                                               *)
(***************************************************************************)
EXTENDS Integers, Sequences, FiniteSets

CONSTANTS
  Subagents,   \* ids of the child sessions
  Parent,      \* the originator of entries without attribution
  MaxRaises,   \* bound: requests enqueued in a behaviour
  MaxTick,     \* bound: highest value of the clock
  Timed,       \* {TRUE}, {FALSE} or both: may requests have a timeout?
  Answers      \* the statuses an InteractionAnswered event may carry

ASSUME IpAssumption ==
  /\ Parent \notin Subagents
  /\ MaxRaises \in Nat /\ MaxTick \in Nat
  /\ Timed \subseteq BOOLEAN
  /\ Answers \subseteq {"accepted", "rejected", "timeout", "halt"}

VARIABLES
  clock,           \* now(): the tick the event loop is in
  subagents,       \* subagent -> its registration; spawnedAt = -1 when absent
  gone,            \* history: subagents that were unregistered (ids are never reused)
  queue,           \* entries waiting; the array's order is recomputed by every sort
  arrivalCounter,
  processing,
  wakeups,         \* queued microtasks that will call processNext
  open,            \* entries shown whose answer or timer is awaited
  resuming,        \* processing loops whose entry has finished
  timers,          \* entries with an armed timer
  shown,           \* history: entries in the order of their InteractionRaised
  settled          \* history: id -> [status, by]: first settlement, and whose answer it was

vars == <<clock, subagents, gone, queue, arrivalCounter, processing, wakeups, open,
          resuming, timers, shown, settled>>

Ids == 0..(MaxRaises - 1)
Ticks == 0..MaxTick
Statuses == Answers \cup {"timeout"}
Absent == [spawnedAt |-> -1, raiseSequence |-> 0]
Unsettled == [status |-> "none", by |-> -1]

QueueEntry ==
  [arrivalOrder : Ids, raisedAt : Ticks, subagentId : Subagents \cup {Parent},
   spawnedAt : Ticks \cup {-1}, raiseSequenceWithinSubagent : 0..MaxRaises, timed : BOOLEAN]

Init ==
  /\ clock = 0
  /\ subagents = [s \in Subagents |-> Absent]
  /\ gone = {}
  /\ queue = {}
  /\ arrivalCounter = 0
  /\ processing = FALSE
  /\ wakeups = 0
  /\ open = {}
  /\ resuming = 0
  /\ timers = {}
  /\ shown = <<>>
  /\ settled = [id \in Ids |-> Unsettled]

----------------------------------------------------------------------------
(***************************************************************************)
(* The comparator, and the order it gives with a stable sort: negative     *)
(* first, equal entries in arrival order.                                  *)
(***************************************************************************)
IsChild(e) == e.subagentId # Parent

(* Mutant: ties between subagents fall back to arrival order. *)
compareByArrival(a, b) ==
  IF a.raisedAt # b.raisedAt THEN a.raisedAt - b.raisedAt
  ELSE a.arrivalOrder - b.arrivalOrder

compareEntries(a, b) ==
  IF a.raisedAt # b.raisedAt THEN a.raisedAt - b.raisedAt
  ELSE IF IsChild(a) /\ IsChild(b)
       THEN IF a.subagentId # b.subagentId
            THEN a.spawnedAt - b.spawnedAt
            ELSE a.raiseSequenceWithinSubagent - b.raiseSequenceWithinSubagent
       ELSE a.arrivalOrder - b.arrivalOrder

Precedes(a, b) ==
  \/ compareEntries(a, b) < 0
  \/ compareEntries(a, b) = 0 /\ a.arrivalOrder < b.arrivalOrder

(***************************************************************************)
(* The entry that queue.sort leaves first.  Precedes relates every two     *)
(* entries but is not transitive when parent and child entries share a     *)
(* tick; an insertion or merge sort then leaves first one of the entries   *)
(* from which every other one is reached along Precedes.  Without a cycle  *)
(* that is the one entry that precedes all others.                         *)
(***************************************************************************)
Closed(A, Q) == \A g \in A, f \in Q : Precedes(g, f) => f \in A

SortedFirst(Q) == {e \in Q : \A A \in SUBSET Q : e \in A /\ Closed(A, Q) => A = Q}

----------------------------------------------------------------------------
(***************************************************************************)
(* enqueue: stamp, count, push and queue the microtask.                    *)
(***************************************************************************)
enqueue(originator, spawned, seq, timed) ==
  /\ arrivalCounter < MaxRaises
  /\ queue' = queue \cup
       {[arrivalOrder |-> arrivalCounter, raisedAt |-> clock, subagentId |-> originator,
         spawnedAt |-> spawned, raiseSequenceWithinSubagent |-> seq, timed |-> timed]}
  /\ arrivalCounter' = arrivalCounter + 1
  /\ wakeups' = wakeups + 1
  /\ UNCHANGED <<clock, gone, processing, open, resuming, timers, shown, settled>>

(***************************************************************************)
(* raise and raiseWithSubagentContext: a request of the parent session.    *)
(***************************************************************************)
raise(timed) ==
  /\ enqueue(Parent, -1, 0, timed)
  /\ UNCHANGED subagents

(***************************************************************************)
(* raiseFromSubagent; an unregistered subagent is rejected and changes     *)
(* nothing, so only registered ones take the step.                         *)
(***************************************************************************)
raiseFromSubagent(s, timed) ==
  /\ subagents[s] # Absent
  /\ enqueue(s, subagents[s].spawnedAt, subagents[s].raiseSequence, timed)
  /\ subagents' = [subagents EXCEPT ![s].raiseSequence = @ + 1]

registerSubagent(s) ==
  /\ subagents[s] = Absent /\ s \notin gone
  /\ subagents' = [subagents EXCEPT ![s] = [spawnedAt |-> clock, raiseSequence |-> 0]]
  /\ UNCHANGED <<clock, gone, queue, arrivalCounter, processing, wakeups, open, resuming,
                 timers, shown, settled>>

(* Mutant: a finished subagent's waiting requests are dropped unsettled. *)
unregisterDropsEntries(s) ==
  /\ subagents[s] # Absent
  /\ subagents' = [subagents EXCEPT ![s] = Absent]
  /\ gone' = gone \cup {s}
  /\ queue' = {e \in queue : e.subagentId # s}
  /\ UNCHANGED <<clock, arrivalCounter, processing, wakeups, open, resuming,
                 timers, shown, settled>>

(***************************************************************************)
(* unregisterSubagent leaves the child's queued entries where they are.    *)
(***************************************************************************)
unregisterSubagent(s) ==
  /\ subagents[s] # Absent
  /\ subagents' = [subagents EXCEPT ![s] = Absent]
  /\ gone' = gone \cup {s}
  /\ UNCHANGED <<clock, queue, arrivalCounter, processing, wakeups, open, resuming,
                 timers, shown, settled>>

(***************************************************************************)
(* One round of the loop: sort, shift, register the answer handler, arm    *)
(* the timer, emit InteractionRaised.                                      *)
(***************************************************************************)
runEntryAgainst(e) ==
  /\ queue' = queue \ {e}
  /\ open' = open \cup {e}
  /\ timers' = IF e.timed THEN timers \cup {e} ELSE timers
  /\ shown' = Append(shown, e)

(***************************************************************************)
(* The microtask: processNext returns at once when a loop is running or    *)
(* the queue is empty, and otherwise starts the loop.                      *)
(***************************************************************************)
processNextReturns ==
  /\ wakeups > 0
  /\ processing \/ queue = {}
  /\ wakeups' = wakeups - 1
  /\ UNCHANGED <<clock, subagents, gone, queue, arrivalCounter, processing, open, resuming,
                 timers, shown, settled>>

processNextStarts ==
  /\ wakeups > 0
  /\ ~processing /\ queue # {}
  /\ wakeups' = wakeups - 1
  /\ processing' = TRUE
  /\ \E e \in SortedFirst(queue) : runEntryAgainst(e)
  /\ UNCHANGED <<clock, subagents, gone, arrivalCounter, resuming, settled>>

(***************************************************************************)
(* The loop resumes after its entry finished: next entry, or leave.        *)
(***************************************************************************)
processNextContinues ==
  /\ resuming > 0 /\ queue # {}
  /\ resuming' = resuming - 1
  /\ \E e \in SortedFirst(queue) : runEntryAgainst(e)
  /\ UNCHANGED <<clock, subagents, gone, arrivalCounter, processing, wakeups, settled>>

(* Mutant: one entry per microtask, an if in place of the while. *)
processNextLeavesAfterOne ==
  /\ resuming > 0
  /\ resuming' = resuming - 1
  /\ processing' = FALSE
  /\ UNCHANGED <<clock, subagents, gone, queue, arrivalCounter, wakeups, open, timers,
                 shown, settled>>

processNextLeaves ==
  /\ resuming > 0 /\ queue = {}
  /\ resuming' = resuming - 1
  /\ processing' = FALSE
  /\ UNCHANGED <<clock, subagents, gone, queue, arrivalCounter, wakeups, open, timers,
                 shown, settled>>

(***************************************************************************)
(* The promise behind an entry keeps its first settlement; finishEntry     *)
(* resumes the loop that waits for the entry.                              *)
(***************************************************************************)
settleEntry(e, status, by) ==
  /\ settled' = IF settled[e.arrivalOrder] = Unsettled
                THEN [settled EXCEPT ![e.arrivalOrder] = [status |-> status, by |-> by]]
                ELSE settled
  /\ open' = open \ {e}
  /\ resuming' = IF e \in open THEN resuming + 1 ELSE resuming

(* Mutant: any answer settles the prompt on screen. *)
matchesAnyRequest(id, e) == TRUE

matchesRequest(id, e) == id = e.arrivalOrder

(***************************************************************************)
(* An InteractionAnswered event for request id arrives: from the dialog on *)
(* screen, or late, from one that has timed out.                           *)
(***************************************************************************)
answered(id, e, status) ==
  /\ e \in open /\ matchesRequest(id, e)
  /\ settleEntry(e, status, id)
  /\ timers' = timers \ {e}
  /\ UNCHANGED <<clock, subagents, gone, queue, arrivalCounter, processing, wakeups, shown>>

(* Mutant: the timeout rejects the request but never finishes the entry. *)
timerFiresWithoutFinish(e) ==
  /\ e \in timers
  /\ timers' = timers \ {e}
  /\ settled' = [settled EXCEPT ![e.arrivalOrder] = [status |-> "timeout", by |-> e.arrivalOrder]]
  /\ UNCHANGED <<clock, subagents, gone, queue, arrivalCounter, processing, wakeups, open,
                 resuming, shown>>

timerFires(e) ==
  /\ e \in timers
  /\ timers' = timers \ {e}
  /\ settleEntry(e, "timeout", e.arrivalOrder)
  /\ UNCHANGED <<clock, subagents, gone, queue, arrivalCounter, processing, wakeups, shown>>

(***************************************************************************)
(* Date.now moves on, between any two steps.                               *)
(***************************************************************************)
tick ==
  /\ clock < MaxTick
  /\ clock' = clock + 1
  /\ UNCHANGED <<subagents, gone, queue, arrivalCounter, processing, wakeups, open, resuming,
                 timers, shown, settled>>

Loop == processNextReturns \/ processNextStarts \/ processNextContinues \/ processNextLeaves

(* Requests that have been shown, the only ones an answer can name. *)
ShownIds == {shown[i].arrivalOrder : i \in DOMAIN shown}

Next ==
  \/ \E timed \in Timed : raise(timed)
  \/ \E s \in Subagents, timed \in Timed : raiseFromSubagent(s, timed)
  \/ \E s \in Subagents : registerSubagent(s) \/ unregisterSubagent(s)
  \/ Loop
  \/ \E id \in ShownIds, e \in open, status \in Answers : answered(id, e, status)
  \/ \E e \in timers : timerFires(e)
  \/ tick

Spec == Init /\ [][Next]_vars

----------------------------------------------------------------------------
(***************************************************************************)
(* Every variable has its type.                                            *)
(***************************************************************************)
TypeOK ==
  /\ clock \in Ticks
  /\ subagents \in [Subagents -> [spawnedAt : Ticks \cup {-1}, raiseSequence : 0..MaxRaises]]
  /\ gone \subseteq Subagents
  /\ queue \subseteq QueueEntry
  /\ arrivalCounter \in 0..MaxRaises
  /\ processing \in BOOLEAN
  /\ wakeups \in Nat
  /\ open \subseteq QueueEntry
  /\ resuming \in Nat
  /\ timers \subseteq QueueEntry
  /\ shown \in Seq(QueueEntry)
  /\ settled \in [Ids -> [status : Statuses \cup {"none"}, by : Ids \cup {-1}]]

(***************************************************************************)
(* A request is never stranded: while an entry waits, a loop is running or *)
(* a microtask that will start one is queued.                              *)
(***************************************************************************)
NoLostWakeup == queue # {} => processing \/ wakeups > 0

(***************************************************************************)
(* The processing flag is held by exactly one loop, and that loop shows at *)
(* most one prompt: two sessions never prompt at the same time.            *)
(***************************************************************************)
SingleLoop ==
  IF processing
  THEN \/ resuming = 1 /\ open = {}
       \/ resuming = 0 /\ \E e \in open : open = {e}
  ELSE resuming = 0 /\ open = {}

(***************************************************************************)
(* A request is settled by its own answer or timer, never by a late answer *)
(* to an earlier prompt, and a timer is armed only while its prompt is     *)
(* open.                                                                   *)
(***************************************************************************)
SettledByOwnAnswer ==
  /\ \A id \in Ids : settled[id] # Unsettled => settled[id].by = id
  /\ timers \subseteq open

(***************************************************************************)
(* Prompts come up in the order of the ticks they were raised in, whoever  *)
(* raised them and however long earlier prompts stayed open.               *)
(***************************************************************************)
ShownByTick ==
  \A i, j \in DOMAIN shown : i < j => shown[i].raisedAt <= shown[j].raisedAt

(***************************************************************************)
(* Whenever the loop takes an entry while only subagents have entries of   *)
(* that tick, the subagent that was spawned first goes first, and within a *)
(* subagent the request it raised first.                                   *)
(***************************************************************************)
SpawnOrderAmongChildren ==
  [][ \A e \in queue \ queue' :
        LET tied == {f \in queue : f.raisedAt = e.raisedAt} IN
        (\A f \in tied : IsChild(f)) =>
          \A f \in tied :
            /\ e.spawnedAt <= f.spawnedAt
            /\ e.subagentId = f.subagentId => e.arrivalOrder <= f.arrivalOrder ]_vars

(***************************************************************************)
(* The header's second ordering key, read literally: of two subagents with *)
(* entries of the same tick, the one spawned first is shown first.         *)
(***************************************************************************)
SpawnOrderOnTie ==
  [][ \A e \in queue \ queue' : \A f \in queue :
        (IsChild(e) /\ IsChild(f) /\ e.raisedAt = f.raisedAt) => e.spawnedAt <= f.spawnedAt
    ]_vars

(***************************************************************************)
(* Every request raised so far is settled, or a prompt without a timeout   *)
(* is on the screen (MCIpAuthority: again and again, although nobody need  *)
(* answer).                                                                *)
(***************************************************************************)
RequestsSettled ==
  \/ \A id \in Ids : id < arrivalCounter => settled[id] # Unsettled
  \/ \E e \in open : ~e.timed

(***************************************************************************)
(* The queue, the microtasks and the timers implement a prompt service.    *)
(***************************************************************************)
IdsOf(S) == {e.arrivalOrder : e \in S}

Service == INSTANCE PromptService WITH
  Requests <- Ids,
  pending  <- IdsOf(queue),
  open     <- IdsOf(open),
  done     <- {id \in Ids : settled[id] # Unsettled}

(***************************************************************************)
(* Refinement: one prompt at a time, each settled once and after being     *)
(* shown.                                                                  *)
(***************************************************************************)
ServiceSpec == Service!Spec
============================================================================
