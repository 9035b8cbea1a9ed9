------------------------ MODULE InteractionProtocol ------------------------
(***************************************************************************)
(* The single-interactor prompt queue (core/interaction/protocol.ts) under *)
(* the timeout wrapper (core/interaction/timeout.ts).  A raise goes to the *)
(* queue directly or through raiseWithTimeout, whose timer settles the     *)
(* caller's promise and leaves the queued entry where it is.               *)
(*                                                                         *)
(* processNext runs synchronously inside raise and inside the finally of   *)
(* the entry before it, so it is part of those actions.                    *)
(***************************************************************************)
EXTENDS Integers, Sequences, SequencesExt

CONSTANTS
  Requests,   \* correlation ids, each raised at most once
  None        \* no entry is running

VARIABLES
  queue,      \* entries not yet shown
  running,    \* the entry processNext is awaiting (isRunning: not None)
  race,       \* how its race of response and dismissal stands
  pending,    \* pendingCount
  outcome,    \* request -> how the promise of protocol.raise settled
  caller,     \* request -> what the code that asked was told
  timer,      \* request -> whether raiseWithTimeout's timer may still fire
  arrivals,   \* requests in the order their raise entered the queue
  log         \* InteractionRaised and InteractionAnswered events

vars == <<queue, running, race, pending, outcome, caller, timer, arrivals, log>>

isRunning == running # None

Outcomes == {"none", "response", "error", "TurnCancelled", "refused"}
Callers  == Outcomes \cup {"timeout", "TimeoutMsInvalid"}
Races    == {"open", "response", "error", "TurnCancelled"}

Raised(r)   == [name |-> "InteractionRaised", cid |-> r]
Answered(r) == [name |-> "InteractionAnswered", cid |-> r]

Init ==
  /\ queue = <<>> /\ running = None /\ race = "open" /\ pending = 0
  /\ outcome = [r \in Requests |-> "none"]
  /\ caller = [r \in Requests |-> "none"]
  /\ timer = [r \in Requests |-> FALSE]
  /\ arrivals = <<>> /\ log = <<>>

Fresh(r) == caller[r] = "none" /\ outcome[r] = "none" /\ ~Contains(arrivals, r)

(***************************************************************************)
(* processNext when nothing is running: shift the head of q, announce it   *)
(* and call the interactor.  l is the event log so far.                    *)
(***************************************************************************)
processNext(q, l) ==
  IF q = <<>>
  THEN queue' = q /\ running' = None /\ log' = l
  ELSE /\ queue' = Tail(q) /\ running' = Head(q)
       /\ log' = Append(l, Raised(Head(q)))

(***************************************************************************)
(* raise of a valid request: count it, queue it, and show it if the        *)
(* interactor is free.                                                     *)
(***************************************************************************)
raise(r) ==
  /\ pending' = pending + 1
  /\ arrivals' = Append(arrivals, r)
  /\ IF isRunning
     THEN queue' = Append(queue, r) /\ UNCHANGED <<running, race, log>>
     ELSE processNext(Append(queue, r), log) /\ race' = "open"

raisePlain(r) ==
  /\ Fresh(r)
  /\ raise(r)
  /\ UNCHANGED <<outcome, caller, timer>>

(***************************************************************************)
(* raiseWithTimeout with a positive timeout: start the timer, then raise.  *)
(***************************************************************************)
raiseWithTimeout(r) ==
  /\ Fresh(r)
  /\ timer' = [timer EXCEPT ![r] = TRUE]
  /\ raise(r)
  /\ UNCHANGED <<outcome, caller>>

(***************************************************************************)
(* timeoutMs <= 0 is refused before the delegate is called.                *)
(***************************************************************************)
timeoutMsInvalid(r) ==
  /\ Fresh(r)
  /\ caller' = [caller EXCEPT ![r] = "TimeoutMsInvalid"]
  /\ UNCHANGED <<queue, running, race, pending, outcome, timer, arrivals, log>>

(***************************************************************************)
(* validateRequest refuses an unknown kind, a payload of another kind, or  *)
(* a session without interactor: the request is never counted or queued.   *)
(***************************************************************************)
validateRequestRefuses(r) ==
  /\ Fresh(r)
  /\ outcome' = [outcome EXCEPT ![r] = "refused"]
  /\ caller' = [caller EXCEPT ![r] = "refused"]
  /\ UNCHANGED <<queue, running, race, pending, timer, arrivals, log>>

(***************************************************************************)
(* The interactor settles its promise; the first settlement of the race    *)
(* between response and dismissal counts.                                  *)
(***************************************************************************)
interactorReplies(reply) ==
  /\ isRunning /\ race = "open"
  /\ race' = reply
  /\ UNCHANGED <<queue, running, pending, outcome, caller, timer, arrivals, log>>

(***************************************************************************)
(* The interactor dismisses a correlation id: only the running entry is    *)
(* subscribed, and it ignores the ids of others.                           *)
(***************************************************************************)
dismiss(cid) ==
  /\ isRunning /\ running = cid /\ race = "open"
  /\ race' = "TurnCancelled"
  /\ UNCHANGED <<queue, running, pending, outcome, caller, timer, arrivals, log>>

(***************************************************************************)
(* The race between the delegate and the timer: the first result counts,   *)
(* a later one is discarded.                                               *)
(***************************************************************************)
tellCaller(r, reply) ==
  caller' = [caller EXCEPT ![r] = IF @ = "none" THEN reply ELSE @]

(***************************************************************************)
(* InteractionAnswered is emitted for a response, not for an error.        *)
(***************************************************************************)
announce(l) == IF race = "response" THEN Append(l, Answered(running)) ELSE l

(***************************************************************************)
(* The finally block, whatever happened: isRunning = false, processNext.   *)
(***************************************************************************)
showNext(l) == processNext(queue, l)

(***************************************************************************)
(* processNext resumes after its await: announce and resolve a response,   *)
(* reject otherwise, and in any case free the interactor and show the next *)
(* entry.  The wrapper passes the result on unless its timer fired first,  *)
(* and cancels the timer.                                                  *)
(***************************************************************************)
finish ==
  /\ isRunning /\ race # "open"
  /\ outcome' = [outcome EXCEPT ![running] = race]
  /\ tellCaller(running, race)
  /\ timer' = [timer EXCEPT ![running] = FALSE]
  /\ pending' = pending - 1
  /\ race' = "open"
  /\ showNext(announce(log))
  /\ UNCHANGED arrivals

(***************************************************************************)
(* The timer settles the caller's promise; nothing is withdrawn.           *)
(***************************************************************************)
timerFires(r) ==
  /\ timer[r]
  /\ timer' = [timer EXCEPT ![r] = FALSE]
  /\ caller' = [caller EXCEPT ![r] = "timeout"]
  /\ UNCHANGED <<queue, running, race, pending, outcome, arrivals, log>>

Next ==
  \/ \E r \in Requests :
       \/ raisePlain(r) \/ raiseWithTimeout(r) \/ timeoutMsInvalid(r)
       \/ validateRequestRefuses(r) \/ dismiss(r) \/ timerFires(r)
  \/ \E reply \in {"response", "error"} : interactorReplies(reply)
  \/ finish

Spec == Init /\ [][Next]_vars

----------------------------------------------------------------------------
(***************************************************************************)
(* Every variable has its type.                                            *)
(***************************************************************************)
TypeOK ==
  /\ queue \in Seq(Requests) /\ arrivals \in Seq(Requests)
  /\ log \in Seq({Raised(r) : r \in Requests} \cup {Answered(r) : r \in Requests})
  /\ running \in Requests \cup {None}
  /\ race \in Races
  /\ pending \in Nat
  /\ outcome \in [Requests -> Outcomes]
  /\ caller \in [Requests -> Callers]
  /\ timer \in [Requests -> BOOLEAN]

(***************************************************************************)
(* The interactor is never idle while a prompt waits, and pendingCount is  *)
(* the number of requests waiting or shown: no path out of an entry loses  *)
(* the wake-up of the next.                                                *)
(***************************************************************************)
NeverIdle ==
  /\ queue # <<>> => isRunning
  /\ pending = Len(queue) + (IF isRunning THEN 1 ELSE 0)

(***************************************************************************)
(* FIFO: the requests raised are, in that order, those finished, the one   *)
(* running and those waiting; each has its outcome exactly when it is      *)
(* finished.                                                               *)
(***************************************************************************)
Line == (IF isRunning THEN <<running>> ELSE <<>>) \o queue
NFinished == Len(arrivals) - Len(Line)

Fifo ==
  /\ NFinished >= 0
  /\ \A k \in DOMAIN Line : arrivals[NFinished + k] = Line[k]
  /\ \A k \in DOMAIN arrivals : outcome[arrivals[k]] # "none" <=> k <= NFinished

(***************************************************************************)
(* The event log shows one prompt at a time: each InteractionAnswered      *)
(* follows its own InteractionRaised directly, and only a request whose    *)
(* promise was resolved has one.                                           *)
(***************************************************************************)
EventsPaired ==
  /\ \A k \in DOMAIN log : log[k].name = "InteractionAnswered" =>
       k > 1 /\ log[k - 1] = Raised(log[k].cid)
  /\ \A r \in Requests : outcome[r] = "response" <=> Contains(log, Answered(r))

(***************************************************************************)
(* What a caller was told agrees with what became of its entry: the entry's*)
(* own outcome, or a timeout whose entry may still be waiting, on screen,  *)
(* or settled since.  A caller told nothing has an entry in the queue.     *)
(***************************************************************************)
CallerToldTruth ==
  \A r \in Requests :
    /\ outcome[r] # "none" => caller[r] \in {outcome[r], "timeout"}
    /\ caller[r] \in Outcomes \ {"none"} => caller[r] = outcome[r]
    /\ timer[r] => caller[r] = "none"

(***************************************************************************)
(* No caller waits for a timer (MCIpAuthority: again and again, even when  *)
(* the prompt ahead of his is never answered).                             *)
(***************************************************************************)
TimedRaisesSettled == \A r \in Requests : timer[r] => caller[r] # "none"

============================================================================
