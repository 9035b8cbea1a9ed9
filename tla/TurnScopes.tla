----------------------------- MODULE TurnScopes -----------------------------
(***************************************************************************)
(* Cancellation scopes (core/concurrency/scope.ts), the serializer that    *)
(* runs one turn of a session at a time (serializer.ts), and the ordered   *)
(* stream of events and commands (core/events/command-ordering.ts).  The   *)
(* serializer makes a scope for every turn when the turn is enqueued.      *)
(***************************************************************************)
EXTENDS Integers, Sequences, SequencesExt

CONSTANTS
  MaxScopes,   \* bound: scopes of a session
  MaxTasks     \* bound: events and commands submitted

VARIABLES
  scopes,     \* in creation order: kind, parent (0 for the session), why it is aborted
  turns,      \* scopes of the turns not yet started, in the order of the promise chain
  running,    \* the turn that runs, 0 if none
  started,    \* history: scopes of the turns that were started
  stream      \* the ordered stream

scopeVars == <<scopes, turns, running, started, stream>>

Live == "live"
Session == 1
Nested  == {"child-session", "stage", "tool"}
Kinds_  == {"session", "turn"} \cup Nested
TaskKinds == {"event", "command"}

scopeCodeForKind(kind) ==
  IF kind \in {"session", "child-session"} THEN "SessionCancelled"
  ELSE IF kind = "tool" THEN "ToolCancelled" ELSE "TurnCancelled"

Codes == {scopeCodeForKind(k) : k \in Kinds_}

TSCTypeOK ==
  /\ Len(scopes) \in 1..MaxScopes
  /\ \A i \in DOMAIN scopes :
       /\ scopes[i].kind \in Kinds_ /\ scopes[i].parent \in 0..(i - 1)
       /\ scopes[i].aborted \in Codes \cup {Live}
  /\ \A i \in DOMAIN turns : turns[i] \in DOMAIN scopes
  /\ running \in 0..Len(scopes) /\ started \in Seq(1..MaxScopes)
  /\ stream.cancelled \in BOOLEAN /\ stream.submitted \in 0..MaxTasks
  /\ stream.busy \in TaskKinds \cup {"none"}
  /\ \A k \in TaskKinds : stream.counts[k] =
       Len(SelectSeq(stream.queue, LAMBDA q : q = k)) + (IF stream.busy = k THEN 1 ELSE 0)

TSCInit ==
  /\ scopes = <<[kind |-> "session", parent |-> 0, aborted |-> Live]>>
  /\ turns = <<>> /\ running = 0 /\ started = <<>>
  /\ stream = [queue |-> <<>>, busy |-> "none", cancelled |-> FALSE, submitted |-> 0,
               counts |-> [k \in TaskKinds |-> 0], lastSeq |-> 0, clock |-> 0, refused |-> 0]

(* A child of an aborted scope is aborted with its parent's reason.        *)
buildScope(kind, parent) == [kind |-> kind, parent |-> parent, aborted |-> scopes[parent].aborted]

child(kind, parent) ==
  /\ Len(scopes) < MaxScopes
  /\ scopes' = Append(scopes, buildScope(kind, parent))

newScope(kind, parent) ==
  /\ scopes[parent].kind /= "tool"
  /\ child(kind, parent)
  /\ UNCHANGED <<turns, running, started, stream>>

(* A scope and everything below it, as far as nothing on the way is        *)
(* aborted already.                                                        *)
Below(i, j) ==
  LET below[k \in 0..Len(scopes)] == k = i \/ (k > i /\ below[scopes[k].parent])
  IN below[j]

(* Each scope is aborted with its own kind's code; one already aborted     *)
(* keeps its reason and does not pass the call on.                         *)
Reached(i) == {j \in DOMAIN scopes : scopes[j].aborted = Live /\ Below(i, j)}

cancel(i) ==
  /\ scopes[i].aborted = Live
  /\ scopes' = [j \in DOMAIN scopes |->
       IF j \in Reached(i) THEN [scopes[j] EXCEPT !.aborted = scopeCodeForKind(scopes[j].kind)] ELSE scopes[j]]
  /\ UNCHANGED <<turns, running, started, stream>>

(***************************************************************************)
(* The turn serializer.                                                    *)
(***************************************************************************)
enqueueTurn ==
  /\ child("turn", Session)
  /\ turns' = Append(turns, Len(scopes) + 1)
  /\ UNCHANGED <<running, started, stream>>

(* Mutant: a turn whose signal is aborted jumps the queue.                 *)
TurnJumps ==
  /\ turns /= <<>>
  /\ LET next == IF scopes[Last(turns)].aborted /= Live THEN Last(turns) ELSE Head(turns) IN
     /\ running' = next
     /\ started' = Append(started, next)
     /\ turns' = SelectSeq(turns, LAMBDA t : t /= next)
  /\ UNCHANGED <<scopes, stream>>

(* The chain starts the next turn when the one before has settled, also    *)
(* after a cancellation: its signal is aborted then.                       *)
turnStarts ==
  /\ running = 0 /\ turns /= <<>>
  /\ running' = Head(turns)
  /\ started' = Append(started, Head(turns))
  /\ turns' = Tail(turns)
  /\ UNCHANGED <<scopes, stream>>

(* Fulfilled or rejected, the chain goes on.                               *)
turnSettles ==
  /\ running /= 0
  /\ running' = 0
  /\ UNCHANGED <<scopes, turns, started, stream>>

(***************************************************************************)
(* The ordered stream.  submit() pushes a task and drains the queue, which *)
(* awaits one task after the other; the clock may hand out the same number *)
(* twice.                                                                  *)
(***************************************************************************)
submit(kind) ==
  /\ stream.submitted < MaxTasks
  /\ stream' = IF stream.cancelled THEN [stream EXCEPT !.submitted = @ + 1, !.refused = @ + 1]
               ELSE [stream EXCEPT !.submitted = @ + 1, !.queue = Append(@, kind), !.counts[kind] = @ + 1]
  /\ UNCHANGED <<scopes, turns, running, started>>

processQueue ==
  /\ stream.busy = "none" /\ stream.queue /= <<>>
  /\ stream' = [stream EXCEPT !.busy = Head(stream.queue), !.queue = Tail(@)]
  /\ UNCHANGED <<scopes, turns, running, started>>

(* An event is emitted unless its number does not exceed the last.         *)
emitOrderedEvent(seq) ==
  /\ stream.busy = "event"
  /\ stream' = [stream EXCEPT !.busy = "none", !.counts["event"] = @ - 1, !.clock = seq,
                              !.lastSeq = IF seq > @ THEN seq ELSE @]
  /\ UNCHANGED <<scopes, turns, running, started>>

commandSettles ==
  /\ stream.busy = "command"
  /\ stream' = [stream EXCEPT !.busy = "none", !.counts["command"] = @ - 1]
  /\ UNCHANGED <<scopes, turns, running, started>>

(* Mutant: the tasks thrown out are still counted.                         *)
drainKeepsCounts ==
  /\ stream.busy = "command"
  /\ stream' = [stream EXCEPT !.busy = "none", !.queue = <<>>, !.cancelled = TRUE, !.counts["command"] = @ - 1]
  /\ UNCHANGED <<scopes, turns, running, started>>

(* A task that throws SessionCancelled takes every queued task with it.    *)
drainSessionCancellation ==
  /\ stream.busy = "command"
  /\ stream' = [stream EXCEPT !.busy = "none", !.queue = <<>>, !.cancelled = TRUE,
                              !.counts = [k \in TaskKinds |-> 0]]
  /\ UNCHANGED <<scopes, turns, running, started>>

TSCNext ==
  \/ \E k \in Nested, p \in DOMAIN scopes : newScope(k, p)
  \/ \E i \in DOMAIN scopes : cancel(i)
  \/ enqueueTurn \/ turnStarts \/ turnSettles
  \/ \E k \in TaskKinds : submit(k)
  \/ processQueue \/ commandSettles \/ drainSessionCancellation
  \/ \E seq \in stream.clock..(stream.clock + 1) : emitOrderedEvent(seq)

TSCSpec == TSCInit /\ [][TSCNext]_scopeVars

(***************************************************************************)
(* Nothing below an aborted scope is live, whenever it was made; a live    *)
(* scope has no aborted ancestor, so that cancelling a child never reaches *)
(* up.                                                                     *)
(***************************************************************************)
AbortReachesBelow ==
  \A i \in DOMAIN scopes : scopes[i].aborted /= Live =>
    \A j \in DOMAIN scopes : Below(i, j) => scopes[j].aborted /= Live

(***************************************************************************)
(* Turns start in the order they were enqueued, each once.                 *)
(***************************************************************************)
TurnsInOrder ==
  /\ \A i, j \in DOMAIN started : i < j => started[i] < started[j]
  /\ \A t \in ToSet(turns), s \in ToSet(started) : s < t
=============================================================================
