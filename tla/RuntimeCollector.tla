-------------------------- MODULE RuntimeCollector --------------------------
(***************************************************************************)
(* What the host tells extensions of its state                             *)
(* (core/host/internal/runtime-collector.ts): writers change one mutable   *)
(* state; reader.snapshot() freezes it on demand, subscribers are called   *)
(* once per debounced burst of writes, and token listeners within addTokens.*)
(*                                                                         *)
(* Writers, and listeners that write, subscribe, unsubscribe or dispose    *)
(* while they are called, are the environment.  A snapshot listener that   *)
(* throws does so in a timer and ends the process, which is left out; one  *)
(* of the token listeners throws into the stream that counted the tokens.  *)
(* All of it is synchronous: while token listeners are called, everything  *)
(* that happens is done by one of them, and no timer fires.                *)
(***************************************************************************)
EXTENDS Integers, Sequences, SequencesExt

CONSTANTS Listeners,      \* handlers of subscribe
          TokenListeners, \* handlers of subscribeToTokens
          BufferSize,     \* diagnosticBufferSize
          MaxWrites       \* writers called

VARIABLES state,      \* MutableState; the parts its setters replace are one version
          snapshot,   \* the frozen copy
          dirty,      \* snapshotDirty
          timer,      \* pendingTimer is set
          disposed,
          subs,       \* snapshotListeners, in the order they were added
          tokenSubs,  \* tokenListeners
          publishing, \* how many of subs publish has called, or -1
          emitting,   \* calls of addTokens, one within the other, whose token listeners are called
          seen,       \* history: what each listener was last given, or the state when it subscribed
          unscheduled, \* history: a token listener threw, and nothing was written since
          written     \* writers called so far

collectorVars == <<state, snapshot, dirty, timer, disposed, subs, tokenSubs, publishing, emitting,
                   seen, unscheduled, written>>

Levels == {"error", "warn", "info"}

\* RuntimeSnapshot, the parts that are only ever replaced as one version.
Snapshots == [version : 0..MaxWrites, turns : 0..MaxWrites, total : 0..MaxWrites,
              lastTurn : 0..MaxWrites, errors : 0..MaxWrites, warnings : 0..MaxWrites,
              recent : UNION {[1..n -> Levels] : n \in 0..BufferSize}]

emptyRuntimeSnapshot == [version |-> 0, turns |-> 0, total |-> 0, lastTurn |-> 0,
                         errors |-> 0, warnings |-> 0, recent |-> <<>>]

initialState == emptyRuntimeSnapshot

RCInit ==
    /\ state = initialState /\ snapshot = initialState /\ dirty = FALSE /\ timer = FALSE
    /\ disposed = FALSE /\ subs = <<>> /\ tokenSubs = {} /\ publishing = -1 /\ emitting = 0
    /\ seen = [l \in Listeners |-> initialState]
    /\ unscheduled = FALSE /\ written = 0

-----------------------------------------------------------------------------
KeepReaders == UNCHANGED <<disposed, subs, tokenSubs, publishing, seen, snapshot>>

\* After dispose nothing is scheduled, and nothing marked: snapshot() stays as it was.
scheduleSnapshot ==
    IF disposed THEN UNCHANGED <<dirty, timer>> ELSE dirty' = TRUE /\ timer' = TRUE

Schedules == scheduleSnapshot /\ unscheduled' = FALSE /\ KeepReaders
Writes    == written < MaxWrites /\ written' = written + 1

\* setSession, setProvider, setContext, setTools, setMcp, setStateMachine,
\* setUi, setHooks, setExtensions and endTurn: a part of the state replaced.
replacesPart ==
    /\ Writes
    /\ state' = [state EXCEPT !.version = @ + 1] /\ Schedules /\ UNCHANGED emitting

beginTurn ==
    /\ Writes
    /\ state' = [state EXCEPT !.turns = @ + 1, !.lastTurn = 0] /\ Schedules /\ UNCHANGED emitting

\* emitTokens calls every token listener before the write is scheduled.
\* Without one nothing comes between the two.
addTokens ==
    /\ Writes
    /\ state' = [state EXCEPT !.total = @ + 1, !.lastTurn = @ + 1]
    /\ IF tokenSubs = {} THEN Schedules /\ UNCHANGED emitting
       ELSE emitting' = emitting + 1 /\ UNCHANGED <<dirty, timer, unscheduled>> /\ KeepReaders

\* The last listener returns; or one throws, and the write stays unscheduled.
tokensEmitted ==
    /\ emitting > 0 /\ emitting' = emitting - 1
    /\ Schedules /\ UNCHANGED <<state, written>>

tokenListenerThrows ==
    /\ emitting > 0 /\ emitting' = emitting - 1
    /\ unscheduled' = TRUE
    /\ UNCHANGED <<state, written, dirty, timer>> /\ KeepReaders

\* The buffer holds the last of them; the counts are of all.
Ring(s) == SubSeq(s, IF Len(s) > BufferSize THEN Len(s) - BufferSize + 1 ELSE 1, Len(s))
pushDiagnostic(level) ==
    /\ Writes
    /\ state' = [state EXCEPT !.recent = Ring(Append(@, level)),
                              !.errors = IF level = "error" THEN @ + 1 ELSE @,
                              !.warnings = IF level = "warn" THEN @ + 1 ELSE @]
    /\ Schedules /\ UNCHANGED emitting

-----------------------------------------------------------------------------
KeepState == UNCHANGED <<state, emitting, unscheduled, written>>

\* A copy: what is frozen does not follow the state, the ring of diagnostics
\* included, which is changed in place.
freezeSnapshot == state

refreshSnapshot == snapshot' = (IF dirty THEN freezeSnapshot ELSE snapshot) /\ dirty' = FALSE

\* The timer fires, is forgotten, and publish begins.
timerFires ==
    /\ timer /\ publishing = -1 /\ emitting = 0 /\ timer' = FALSE
    /\ IF disposed THEN UNCHANGED <<dirty, snapshot, publishing>>
       ELSE refreshSnapshot /\ publishing' = 0
    /\ UNCHANGED <<disposed, subs, tokenSubs, seen>> /\ KeepState

publishEnds ==
    /\ publishing = Len(subs) /\ emitting = 0 /\ publishing' = -1
    /\ UNCHANGED <<snapshot, dirty, timer, disposed, subs, tokenSubs, seen>> /\ KeepState

\* forEach over a Set, which goes on to listeners added on the way.
publish ==
    /\ publishing \in 0 .. Len(subs) - 1 /\ emitting = 0 /\ publishing' = publishing + 1
    /\ seen' = [seen EXCEPT ![subs[publishing + 1]] = snapshot]
    /\ UNCHANGED <<snapshot, dirty, timer, disposed, subs, tokenSubs>> /\ KeepState

\* reader.snapshot().
getSnapshot ==
    /\ refreshSnapshot
    /\ UNCHANGED <<timer, disposed, subs, tokenSubs, publishing, seen>> /\ KeepState

\* A listener is not called for what there was before it subscribed.
subscribe(l) ==
    /\ l \notin ToSet(subs) /\ subs' = Append(subs, l)
    /\ seen' = [seen EXCEPT ![l] = state]
    /\ UNCHANGED <<snapshot, dirty, timer, disposed, tokenSubs, publishing>> /\ KeepState

\* A listener removed during forEach is not called; those called are counted.
unsubscribe(l) ==
    /\ \E i \in DOMAIN subs :
          /\ subs[i] = l /\ subs' = RemoveAt(subs, i)
          /\ publishing' = IF i <= publishing THEN publishing - 1 ELSE publishing
    /\ UNCHANGED <<snapshot, dirty, timer, disposed, tokenSubs, seen>> /\ KeepState

subscribeToTokens(l) ==
    /\ l \notin tokenSubs /\ tokenSubs' = tokenSubs \cup {l}
    /\ UNCHANGED <<snapshot, dirty, timer, disposed, subs, publishing, seen>> /\ KeepState

unsubscribeFromTokens(l) ==
    /\ l \in tokenSubs /\ tokenSubs' = tokenSubs \ {l}
    /\ UNCHANGED <<snapshot, dirty, timer, disposed, subs, publishing, seen>> /\ KeepState

dispose ==
    /\ ~disposed /\ disposed' = TRUE /\ timer' = FALSE /\ subs' = <<>> /\ tokenSubs' = {}
    /\ publishing' = IF publishing = -1 THEN -1 ELSE 0
    /\ UNCHANGED <<snapshot, dirty, seen>> /\ KeepState

RCNext ==
    \/ replacesPart \/ beginTurn \/ addTokens \/ tokensEmitted \/ tokenListenerThrows
    \/ \E v \in Levels : pushDiagnostic(v)
    \/ timerFires \/ publish \/ publishEnds \/ getSnapshot \/ dispose
    \/ \E l \in Listeners : subscribe(l) \/ unsubscribe(l)
    \/ \E l \in TokenListeners : subscribeToTokens(l) \/ unsubscribeFromTokens(l)

RCSpec == RCInit /\ [][RCNext]_collectorVars
-----------------------------------------------------------------------------
\* Type correctness, and the ring's bound.
RCTypeOK ==
    /\ state \in Snapshots /\ snapshot \in Snapshots
    /\ dirty \in BOOLEAN /\ timer \in BOOLEAN /\ disposed \in BOOLEAN /\ unscheduled \in BOOLEAN
    /\ ToSet(subs) \subseteq Listeners /\ IsInjective(subs) /\ publishing \in -1 .. Len(subs)
    /\ emitting \in 0 .. MaxWrites

\* Whenever no token listener is being called, snapshot() returns what the
\* state holds; and at rest every listener has been given that, however writes,
\* reads that clean the snapshot, and writes made by listeners of either kind
\* while they are called come together.  Within a token listener snapshot()
\* may still return what there was before the tokens, and after one that threw
\* it does so until the next write.
ListenersAreCurrent ==
    ~disposed /\ ~unscheduled /\ emitting = 0 =>
        /\ dirty \/ snapshot = state
        /\ ~timer /\ publishing = -1 => \A l \in ToSet(subs) : seen[l] = state
=============================================================================
