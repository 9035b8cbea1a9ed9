------------------------- MODULE ExtensionLifecycle -------------------------
(***************************************************************************)
(* The extension lifecycle manager (createLifecycleManager in              *)
(* core/lifecycle/manager.ts).  Its calls are asynchronous: each awaits    *)
(* one callback of an extension after another, and calls may overlap.  A   *)
(* call runs without interruption from one await to the next; `thread` is  *)
(* the call in the middle of such a segment.                               *)
(***************************************************************************)
EXTENDS Integers, Sequences, SequencesExt, FiniteSets

CONSTANTS
  Ext,        \* extension ids
  DependsOn,  \* extension id -> its dependsOn array
  Calls,      \* calls that can be in flight at once
  NoCall      \* nobody is in the middle of a segment

Deps(e) == Range(DependsOn[e])
DependsOnAll(S) == UNION {Deps(e) : e \in S}

ASSUME LifecycleAssumption ==
  /\ IsFiniteSet(Ext) /\ NoCall \notin Calls
  /\ DependsOn \in [Ext -> Seq(Ext)]
  \* load refuses an extension whose dependency is not registered: no cycles
  /\ \A S \in (SUBSET Ext) \ {{}} : ~ S \subseteq DependsOnAll(S)

VARIABLES
  registered,  \* ids in store.registered
  st,          \* stateOf
  gone,        \* ids the dispose tracker has marked
  subs,        \* ids with a tracked event subscription on the bus
  op,          \* what each call is doing
  thread,      \* call in the middle of a segment
  raced        \* calls that can undo each other's work have overlapped

vars == <<registered, st, gone, subs, op, thread, raced>>

States == {"unknown", "loaded", "active", "inactive", "disposed"}
Kinds == {"load", "activate", "deactivate", "dispose", "disposeAll"}

(* The callback a call of this kind runs, whence it may start, and what    *)
(* state it leads to.                                                      *)
PhaseOf(k) ==
  CASE k = "load" -> "init" [] k = "activate" -> "activate"
    [] k = "deactivate" -> "deactivate" [] OTHER -> "dispose"
Allowed(k) ==
  CASE k = "load" -> {"unknown"} [] k = "activate" -> {"loaded", "inactive"}
    [] k = "deactivate" -> {"active"} [] OTHER -> {"loaded", "active", "inactive"}
NextState(k) ==
  CASE k = "load" -> "loaded" [] k = "activate" -> "active"
    [] k = "deactivate" -> "inactive" [] OTHER -> "disposed"

(* A call: the extensions it has still to handle, the frames of            *)
(* activateOne (extension and number of the dependency awaited), the       *)
(* callback it awaits with the state it was started from, the rest of      *)
(* disposeAll and the extensions whose disposal failed.                    *)
NoPhase == << >>
Idle == [kind |-> "idle", at |-> "idle", plan |-> << >>, frames |-> << >>, seen |-> {},
         phase |-> NoPhase, rest |-> << >>, failed |-> {}]
Call(k) == [Idle EXCEPT !.kind = k, !.at = "next"]
Frame(e) == [ext |-> e, dep |-> 0]

Busy(c) == op[c].kind # "idle"
Runs(c) == Busy(c) /\ op[c].at = "next" /\ thread \in {NoCall, c}

(* Loads of different extensions may overlap anything but disposeAll.      *)
Interferes(k, e, d) ==
  \/ k # "load" /\ op[d].kind # "load"
  \/ "disposeAll" \in {k, op[d].kind}
  \/ k = "load" /\ op[d].kind = "load" /\ op[d].plan = <<e>>

Init ==
  /\ registered = {}
  /\ st = [e \in Ext |-> "unknown"]
  /\ gone = {} /\ subs = {}
  /\ op = [c \in Calls |-> Idle]
  /\ thread = NoCall /\ raced = FALSE

(***************************************************************************)
(* collectDependents: the extension and everything registered that reaches *)
(* it through dependsOn, dependents before their dependencies.  The code   *)
(* breaks ties by id; here any such order will do.                         *)
(***************************************************************************)
ClosedUnderDependents(S) == \A d \in registered : Deps(d) \cap S # {} => d \in S
DependentClosure(e) ==
  CHOOSE S \in SUBSET (registered \cup {e}) :
    /\ e \in S /\ ClosedUnderDependents(S)
    /\ \A x \in S \ {e} : Deps(x) \cap S # {}

DependentsFirst(S) ==
  {s \in SetToSeqs(S) : \A i, j \in DOMAIN s : s[i] \in Deps(s[j]) => j < i}

(* Mutant: dependents are left alone.                                      *)
collectTargetOnly(e) == {<<e>>}

collectDependents(e) == DependentsFirst(DependentClosure(e))

(* A new call: its segment runs on when `next` is c.                       *)
MayCall(c) == ~Busy(c) /\ thread = NoCall

begin(c, e, o, next) ==
  /\ MayCall(c)
  /\ op' = [op EXCEPT ![c] = o]
  /\ thread' = next
  /\ raced' = (raced \/ \E d \in Calls : Busy(d) /\ Interferes(o.kind, e, d))

(***************************************************************************)
(* The calls that get past their first checks; the others throw at once.   *)
(* load: not loaded yet and every dependency registered (in any state).    *)
(***************************************************************************)
validateLoad(e) == st[e] = "unknown" /\ Deps(e) \subseteq registered

load(c, e) ==
  /\ validateLoad(e)
  /\ begin(c, e, [Call("load") EXCEPT !.plan = <<e>>, !.at = "callback",
                                      !.phase = [ext |-> e, before |-> "unknown"]], NoCall)
  /\ registered' = registered \cup {e}
  /\ UNCHANGED <<st, gone, subs>>

activate(c, e) ==
  /\ e \in registered /\ st[e] \in {"loaded", "inactive"}
  /\ begin(c, e, [Call("activate") EXCEPT !.frames = <<Frame(e)>>, !.seen = {e}], c)
  /\ UNCHANGED <<registered, st, gone, subs>>

deactivate(c, e) ==
  /\ MayCall(c) /\ e \in registered
  /\ \E plan \in collectDependents(e) : begin(c, e, [Call("deactivate") EXCEPT !.plan = plan], c)
  /\ UNCHANGED <<registered, st, gone, subs>>

(* disposeOne returns at once when the extension is disposed already.      *)
AlreadyDisposed(e) == e \in gone \/ st[e] = "disposed"

dispose(c, e) ==
  /\ MayCall(c) /\ ~AlreadyDisposed(e) /\ st[e] # "unknown" /\ e \in registered
  /\ \E plan \in collectDependents(e) : begin(c, e, [Call("dispose") EXCEPT !.plan = plan], c)
  /\ UNCHANGED <<registered, st, gone, subs>>

disposeAgain(e) ==
  /\ thread = NoCall /\ AlreadyDisposed(e)
  /\ st' = [st EXCEPT ![e] = "disposed"]
  /\ UNCHANGED <<registered, gone, subs, op, thread, raced>>

(* The reverse of resolveDependencyOrder.  It throws when a dependency is  *)
(* not registered, as after a failed load that left a dependent behind:    *)
(* disposeAll then throws before it has called or changed anything, and is *)
(* no step here.                                                           *)
resolveDependencyOrder ==
  IF DependsOnAll(registered) \subseteq registered THEN DependentsFirst(registered) ELSE {}

disposeAll(c) ==
  /\ MayCall(c)
  /\ \E order \in resolveDependencyOrder :
       begin(c, NoCall, [Call("disposeAll") EXCEPT !.rest = order], c)
  /\ UNCHANGED <<registered, st, gone, subs>>

-----------------------------------------------------------------------------
(* The call of c ends, or goes to its next await.                          *)
becomes(c, o, next) == op' = [op EXCEPT ![c] = o] /\ thread' = next

(* An error ends the call; disposeAll collects it and goes on.             *)
Failed(c, e) ==
  IF op[c].kind = "disposeAll"
  THEN [op[c] EXCEPT !.at = "next", !.plan = << >>, !.phase = NoPhase, !.failed = @ \cup {e}]
  ELSE Idle

(* Mutant: the state a phase is started from is not checked.               *)
performPhaseUnchecked(c, e) ==
  becomes(c, [op[c] EXCEPT !.at = "callback", !.phase = [ext |-> e, before |-> st[e]]], NoCall)

(***************************************************************************)
(* performPhase up to the callback it awaits.                              *)
(***************************************************************************)
performPhase(c, e) ==
  IF e \in registered /\ st[e] \in Allowed(op[c].kind)
  THEN becomes(c, [op[c] EXCEPT !.at = "callback", !.phase = [ext |-> e, before |-> st[e]]], NoCall)
  ELSE becomes(c, Failed(c, e), NoCall)

(***************************************************************************)
(* activateOne: the awaited dependency must be active now; then the next   *)
(* dependency is activated, or the extension itself.                       *)
(***************************************************************************)
activateOne(c) ==
  LET fs == op[c].frames
      f  == Last(fs)
      d  == DependsOn[f.ext][f.dep + 1]
      waiting == [op[c] EXCEPT !.frames[Len(fs)].dep = f.dep + 1, !.seen = @ \cup {d}] IN
  /\ Runs(c) /\ op[c].kind = "activate"
  /\ IF f.dep > 0 /\ st[DependsOn[f.ext][f.dep]] # "active" THEN becomes(c, Idle, NoCall)
     ELSE IF f.dep = Len(DependsOn[f.ext]) THEN performPhase(c, f.ext)
     ELSE IF d \in op[c].seen \/ (d \in registered /\ st[d] = "active") THEN becomes(c, waiting, NoCall)
     ELSE IF d \in registered /\ st[d] \in {"loaded", "inactive"}
     THEN becomes(c, [waiting EXCEPT !.frames = Append(@, Frame(d))], c)
     ELSE becomes(c, Idle, NoCall)
  /\ UNCHANGED <<registered, st, gone, subs, raced>>

(* Extensions the loops of deactivate and disposeOne pass over.            *)
Skips(k, e) == IF k = "deactivate" THEN st[e] # "active" ELSE st[e] = "disposed"

(***************************************************************************)
(* The next of the dependents collected when the call was made.            *)
(***************************************************************************)
nextTarget(c) ==
  LET o == op[c] IN
  /\ Runs(c) /\ o.plan # << >>
  /\ IF ~Skips(o.kind, Head(o.plan)) THEN performPhase(c, Head(o.plan))
     ELSE becomes(c, [o EXCEPT !.plan = Tail(@)], IF Len(o.plan) = 1 THEN NoCall ELSE c)
  /\ UNCHANGED <<registered, st, gone, subs, raced>>

callEnds(c) ==
  /\ Runs(c) /\ op[c].kind # "activate" /\ op[c].plan = << >> /\ op[c].rest = << >>
  /\ becomes(c, Idle, NoCall)
  /\ UNCHANGED <<registered, st, gone, subs, raced>>

(***************************************************************************)
(* disposeAll disposes one extension after the other.                      *)
(***************************************************************************)
disposeNext(c) ==
  LET o == op[c] IN
  LET e == Head(o.rest)
      on == [o EXCEPT !.rest = Tail(@)] IN
  /\ Runs(c) /\ o.plan = << >> /\ o.rest # << >>
  /\ IF AlreadyDisposed(e)
     THEN st' = [st EXCEPT ![e] = "disposed"] /\ becomes(c, on, NoCall)
     ELSE /\ IF st[e] = "unknown" \/ e \notin registered
             THEN becomes(c, [on EXCEPT !.failed = @ \cup {e}], NoCall)
             ELSE \E plan \in collectDependents(e) : becomes(c, [on EXCEPT !.plan = plan], c)
          /\ UNCHANGED st
  /\ UNCHANGED <<registered, gone, subs, raced>>

(* Mutant: the outermost activateOne goes round once more.                 *)
AfterReturnsTwice(c) ==
  LET o == [op[c] EXCEPT !.at = "next", !.phase = NoPhase] IN
  CASE o.kind = "load" -> Idle
    [] o.kind = "activate" -> [o EXCEPT !.frames = Front(@)]
    [] OTHER -> [o EXCEPT !.plan = Tail(@)]

(* What the call does after a phase of its own has ended well.             *)
After(c) ==
  LET o == [op[c] EXCEPT !.at = "next", !.phase = NoPhase] IN
  CASE o.kind = "load" -> Idle
    [] o.kind = "activate" -> IF Len(o.frames) = 1 THEN Idle ELSE [o EXCEPT !.frames = Front(@)]
    [] OTHER -> [o EXCEPT !.plan = Tail(@)]

(* createScopedHost tracks the handlers an extension puts on the bus, in   *)
(* init or activate, until releaseSubscriptions.                           *)
trackSubscription(c, subscribes) ==
  /\ subscribes => op[c].kind \in {"load", "activate"}
  /\ subs' = IF subscribes THEN subs \cup {op[c].phase.ext} ELSE subs
releaseSubscriptions(e) == subs' = subs \ {e}

(***************************************************************************)
(* The rest of performPhase when the callback resolves: the state is set   *)
(* whatever it is by now.  init and activate may have subscribed to events.*)
(***************************************************************************)
phaseEnds(c, subscribes) ==
  LET e == op[c].phase.ext
      k == op[c].kind IN
  /\ op[c].at = "callback" /\ thread = NoCall
  /\ st' = [st EXCEPT ![e] = NextState(k)]
  /\ IF PhaseOf(k) = "dispose" THEN ~subscribes /\ releaseSubscriptions(e) /\ gone' = gone \cup {e}
     ELSE trackSubscription(c, subscribes) /\ UNCHANGED gone
  /\ becomes(c, After(c), NoCall)
  /\ UNCHANGED <<registered, raced>>

(***************************************************************************)
(* The callback rejects: the state it was started from is put back.        *)
(***************************************************************************)
phaseFails(c, subscribes) ==
  LET e == op[c].phase.ext
      k == op[c].kind IN
  /\ op[c].at = "callback" /\ thread = NoCall
  /\ trackSubscription(c, subscribes)
  /\ st' = [st EXCEPT ![e] = op[c].phase.before]
  /\ becomes(c, IF k = "load" THEN [op[c] EXCEPT !.at = "cleanup"] ELSE Failed(c, e), NoCall)
  /\ UNCHANGED <<registered, gone, raced>>

(* load's own catch, one await later.                                      *)
loadFails(c) ==
  LET e == op[c].phase.ext IN
  /\ op[c].at = "cleanup" /\ thread = NoCall
  /\ registered' = registered \ {e}
  /\ st' = [st EXCEPT ![e] = "unknown"]
  /\ becomes(c, Idle, NoCall)
  /\ UNCHANGED <<gone, subs, raced>>

step(c) ==
  \/ activateOne(c) \/ nextTarget(c) \/ callEnds(c) \/ disposeNext(c) \/ loadFails(c)
  \/ \E subscribes \in BOOLEAN : phaseEnds(c, subscribes) \/ phaseFails(c, subscribes)

Next ==
  \/ \E c \in Calls : step(c) \/ disposeAll(c)
  \/ \E c \in Calls, e \in Ext : load(c, e) \/ activate(c, e) \/ deactivate(c, e) \/ dispose(c, e)
  \/ \E e \in Ext : disposeAgain(e)

Spec == Init /\ [][Next]_vars
-----------------------------------------------------------------------------
TypeOK ==
  /\ registered \subseteq Ext /\ gone \subseteq Ext /\ subs \subseteq Ext
  /\ st \in [Ext -> States]
  /\ thread \in Calls \cup {NoCall} /\ raced \in BOOLEAN
  /\ \A c \in Calls :
       /\ op[c].kind \in Kinds \cup {"idle"} /\ op[c].at \in {"idle", "next", "callback", "cleanup"}
       /\ (op[c].kind = "idle") = (op[c].at = "idle")
       /\ op[c].at \in {"callback", "cleanup"} =>
            op[c].phase.ext \in Ext /\ op[c].phase.before \in States
       /\ Range(op[c].plan) \cup Range(op[c].rest) \cup op[c].failed \cup op[c].seen \subseteq Ext
       /\ \A i \in DOMAIN op[c].frames : op[c].frames[i].ext \in op[c].seen
       /\ op[c].kind = "activate" => op[c].frames # << >>

(***************************************************************************)
(* Whatever is loaded at the same time, as long as calls that activate,    *)
(* deactivate or dispose do not overlap: an active extension never finds a *)
(* dependency inactive, not while a teardown is under way and not after    *)
(* one has failed half way (activateOne, collectDependents).               *)
(***************************************************************************)
ActiveNeedsActiveDeps ==
  ~raced => \A e \in Ext : st[e] = "active" => \A d \in Deps(e) : st[d] = "active"

(***************************************************************************)
(* Disposal is final: a disposed extension stays disposed and has no       *)
(* handler left on the event bus (performPhase, disposeOne).               *)
(***************************************************************************)
DisposedIsFinal ==
  [][~raced' => \A e \in Ext : st[e] = "disposed" =>
       st'[e] = "disposed" /\ e \notin subs' /\ e \in gone']_vars

(***************************************************************************)
(* A disposeAll that ends has disposed of every extension but those with a *)
(* dependent (or themselves) whose dispose callback failed: no failure     *)
(* stops the sweep, and nothing is left over on the quiet (disposeAll).    *)
(***************************************************************************)
DisposeAllReachesAll ==
  [][\A c \in Calls : op[c].kind = "disposeAll" /\ op'[c].kind = "idle" /\ ~raced =>
       \A e \in registered : st[e] # "disposed" => DependentClosure(e) \cap op[c].failed # {}]_vars
=============================================================================
