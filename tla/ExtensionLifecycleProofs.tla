---------------------- MODULE ExtensionLifecycleProofs ----------------------
(***************************************************************************)
(* The lifecycle manager with any extensions, any acyclic dependencies and *)
(* any number of calls that overlap.  Types, the first half of the         *)
(* invariant, holds of all behaviours; the second, Calm, as long as no     *)
(* calls have raced: it says who may overlap whom, that the callback of a  *)
(* phase runs for an extension in the state the phase starts from, that    *)
(* the frames of an activate have activated what they have passed, that a  *)
(* plan holds every active dependent of what is left of it, and that a     *)
(* disposeAll has each extension disposed, still to come, or below one     *)
(* that failed.                                                            *)
(***************************************************************************)
EXTENDS ExtensionLifecycle, FiniteSetTheorems, TLAPS

(***************************************************************************)
(* Sequences: the range of a tail, of an end, of an appended one.          *)
(***************************************************************************)
LEMMA TailFacts ==
  ASSUME NEW S, NEW s \in Seq(S), s # << >>
  PROVE  /\ Tail(s) \in Seq(S) /\ Len(Tail(s)) = Len(s) - 1
         /\ Head(s) \in S /\ Head(s) = s[1]
         /\ \A i \in DOMAIN Tail(s) : Tail(s)[i] = s[i + 1]
         /\ Range(s) = {Head(s)} \cup Range(Tail(s))
<1>1. /\ Tail(s) \in Seq(S) /\ Len(Tail(s)) = Len(s) - 1 /\ Head(s) \in S /\ Head(s) = s[1]
      /\ \A i \in DOMAIN Tail(s) : Tail(s)[i] = s[i + 1]
  OBVIOUS
<1>2. Len(s) \in Nat \ {0} /\ DOMAIN s = 1..Len(s) /\ DOMAIN Tail(s) = 1..(Len(s) - 1)
  OBVIOUS
<1>3. ASSUME NEW x \in Range(s) PROVE x \in {Head(s)} \cup Range(Tail(s))
  <2>1. PICK i \in DOMAIN s : x = s[i]
    BY <1>3 DEF Range
  <2>2. CASE i = 1
    BY <2>1, <2>2, <1>1
  <2>3. CASE i # 1
    <3>1. i - 1 \in DOMAIN Tail(s) /\ Tail(s)[i - 1] = s[i]
      BY <1>1, <1>2, <2>3
    <3> QED
      BY <2>1, <3>1 DEF Range
  <2> QED
    BY <2>2, <2>3
<1>4. ASSUME NEW x \in Range(Tail(s)) PROVE x \in Range(s)
  <2>1. PICK i \in DOMAIN Tail(s) : x = Tail(s)[i]
    BY <1>4 DEF Range
  <2>2. i + 1 \in DOMAIN s /\ x = s[i + 1]
    BY <1>1, <1>2, <2>1
  <2> QED
    BY <2>2 DEF Range
<1>5. Head(s) \in Range(s)
  BY <1>1, <1>2 DEF Range
<1> QED
  BY <1>1, <1>3, <1>4, <1>5

LEMMA SeqElement ==
  ASSUME NEW S, NEW s \in Seq(S), NEW i \in DOMAIN s
  PROVE  s[i] \in S
OBVIOUS

LEMMA RangeType ==
  ASSUME NEW S, NEW s \in Seq(S)
  PROVE  Range(s) \subseteq S /\ (s # << >> => Last(s) \in Range(s)) /\ Range(<< >>) = {}
BY DEF Range, Last

(***************************************************************************)
(* A sequence of SetToSeqs has each member of the set.                     *)
(***************************************************************************)
LEMMA SeqsOfSet ==
  ASSUME NEW S, IsFiniteSet(S), NEW s \in SetToSeqs(S)
  PROVE  s \in Seq(S) /\ Range(s) = S
<1> DEFINE D == 1..Cardinality(S)
<1>1. Cardinality(S) \in Nat
  BY FS_CardinalityType
<1>2. s \in [D -> S] /\ \A i, j \in D : i # j => s[i] # s[j]
  BY DEF SetToSeqs
<1>3. s \in Injection(D, S)
  BY <1>2 DEF Injection, IsInjective
<1>4. Cardinality(D) = Cardinality(S)
  BY <1>1, FS_Interval
<1>5. s \in Surjection(D, S)
  BY <1>3, <1>4, FS_Injection
<1>6. Range(s) = S
  BY <1>2, <1>5 DEF Surjection, Range
<1> QED
  BY <1>1, <1>2, <1>6

(***************************************************************************)
(* What a dependent closure is: the least set with the extension that is   *)
(* closed under dependents is one, so that CHOOSE finds one.               *)
(***************************************************************************)
LEMMA ClosureFacts ==
  ASSUME registered \subseteq Ext, NEW e \in Ext
  PROVE  /\ DependentClosure(e) \subseteq registered \cup {e}
         /\ e \in DependentClosure(e) /\ ClosedUnderDependents(DependentClosure(e))
         /\ \A x \in DependentClosure(e) \ {e} : Deps(x) \cap DependentClosure(e) # {}
         /\ IsFiniteSet(DependentClosure(e))
<1> DEFINE Closures == {T \in SUBSET (registered \cup {e}) : e \in T /\ ClosedUnderDependents(T)}
           L == {x \in registered \cup {e} : \A T \in Closures : x \in T}
           Good(S) == /\ e \in S /\ ClosedUnderDependents(S)
                      /\ \A x \in S \ {e} : Deps(x) \cap S # {}
<1>1. L \in SUBSET (registered \cup {e}) /\ e \in L
  OBVIOUS
<1>2. ClosedUnderDependents(L)
  BY DEF ClosedUnderDependents
<1>3. ASSUME NEW x \in L \ {e}, Deps(x) \cap L = {} PROVE FALSE
  <2>1. L \ {x} \in Closures
    BY <1>1, <1>2, <1>3 DEF ClosedUnderDependents
  <2> QED
    BY <1>3, <2>1
<1>4. \E S \in SUBSET (registered \cup {e}) : Good(S)
  BY <1>1, <1>2, <1>3
<1>5. DependentClosure(e) \in SUBSET (registered \cup {e}) /\ Good(DependentClosure(e))
  <2> HIDE DEF Good
  <2>1. DependentClosure(e) = CHOOSE S \in SUBSET (registered \cup {e}) : Good(S)
    BY DEF DependentClosure, Good
  <2> QED
    BY <1>4, <2>1
<1>6. IsFiniteSet(registered \cup {e})
  BY LifecycleAssumption, FS_Subset
<1> QED
  BY <1>5, <1>6, FS_Subset

(***************************************************************************)
(* No extension depends on itself, and none is depended on by all others   *)
(* of a set it is in.                                                      *)
(***************************************************************************)
LEMMA DepsType == \A e \in Ext : /\ DependsOn[e] \in Seq(Ext) /\ Deps(e) \subseteq Ext /\ e \notin Deps(e)
                                 /\ \A i \in 1..Len(DependsOn[e]) : DependsOn[e][i] \in Deps(e)
<1> SUFFICES ASSUME NEW e \in Ext
             PROVE  /\ DependsOn[e] \in Seq(Ext) /\ Deps(e) \subseteq Ext /\ e \notin Deps(e)
                    /\ \A i \in 1..Len(DependsOn[e]) : DependsOn[e][i] \in Deps(e)
  OBVIOUS
<1>1. DependsOn[e] \in Seq(Ext)
  BY LifecycleAssumption
<1>2. Deps(e) \subseteq Ext /\ \A i \in 1..Len(DependsOn[e]) : DependsOn[e][i] \in Deps(e)
  BY <1>1 DEF Deps, Range
<1>3. {e} \in (SUBSET Ext) \ {{}} /\ Deps(e) \subseteq DependsOnAll({e})
  <2>1. \A y \in Deps(e) : y \in DependsOnAll({e})
    BY DEF DependsOnAll
  <2>2. {e} \in SUBSET Ext /\ {e} # {}
    OBVIOUS
  <2>3. Deps(e) \subseteq DependsOnAll({e})
    BY <2>1
  <2> QED
    BY <2>2, <2>3
<1>4. e \notin Deps(e)
  BY <1>3, LifecycleAssumption
<1> QED
  BY <1>1, <1>2, <1>4

(***************************************************************************)
(* A plan is a sequence of the closure, dependents first, with the         *)
(* extension itself at its end.                                            *)
(***************************************************************************)
PlanOf(e, s) ==
  /\ s \in Seq(Ext) /\ Range(s) = DependentClosure(e) /\ s # << >> /\ Last(s) = e
  /\ \A i, j \in DOMAIN s : s[i] \in Deps(s[j]) => j < i

LEMMA PlanFacts ==
  ASSUME registered \subseteq Ext, NEW e \in Ext, NEW s \in collectDependents(e)
  PROVE  PlanOf(e, s)
<1> DEFINE C == DependentClosure(e)
<1>1. C \subseteq Ext /\ e \in C /\ IsFiniteSet(C) /\ \A x \in C \ {e} : Deps(x) \cap C # {}
  BY ClosureFacts
<1>2. s \in SetToSeqs(C) /\ \A i, j \in DOMAIN s : s[i] \in Deps(s[j]) => j < i
  BY DEF collectDependents, DependentsFirst
<1>3. s \in Seq(C) /\ Range(s) = C
  BY <1>1, <1>2, SeqsOfSet
<1>4. s # << >> /\ Last(s) \in C
  BY <1>1, <1>3, RangeType
<1>5. Last(s) = e
  <2> SUFFICES ASSUME Last(s) # e PROVE FALSE
    OBVIOUS
  <2>1. PICK y \in C : y \in Deps(Last(s))
    BY <1>1, <1>4
  <2>2. PICK i \in DOMAIN s : s[i] = y
    BY <1>3, <2>1 DEF Range
  <2>3. Len(s) \in DOMAIN s /\ Last(s) = s[Len(s)] /\ i <= Len(s)
    BY <1>3, <1>4, <2>2 DEF Last
  <2> QED
    BY <1>2, <1>3, <2>1, <2>2, <2>3
<1>6. s \in Seq(Ext)
  BY <1>1, <1>3
<1> QED
  BY <1>2, <1>3, <1>4, <1>5, <1>6 DEF PlanOf

-----------------------------------------------------------------------------
(***************************************************************************)
(* The inductive invariant.  Types: what each call is doing hangs together *)
(* whatever overlaps.                                                      *)
(***************************************************************************)
Phases == [ext : Ext, before : States]
Ops ==
  [kind : Kinds \cup {"idle"}, at : {"idle", "next", "callback", "cleanup"}, plan : Seq(Ext),
   frames : Seq([ext : Ext, dep : Nat]), seen : SUBSET Ext, phase : Phases \cup {NoPhase},
   rest : Seq(Ext), failed : SUBSET Ext]

Planned == {"deactivate", "dispose", "disposeAll"}

FramesFit(o) ==
  /\ o.frames # << >> /\ o.plan = << >>
  /\ \A i \in DOMAIN o.frames :
       o.frames[i].ext \in o.seen /\ o.frames[i].dep <= Len(DependsOn[o.frames[i].ext])
  /\ o.at = "callback" =>
       Last(o.frames).ext = o.phase.ext /\ Last(o.frames).dep = Len(DependsOn[o.phase.ext])

Shape(o) ==
  /\ o.kind = "idle" <=> o.at = "idle"
  /\ o.kind = "idle" => o = Idle
  /\ o.at \in {"callback", "cleanup"} => o.phase \in Phases
  /\ o.at = "cleanup" => o.kind = "load"
  /\ o.kind = "load" => o.at \in {"callback", "cleanup"} /\ o.plan = <<o.phase.ext>>
  /\ o.kind = "activate" => FramesFit(o)
  /\ o.kind \in Planned /\ o.at = "callback" => o.plan # << >> /\ Head(o.plan) = o.phase.ext
  /\ o.kind # "disposeAll" => o.rest = << >>
  /\ o.kind # "activate" => o.frames = << >>

Types ==
  /\ registered \subseteq Ext /\ gone \subseteq Ext /\ subs \subseteq Ext
  /\ st \in [Ext -> States]
  /\ thread \in Calls \cup {NoCall} /\ raced \in BOOLEAN
  /\ op \in [Calls -> Ops]
  /\ \A c \in Calls : Shape(op[c])

(***************************************************************************)
(* As long as no calls have raced: who may overlap whom, what the states   *)
(* of the extensions agree with, and what each call may count on.          *)
(***************************************************************************)
OverlapOK(c, d) ==
  /\ op[c].kind = "load" \/ op[d].kind = "load"
  /\ op[c].kind # "disposeAll" /\ op[d].kind # "disposeAll"
  /\ op[c].kind = "load" /\ op[d].kind = "load" => op[c].plan # op[d].plan

Overlaps == \A c, d \in Calls : c # d /\ Busy(c) /\ Busy(d) => OverlapOK(c, d)

Known == \A e \in Ext :
  /\ st[e] # "unknown" => e \in registered
  /\ e \in gone <=> st[e] = "disposed"
  /\ e \in gone => e \notin subs

DepsActive == \A e \in Ext : st[e] = "active" => \A d \in Deps(e) : st[d] = "active"

PhaseOK(c) ==
  /\ op[c].at = "callback" =>
       st[op[c].phase.ext] = op[c].phase.before /\ op[c].phase.before \in Allowed(op[c].kind)
  /\ op[c].at = "cleanup" => st[op[c].phase.ext] = "unknown"
  /\ op[c].kind = "load" => op[c].phase.ext \in registered

FramesOK(c) ==
  op[c].kind = "activate" =>
    /\ \A i \in DOMAIN op[c].frames : \A j \in 1..(op[c].frames[i].dep - 1) :
         st[DependsOn[op[c].frames[i].ext][j]] = "active"
    /\ op[c].at = "callback" => \A d \in Deps(op[c].phase.ext) : st[d] = "active"

PlanOK(c) ==
  op[c].kind \in Planned =>
    /\ \A d \in Range(op[c].plan), e \in Ext : st[e] = "active" /\ d \in Deps(e) => e \in Range(op[c].plan)
    /\ \A i, j \in DOMAIN op[c].plan : op[c].plan[i] \in Deps(op[c].plan[j]) => j < i

SweepOK(c) ==
  op[c].kind = "disposeAll" =>
    /\ \A e \in Ext : op[c].plan # << >> /\ e = Last(op[c].plan) => Range(op[c].plan) \subseteq DependentClosure(e)
    /\ \A e \in registered :
         \/ st[e] = "disposed" \/ e \in Range(op[c].rest) \/ DependentClosure(e) \cap op[c].failed # {}
         \/ op[c].plan # << >> /\ e = Last(op[c].plan)

CallOK(c) == PhaseOK(c) /\ FramesOK(c) /\ PlanOK(c) /\ SweepOK(c)

Calm == Overlaps /\ Known /\ DepsActive /\ \A c \in Calls : CallOK(c)

LifecycleInv == Types /\ (~raced => Calm)

-----------------------------------------------------------------------------
(***************************************************************************)
(* The three tables, kind by kind.                                         *)
(***************************************************************************)
LEMMA KindFacts ==
  /\ Allowed("load") = {"unknown"} /\ Allowed("activate") = {"loaded", "inactive"}
  /\ Allowed("deactivate") = {"active"}
  /\ \A k \in {"dispose", "disposeAll"} : Allowed(k) = {"loaded", "active", "inactive"}
  /\ NextState("load") = "loaded" /\ NextState("activate") = "active"
  /\ NextState("deactivate") = "inactive"
  /\ \A k \in {"dispose", "disposeAll"} : NextState(k) = "disposed"
  /\ PhaseOf("load") = "init" /\ PhaseOf("activate") = "activate" /\ PhaseOf("deactivate") = "deactivate"
  /\ \A k \in {"dispose", "disposeAll"} : PhaseOf(k) = "dispose"
BY DEF Allowed, NextState, PhaseOf

LEMMA IdleFacts ==
  /\ Idle \in Ops /\ Shape(Idle) /\ Idle.kind = "idle" /\ Idle.at = "idle" /\ Idle.plan = << >>
  /\ Idle.rest = << >> /\ Idle.failed = {} /\ Idle.seen = {} /\ Idle.phase = NoPhase /\ Idle.frames = << >>
BY DEF Idle, Ops, Shape, Planned, NoPhase

(***************************************************************************)
(* A call that goes on as o leaves the other calls alone.                  *)
(***************************************************************************)
LEMMA Becomes ==
  ASSUME Types, NEW c \in Calls, NEW o \in Ops, Shape(o), op' = [op EXCEPT ![c] = o]
  PROVE  /\ op' \in [Calls -> Ops] /\ op'[c] = o
         /\ \A d \in Calls : d # c => op'[d] = op[d]
         /\ \A d \in Calls : Shape(op[d])'
<1>1. op' \in [Calls -> Ops] /\ op'[c] = o /\ \A d \in Calls : d # c => op'[d] = op[d]
  BY DEF Types
<1>2. ASSUME NEW d \in Calls PROVE Shape(op[d])'
  <2>1. CASE d = c
    BY <1>1, <2>1 DEF Shape, FramesFit
  <2>2. CASE d # c
    <3>1. Shape(op[d]) /\ op'[d] = op[d]
      BY <1>1, <2>2 DEF Types
    <3> QED
      BY <3>1 DEF Shape, FramesFit
  <2> QED
    BY <2>1, <2>2
<1> QED
  BY <1>1, <1>2

(***************************************************************************)
(* The records a call goes on as.                                          *)
(***************************************************************************)
InPhase(c, e) == [op[c] EXCEPT !.at = "callback", !.phase = [ext |-> e, before |-> st[e]]]

LEMMA PhaseStarts ==
  ASSUME Types, NEW c \in Calls, NEW e \in Ext, op[c].kind \in {"activate"} \cup Planned,
         op[c].kind = "activate" =>
           Last(op[c].frames).ext = e /\ Last(op[c].frames).dep = Len(DependsOn[e]),
         op[c].kind \in Planned => op[c].plan # << >> /\ Head(op[c].plan) = e
  PROVE  /\ InPhase(c, e) \in Ops /\ Shape(InPhase(c, e)) /\ InPhase(c, e).kind = op[c].kind
         /\ InPhase(c, e).at = "callback" /\ InPhase(c, e).plan = op[c].plan
         /\ InPhase(c, e).frames = op[c].frames
         /\ InPhase(c, e).rest = op[c].rest /\ InPhase(c, e).failed = op[c].failed
         /\ InPhase(c, e).phase = [ext |-> e, before |-> st[e]]
<1> DEFINE o == InPhase(c, e)
<1>1. op[c] \in Ops /\ Shape(op[c]) /\ [ext |-> e, before |-> st[e]] \in Phases
  BY DEF Types, Phases
<1>2. /\ o \in Ops /\ o.kind = op[c].kind /\ o.at = "callback" /\ o.plan = op[c].plan
      /\ o.frames = op[c].frames /\ o.rest = op[c].rest /\ o.failed = op[c].failed
      /\ o.phase = [ext |-> e, before |-> st[e]] /\ o.seen = op[c].seen
  BY <1>1 DEF Ops, InPhase
<1> HIDE DEF o
<1>3. o.kind = "activate" => FramesFit(o)
  BY <1>1, <1>2 DEF Shape, FramesFit
<1>4. Shape(o)
  BY <1>1, <1>2, <1>3 DEF Shape, Planned
<1> QED
  BY <1>2, <1>4 DEF o

LEMMA FailedFacts ==
  ASSUME Types, NEW c \in Calls, NEW e \in Ext, op[c].kind \in {"activate"} \cup Planned, NEW o, o = Failed(c, e)
  PROVE  /\ o \in Ops /\ Shape(o)
         /\ op[c].kind # "disposeAll" => o = Idle
         /\ op[c].kind = "disposeAll" =>
              /\ o.kind = "disposeAll" /\ o.at = "next" /\ o.plan = << >> /\ o.rest = op[c].rest
              /\ o.failed = op[c].failed \cup {e}
<1>1. op[c] \in Ops /\ Shape(op[c])
  BY DEF Types
<1>2. CASE op[c].kind # "disposeAll"
  BY <1>2, IdleFacts DEF Failed
<1>3. CASE op[c].kind = "disposeAll"
  <2>1. o = [op[c] EXCEPT !.at = "next", !.plan = << >>, !.phase = NoPhase, !.failed = @ \cup {e}]
    BY <1>3 DEF Failed
  <2>2. /\ o \in Ops /\ o.kind = "disposeAll" /\ o.at = "next" /\ o.plan = << >> /\ o.rest = op[c].rest
        /\ o.failed = op[c].failed \cup {e} /\ o.frames = << >>
    <3>1. op[c].failed \cup {e} \in SUBSET Ext /\ << >> \in Seq(Ext)
      BY <1>1 DEF Ops
    <3>2. op[c].frames = << >>
      BY <1>1, <1>3 DEF Shape
    <3> QED
      BY <1>1, <1>3, <2>1, <3>1, <3>2 DEF Ops
  <2>3. Shape(o)
    BY <2>2 DEF Shape
  <2> QED
    BY <1>3, <2>2, <2>3
<1> QED
  BY <1>2, <1>3

(* A planned call goes on to the next extension of its plan.               *)
LEMMA PlanGoesOn ==
  ASSUME Types, NEW c \in Calls, op[c].kind \in Planned, op[c].plan # << >>,
         NEW o \in {[op[c] EXCEPT !.plan = Tail(@)],
                    [op[c] EXCEPT !.at = "next", !.phase = NoPhase, !.plan = Tail(@)]},
         op[c].at \in {"next", "callback"}, op[c].at = "callback" => o.at = "next"
  PROVE  /\ o \in Ops /\ Shape(o) /\ o.kind = op[c].kind /\ o.at = "next" /\ o.plan = Tail(op[c].plan)
         /\ o.rest = op[c].rest /\ o.failed = op[c].failed
<1>1. op[c] \in Ops /\ Shape(op[c]) /\ Tail(op[c].plan) \in Seq(Ext)
  BY TailFacts DEF Types, Ops
<1>2. /\ o \in Ops /\ o.kind = op[c].kind /\ o.at = "next" /\ o.plan = Tail(op[c].plan)
      /\ o.rest = op[c].rest /\ o.failed = op[c].failed /\ o.frames = op[c].frames
  BY <1>1 DEF Ops
<1>3. Shape(o)
  BY <1>1, <1>2 DEF Shape, Planned
<1> QED
  BY <1>2, <1>3

(***************************************************************************)
(* What the other calls count on, across a step of c.                      *)
(***************************************************************************)
LEMMA ClosureSame ==
  ASSUME registered' = registered, NEW e
  PROVE  DependentClosure(e)' = DependentClosure(e)
BY DEF DependentClosure, ClosedUnderDependents

LEMMA CallSame ==
  ASSUME NEW d \in Calls, CallOK(d), op'[d] = op[d], st' = st, registered' = registered
  PROVE  CallOK(d)'
<1>1. PhaseOK(d)' /\ FramesOK(d)' /\ PlanOK(d)'
  BY DEF CallOK, PhaseOK, FramesOK, PlanOK
<1>2. SweepOK(d)'
  <2>1. \A e \in registered : DependentClosure(e)' = DependentClosure(e)
    BY ClosureSame
  <2>2. \A e \in Ext : DependentClosure(e)' = DependentClosure(e)
    BY ClosureSame
  <2> QED
    BY <2>1, <2>2 DEF CallOK, SweepOK
<1> QED
  BY <1>1, <1>2 DEF CallOK

LEMMA OverlapsBegin ==
  ASSUME Types, Overlaps, NEW c \in Calls, ~Busy(c), NEW o \in Ops, NEW e, op'[c] = o,
         \A d \in Calls : d # c => op'[d] = op[d],
         ~ \E d \in Calls : Busy(d) /\ Interferes(o.kind, e, d),
         o.kind \in Kinds, o.kind = "load" => o.plan = <<e>>
  PROVE  Overlaps'
<1>1. ASSUME NEW d \in Calls, d # c, Busy(d) PROVE OverlapOK(c, d)' /\ OverlapOK(d, c)'
  <2>1. op'[d] = op[d] /\ ~Interferes(o.kind, e, d)
    BY <1>1
  <2> QED
    BY <2>1 DEF OverlapOK, Interferes
<1>2. ASSUME NEW d \in Calls, d # c, Busy(d)' PROVE Busy(d)
  BY <1>2 DEF Busy
<1>3. ASSUME NEW d1 \in Calls, NEW d2 \in Calls, d1 # d2, Busy(d1)', Busy(d2)' PROVE OverlapOK(d1, d2)'
  <2>1. CASE d1 = c \/ d2 = c
    BY <2>1, <1>1, <1>2, <1>3
  <2>2. CASE d1 # c /\ d2 # c
    <3>1. OverlapOK(d1, d2)
      BY <2>2, <1>2, <1>3 DEF Overlaps
    <3> QED
      BY <2>2, <3>1 DEF OverlapOK
  <2> QED
    BY <2>1, <2>2
<1> QED
  BY <1>3 DEF Overlaps

LEMMA OverlapsKept ==
  ASSUME Overlaps, NEW c \in Calls, \A d \in Calls : d # c => op'[d] = op[d],
         \/ op'[c].kind = "idle"
         \/ op'[c].kind = op[c].kind /\ (op[c].kind = "load" => op'[c].plan = op[c].plan)
  PROVE  Overlaps'
<1>1. ASSUME NEW d \in Calls, Busy(d)'
      PROVE  /\ Busy(d) /\ op'[d].kind = op[d].kind
             /\ op[d].kind = "load" => op'[d].plan = op[d].plan
  BY <1>1 DEF Busy
<1>2. ASSUME NEW d1 \in Calls, NEW d2 \in Calls, d1 # d2, Busy(d1)', Busy(d2)' PROVE OverlapOK(d1, d2)'
  <2>1. OverlapOK(d1, d2)
    BY <1>1, <1>2 DEF Overlaps
  <2> QED
    BY <1>1, <1>2, <2>1 DEF OverlapOK
<1> QED
  BY <1>2 DEF Overlaps

(***************************************************************************)
(* A step of c that leaves the extensions as they are.                     *)
(***************************************************************************)
LEMMA QuietStep ==
  ASSUME LifecycleInv, NEW c \in Calls, NEW o \in Ops, Shape(o), op' = [op EXCEPT ![c] = o],
         thread' \in Calls \cup {NoCall}, raced' \in BOOLEAN,
         st' = st, registered' = registered, gone' = gone, subs' = subs,
         ~raced' => ~raced /\ Overlaps' /\ CallOK(c)'
  PROVE  LifecycleInv'
<1>1. /\ op' \in [Calls -> Ops] /\ op'[c] = o
      /\ \A d \in Calls : d # c => op'[d] = op[d]
      /\ \A d \in Calls : Shape(op[d])'
  BY Becomes DEF LifecycleInv
<1>2. Types'
  BY <1>1 DEF LifecycleInv, Types
<1>3. ASSUME ~raced' PROVE Calm'
  <2>1. Calm /\ Overlaps' /\ CallOK(c)'
    BY <1>3 DEF LifecycleInv
  <2>2. ASSUME NEW d \in Calls PROVE CallOK(d)'
    BY <1>1, <2>1, <2>2, CallSame DEF Calm
  <2>3. Known' /\ DepsActive'
    BY <2>1 DEF Calm, Known, DepsActive
  <2> QED
    BY <2>1, <2>2, <2>3 DEF Calm
<1> QED
  BY <1>2, <1>3 DEF LifecycleInv

(***************************************************************************)
(* The calls that are made.                                                *)
(***************************************************************************)
LEMMA NewCall ==
  ASSUME NEW k \in Kinds
  PROVE  /\ Call(k).kind = k /\ Call(k).at = "next" /\ Call(k).plan = << >> /\ Call(k).rest = << >>
         /\ Call(k).failed = {} /\ Call(k).seen = {} /\ Call(k).phase = NoPhase /\ Call(k).frames = << >>
         /\ Call(k) \in Ops
<1>1. Call(k) = [Idle EXCEPT !.kind = k, !.at = "next"]
  BY DEF Call
<1>2. k # "idle"
  BY DEF Kinds
<1> QED
  BY <1>1, <1>2, IdleFacts DEF Ops

LEMMA ActivateKeeps ==
  ASSUME LifecycleInv, NEW c \in Calls, NEW e \in Ext, activate(c, e)
  PROVE  LifecycleInv'
<1> DEFINE o == [Call("activate") EXCEPT !.frames = <<Frame(e)>>, !.seen = {e}]
<1>1. /\ ~Busy(c) /\ op' = [op EXCEPT ![c] = o] /\ thread' = c
      /\ raced' = (raced \/ \E d \in Calls : Busy(d) /\ Interferes(o.kind, e, d))
      /\ registered' = registered /\ st' = st /\ gone' = gone /\ subs' = subs
  BY DEF activate, begin, MayCall
<1>2. Types /\ DependsOn[e] \in Seq(Ext)
  BY DepsType DEF LifecycleInv
<1>3. /\ o \in Ops /\ o.kind = "activate" /\ o.at = "next" /\ o.plan = << >> /\ o.rest = << >>
      /\ o.frames = <<Frame(e)>> /\ o.seen = {e}
  <2>1. Call("activate") \in Ops /\ Call("activate").kind = "activate" /\ Call("activate").at = "next"
        /\ Call("activate").plan = << >> /\ Call("activate").rest = << >>
    BY NewCall DEF Kinds
  <2>2. Frame(e) \in [ext : Ext, dep : Nat] /\ {e} \in SUBSET Ext
    BY DEF Frame
  <2>3. <<Frame(e)>> \in Seq([ext : Ext, dep : Nat])
    BY <2>2
  <2> QED
    BY <2>1, <2>2, <2>3 DEF Ops
<1>4. Frame(e).ext = e /\ Frame(e).dep = 0 /\ DOMAIN o.frames = {1} /\ o.frames[1] = Frame(e)
  BY <1>3 DEF Frame
<1>5. Shape(o)
  BY <1>2, <1>3, <1>4 DEF Shape, FramesFit, Planned
<1>6. op'[c] = o /\ \A d \in Calls : d # c => op'[d] = op[d]
  BY <1>1, <1>2, <1>3, <1>5, Becomes
<1>7. raced \in BOOLEAN /\ raced' \in BOOLEAN
  BY <1>1, <1>2 DEF Types
<1> HIDE DEF o
<1>8. CASE ~raced'
  <2>1. Calm /\ ~ \E d \in Calls : Busy(d) /\ Interferes(o.kind, e, d)
    BY <1>1, <1>7, <1>8 DEF LifecycleInv
  <2>2. Overlaps'
    BY <1>1, <1>2, <1>3, <1>6, <2>1, OverlapsBegin DEF Calm, Kinds
  <2>3. CallOK(c)'
    BY <1>3, <1>4, <1>6 DEF CallOK, PhaseOK, FramesOK, PlanOK, SweepOK, Planned
  <2> QED
    BY <1>1, <1>3, <1>5, <1>7, <2>1, <2>2, <2>3, QuietStep DEF LifecycleInv
<1> QED
  BY <1>1, <1>3, <1>5, <1>7, <1>8, QuietStep

LEMMA LoadKeeps ==
  ASSUME LifecycleInv, NEW c \in Calls, NEW e \in Ext, load(c, e)
  PROVE  LifecycleInv'
<1> DEFINE ph == [ext |-> e, before |-> "unknown"]
           o == [Call("load") EXCEPT !.plan = <<e>>, !.at = "callback", !.phase = ph]
<1>1. /\ ~Busy(c) /\ op' = [op EXCEPT ![c] = o] /\ thread' = NoCall /\ st[e] = "unknown"
      /\ raced' = (raced \/ \E d \in Calls : Busy(d) /\ Interferes(o.kind, e, d))
      /\ registered' = registered \cup {e} /\ st' = st /\ gone' = gone /\ subs' = subs
  BY DEF load, begin, MayCall, validateLoad
<1>2. Types /\ raced \in BOOLEAN /\ raced' \in BOOLEAN
  BY <1>1 DEF LifecycleInv, Types
<1>3. /\ o \in Ops /\ o.kind = "load" /\ o.at = "callback" /\ o.plan = <<e>> /\ o.rest = << >>
      /\ o.frames = << >> /\ o.phase = ph /\ ph \in Phases /\ ph.ext = e /\ ph.before = "unknown"
  <2>1. Call("load") \in Ops /\ Call("load").kind = "load" /\ Call("load").rest = << >>
        /\ Call("load").frames = << >>
    BY NewCall DEF Kinds
  <2>2. <<e>> \in Seq(Ext) /\ ph \in Phases
    BY DEF Phases, States
  <2> QED
    BY <2>1, <2>2 DEF Ops
<1> HIDE DEF o, ph
<1>4. Shape(o)
  BY <1>3 DEF Shape, FramesFit, Planned
<1>5. /\ op' \in [Calls -> Ops] /\ op'[c] = o /\ \A d \in Calls : d # c => op'[d] = op[d]
      /\ \A d \in Calls : Shape(op[d])'
  BY <1>1, <1>2, <1>3, <1>4, Becomes
<1>6. Types'
  BY <1>1, <1>2, <1>5 DEF Types
<1>7. ASSUME ~raced' PROVE Calm'
  <2>1. Calm /\ ~ \E d \in Calls : Busy(d) /\ Interferes(o.kind, e, d)
    BY <1>1, <1>2, <1>7 DEF LifecycleInv
  <2>2. Overlaps'
    BY <1>1, <1>2, <1>3, <1>5, <2>1, OverlapsBegin DEF Calm, Kinds
  <2>3. CallOK(c)'
    BY <1>1, <1>3, <1>5, KindFacts DEF CallOK, PhaseOK, FramesOK, PlanOK, SweepOK, Planned
  <2>4. ASSUME NEW d \in Calls, d # c PROVE CallOK(d)'
    <3>1. op'[d] = op[d] /\ CallOK(d)
      BY <1>5, <2>1, <2>4 DEF Calm
    <3>2. op[d].kind # "disposeAll"
      BY <2>1, <1>3 DEF Interferes, Busy
    <3> QED
      BY <1>1, <3>1, <3>2 DEF CallOK, PhaseOK, FramesOK, PlanOK, SweepOK
  <2>5. Known' /\ DepsActive'
    BY <1>1, <2>1 DEF Calm, Known, DepsActive
  <2> QED
    BY <2>2, <2>3, <2>4, <2>5 DEF Calm
<1> QED
  BY <1>6, <1>7 DEF LifecycleInv

(* deactivate and dispose: a call with a plan.                             *)
LEMMA PlannedCallKeeps ==
  ASSUME LifecycleInv, NEW c \in Calls, NEW e \in Ext, NEW k \in {"deactivate", "dispose"},
         NEW plan \in collectDependents(e), MayCall(c),
         begin(c, e, [Call(k) EXCEPT !.plan = plan], c), UNCHANGED <<registered, st, gone, subs>>
  PROVE  LifecycleInv'
<1> DEFINE o == [Call(k) EXCEPT !.plan = plan]
<1>1. /\ ~Busy(c) /\ op' = [op EXCEPT ![c] = o] /\ thread' = c
      /\ raced' = (raced \/ \E d \in Calls : Busy(d) /\ Interferes(o.kind, e, d))
      /\ registered' = registered /\ st' = st /\ gone' = gone /\ subs' = subs
  BY DEF begin, MayCall
<1>2. Types /\ raced \in BOOLEAN /\ raced' \in BOOLEAN /\ registered \subseteq Ext
  BY <1>1 DEF LifecycleInv, Types
<1>3. PlanOf(e, plan)
  BY <1>2, PlanFacts
<1>4. o \in Ops /\ o.kind = k /\ o.at = "next" /\ o.plan = plan /\ o.rest = << >> /\ o.frames = << >>
  <2>1. Call(k) \in Ops /\ Call(k).kind = k /\ Call(k).rest = << >> /\ Call(k).at = "next"
        /\ Call(k).frames = << >>
    BY NewCall DEF Kinds
  <2> QED
    BY <1>3, <2>1 DEF Ops, PlanOf
<1> HIDE DEF o
<1>5. Shape(o)
  BY <1>4 DEF Shape, FramesFit, Planned
<1>6. op'[c] = o /\ \A d \in Calls : d # c => op'[d] = op[d]
  BY <1>1, <1>2, <1>4, <1>5, Becomes
<1>7. CASE ~raced'
  <2>1. Calm /\ ~ \E d \in Calls : Busy(d) /\ Interferes(o.kind, e, d)
    BY <1>1, <1>2, <1>7 DEF LifecycleInv
  <2>2. Overlaps'
    BY <1>1, <1>2, <1>4, <1>6, <2>1, OverlapsBegin DEF Calm, Kinds
  <2>3. \A d \in Range(plan), x \in Ext : st[x] = "active" /\ d \in Deps(x) => x \in Range(plan)
    <3>1. Range(plan) = DependentClosure(e) /\ ClosedUnderDependents(DependentClosure(e))
      BY <1>2, <1>3, ClosureFacts DEF PlanOf
    <3>2. \A x \in Ext : st[x] = "active" => x \in registered
      BY <2>1 DEF Calm, Known
    <3> QED
      BY <3>1, <3>2 DEF ClosedUnderDependents
  <2>4. CallOK(c)'
    BY <1>1, <1>3, <1>4, <1>6, <2>3 DEF CallOK, PhaseOK, FramesOK, PlanOK, SweepOK, Planned, PlanOf
  <2> QED
    BY <1>1, <1>2, <1>4, <1>5, <2>1, <2>2, <2>4, QuietStep DEF LifecycleInv
<1> QED
  BY <1>1, <1>2, <1>4, <1>5, <1>7, QuietStep

LEMMA DisposeAllKeeps ==
  ASSUME LifecycleInv, NEW c \in Calls, disposeAll(c)
  PROVE  LifecycleInv'
<1>1. PICK order \in resolveDependencyOrder :
        begin(c, NoCall, [Call("disposeAll") EXCEPT !.rest = order], c)
  BY DEF disposeAll
<1> DEFINE o == [Call("disposeAll") EXCEPT !.rest = order]
<1>2. /\ ~Busy(c) /\ op' = [op EXCEPT ![c] = o] /\ thread' = c
      /\ raced' = (raced \/ \E d \in Calls : Busy(d) /\ Interferes(o.kind, NoCall, d))
      /\ registered' = registered /\ st' = st /\ gone' = gone /\ subs' = subs
  BY <1>1 DEF disposeAll, begin, MayCall
<1>3. Types /\ raced \in BOOLEAN /\ raced' \in BOOLEAN /\ registered \subseteq Ext
  BY <1>2 DEF LifecycleInv, Types
<1>4. order \in Seq(Ext) /\ Range(order) = registered
  <2>1. order \in SetToSeqs(registered)
    BY <1>1 DEF resolveDependencyOrder, DependentsFirst
  <2>2. IsFiniteSet(registered)
    BY <1>3, LifecycleAssumption, FS_Subset
  <2>3. order \in Seq(registered) /\ Range(order) = registered
    BY <2>1, <2>2, SeqsOfSet
  <2> QED
    BY <1>3, <2>3
<1>5. o \in Ops /\ o.kind = "disposeAll" /\ o.at = "next" /\ o.plan = << >> /\ o.rest = order
      /\ o.frames = << >>
  <2>1. Call("disposeAll") \in Ops /\ Call("disposeAll").kind = "disposeAll" /\ Call("disposeAll").plan = << >>
        /\ Call("disposeAll").at = "next" /\ Call("disposeAll").frames = << >>
    BY NewCall DEF Kinds
  <2> QED
    BY <1>4, <2>1 DEF Ops
<1> HIDE DEF o
<1>6. Shape(o)
  BY <1>5 DEF Shape, FramesFit, Planned
<1>7. op'[c] = o /\ \A d \in Calls : d # c => op'[d] = op[d]
  BY <1>2, <1>3, <1>5, <1>6, Becomes
<1>8. CASE ~raced'
  <2>1. Calm /\ ~ \E d \in Calls : Busy(d) /\ Interferes(o.kind, NoCall, d)
    BY <1>2, <1>3, <1>8 DEF LifecycleInv
  <2>2. Overlaps'
    BY <1>2, <1>3, <1>5, <1>7, <2>1, OverlapsBegin DEF Calm, Kinds
  <2>3. Range(<< >>) = {}
    BY DEF Range
  <2>4. CallOK(c)'
    BY <1>2, <1>4, <1>5, <1>7, <2>3 DEF CallOK, PhaseOK, FramesOK, PlanOK, SweepOK, Planned
  <2> QED
    BY <1>2, <1>3, <1>5, <1>6, <2>1, <2>2, <2>4, QuietStep DEF LifecycleInv
<1> QED
  BY <1>2, <1>3, <1>5, <1>6, <1>8, QuietStep

(***************************************************************************)
(* A dispose of an extension that is disposed, or was never there.         *)
(***************************************************************************)
LEMMA DisposeAgainKeeps ==
  ASSUME LifecycleInv, NEW e \in Ext, disposeAgain(e)
  PROVE  LifecycleInv'
<1>1. /\ e \in gone \/ st[e] = "disposed"
      /\ st' = [st EXCEPT ![e] = "disposed"] /\ registered' = registered /\ gone' = gone /\ subs' = subs
      /\ op' = op /\ thread' = thread /\ raced' = raced
  BY DEF disposeAgain, AlreadyDisposed
<1>2. Types'
  BY <1>1 DEF LifecycleInv, Types, States, Shape, FramesFit
<1>3. ASSUME ~raced' PROVE Calm'
  <2>1. Calm /\ st' = st
    <3>1. Calm
      BY <1>1, <1>3 DEF LifecycleInv
    <3>2. st[e] = "disposed"
      BY <1>1, <3>1 DEF Calm, Known
    <3> QED
      BY <1>1, <3>1, <3>2 DEF LifecycleInv, Types
  <2>2. \A d \in Calls : CallOK(d)'
    BY <1>1, <2>1, CallSame DEF Calm
  <2>3. Overlaps' /\ Known' /\ DepsActive'
    BY <1>1, <2>1 DEF Calm, Known, DepsActive, Overlaps, OverlapOK, Busy
  <2> QED
    BY <2>2, <2>3 DEF Calm
<1> QED
  BY <1>2, <1>3 DEF LifecycleInv

(***************************************************************************)
(* performPhase, for the last frame of activate or the head of a plan.     *)
(***************************************************************************)
LEMMA PerformPhaseKeeps ==
  ASSUME LifecycleInv, NEW c \in Calls, NEW e \in Ext, op[c].kind \in {"activate"} \cup Planned,
         op[c].at = "next",
         op[c].kind = "activate" =>
           /\ Last(op[c].frames).ext = e /\ Last(op[c].frames).dep = Len(DependsOn[e])
           /\ ~raced => \A d \in Deps(e) : st[d] = "active",
         op[c].kind \in Planned => op[c].plan # << >> /\ Head(op[c].plan) = e,
         performPhase(c, e), UNCHANGED <<registered, st, gone, subs, raced>>
  PROVE  LifecycleInv'
<1>1. registered' = registered /\ st' = st /\ gone' = gone /\ subs' = subs /\ raced' = raced
  OBVIOUS
<1>2. Types /\ raced' \in BOOLEAN /\ op[c] \in Ops /\ Shape(op[c])
  BY <1>1 DEF LifecycleInv, Types
<1>3. CASE e \in registered /\ st[e] \in Allowed(op[c].kind)
  <2> DEFINE o == InPhase(c, e)
  <2>1. op' = [op EXCEPT ![c] = o] /\ thread' = NoCall
    BY <1>3 DEF performPhase, becomes, InPhase
  <2>2. /\ o \in Ops /\ Shape(o) /\ o.kind = op[c].kind /\ o.at = "callback" /\ o.plan = op[c].plan
        /\ o.frames = op[c].frames /\ o.rest = op[c].rest /\ o.failed = op[c].failed
        /\ o.phase.ext = e /\ o.phase.before = st[e]
    <3>1. op[c].kind = "activate" => Last(op[c].frames).ext = e /\ Last(op[c].frames).dep = Len(DependsOn[e])
      OBVIOUS
    <3>2. o \in Ops
      BY <1>2, <3>1, PhaseStarts
    <3>3. o.phase = [ext |-> e, before |-> st[e]]
      BY <1>2, <3>1, PhaseStarts
    <3> QED
      BY <1>2, <3>1, <3>3, PhaseStarts
  <2> HIDE DEF o
  <2>3. op'[c] = o /\ \A d \in Calls : d # c => op'[d] = op[d]
    BY <1>2, <2>1, <2>2, Becomes
  <2>4. ASSUME ~raced' PROVE ~raced /\ Overlaps' /\ CallOK(c)'
    <3>1. Calm /\ CallOK(c)
      BY <1>1, <2>4 DEF LifecycleInv, Calm
    <3>2. Overlaps'
      BY <2>2, <2>3, <3>1, OverlapsKept DEF Calm, Planned
    <3>3. PhaseOK(c)' /\ FramesOK(c)' /\ PlanOK(c)'
      BY <1>1, <1>3, <2>2, <2>3, <2>4, <3>1 DEF CallOK, PhaseOK, FramesOK, PlanOK, Planned
    <3>4. SweepOK(c)'
      <4>1. \A x : DependentClosure(x)' = DependentClosure(x)
        BY <1>1, ClosureSame
      <4> QED
        BY <1>1, <2>2, <2>3, <3>1, <4>1 DEF CallOK, SweepOK
    <3> QED
      BY <1>1, <2>4, <3>2, <3>3, <3>4 DEF CallOK
  <2> QED
    BY <1>1, <1>2, <2>1, <2>2, <2>4, QuietStep
<1>4. CASE ~(e \in registered /\ st[e] \in Allowed(op[c].kind))
  <2> DEFINE o == Failed(c, e)
  <2>1. op' = [op EXCEPT ![c] = o] /\ thread' = NoCall
    BY <1>4 DEF performPhase, becomes
  <2>2. /\ o \in Ops /\ Shape(o)
        /\ op[c].kind # "disposeAll" => o = Idle
        /\ op[c].kind = "disposeAll" =>
             /\ o.kind = "disposeAll" /\ o.at = "next" /\ o.plan = << >> /\ o.rest = op[c].rest
             /\ o.failed = op[c].failed \cup {e}
    BY <1>2, FailedFacts
  <2> HIDE DEF o
  <2>3. op'[c] = o /\ \A d \in Calls : d # c => op'[d] = op[d]
    BY <1>2, <2>1, <2>2, Becomes
  <2>4. ASSUME ~raced' PROVE ~raced /\ Overlaps' /\ CallOK(c)'
    <3>1. Calm /\ CallOK(c)
      BY <1>1, <2>4 DEF LifecycleInv, Calm
    <3>2. Overlaps'
      BY <2>2, <2>3, <3>1, OverlapsKept, IdleFacts DEF Calm, Planned
    <3>3. CASE op[c].kind # "disposeAll"
      <4>1. op'[c] = Idle
        BY <2>2, <2>3, <3>3
      <4>2. CallOK(c)'
        BY <4>1, IdleFacts DEF CallOK, PhaseOK, FramesOK, PlanOK, SweepOK, Planned
      <4> QED
        BY <1>1, <2>4, <3>2, <4>2
    <3>4. CASE op[c].kind = "disposeAll"
      <4>1. PhaseOK(c)' /\ FramesOK(c)' /\ PlanOK(c)'
        BY <2>2, <2>3, <3>4 DEF PhaseOK, FramesOK, PlanOK, Planned, Range
      <4>2. SweepOK(c)'
        <5>1. \A x : DependentClosure(x)' = DependentClosure(x)
          BY <1>1, ClosureSame
        <5>2. \A y \in Ext : y = Last(op[c].plan) => e \in DependentClosure(y)
          <6>1. op[c].plan \in Seq(Ext) /\ op[c].plan # << >> /\ Head(op[c].plan) = e
            BY <1>2, <3>4 DEF Planned, Ops
          <6>2. e \in Range(op[c].plan)
            BY <6>1, TailFacts
          <6> QED
            BY <3>1, <3>4, <6>1, <6>2 DEF CallOK, SweepOK
        <5>4. Last(op[c].plan) \in Ext /\ op[c].plan # << >> /\ registered \subseteq Ext
          BY <1>2, <3>4, RangeType DEF Planned, Ops, Types
        <5>3. \A x \in registered : \/ st[x] = "disposed" \/ x \in Range(op[c].rest)
                                    \/ DependentClosure(x) \cap (op[c].failed \cup {e}) # {}
          BY <3>1, <3>4, <5>2, <5>4 DEF CallOK, SweepOK
        <5> QED
          BY <1>1, <2>2, <2>3, <3>4, <5>1, <5>3 DEF SweepOK
      <4> QED
        BY <1>1, <2>4, <3>2, <4>1, <4>2 DEF CallOK
    <3> QED
      BY <3>3, <3>4
  <2> QED
    BY <1>1, <1>2, <2>1, <2>2, <2>4, QuietStep
<1> QED
  BY <1>3, <1>4

(***************************************************************************)
(* A plan without its head, which is not active (any more).                *)
(***************************************************************************)
LEMMA PlanAdvances ==
  ASSUME Types, NEW c \in Calls, PlanOK(c), SweepOK(c), op[c].kind \in Planned, op[c].plan # << >>,
         op'[c].kind = op[c].kind, op'[c].plan = Tail(op[c].plan), op'[c].rest = op[c].rest,
         op'[c].failed = op[c].failed, registered' = registered,
         \A x \in Ext : st'[x] = "active" => st[x] = "active" /\ x # Head(op[c].plan),
         op[c].kind = "disposeAll" =>
           /\ st'[Head(op[c].plan)] = "disposed"
           /\ \A x \in Ext : st[x] = "disposed" => st'[x] = "disposed"
  PROVE  PlanOK(c)' /\ SweepOK(c)'
<1> DEFINE p == op[c].plan
           q == Tail(op[c].plan)
<1>1. /\ p \in Seq(Ext) /\ p # << >> /\ q \in Seq(Ext) /\ Len(q) = Len(p) - 1
      /\ Head(p) \in Ext /\ Head(p) = p[1] /\ \A i \in DOMAIN q : q[i] = p[i + 1]
      /\ Range(p) = {Head(p)} \cup Range(q)
  BY TailFacts DEF Types, Ops
<1>2. registered \subseteq Ext
  BY DEF Types
<1>3. PlanOK(c)'
  <2>1. ASSUME NEW d \in Range(q), NEW e \in Ext, st'[e] = "active", d \in Deps(e) PROVE e \in Range(q)
    BY <1>1, <2>1 DEF PlanOK
  <2>2. ASSUME NEW i \in DOMAIN q, NEW j \in DOMAIN q, q[i] \in Deps(q[j]) PROVE j < i
    <3>1. i + 1 \in DOMAIN p /\ j + 1 \in DOMAIN p /\ q[i] = p[i + 1] /\ q[j] = p[j + 1]
      BY <1>1
    <3>2. j + 1 < i + 1
      BY <2>2, <3>1 DEF PlanOK
    <3> QED
      BY <1>1, <3>2
  <2> QED
    BY <2>1, <2>2 DEF PlanOK
<1>4. SweepOK(c)'
  <2> SUFFICES ASSUME op[c].kind = "disposeAll" PROVE SweepOK(c)'
    BY DEF SweepOK
  <2>1. \A x : DependentClosure(x)' = DependentClosure(x)
    BY ClosureSame
  <2>2. q # << >> => Last(q) = Last(p)
    <3> SUFFICES ASSUME q # << >> PROVE Last(q) = Last(p)
      OBVIOUS
    <3>1. Len(q) \in DOMAIN q /\ Len(q) + 1 = Len(p)
      BY <1>1
    <3> HIDE DEF p, q
    <3> QED
      BY <1>1, <3>1 DEF Last
  <2>3. q = << >> => Last(p) = Head(p)
    <3> SUFFICES ASSUME q = << >> PROVE Last(p) = Head(p)
      OBVIOUS
    <3>1. Len(p) = 1
      <4>1. Len(<< >>) = 0
        OBVIOUS
      <4>2. Len(p) \in Nat
        BY <1>1
      <4> HIDE DEF p, q
      <4> QED
        BY <1>1, <4>1, <4>2
    <3> HIDE DEF p, q
    <3> QED
      BY <1>1, <3>1 DEF Last
  <2>4. \A e \in Ext : q # << >> /\ e = Last(q) => Range(q) \subseteq DependentClosure(e)
    BY <1>1, <2>2 DEF SweepOK
  <2>5. \A e \in registered :
         \/ st'[e] = "disposed" \/ e \in Range(op[c].rest) \/ DependentClosure(e) \cap op[c].failed # {}
         \/ q # << >> /\ e = Last(q)
    BY <1>1, <1>2, <2>2, <2>3 DEF SweepOK
  <2> QED
    BY <2>1, <2>4, <2>5 DEF SweepOK
<1> QED
  BY <1>3, <1>4

(* A call that is over counts on nothing.                                  *)
LEMMA EndKeeps ==
  ASSUME LifecycleInv, NEW c \in Calls, becomes(c, Idle, NoCall),
         UNCHANGED <<registered, st, gone, subs, raced>>
  PROVE  LifecycleInv'
<1>1. /\ op' = [op EXCEPT ![c] = Idle] /\ thread' = NoCall
      /\ registered' = registered /\ st' = st /\ gone' = gone /\ subs' = subs /\ raced' = raced
  BY DEF becomes
<1>2. op'[c] = Idle /\ \A d \in Calls : d # c => op'[d] = op[d]
  BY <1>1, IdleFacts, Becomes DEF LifecycleInv
<1>3. ASSUME ~raced' PROVE ~raced /\ Overlaps' /\ CallOK(c)'
  <2>1. Overlaps'
    BY <1>1, <1>2, <1>3, IdleFacts, OverlapsKept DEF LifecycleInv, Calm
  <2>2. CallOK(c)'
    BY <1>2, IdleFacts DEF CallOK, PhaseOK, FramesOK, PlanOK, SweepOK, Planned
  <2> QED
    BY <1>1, <1>3, <2>1, <2>2
<1>4. raced' \in BOOLEAN
  BY <1>1 DEF LifecycleInv, Types
<1> QED
  BY <1>1, <1>3, <1>4, IdleFacts, QuietStep

LEMMA CallEndsKeeps ==
  ASSUME LifecycleInv, NEW c \in Calls, callEnds(c)
  PROVE  LifecycleInv'
BY EndKeeps DEF callEnds

LEMMA NextTargetKeeps ==
  ASSUME LifecycleInv, NEW c \in Calls, nextTarget(c)
  PROVE  LifecycleInv'
<1> DEFINE p == op[c].plan
<1>1. /\ op[c].kind \in Planned /\ op[c].at = "next" /\ p # << >> /\ p \in Seq(Ext) /\ Head(p) \in Ext
      /\ op[c] \in Ops /\ Types
  <2>1. Busy(c) /\ op[c].at = "next" /\ p # << >> /\ Types /\ op[c] \in Ops /\ Shape(op[c])
    BY DEF nextTarget, Runs, LifecycleInv, Types
  <2>2. p \in Seq(Ext)
    BY <2>1 DEF Ops
  <2>3. op[c].kind \in Planned
    BY <2>1 DEF Shape, FramesFit, Ops, Kinds, Planned, Busy
  <2> QED
    BY <2>1, <2>2, <2>3, TailFacts
<1>2. UNCHANGED <<registered, st, gone, subs, raced>>
  BY DEF nextTarget
<1>3. CASE ~Skips(op[c].kind, Head(p))
  <2>1. performPhase(c, Head(p))
    BY <1>3 DEF nextTarget
  <2> QED
    BY <1>1, <1>2, <2>1, PerformPhaseKeeps DEF Planned
<1>4. CASE Skips(op[c].kind, Head(p))
  <2> DEFINE o == [op[c] EXCEPT !.plan = Tail(@)]
  <2>1. /\ op' = [op EXCEPT ![c] = o] /\ thread' \in {NoCall, c}
        /\ registered' = registered /\ st' = st /\ gone' = gone /\ subs' = subs /\ raced' = raced
    BY <1>2, <1>4 DEF nextTarget, becomes
  <2>2. /\ o \in Ops /\ Shape(o) /\ o.kind = op[c].kind /\ o.at = "next" /\ o.plan = Tail(p)
        /\ o.rest = op[c].rest /\ o.failed = op[c].failed
    BY <1>1, PlanGoesOn
  <2> HIDE DEF o
  <2>3. op'[c] = o /\ \A d \in Calls : d # c => op'[d] = op[d]
    BY <1>1, <2>1, <2>2, Becomes
  <2>4. ASSUME ~raced' PROVE ~raced /\ Overlaps' /\ CallOK(c)'
    <3>1. Calm /\ CallOK(c) /\ ~raced
      BY <2>1, <2>4 DEF LifecycleInv, Calm
    <3>2. Overlaps'
      BY <1>1, <2>2, <2>3, <3>1, OverlapsKept DEF Calm, Planned
    <3>3. st[Head(p)] # "active" /\ (op[c].kind = "disposeAll" => st[Head(p)] = "disposed")
      BY <1>1, <1>4 DEF Skips, Planned
    <3>4. PlanOK(c)' /\ SweepOK(c)'
      BY <1>1, <2>1, <2>2, <2>3, <3>1, <3>3, PlanAdvances DEF CallOK
    <3>5. PhaseOK(c)' /\ FramesOK(c)'
      BY <1>1, <2>2, <2>3 DEF PhaseOK, FramesOK, Planned
    <3> QED
      BY <3>1, <3>2, <3>4, <3>5 DEF CallOK
  <2>5. thread' \in Calls \cup {NoCall} /\ raced' \in BOOLEAN
    BY <1>1, <2>1 DEF Types
  <2> QED
    BY <2>1, <2>2, <2>4, <2>5, QuietStep
<1> QED
  BY <1>3, <1>4

(***************************************************************************)
(* disposeAll goes on to the next extension of its list.                   *)
(***************************************************************************)
LEMMA DisposeNextKeeps ==
  ASSUME LifecycleInv, NEW c \in Calls, disposeNext(c)
  PROVE  LifecycleInv'
<1> DEFINE r == op[c].rest
           e == Head(op[c].rest)
<1>1. /\ op[c] \in Ops /\ Shape(op[c]) /\ Types /\ op[c].at = "next" /\ op[c].plan = << >> /\ r # << >>
      /\ registered' = registered /\ gone' = gone /\ subs' = subs /\ raced' = raced
  BY DEF disposeNext, Runs, LifecycleInv, Types
<1>2. op[c].kind = "disposeAll" /\ op[c].frames = << >>
  BY <1>1 DEF Shape
<1>3. r \in Seq(Ext) /\ e \in Ext /\ Tail(r) \in Seq(Ext) /\ Range(r) = {e} \cup Range(Tail(r))
  BY <1>1, TailFacts DEF Ops
<1>4. registered \subseteq Ext /\ raced' \in BOOLEAN /\ thread \in Calls \cup {NoCall}
  BY <1>1 DEF Types
<1>5. \A x : DependentClosure(x)' = DependentClosure(x)
  BY <1>1, ClosureSame
<1> DEFINE on == [op[c] EXCEPT !.rest = Tail(@)]
<1>6. /\ on \in Ops /\ on.kind = "disposeAll" /\ on.at = "next" /\ on.plan = << >> /\ on.rest = Tail(r)
      /\ on.failed = op[c].failed /\ on.frames = << >>
  BY <1>1, <1>2, <1>3 DEF Ops
<1> HIDE DEF on
<1>7. CASE AlreadyDisposed(e)
  <2>1. op' = [op EXCEPT ![c] = on] /\ thread' = NoCall /\ st' = [st EXCEPT ![e] = "disposed"]
    BY <1>7 DEF disposeNext, becomes, on
  <2>2. Shape(on)
    BY <1>6 DEF Shape
  <2>3. op' \in [Calls -> Ops] /\ op'[c] = on /\ (\A d \in Calls : d # c => op'[d] = op[d])
        /\ \A d \in Calls : Shape(op[d])'
    BY <1>1, <1>6, <2>1, <2>2, Becomes
  <2>4. Types'
    BY <1>1, <2>1, <2>3 DEF Types, States
  <2>5. CASE raced
    BY <1>1, <2>4, <2>5 DEF LifecycleInv
  <2>6. CASE ~raced
    <3>1. Calm /\ CallOK(c)
      BY <2>6 DEF LifecycleInv, Calm
    <3>2. st[e] = "disposed" /\ st' = st
      <4>1. st[e] = "disposed"
        BY <1>3, <1>7, <3>1 DEF AlreadyDisposed, Calm, Known
      <4> QED
        BY <1>1, <2>1, <4>1 DEF Types
    <3>3. Overlaps'
      BY <1>2, <1>6, <2>3, <3>1, OverlapsKept DEF Calm
    <3>4. PhaseOK(c)' /\ FramesOK(c)' /\ PlanOK(c)'
      BY <1>6, <2>3 DEF PhaseOK, FramesOK, PlanOK, Planned, Range
    <3>5. SweepOK(c)'
      <4>1. \A x \in registered : st[x] = "disposed" \/ x \in Range(Tail(r)) \/ DependentClosure(x) \cap op[c].failed # {}
        BY <1>1, <1>2, <1>3, <3>1, <3>2 DEF CallOK, SweepOK
      <4> QED
        BY <1>1, <1>5, <1>6, <2>3, <3>2, <4>1 DEF SweepOK
    <3> QED
      BY <1>1, <1>4, <1>6, <2>1, <2>2, <3>1, <3>2, <3>3, <3>4, <3>5, <2>6, QuietStep DEF CallOK
  <2> QED
    BY <1>4, <2>5, <2>6
<1>8. CASE ~AlreadyDisposed(e) /\ (st[e] = "unknown" \/ e \notin registered)
  <2> DEFINE o == [on EXCEPT !.failed = @ \cup {e}]
  <2>1. op' = [op EXCEPT ![c] = o] /\ thread' = NoCall /\ st' = st
    BY <1>8 DEF disposeNext, becomes, on
  <2>2. /\ o \in Ops /\ o.kind = "disposeAll" /\ o.at = "next" /\ o.plan = << >> /\ o.rest = Tail(r)
        /\ o.failed = op[c].failed \cup {e} /\ o.frames = << >>
    <3>1. op[c].failed \cup {e} \in SUBSET Ext
      BY <1>1, <1>3 DEF Ops
    <3> QED
      BY <1>6, <3>1 DEF Ops
  <2> HIDE DEF o
  <2>3. Shape(o)
    BY <2>2 DEF Shape
  <2>4. op'[c] = o /\ (\A d \in Calls : d # c => op'[d] = op[d])
    BY <1>1, <2>1, <2>2, <2>3, Becomes
  <2>5. ASSUME ~raced' PROVE ~raced /\ Overlaps' /\ CallOK(c)'
    <3>1. Calm /\ CallOK(c)
      BY <1>1, <2>5 DEF LifecycleInv, Calm
    <3>2. Overlaps'
      BY <1>2, <2>2, <2>4, <3>1, OverlapsKept DEF Calm
    <3>3. PhaseOK(c)' /\ FramesOK(c)' /\ PlanOK(c)'
      BY <2>2, <2>4 DEF PhaseOK, FramesOK, PlanOK, Planned, Range
    <3>4. SweepOK(c)'
      <4>1. e \in DependentClosure(e)
        BY <1>3, <1>4, ClosureFacts
      <4>2. \A x \in registered : \/ st[x] = "disposed" \/ x \in Range(Tail(r))
                                  \/ DependentClosure(x) \cap (op[c].failed \cup {e}) # {}
        BY <1>1, <1>2, <1>3, <3>1, <4>1 DEF CallOK, SweepOK
      <4> QED
        BY <1>1, <1>5, <2>1, <2>2, <2>4, <4>2 DEF SweepOK
    <3> QED
      BY <1>1, <2>5, <3>2, <3>3, <3>4 DEF CallOK
  <2> QED
    BY <1>1, <1>4, <2>1, <2>2, <2>3, <2>5, QuietStep
<1>9. CASE ~AlreadyDisposed(e) /\ ~(st[e] = "unknown" \/ e \notin registered)
  <2>1. PICK plan \in collectDependents(e) : becomes(c, [on EXCEPT !.plan = plan], c) /\ st' = st
    BY <1>9 DEF disposeNext, on
  <2> DEFINE o == [on EXCEPT !.plan = plan]
  <2>2. op' = [op EXCEPT ![c] = o] /\ thread' = c
    BY <2>1 DEF becomes
  <2>3. PlanOf(e, plan)
    BY <1>3, <1>4, PlanFacts
  <2>4. /\ o \in Ops /\ o.kind = "disposeAll" /\ o.at = "next" /\ o.plan = plan /\ o.rest = Tail(r)
        /\ o.failed = op[c].failed /\ o.frames = << >>
    BY <1>6, <2>3 DEF Ops, PlanOf
  <2> HIDE DEF o
  <2>5. Shape(o)
    BY <2>4 DEF Shape
  <2>6. op'[c] = o /\ (\A d \in Calls : d # c => op'[d] = op[d])
    BY <1>1, <2>2, <2>4, <2>5, Becomes
  <2>7. ASSUME ~raced' PROVE ~raced /\ Overlaps' /\ CallOK(c)'
    <3>1. Calm /\ CallOK(c)
      BY <1>1, <2>7 DEF LifecycleInv, Calm
    <3>2. Overlaps'
      BY <1>2, <2>4, <2>6, <3>1, OverlapsKept DEF Calm
    <3>3. \A d \in Range(plan), x \in Ext : st[x] = "active" /\ d \in Deps(x) => x \in Range(plan)
      <4>1. Range(plan) = DependentClosure(e) /\ ClosedUnderDependents(DependentClosure(e))
        BY <1>3, <1>4, <2>3, ClosureFacts DEF PlanOf
      <4>2. \A x \in Ext : st[x] = "active" => x \in registered
        BY <3>1 DEF Calm, Known
      <4> QED
        BY <4>1, <4>2 DEF ClosedUnderDependents
    <3>4. PhaseOK(c)' /\ FramesOK(c)' /\ PlanOK(c)'
      BY <2>1, <2>3, <2>4, <2>6, <3>3 DEF PhaseOK, FramesOK, PlanOK, Planned, PlanOf
    <3>5. SweepOK(c)'
      <4>1. \A x \in registered : \/ st[x] = "disposed" \/ x \in Range(Tail(r)) \/ x = Last(plan)
                                  \/ DependentClosure(x) \cap op[c].failed # {}
        BY <1>1, <1>2, <1>3, <2>3, <3>1 DEF CallOK, SweepOK, PlanOf
      <4> QED
        BY <1>1, <1>5, <2>1, <2>3, <2>4, <2>6, <4>1 DEF SweepOK, PlanOf
    <3> QED
      BY <1>1, <2>7, <3>2, <3>4, <3>5 DEF CallOK
  <2> QED
    BY <1>1, <1>4, <2>1, <2>2, <2>4, <2>5, <2>7, QuietStep
<1> QED
  BY <1>7, <1>8, <1>9

(***************************************************************************)
(* The end of a phase, good or bad: what the other calls count on.  c is   *)
(* in its callback for e; the state of e becomes v.                        *)
(***************************************************************************)
LEMMA OthersKeep ==
  ASSUME Types, Calm, NEW c \in Calls, op[c].at = "callback", NEW v \in States,
         st' = [st EXCEPT ![op[c].phase.ext] = v], registered' = registered,
         v # "unknown", v = "active" => op[c].kind = "activate",
         \A d \in Calls : d # c => op'[d] = op[d]
  PROVE  \A d \in Calls : d # c => CallOK(d)'
<1> DEFINE e == op[c].phase.ext
<1>1. /\ e \in Ext /\ Shape(op[c]) /\ Busy(c) /\ op[c] \in Ops
      /\ st[e] = op[c].phase.before /\ op[c].phase.before \in Allowed(op[c].kind)
      /\ e \in registered \/ op[c].kind # "load"
  BY DEF Types, Shape, Phases, Calm, CallOK, PhaseOK, Busy
<1> SUFFICES ASSUME NEW d \in Calls, d # c PROVE CallOK(d)'
  OBVIOUS
<1>2. op'[d] = op[d] /\ CallOK(d) /\ Shape(op[d]) /\ op[d] \in Ops
  BY DEF Types, Calm
<1>3. CASE ~Busy(d)
  BY <1>2, <1>3 DEF Busy, Shape, CallOK, PhaseOK, FramesOK, PlanOK, SweepOK, Planned
<1>4. CASE Busy(d) /\ op[c].kind = "load"
  <2>1. /\ op[d].kind # "disposeAll" /\ op[d].kind = "load" => op[d].plan # op[c].plan
        /\ st[e] = "unknown"
    BY <1>1, <1>4, KindFacts DEF Calm, Overlaps, OverlapOK
  <2>1a. op[d].kind # "disposeAll" /\ (op[d].kind = "load" => op[d].plan # op[c].plan)
    BY <1>1, <1>4 DEF Calm, Overlaps, OverlapOK
  <2>2. v # "active"
    BY <1>4
  <2>3. \A x \in Ext : x # e => st'[x] = st[x]
    BY DEF Types
  <2>4. \A x \in Ext : (st'[x] = "active") <=> (st[x] = "active")
    BY <1>1, <2>1, <2>2 DEF Types
  <2>5. op[d].at \in {"callback", "cleanup"} => op[d].phase.ext \in Ext /\ op[d].phase.ext # e
    <3> SUFFICES ASSUME op[d].at \in {"callback", "cleanup"}
                 PROVE  op[d].phase.ext \in Ext /\ op[d].phase.ext # e
      OBVIOUS
    <3>1. op[d].phase.ext \in Ext
      BY <1>2 DEF Shape, Phases
    <3>2. CASE op[d].kind = "load"
      <4>1. op[c].plan = <<e>> /\ op[d].plan = <<op[d].phase.ext>>
        BY <1>1, <1>2, <1>4, <3>2 DEF Shape
      <4> QED
        BY <2>1a, <3>1, <3>2, <4>1
    <3>3. CASE op[d].kind # "load"
      <4>1. op[d].at = "callback" /\ op[d].kind \in {"activate", "deactivate", "dispose"}
        BY <1>2, <1>4, <2>1a, <3>3 DEF Shape, Ops, Kinds, Busy
      <4>2. st[op[d].phase.ext] # "unknown"
        BY <1>2, <4>1, KindFacts DEF CallOK, PhaseOK
      <4> QED
        BY <2>1, <3>1, <4>2
    <3> QED
      BY <3>1, <3>2, <3>3
  <2>6. PhaseOK(d)'
    BY <1>2, <2>3, <2>5 DEF CallOK, PhaseOK
  <2>7. FramesOK(d)'
    <3> SUFFICES ASSUME op[d].kind = "activate" PROVE FramesOK(d)'
      BY <1>2 DEF FramesOK
    <3>1. \A i \in DOMAIN op[d].frames : \A j \in 1..(op[d].frames[i].dep - 1) :
            DependsOn[op[d].frames[i].ext][j] \in Ext
      <4>1. ASSUME NEW i \in DOMAIN op[d].frames, NEW j \in 1..(op[d].frames[i].dep - 1)
            PROVE  DependsOn[op[d].frames[i].ext][j] \in Ext
        <5>1. op[d].frames \in Seq([ext : Ext, dep : Nat]) /\ op[d].frames[i].dep <= Len(DependsOn[op[d].frames[i].ext])
          BY <1>2 DEF Ops, Shape, FramesFit
        <5>2. op[d].frames[i].ext \in Ext /\ op[d].frames[i].dep \in Nat
          <6>1. op[d].frames[i] \in [ext : Ext, dep : Nat]
            BY <5>1, SeqElement
          <6> QED
            BY <6>1
        <5>3. DependsOn[op[d].frames[i].ext] \in Seq(Ext) /\ j \in 1..Len(DependsOn[op[d].frames[i].ext])
          BY <5>1, <5>2, DepsType
        <5> QED
          BY <5>3
      <4> QED
        BY <4>1
    <3>2. op[d].at = "callback" => Deps(op[d].phase.ext) \subseteq Ext
      BY <2>5, DepsType
    <3> QED
      BY <1>2, <2>4, <3>1, <3>2 DEF CallOK, FramesOK
  <2>8. PlanOK(d)'
    BY <1>2, <2>4 DEF CallOK, PlanOK
  <2>9. SweepOK(d)'
    BY <1>2, <2>1a DEF SweepOK
  <2> QED
    BY <2>6, <2>7, <2>8, <2>9 DEF CallOK
<1>5. CASE Busy(d) /\ op[c].kind # "load"
  <2>1. op[d].kind = "load"
    BY <1>1, <1>5 DEF Calm, Overlaps, OverlapOK
  <2>2. st[e] # "unknown"
    BY <1>1, <1>5, KindFacts DEF Ops, Kinds, Busy
  <2>3. op[d].phase.ext \in Ext /\ st[op[d].phase.ext] = "unknown"
    BY <1>2, <2>1, KindFacts DEF Shape, Phases, CallOK, PhaseOK
  <2>4. st'[op[d].phase.ext] = st[op[d].phase.ext]
    BY <2>2, <2>3 DEF Types
  <2> QED
    BY <1>2, <2>1, <2>4 DEF CallOK, PhaseOK, FramesOK, PlanOK, SweepOK, Planned
<1> QED
  BY <1>3, <1>4, <1>5

(***************************************************************************)
(* A phase ends well: an activate goes back to the frame that waited for   *)
(* it, a planned call on to the next extension.                            *)
(***************************************************************************)
LEMMA NonEmptyLength ==
  ASSUME NEW S, NEW s \in Seq(S), s # << >>
  PROVE  /\ Len(s) \in Nat \ {0} /\ 1 \in DOMAIN s /\ Len(s) \in DOMAIN s
         /\ Len(s) # 1 => Len(s) > 1
<1>1. Len(s) \in Nat \ {0} /\ DOMAIN s = 1..Len(s)
  OBVIOUS
<1> QED
  BY <1>1

LEMMA FrontFacts ==
  ASSUME NEW S, NEW s \in Seq(S), Len(s) > 1
  PROVE  /\ Front(s) \in Seq(S) /\ Front(s) # << >> /\ Len(Front(s)) = Len(s) - 1
         /\ DOMAIN Front(s) \subseteq DOMAIN s /\ \A i \in DOMAIN Front(s) : Front(s)[i] = s[i]
<1> DEFINE n == Len(s) - 1
<1>1. n \in Nat /\ n >= 1 /\ n + 1 = Len(s)
  OBVIOUS
<1>2. Front(s) = [i \in 1..n |-> s[i]]
  BY <1>1 DEF Front
<1> HIDE DEF n
<1>3. \A i \in 1..n : s[i] \in S /\ i \in DOMAIN s
  BY <1>1
<1>4. Front(s) \in Seq(S) /\ Len(Front(s)) = n /\ DOMAIN Front(s) = 1..n
  BY <1>1, <1>2, <1>3
<1>5. Front(s) # << >>
  BY <1>1, <1>4
<1> QED
  BY <1>1, <1>2, <1>3, <1>4, <1>5 DEF n

LEMMA AfterActivate ==
  ASSUME Types, NEW c \in Calls, op[c].kind = "activate", Len(op[c].frames) # 1
  PROVE  /\ After(c) \in Ops /\ Shape(After(c)) /\ After(c).kind = "activate" /\ After(c).at = "next"
         /\ After(c).plan = << >> /\ DOMAIN After(c).frames \subseteq DOMAIN op[c].frames
         /\ \A i \in DOMAIN After(c).frames : After(c).frames[i] = op[c].frames[i]
<1> DEFINE fs == op[c].frames
           o == After(c)
<1>1. /\ op[c] \in Ops /\ Shape(op[c]) /\ FramesFit(op[c]) /\ fs \in Seq([ext : Ext, dep : Nat])
      /\ op[c].rest = << >>
  BY DEF Types, Shape, Ops
<1>2. Len(fs) > 1
  <2>1. fs # << >> /\ Len(fs) # 1 /\ fs \in Seq([ext : Ext, dep : Nat])
    BY <1>1 DEF FramesFit
  <2> QED
    BY <2>1, NonEmptyLength
<1>3. /\ Front(fs) \in Seq([ext : Ext, dep : Nat]) /\ Front(fs) # << >>
      /\ DOMAIN Front(fs) \subseteq DOMAIN fs /\ \A i \in DOMAIN Front(fs) : Front(fs)[i] = fs[i]
  BY <1>1, <1>2, FrontFacts
<1>4. o = [op[c] EXCEPT !.at = "next", !.phase = NoPhase, !.frames = Front(@)]
  BY DEF After
<1>5. /\ o \in Ops /\ o.kind = "activate" /\ o.at = "next" /\ o.plan = << >> /\ o.frames = Front(fs)
      /\ o.seen = op[c].seen /\ o.rest = << >>
  BY <1>1, <1>3, <1>4 DEF Ops, FramesFit
<1> HIDE DEF o, fs
<1>6. FramesFit(o)
  <2>1. \A i \in DOMAIN o.frames : o.frames[i].ext \in o.seen /\ o.frames[i].dep <= Len(DependsOn[o.frames[i].ext])
    BY <1>1, <1>3, <1>5 DEF FramesFit, fs
  <2> QED
    BY <1>3, <1>5, <2>1 DEF FramesFit
<1>7. Shape(o)
  BY <1>5, <1>6 DEF Shape, Planned
<1> QED
  BY <1>3, <1>5, <1>7 DEF o, fs

LEMMA AfterFacts ==
  ASSUME Types, NEW c \in Calls, op[c].at = "callback"
  PROVE  /\ After(c) \in Ops /\ Shape(After(c))
         /\ op[c].kind = "load" => After(c) = Idle
         /\ op[c].kind = "activate" =>
              \/ After(c) = Idle
              \/ /\ After(c).kind = "activate" /\ After(c).at = "next" /\ After(c).plan = << >>
                 /\ DOMAIN After(c).frames \subseteq DOMAIN op[c].frames
                 /\ \A i \in DOMAIN After(c).frames : After(c).frames[i] = op[c].frames[i]
         /\ op[c].kind \in Planned =>
              /\ After(c).kind = op[c].kind /\ After(c).at = "next" /\ After(c).plan = Tail(op[c].plan)
              /\ After(c).rest = op[c].rest /\ After(c).failed = op[c].failed
<1>1. op[c].kind \in {"load", "activate"} \cup Planned /\ Shape(op[c])
  BY DEF Types, Shape, Ops, Kinds, Planned
<1>2. CASE op[c].kind = "load"
  BY <1>2, IdleFacts DEF After, Planned
<1>3. CASE op[c].kind = "activate" /\ Len(op[c].frames) = 1
  BY <1>3, IdleFacts DEF After, Planned
<1>4. CASE op[c].kind = "activate" /\ Len(op[c].frames) # 1
  BY <1>4, AfterActivate DEF Planned
<1>5. CASE op[c].kind \in Planned
  <2>1. op[c].plan # << >>
    BY <1>1, <1>5 DEF Shape
  <2>2. After(c) = [op[c] EXCEPT !.at = "next", !.phase = NoPhase, !.plan = Tail(@)]
    BY <1>5 DEF After, Planned
  <2>3. After(c).at = "next"
    BY <2>2 DEF Types, Ops
  <2>4. /\ After(c) \in Ops /\ Shape(After(c)) /\ After(c).kind = op[c].kind /\ After(c).at = "next"
        /\ After(c).plan = Tail(op[c].plan) /\ After(c).rest = op[c].rest /\ After(c).failed = op[c].failed
    BY <1>5, <2>1, <2>2, <2>3, PlanGoesOn
  <2> QED
    BY <1>5, <2>4 DEF Planned
<1> QED
  BY <1>1, <1>2, <1>3, <1>4, <1>5

LEMMA PhaseEndsKeeps ==
  ASSUME LifecycleInv, NEW c \in Calls, NEW b \in BOOLEAN, phaseEnds(c, b)
  PROVE  LifecycleInv'
<1> DEFINE e == op[c].phase.ext
           k == op[c].kind
           o == After(c)
<1>1. /\ op[c].at = "callback" /\ Types /\ op[c] \in Ops /\ Shape(op[c]) /\ e \in Ext
      /\ st' = [st EXCEPT ![e] = NextState(k)] /\ op' = [op EXCEPT ![c] = o] /\ thread' = NoCall
      /\ registered' = registered /\ raced' = raced
  BY DEF phaseEnds, becomes, LifecycleInv, Types, Shape, Phases
<1>2. /\ PhaseOf(k) = "dispose" => subs' = subs \ {e} /\ gone' = gone \cup {e}
      /\ PhaseOf(k) # "dispose" => gone' = gone /\ subs' \subseteq subs \cup {e}
  BY DEF phaseEnds, releaseSubscriptions, trackSubscription
<1>3. k \in {"load", "activate"} \cup Planned
  BY <1>1 DEF Shape, Ops, Kinds, Planned
<1>4. /\ o \in Ops /\ Shape(o)
      /\ k = "load" => o = Idle
      /\ k = "activate" =>
           \/ o = Idle
           \/ /\ o.kind = "activate" /\ o.at = "next" /\ o.plan = << >>
              /\ DOMAIN o.frames \subseteq DOMAIN op[c].frames
              /\ \A i \in DOMAIN o.frames : o.frames[i] = op[c].frames[i]
      /\ k \in Planned =>
           /\ o.kind = k /\ o.at = "next" /\ o.plan = Tail(op[c].plan)
           /\ o.rest = op[c].rest /\ o.failed = op[c].failed
  BY <1>1, AfterFacts
<1> HIDE DEF o, k
<1>5. /\ op' \in [Calls -> Ops] /\ op'[c] = o /\ (\A d \in Calls : d # c => op'[d] = op[d])
      /\ \A d \in Calls : Shape(op[d])'
  BY <1>1, <1>4, Becomes
<1>6. NextState(k) \in States /\ NextState(k) # "unknown" /\ (NextState(k) = "active" <=> k = "activate")
      /\ (NextState(k) = "disposed" <=> PhaseOf(k) = "dispose")
      /\ (k = "disposeAll" => NextState(k) = "disposed")
  BY <1>3, KindFacts DEF States, Planned
<1>7. Types'
  BY <1>1, <1>2, <1>5, <1>6 DEF Types
<1>8. ASSUME ~raced' PROVE Calm'
  <2>1. Calm /\ CallOK(c)
    BY <1>1, <1>8 DEF LifecycleInv, Calm
  <2>2. /\ st[e] = op[c].phase.before /\ st[e] \in Allowed(k) /\ st'[e] = NextState(k)
        /\ \A x \in Ext : x # e => st'[x] = st[x]
    BY <1>1, <2>1 DEF CallOK, PhaseOK, Types, k
  <2>3. e \in registered /\ st[e] # "disposed" /\ (k = "load" => st[e] = "unknown")
    <3>1. st[e] # "disposed" /\ (k # "load" => st[e] # "unknown") /\ (k = "load" => st[e] = "unknown")
      BY <1>3, <2>2, KindFacts DEF Planned
    <3> QED
      BY <1>1, <2>1, <3>1 DEF CallOK, PhaseOK, Calm, Known, k
  <2>4. Overlaps'
    BY <1>3, <1>4, <1>5, <2>1, OverlapsKept, IdleFacts DEF Calm, Planned, k
  <2>5. Known'
    BY <1>1, <1>2, <1>6, <2>1, <2>2, <2>3 DEF Calm, Known
  <2>6. k \in Planned => op[c].plan # << >> /\ Head(op[c].plan) = e
    BY <1>1 DEF Shape, k
  <2>7. DepsActive'
    <3> SUFFICES ASSUME NEW x \in Ext, st'[x] = "active", NEW d \in Deps(x) PROVE st'[d] = "active"
      BY DEF DepsActive
    <3>1. d \in Ext
      BY DepsType
    <3>2. CASE x = e
      <4>1. k = "activate"
        BY <1>6, <2>2, <3>2
      <4>2. st[d] = "active"
        BY <1>1, <2>1, <3>2, <4>1 DEF CallOK, FramesOK, k
      <4> QED
        BY <1>6, <2>2, <3>1, <4>1, <4>2
    <3>3. CASE x # e
      <4>1. st[x] = "active" /\ st[d] = "active"
        BY <2>1, <2>2, <3>3 DEF Calm, DepsActive
      <4>2. CASE d # e
        BY <2>2, <3>1, <4>1, <4>2
      <4>3. CASE d = e
        <5>1. k # "load"
          BY <2>3, <4>1, <4>3
        <5>2. k \notin Planned
          <6> SUFFICES ASSUME k \in Planned PROVE FALSE
            OBVIOUS
          <6>1. op[c].plan \in Seq(Ext) /\ op[c].plan # << >> /\ op[c].plan[1] = e
            BY <1>1, <2>6, TailFacts DEF Ops
          <6>2. e \in Range(op[c].plan) /\ 1 \in DOMAIN op[c].plan
            BY <6>1, <2>6, TailFacts
          <6>3. x \in Range(op[c].plan)
            BY <2>1, <4>1, <4>3, <6>2 DEF CallOK, PlanOK, k
          <6>4. PICK j \in DOMAIN op[c].plan : op[c].plan[j] = x
            BY <6>3 DEF Range
          <6>5. j < 1
            BY <2>1, <4>3, <6>1, <6>2, <6>4 DEF CallOK, PlanOK, k
          <6> QED
            BY <6>1, <6>4, <6>5
        <5> QED
          BY <1>3, <1>6, <2>2, <4>3, <5>1, <5>2
      <4> QED
        BY <4>2, <4>3
    <3> QED
      BY <3>2, <3>3
  <2>8. CallOK(c)'
    <3>1. CASE o = Idle
      BY <1>5, <3>1, IdleFacts DEF CallOK, PhaseOK, FramesOK, PlanOK, SweepOK, Planned
    <3>2. CASE k = "activate" /\ o # Idle
      <4>1. \A x \in Ext : st[x] = "active" => st'[x] = "active"
        BY <1>6, <2>2, <3>2
      <4>2. ASSUME NEW i \in DOMAIN o.frames, NEW j \in 1..(o.frames[i].dep - 1)
            PROVE  st'[DependsOn[o.frames[i].ext][j]] = "active"
        <5>1. i \in DOMAIN op[c].frames /\ o.frames[i] = op[c].frames[i]
          BY <1>4, <3>2
        <5>2. st[DependsOn[o.frames[i].ext][j]] = "active"
          BY <2>1, <3>2, <4>2, <5>1 DEF CallOK, FramesOK, k
        <5>3. o.frames[i] \in [ext : Ext, dep : Nat] /\ o.frames[i].dep <= Len(DependsOn[o.frames[i].ext])
          <6>1. FramesFit(op[c]) /\ op[c].frames \in Seq([ext : Ext, dep : Nat])
            BY <1>1, <3>2 DEF Ops, Shape, k
          <6>2. op[c].frames[i] \in [ext : Ext, dep : Nat]
            BY <5>1, <6>1, SeqElement
          <6> QED
            BY <5>1, <6>1, <6>2 DEF FramesFit
        <5>4. o.frames[i].ext \in Ext /\ o.frames[i].dep \in Nat
          BY <5>3
        <5>5. DependsOn[o.frames[i].ext] \in Seq(Ext) /\ j \in 1..Len(DependsOn[o.frames[i].ext])
          BY <5>3, <5>4, DepsType
        <5> QED
          BY <4>1, <5>2, <5>5
      <4> QED
        BY <1>4, <1>5, <3>2, <4>2 DEF CallOK, PhaseOK, FramesOK, PlanOK, SweepOK, Planned
    <3>3. CASE k \in Planned
      <4>1. k \notin {"load", "activate"}
        BY <3>3 DEF Planned
      <4>2. \A x \in Ext : st'[x] = "active" => st[x] = "active" /\ x # Head(op[c].plan)
        BY <1>6, <2>2, <2>6, <3>3, <4>1
      <4>3. PlanOK(c)' /\ SweepOK(c)'
        BY <1>1, <1>4, <1>5, <1>6, <2>1, <2>2, <2>6, <3>3, <4>1, <4>2, PlanAdvances DEF CallOK, k
      <4>4. PhaseOK(c)' /\ FramesOK(c)'
        BY <1>4, <1>5, <3>3, <4>1 DEF PhaseOK, FramesOK
      <4> QED
        BY <4>3, <4>4 DEF CallOK
    <3> QED
      BY <1>3, <1>4, <3>1, <3>2, <3>3
  <2>9. \A d \in Calls : d # c => CallOK(d)'
    BY <1>1, <1>5, <1>6, <2>1, OthersKeep DEF k
  <2> QED
    BY <2>4, <2>5, <2>7, <2>8, <2>9 DEF Calm
<1> QED
  BY <1>7, <1>8 DEF LifecycleInv

(***************************************************************************)
(* A phase fails: the call is over, or disposeAll remembers it; a load     *)
(* that fails takes the extension out again.                               *)
(***************************************************************************)
LEMMA PhaseFailsKeeps ==
  ASSUME LifecycleInv, NEW c \in Calls, NEW b \in BOOLEAN, phaseFails(c, b)
  PROVE  LifecycleInv'
<1> DEFINE e == op[c].phase.ext
           k == op[c].kind
           o == IF k = "load" THEN [op[c] EXCEPT !.at = "cleanup"] ELSE Failed(c, e)
<1>1. /\ op[c].at = "callback" /\ Types /\ op[c] \in Ops /\ Shape(op[c]) /\ e \in Ext
      /\ op[c].phase.before \in States
      /\ st' = [st EXCEPT ![e] = op[c].phase.before] /\ op' = [op EXCEPT ![c] = o] /\ thread' = NoCall
      /\ registered' = registered /\ raced' = raced /\ gone' = gone
  BY DEF phaseFails, becomes, LifecycleInv, Types, Shape, Phases
<1>2. subs' \subseteq subs \cup {e} /\ (subs' = subs \/ k \in {"load", "activate"})
  BY DEF phaseFails, trackSubscription
<1>3. k \in {"load", "activate"} \cup Planned
  BY <1>1 DEF Shape, Ops, Kinds, Planned
<1>4. CASE k = "load"
  <2>1. o = [op[c] EXCEPT !.at = "cleanup"]
    BY <1>4
  <2>2. /\ o \in Ops /\ o.kind = "load" /\ o.at = "cleanup" /\ o.plan = op[c].plan /\ o.rest = op[c].rest
        /\ o.phase = op[c].phase /\ o.frames = << >>
    <3>1. op[c].frames = << >>
      BY <1>1, <1>4 DEF Shape
    <3> QED
      BY <1>1, <1>4, <2>1, <3>1 DEF Ops
  <2> HIDE DEF o
  <2>3. Shape(o)
    BY <1>1, <1>4, <2>2 DEF Shape, Planned
  <2>4. /\ op' \in [Calls -> Ops] /\ op'[c] = o /\ (\A d \in Calls : d # c => op'[d] = op[d])
        /\ \A d \in Calls : Shape(op[d])'
    BY <1>1, <2>2, <2>3, Becomes
  <2>5. Types'
    BY <1>1, <1>2, <2>4 DEF Types
  <2>6. ASSUME ~raced' PROVE Calm'
    <3>1. Calm /\ CallOK(c)
      BY <1>1, <2>6 DEF LifecycleInv, Calm
    <3>2. st' = st /\ st[e] = "unknown" /\ e \in registered
      <4>1. st[e] = op[c].phase.before /\ st[e] = "unknown" /\ e \in registered
        BY <1>1, <1>4, <3>1, KindFacts DEF CallOK, PhaseOK
      <4> QED
        BY <1>1, <4>1 DEF Types
    <3>3. Overlaps'
      BY <1>4, <2>2, <2>4, <3>1, OverlapsKept DEF Calm
    <3>4. CallOK(c)'
      BY <1>1, <2>2, <2>4, <3>2 DEF CallOK, PhaseOK, FramesOK, PlanOK, SweepOK, Planned
    <3>5. \A d \in Calls : CallOK(d)'
      BY <1>1, <2>4, <3>1, <3>2, <3>4, CallSame DEF Calm
    <3>6. Known' /\ DepsActive'
      BY <1>1, <1>2, <3>1, <3>2 DEF Calm, Known, DepsActive
    <3> QED
      BY <3>3, <3>5, <3>6 DEF Calm
  <2> QED
    BY <2>5, <2>6 DEF LifecycleInv
<1>5. CASE k # "load"
  <2>1. o = Failed(c, e)
    BY <1>5
  <2>2. /\ o \in Ops /\ Shape(o)
        /\ k # "disposeAll" => o = Idle
        /\ k = "disposeAll" =>
             /\ o.kind = "disposeAll" /\ o.at = "next" /\ o.plan = << >> /\ o.rest = op[c].rest
             /\ o.failed = op[c].failed \cup {e}
    <3>1. op[c].kind \in {"activate"} \cup Planned
      BY <1>3, <1>5
    <3> QED
      BY <1>1, <3>1, <2>1, FailedFacts
  <2> HIDE DEF o
  <2>3. /\ op' \in [Calls -> Ops] /\ op'[c] = o /\ (\A d \in Calls : d # c => op'[d] = op[d])
        /\ \A d \in Calls : Shape(op[d])'
    BY <1>1, <2>2, Becomes
  <2>4. Types'
    BY <1>1, <1>2, <2>3 DEF Types
  <2>5. ASSUME ~raced' PROVE Calm'
    <3>1. Calm /\ CallOK(c)
      BY <1>1, <2>5 DEF LifecycleInv, Calm
    <3>2. st' = st /\ st[e] # "disposed"
      <4>1. st[e] = op[c].phase.before /\ st[e] # "disposed"
        BY <1>1, <1>3, <3>1, KindFacts DEF CallOK, PhaseOK, Planned
      <4> QED
        BY <1>1, <4>1 DEF Types
    <3>3. Overlaps'
      BY <1>5, <2>2, <2>3, <3>1, OverlapsKept, IdleFacts DEF Calm
    <3>4. CallOK(c)'
      <4>1. CASE k # "disposeAll"
        <5>1. op'[c] = Idle
          BY <2>2, <2>3, <4>1
        <5> QED
          BY <5>1, IdleFacts DEF CallOK, PhaseOK, FramesOK, PlanOK, SweepOK, Planned
      <4>2. CASE k = "disposeAll"
        <5>1. PhaseOK(c)' /\ FramesOK(c)' /\ PlanOK(c)'
          BY <2>2, <2>3, <4>2 DEF PhaseOK, FramesOK, PlanOK, Planned, Range
        <5>2. SweepOK(c)'
          <6>1. \A x : DependentClosure(x)' = DependentClosure(x)
            BY <1>1, ClosureSame
          <6>2. op[c].plan \in Seq(Ext) /\ op[c].plan # << >> /\ Head(op[c].plan) = e
            BY <1>1, <4>2 DEF Shape, Planned, Ops
          <6>3. e \in Range(op[c].plan) /\ Last(op[c].plan) \in Ext
            BY <6>2, TailFacts, RangeType
          <6>4. \A x \in Ext : x = Last(op[c].plan) => e \in DependentClosure(x)
            BY <3>1, <4>2, <6>2, <6>3 DEF CallOK, SweepOK
          <6>5. \A x \in registered : \/ st[x] = "disposed" \/ x \in Range(op[c].rest)
                                      \/ DependentClosure(x) \cap (op[c].failed \cup {e}) # {}
            BY <3>1, <4>2, <6>3, <6>4 DEF CallOK, SweepOK
          <6> QED
            BY <1>1, <2>2, <2>3, <3>2, <4>2, <6>1, <6>5 DEF SweepOK
        <5> QED
          BY <5>1, <5>2 DEF CallOK
      <4> QED
        BY <4>1, <4>2
    <3>5. \A d \in Calls : CallOK(d)'
      BY <1>1, <2>3, <3>1, <3>2, <3>4, CallSame DEF Calm
    <3>6. Known' /\ DepsActive'
      BY <1>1, <1>2, <3>1, <3>2 DEF Calm, Known, DepsActive
    <3> QED
      BY <3>3, <3>5, <3>6 DEF Calm
  <2> QED
    BY <2>4, <2>5 DEF LifecycleInv
<1> QED
  BY <1>4, <1>5

LEMMA LoadFailsKeeps ==
  ASSUME LifecycleInv, NEW c \in Calls, loadFails(c)
  PROVE  LifecycleInv'
<1> DEFINE e == op[c].phase.ext
<1>1. /\ op[c].at = "cleanup" /\ Types /\ op[c] \in Ops /\ Shape(op[c]) /\ e \in Ext /\ op[c].kind = "load"
      /\ st' = [st EXCEPT ![e] = "unknown"] /\ op' = [op EXCEPT ![c] = Idle] /\ thread' = NoCall
      /\ registered' = registered \ {e} /\ raced' = raced /\ gone' = gone /\ subs' = subs
  BY DEF loadFails, becomes, LifecycleInv, Types, Shape, Phases
<1>2. /\ op' \in [Calls -> Ops] /\ op'[c] = Idle /\ (\A d \in Calls : d # c => op'[d] = op[d])
      /\ \A d \in Calls : Shape(op[d])'
  BY <1>1, IdleFacts, Becomes
<1>3. Types'
  BY <1>1, <1>2 DEF Types, States
<1>4. ASSUME ~raced' PROVE Calm'
  <2>1. Calm /\ CallOK(c)
    BY <1>1, <1>4 DEF LifecycleInv, Calm
  <2>2. st' = st /\ st[e] = "unknown"
    <3>1. st[e] = "unknown"
      BY <1>1, <2>1 DEF CallOK, PhaseOK
    <3> QED
      BY <1>1, <3>1 DEF Types
  <2>3. Overlaps'
    BY <1>2, <2>1, OverlapsKept, IdleFacts DEF Calm
  <2>4. CallOK(c)'
    BY <1>2, IdleFacts DEF CallOK, PhaseOK, FramesOK, PlanOK, SweepOK, Planned
  <2>5. ASSUME NEW d \in Calls, d # c PROVE CallOK(d)'
    <3>1. op'[d] = op[d] /\ CallOK(d) /\ Shape(op[d])
      BY <1>1, <1>2, <2>1, <2>5 DEF Calm, Types
    <3>2. op[d].kind # "disposeAll" /\ (op[d].kind = "load" => op[d].plan # op[c].plan)
      BY <1>1, <2>1, <2>5 DEF Calm, Overlaps, OverlapOK, Busy
    <3>3. op[d].kind = "load" => op[d].phase.ext # e
      <4> SUFFICES ASSUME op[d].kind = "load" PROVE op[d].phase.ext # e
        OBVIOUS
      <4>1. op[c].plan = <<e>> /\ op[d].plan = <<op[d].phase.ext>>
        BY <1>1, <3>1 DEF Shape
      <4> QED
        BY <3>2, <4>1
    <3>4. PhaseOK(d)'
      BY <1>1, <2>2, <3>1, <3>3 DEF CallOK, PhaseOK
    <3>5. FramesOK(d)' /\ PlanOK(d)'
      BY <2>2, <3>1 DEF CallOK, FramesOK, PlanOK
    <3>6. SweepOK(d)'
      BY <3>1, <3>2 DEF SweepOK
    <3> QED
      BY <3>4, <3>5, <3>6 DEF CallOK
  <2>6. Known' /\ DepsActive'
    BY <1>1, <2>1, <2>2 DEF Calm, Known, DepsActive
  <2> QED
    BY <2>3, <2>4, <2>5, <2>6 DEF Calm
<1> QED
  BY <1>3, <1>4 DEF LifecycleInv

(***************************************************************************)
(* The records of activateOne: the last frame goes on to its next          *)
(* dependency, and that dependency may get a frame of its own.             *)
(***************************************************************************)
Awaiting(c) ==
  LET fs == op[c].frames
      f  == Last(fs)
      d  == DependsOn[f.ext][f.dep + 1]
  IN [op[c] EXCEPT !.frames[Len(fs)].dep = f.dep + 1, !.seen = @ \cup {d}]

LEMMA LastFrame ==
  ASSUME Types, NEW c \in Calls, op[c].kind = "activate"
  PROVE  /\ op[c].frames \in Seq([ext : Ext, dep : Nat]) /\ Len(op[c].frames) \in Nat \ {0}
         /\ Last(op[c].frames) = op[c].frames[Len(op[c].frames)]
         /\ Last(op[c].frames) \in [ext : Ext, dep : Nat]
         /\ Last(op[c].frames).ext \in Ext /\ Last(op[c].frames).dep \in Nat
         /\ Last(op[c].frames).dep <= Len(DependsOn[Last(op[c].frames).ext])
         /\ Len(op[c].frames) \in DOMAIN op[c].frames /\ DOMAIN op[c].frames = 1..Len(op[c].frames)
<1>1. op[c].frames \in Seq([ext : Ext, dep : Nat]) /\ op[c].frames # << >> /\ FramesFit(op[c])
  BY DEF Types, Shape, FramesFit, Ops
<1>2. Len(op[c].frames) \in Nat \ {0} /\ Len(op[c].frames) \in DOMAIN op[c].frames
  BY <1>1, NonEmptyLength
<1>3. Last(op[c].frames) = op[c].frames[Len(op[c].frames)]
  BY DEF Last
<1>4. Last(op[c].frames) \in [ext : Ext, dep : Nat]
  <2>1. op[c].frames \in Seq([ext : Ext, dep : Nat])
    BY <1>1
  <2>2. op[c].frames[Len(op[c].frames)] \in [ext : Ext, dep : Nat]
    BY <1>2, <2>1, SeqElement
  <2> QED
    BY <1>3, <2>2
<1>5. Last(op[c].frames).ext \in Ext /\ Last(op[c].frames).dep \in Nat
  BY <1>4
<1>6. Last(op[c].frames).dep <= Len(DependsOn[Last(op[c].frames).ext])
  BY <1>1, <1>2, <1>3 DEF FramesFit
<1>7. DOMAIN op[c].frames = 1..Len(op[c].frames)
  BY <1>1
<1> QED
  BY <1>1, <1>2, <1>3, <1>4, <1>5, <1>6, <1>7

LEMMA AwaitingFacts ==
  ASSUME Types, NEW c \in Calls, op[c].kind = "activate", op[c].at = "next",
         NEW f, f = Last(op[c].frames), f.dep # Len(DependsOn[f.ext]),
         NEW d, d = DependsOn[f.ext][f.dep + 1]
  PROVE  /\ Awaiting(c) \in Ops /\ Shape(Awaiting(c)) /\ d \in Ext
         /\ Awaiting(c).kind = "activate" /\ Awaiting(c).at = "next" /\ Awaiting(c).plan = << >>
         /\ Awaiting(c).rest = << >> /\ Awaiting(c).seen = op[c].seen \cup {d}
         /\ DOMAIN Awaiting(c).frames = DOMAIN op[c].frames
         /\ \A i \in DOMAIN op[c].frames : i # Len(op[c].frames) => Awaiting(c).frames[i] = op[c].frames[i]
         /\ Awaiting(c).frames[Len(op[c].frames)].ext = f.ext
         /\ Awaiting(c).frames[Len(op[c].frames)].dep = f.dep + 1
<1> DEFINE fs == op[c].frames
           n  == Len(fs)
           g  == [f EXCEPT !.dep = f.dep + 1]
           gs == [fs EXCEPT ![n] = g]
           o  == Awaiting(c)
<1>1. /\ fs \in Seq([ext : Ext, dep : Nat]) /\ n \in Nat \ {0} /\ f = fs[n] /\ f \in [ext : Ext, dep : Nat]
      /\ f.ext \in Ext /\ f.dep \in Nat /\ f.dep <= Len(DependsOn[f.ext]) /\ n \in DOMAIN fs /\ DOMAIN fs = 1..n
  BY LastFrame
<1>2. DependsOn[f.ext] \in Seq(Ext) /\ f.dep + 1 \in 1..Len(DependsOn[f.ext])
  <2>1. DependsOn[f.ext] \in Seq(Ext)
    BY <1>1, DepsType
  <2>2. Len(DependsOn[f.ext]) \in Nat
    BY <2>1
  <2> QED
    BY <1>1, <2>1, <2>2
<1>3. d \in Ext
  BY <1>2
<1>4. g \in [ext : Ext, dep : Nat] /\ g.ext = f.ext /\ g.dep = f.dep + 1
  BY <1>1
<1> HIDE DEF g
<1>5. /\ gs \in Seq([ext : Ext, dep : Nat]) /\ DOMAIN gs = DOMAIN fs /\ gs[n] = g /\ Len(gs) = n
      /\ \A i \in DOMAIN fs : i # n => gs[i] = fs[i]
  <2> HIDE DEF fs, n
  <2> QED
    BY <1>1, <1>4
<1>6. /\ op[c] \in Ops /\ Shape(op[c]) /\ FramesFit(op[c]) /\ op[c].rest = << >> /\ op[c].plan = << >>
      /\ op[c].seen \cup {d} \in SUBSET Ext
  BY <1>3 DEF Types, Shape, FramesFit, Ops
<1>7. o = [[op[c] EXCEPT !.frames = gs] EXCEPT !.seen = op[c].seen \cup {d}]
  <2>1. o = [op[c] EXCEPT !.frames[n].dep = f.dep + 1, !.seen = @ \cup {d}]
    BY DEF Awaiting
  <2>2. \A r \in Ops : r.frames[n] = f =>
          [r EXCEPT !.frames[n].dep = f.dep + 1, !.seen = @ \cup {d}]
            = [[r EXCEPT !.frames = [r.frames EXCEPT ![n] = g]] EXCEPT !.seen = r.seen \cup {d}]
    BY DEF Ops, g
  <2> QED
    BY <1>1, <1>6, <2>1, <2>2
<1>8. /\ o \in Ops /\ o.kind = "activate" /\ o.at = "next" /\ o.plan = << >> /\ o.rest = << >>
      /\ o.seen = op[c].seen \cup {d} /\ o.frames = gs
  BY <1>5, <1>6, <1>7 DEF Ops
<1> HIDE DEF o
<1>9. FramesFit(o)
  <2>1. ASSUME NEW i \in DOMAIN gs PROVE gs[i].ext \in o.seen /\ gs[i].dep <= Len(DependsOn[gs[i].ext])
    <3>1. CASE i = n
      <4>1. f.ext \in op[c].seen
        BY <1>1, <1>6 DEF FramesFit
      <4> QED
        BY <1>2, <1>4, <1>5, <1>8, <3>1, <4>1
    <3>2. CASE i # n
      BY <1>5, <1>6, <1>8, <3>2 DEF FramesFit
    <3> QED
      BY <3>1, <3>2
  <2>2. gs # << >>
    <3>1. Len(<< >>) = 0
      OBVIOUS
    <3> QED
      BY <1>1, <1>5, <3>1
  <2> QED
    BY <1>8, <2>1, <2>2 DEF FramesFit
<1>10. Shape(o)
  BY <1>8, <1>9 DEF Shape, Planned
<1> QED
  BY <1>3, <1>4, <1>5, <1>8, <1>10 DEF o

(* The dependencies of the last frame that are known to be active.         *)
LEMMA LastFrameActive ==
  ASSUME Types, NEW c \in Calls, op[c].kind = "activate", FramesOK(c),
         NEW f, f = Last(op[c].frames),
         ~(f.dep > 0 /\ st[DependsOn[f.ext][f.dep]] # "active")
  PROVE  \A j \in 1..f.dep : st[DependsOn[f.ext][j]] = "active"
<1>1. /\ f.dep \in Nat /\ f = op[c].frames[Len(op[c].frames)]
      /\ Len(op[c].frames) \in DOMAIN op[c].frames
  BY LastFrame
<1>2. \A j \in 1..(f.dep - 1) : st[DependsOn[f.ext][j]] = "active"
  BY <1>1 DEF FramesOK
<1> SUFFICES ASSUME NEW j \in 1..f.dep PROVE st[DependsOn[f.ext][j]] = "active"
  OBVIOUS
<1>3. CASE j = f.dep
  <2>1. f.dep > 0
    BY <1>1, <1>3
  <2> QED
    BY <1>3, <2>1
<1>4. CASE j # f.dep
  <2>1. j \in 1..(f.dep - 1)
    BY <1>1, <1>4
  <2> QED
    BY <1>2, <2>1
<1> QED
  BY <1>3, <1>4

LEMMA AwaitingFramesOK ==
  ASSUME Types, NEW c \in Calls, op[c].kind = "activate", op[c].at = "next", FramesOK(c),
         NEW f, f = Last(op[c].frames), f.dep # Len(DependsOn[f.ext]),
         ~(f.dep > 0 /\ st[DependsOn[f.ext][f.dep]] # "active")
  PROVE  \A i \in DOMAIN Awaiting(c).frames : \A j \in 1..(Awaiting(c).frames[i].dep - 1) :
           st[DependsOn[Awaiting(c).frames[i].ext][j]] = "active"
<1> DEFINE n == Len(op[c].frames)
           o == Awaiting(c)
<1>1. /\ DOMAIN o.frames = DOMAIN op[c].frames
      /\ \A i \in DOMAIN op[c].frames : i # n => o.frames[i] = op[c].frames[i]
      /\ o.frames[n].ext = f.ext /\ o.frames[n].dep = f.dep + 1
  BY AwaitingFacts
<1>2. f.dep \in Nat /\ \A j \in 1..f.dep : st[DependsOn[f.ext][j]] = "active"
  BY LastFrame, LastFrameActive
<1> HIDE DEF o, n
<1> SUFFICES ASSUME NEW i \in DOMAIN o.frames, NEW j \in 1..(o.frames[i].dep - 1)
             PROVE  st[DependsOn[o.frames[i].ext][j]] = "active"
  BY DEF o
<1>3. CASE i = n
  <2>1. j \in 1..f.dep
    <3>1. PICK k \in Nat : k = f.dep
      BY <1>2
    <3>2. o.frames[i].dep = k + 1
      BY <1>1, <1>3, <3>1
    <3>3. o.frames[i].dep - 1 = f.dep
      BY <3>1, <3>2
    <3> QED
      BY <3>3
  <2> QED
    BY <1>1, <1>2, <1>3, <2>1
<1>4. CASE i # n
  BY <1>1, <1>4 DEF FramesOK
<1> QED
  BY <1>3, <1>4

LEMMA ActivateOneKeeps ==
  ASSUME LifecycleInv, NEW c \in Calls, activateOne(c)
  PROVE  LifecycleInv'
<1> DEFINE fs == op[c].frames
           f  == Last(fs)
           d  == DependsOn[f.ext][f.dep + 1]
           stale == f.dep > 0 /\ st[DependsOn[f.ext][f.dep]] # "active"
           awaits == d \in op[c].seen \/ (d \in registered /\ st[d] = "active")
           descends == d \in registered /\ st[d] \in {"loaded", "inactive"}
<1>1. /\ op[c].kind = "activate" /\ op[c].at = "next" /\ Types /\ op[c] \in Ops
      /\ registered' = registered /\ st' = st /\ gone' = gone /\ subs' = subs /\ raced' = raced
      /\ raced' \in BOOLEAN
  BY DEF activateOne, Runs, LifecycleInv, Types
<1>2. /\ fs \in Seq([ext : Ext, dep : Nat]) /\ Len(fs) \in Nat \ {0}
      /\ f.ext \in Ext /\ f.dep \in Nat /\ f.dep <= Len(DependsOn[f.ext])
  BY <1>1, LastFrame
<1>3. IF stale THEN becomes(c, Idle, NoCall)
      ELSE IF f.dep = Len(DependsOn[f.ext]) THEN performPhase(c, f.ext)
      ELSE IF awaits THEN becomes(c, Awaiting(c), NoCall)
      ELSE IF descends THEN becomes(c, [Awaiting(c) EXCEPT !.frames = Append(@, Frame(d))], c)
      ELSE becomes(c, Idle, NoCall)
  BY DEF activateOne, Awaiting
<1>4. ~raced => Calm /\ CallOK(c)
  BY DEF LifecycleInv, Calm
<1> HIDE DEF fs, f, d, stale, awaits, descends
<1>5. CASE stale \/ (f.dep # Len(DependsOn[f.ext]) /\ ~awaits /\ ~descends)
  BY <1>1, <1>3, <1>5, EndKeeps
<1>6. CASE ~stale /\ f.dep = Len(DependsOn[f.ext])
  <2>1. performPhase(c, f.ext)
    BY <1>3, <1>6
  <2>2. ~raced => \A x \in Deps(f.ext) : st[x] = "active"
    <3> SUFFICES ASSUME ~raced, NEW x \in Deps(f.ext) PROVE st[x] = "active"
      OBVIOUS
    <3>1. \A j \in 1..f.dep : st[DependsOn[f.ext][j]] = "active"
      BY <1>1, <1>4, <1>6, LastFrameActive DEF CallOK, stale, f, fs
    <3>2. PICK j \in DOMAIN DependsOn[f.ext] : x = DependsOn[f.ext][j]
      BY DEF Deps, Range
    <3>3. j \in 1..f.dep
      BY <1>2, <1>6, <3>2, DepsType
    <3> QED
      BY <3>1, <3>2, <3>3
  <2> QED
    BY <1>1, <1>2, <1>6, <2>1, <2>2, PerformPhaseKeeps DEF Planned, f, fs
<1>7. CASE ~stale /\ f.dep # Len(DependsOn[f.ext]) /\ (awaits \/ descends)
  <2> DEFINE w == Awaiting(c)
             o == IF awaits THEN w ELSE [w EXCEPT !.frames = Append(@, Frame(d))]
  <2>1. op' = [op EXCEPT ![c] = o] /\ thread' \in {NoCall, c}
    BY <1>3, <1>7 DEF becomes
  <2>2. /\ w \in Ops /\ Shape(w) /\ d \in Ext
        /\ w.kind = "activate" /\ w.at = "next" /\ w.plan = << >> /\ w.rest = << >>
        /\ w.seen = op[c].seen \cup {d}
    BY <1>1, <1>7, AwaitingFacts DEF f, d, fs
  <2>3. ~raced => \A i \in DOMAIN w.frames : \A j \in 1..(w.frames[i].dep - 1) :
                    st[DependsOn[w.frames[i].ext][j]] = "active"
    BY <1>1, <1>4, <1>7, AwaitingFramesOK DEF CallOK, stale, f, fs
  <2> HIDE DEF w
  <2>4. /\ o \in Ops /\ Shape(o) /\ o.kind = "activate" /\ o.at = "next" /\ o.plan = << >>
        /\ ~raced => \A i \in DOMAIN o.frames : \A j \in 1..(o.frames[i].dep - 1) :
                       st[DependsOn[o.frames[i].ext][j]] = "active"
    <3>1. CASE awaits
      BY <2>2, <2>3, <3>1
    <3>2. CASE ~awaits
      <4> DEFINE gs == Append(w.frames, Frame(d))
                 n  == Len(w.frames)
      <4>1. w.frames \in Seq([ext : Ext, dep : Nat]) /\ FramesFit(w)
        BY <2>2 DEF Ops, Shape
      <4>2. Frame(d) \in [ext : Ext, dep : Nat] /\ Frame(d).ext = d /\ Frame(d).dep = 0
        BY <2>2 DEF Frame
      <4>3. /\ gs \in Seq([ext : Ext, dep : Nat]) /\ DOMAIN gs = 1..(n + 1) /\ gs[n + 1] = Frame(d)
            /\ \A i \in 1..n : gs[i] = w.frames[i] /\ i \in DOMAIN w.frames /\ n \in Nat /\ Len(gs) = n + 1
        BY <4>1, <4>2
      <4>4. o = [w EXCEPT !.frames = gs]
        BY <3>2
      <4>5. /\ o \in Ops /\ o.kind = "activate" /\ o.at = "next" /\ o.plan = << >> /\ o.rest = << >>
            /\ o.seen = w.seen /\ o.frames = gs
        BY <2>2, <4>3, <4>4 DEF Ops
      <4>6. n \in Nat
        BY <4>1
      <4>7. Len(DependsOn[d]) \in Nat
        BY <2>2, DepsType
      <4> HIDE DEF o, gs, n
      <4>8. \A i \in DOMAIN gs : gs[i].ext \in o.seen /\ gs[i].dep <= Len(DependsOn[gs[i].ext])
        BY <2>2, <4>1, <4>2, <4>3, <4>5, <4>6, <4>7 DEF FramesFit
      <4>9. gs # << >>
        <5>1. DOMAIN << >> = 1..0
          OBVIOUS
        <5> QED
          BY <4>3, <4>6, <5>1
      <4>10. Shape(o)
        BY <4>5, <4>8, <4>9 DEF Shape, FramesFit, Planned
      <4>11. ~raced => \A i \in DOMAIN gs : \A j \in 1..(gs[i].dep - 1) : st[DependsOn[gs[i].ext][j]] = "active"
        BY <2>3, <4>2, <4>3, <4>6
      <4> QED
        BY <4>5, <4>10, <4>11
    <3> QED
      BY <3>1, <3>2
  <2> HIDE DEF o
  <2>5. op'[c] = o /\ \A x \in Calls : x # c => op'[x] = op[x]
    BY <1>1, <2>1, <2>4, Becomes
  <2>6. ASSUME ~raced' PROVE ~raced /\ Overlaps' /\ CallOK(c)'
    <3>1. Overlaps'
      BY <1>1, <1>4, <2>4, <2>5, <2>6, OverlapsKept DEF Calm
    <3>2. CallOK(c)'
      BY <1>1, <2>4, <2>5, <2>6 DEF CallOK, PhaseOK, FramesOK, PlanOK, SweepOK, Planned
    <3> QED
      BY <1>1, <2>6, <3>1, <3>2
  <2>7. thread' \in Calls \cup {NoCall}
    BY <2>1
  <2> QED
    BY <1>1, <2>1, <2>4, <2>6, <2>7, QuietStep
<1> QED
  BY <1>5, <1>6, <1>7

-----------------------------------------------------------------------------
(***************************************************************************)
(* The invariant holds at the start and across every step of any call.     *)
(***************************************************************************)
LEMMA LifecycleInit == Init => LifecycleInv
<1> SUFFICES ASSUME Init PROVE LifecycleInv
  OBVIOUS
<1>1. op = [c \in Calls |-> Idle] /\ st = [e \in Ext |-> "unknown"] /\ raced = FALSE
      /\ registered = {} /\ gone = {} /\ subs = {} /\ thread = NoCall
  BY DEF Init
<1>2. Types
  BY <1>1, IdleFacts DEF Types, States
<1>3. Calm
  BY <1>1, IdleFacts DEF Calm, Overlaps, Busy, Known, DepsActive, CallOK, PhaseOK, FramesOK, PlanOK, SweepOK, Planned
<1> QED
  BY <1>2, <1>3 DEF LifecycleInv

LEMMA LifecycleStep == LifecycleInv /\ [Next]_vars => LifecycleInv'
<1> SUFFICES ASSUME LifecycleInv, [Next]_vars PROVE LifecycleInv'
  OBVIOUS
<1>1. CASE UNCHANGED vars
  BY <1>1 DEF vars, LifecycleInv, Types, Shape, FramesFit, Calm, Overlaps, OverlapOK, Busy, Known, DepsActive,
              CallOK, PhaseOK, FramesOK, PlanOK, SweepOK, DependentClosure, ClosedUnderDependents
<1>2. ASSUME NEW c \in Calls, step(c) PROVE LifecycleInv'
  BY <1>2, ActivateOneKeeps, NextTargetKeeps, CallEndsKeeps, DisposeNextKeeps, LoadFailsKeeps,
     PhaseEndsKeeps, PhaseFailsKeeps DEF step
<1>3. ASSUME NEW c \in Calls, disposeAll(c) PROVE LifecycleInv'
  BY <1>3, DisposeAllKeeps
<1>4. ASSUME NEW c \in Calls, NEW e \in Ext, load(c, e) PROVE LifecycleInv'
  BY <1>4, LoadKeeps
<1>5. ASSUME NEW c \in Calls, NEW e \in Ext, activate(c, e) PROVE LifecycleInv'
  BY <1>5, ActivateKeeps
<1>6. ASSUME NEW c \in Calls, NEW e \in Ext, deactivate(c, e) PROVE LifecycleInv'
  <2>1. PICK plan \in collectDependents(e) : begin(c, e, [Call("deactivate") EXCEPT !.plan = plan], c)
    BY <1>6 DEF deactivate
  <2> QED
    BY <1>6, <2>1, PlannedCallKeeps DEF deactivate
<1>7. ASSUME NEW c \in Calls, NEW e \in Ext, dispose(c, e) PROVE LifecycleInv'
  <2>1. PICK plan \in collectDependents(e) : begin(c, e, [Call("dispose") EXCEPT !.plan = plan], c)
    BY <1>7 DEF dispose
  <2> QED
    BY <1>7, <2>1, PlannedCallKeeps DEF dispose
<1>8. ASSUME NEW e \in Ext, disposeAgain(e) PROVE LifecycleInv'
  BY <1>8, DisposeAgainKeeps
<1> QED
  BY <1>1, <1>2, <1>3, <1>4, <1>5, <1>6, <1>7, <1>8 DEF Next

LEMMA LifecycleTyped == LifecycleInv => TypeOK
<1> SUFFICES ASSUME LifecycleInv PROVE TypeOK
  OBVIOUS
<1>1. Types
  BY DEF LifecycleInv
<1>2. ASSUME NEW c \in Calls
      PROVE /\ op[c].kind \in Kinds \cup {"idle"} /\ op[c].at \in {"idle", "next", "callback", "cleanup"}
            /\ (op[c].kind = "idle") = (op[c].at = "idle")
            /\ op[c].at \in {"callback", "cleanup"} => op[c].phase.ext \in Ext /\ op[c].phase.before \in States
            /\ Range(op[c].plan) \cup Range(op[c].rest) \cup op[c].failed \cup op[c].seen \subseteq Ext
            /\ \A i \in DOMAIN op[c].frames : op[c].frames[i].ext \in op[c].seen
            /\ op[c].kind = "activate" => op[c].frames # << >>
  <2>1. op[c] \in Ops /\ Shape(op[c])
    BY <1>1 DEF Types
  <2>2. Range(op[c].plan) \subseteq Ext /\ Range(op[c].rest) \subseteq Ext
    BY <2>1, RangeType DEF Ops
  <2>3. op[c].at \in {"callback", "cleanup"} => op[c].phase.ext \in Ext /\ op[c].phase.before \in States
    BY <2>1 DEF Shape, Phases
  <2>4. \A i \in DOMAIN op[c].frames : op[c].frames[i].ext \in op[c].seen
    BY <2>1 DEF Shape, FramesFit
  <2> QED
    BY <2>1, <2>2, <2>3, <2>4 DEF Ops, Shape, FramesFit
<1> QED
  BY <1>1, <1>2 DEF TypeOK, Types

(* Races are remembered.                                                   *)
LEMMA RacedStays == LifecycleInv /\ [Next]_vars /\ ~raced' => ~raced
<1> SUFFICES ASSUME LifecycleInv, [Next]_vars, ~raced' PROVE ~raced
  OBVIOUS
<1>1. CASE UNCHANGED vars
  BY <1>1 DEF vars
<1>2. ASSUME NEW c \in Calls, step(c) PROVE raced' = raced
  BY <1>2 DEF step, activateOne, nextTarget, callEnds, disposeNext, loadFails, phaseEnds, phaseFails
<1>3. ASSUME NEW c \in Calls, NEW e, NEW o, NEW n, begin(c, e, o, n) PROVE ~raced
  BY <1>3 DEF begin
<1>4. ASSUME NEW c \in Calls, disposeAll(c) PROVE ~raced
  BY <1>3, <1>4 DEF disposeAll
<1>5. ASSUME NEW c \in Calls, NEW e \in Ext,
             load(c, e) \/ activate(c, e) \/ deactivate(c, e) \/ dispose(c, e)
      PROVE  ~raced
  BY <1>3, <1>5 DEF load, activate, deactivate, dispose
<1>6. ASSUME NEW e \in Ext, disposeAgain(e) PROVE raced' = raced
  BY <1>6 DEF disposeAgain
<1> QED
  BY <1>1, <1>2, <1>4, <1>5, <1>6 DEF Next

(* A disposed extension stays disposed.                                    *)
LEMMA StaysDisposed ==
  ASSUME LifecycleInv, [Next]_vars, ~raced', NEW e \in Ext, st[e] = "disposed"
  PROVE  st'[e] = "disposed"
<1>1. Calm /\ Types /\ st \in [Ext -> States]
  BY RacedStays DEF LifecycleInv, Types
<1>2. CASE UNCHANGED vars
  BY <1>2 DEF vars
<1>3. ASSUME NEW c \in Calls, NEW b \in BOOLEAN, phaseEnds(c, b) \/ phaseFails(c, b) PROVE st'[e] = "disposed"
  <2>1. /\ op[c].at = "callback" /\ op[c] \in Ops /\ Shape(op[c])
        /\ \E v \in States : st' = [st EXCEPT ![op[c].phase.ext] = v]
    <3>1. op[c].at = "callback" /\ op[c] \in Ops /\ Shape(op[c])
      BY <1>1, <1>3 DEF phaseEnds, phaseFails, Types
    <3>2. op[c].phase.before \in States /\ op[c].kind \in Kinds
      BY <3>1 DEF Shape, Phases, Ops, Kinds
    <3>3. NextState(op[c].kind) \in States
      BY <3>2, KindFacts DEF Kinds, States
    <3> QED
      BY <1>3, <3>1, <3>2, <3>3 DEF phaseEnds, phaseFails
  <2>2. op[c].kind \in Kinds /\ op[c].phase.ext \in Ext
    BY <2>1 DEF Shape, Ops, Kinds, Phases
  <2>3. st[op[c].phase.ext] # "disposed"
    BY <1>1, <2>1, <2>2, KindFacts DEF Calm, CallOK, PhaseOK, Kinds
  <2> QED
    BY <1>1, <2>1, <2>2, <2>3
<1>4. ASSUME NEW c \in Calls, loadFails(c) PROVE st'[e] = "disposed"
  <2>1. st[op[c].phase.ext] = "unknown" /\ st' = [st EXCEPT ![op[c].phase.ext] = "unknown"]
    BY <1>1, <1>4 DEF loadFails, Calm, CallOK, PhaseOK
  <2> QED
    BY <1>1, <2>1
<1>5. ASSUME NEW c \in Calls, disposeNext(c) PROVE st'[e] = "disposed"
  BY <1>1, <1>5 DEF disposeNext
<1>6. ASSUME NEW c \in Calls, step(c) PROVE st'[e] = "disposed"
  BY <1>3, <1>4, <1>5, <1>6 DEF step, activateOne, nextTarget, callEnds
<1>7. ASSUME NEW c \in Calls, NEW x \in Ext,
             disposeAll(c) \/ load(c, x) \/ activate(c, x) \/ deactivate(c, x) \/ dispose(c, x)
      PROVE  st'[e] = "disposed"
  BY <1>7 DEF disposeAll, load, activate, deactivate, dispose
<1>8. ASSUME NEW x \in Ext, disposeAgain(x) PROVE st'[e] = "disposed"
  BY <1>1, <1>8 DEF disposeAgain
<1>9. ASSUME NEW c \in Calls, disposeAll(c) PROVE st'[e] = "disposed"
  BY <1>9 DEF disposeAll
<1> QED
  BY <1>2, <1>6, <1>7, <1>8, <1>9 DEF Next

LEMMA DisposedStep ==
  LifecycleInv /\ LifecycleInv' /\ [Next]_vars =>
    [~raced' => \A e \in Ext : st[e] = "disposed" =>
       st'[e] = "disposed" /\ e \notin subs' /\ e \in gone']_vars
<1> SUFFICES ASSUME LifecycleInv, LifecycleInv', [Next]_vars, ~raced', NEW e \in Ext, st[e] = "disposed"
             PROVE  st'[e] = "disposed" /\ e \notin subs' /\ e \in gone'
  OBVIOUS
<1>1. st'[e] = "disposed"
  BY StaysDisposed
<1>2. Known'
  BY DEF LifecycleInv, Calm
<1> QED
  BY <1>1, <1>2 DEF Known

(***************************************************************************)
(* Only callEnds ends a disposeAll.                                        *)
(***************************************************************************)
LEMMA DisposeAllEnds ==
  ASSUME LifecycleInv, [Next]_vars, NEW c \in Calls, op[c].kind = "disposeAll", op'[c].kind = "idle"
  PROVE  callEnds(c)
<1>1. Types /\ op[c] \in Ops /\ Shape(op[c]) /\ op \in [Calls -> Ops]
  BY DEF LifecycleInv, Types
<1>2. ~UNCHANGED op
  OBVIOUS
<1>3. ASSUME NEW d \in Calls, NEW o, op' = [op EXCEPT ![d] = o] PROVE d = c /\ o.kind = "idle"
  BY <1>1, <1>3
<1>4. ASSUME NEW d \in Calls, NEW e, NEW o, NEW n, MayCall(d), begin(d, e, o, n) PROVE FALSE
  BY <1>3, <1>4 DEF begin, MayCall, Busy
<1>5. ASSUME NEW d \in Calls, disposeAll(d) PROVE FALSE
  BY <1>4, <1>5 DEF disposeAll
<1>6. ASSUME NEW d \in Calls, NEW e \in Ext, load(d, e) \/ activate(d, e) \/ deactivate(d, e) \/ dispose(d, e)
      PROVE  FALSE
  <2>1. MayCall(d)
    BY <1>6 DEF load, activate, deactivate, dispose, begin
  <2> QED
    BY <1>4, <1>6, <2>1 DEF load, activate, deactivate, dispose
<1>7. ASSUME NEW e \in Ext, disposeAgain(e) PROVE FALSE
  BY <1>2, <1>7 DEF disposeAgain
<1>8. ASSUME NEW d \in Calls, NEW o, NEW n, becomes(d, o, n) PROVE d = c /\ o.kind = "idle"
  BY <1>3, <1>8 DEF becomes
<1>9. ASSUME NEW d \in Calls, NEW e, Failed(d, e).kind = "idle" PROVE d # c
  BY <1>1, <1>9 DEF Failed, Ops
<1>10. ASSUME NEW d \in Calls, NEW e, performPhase(d, e) PROVE FALSE
  <2>1. d = c
    BY <1>8, <1>10 DEF performPhase
  <2>2. [op[c] EXCEPT !.at = "callback", !.phase = [ext |-> e, before |-> st[e]]].kind = op[c].kind
    BY <1>1 DEF Ops
  <2> QED
    BY <1>8, <1>9, <1>10, <2>1, <2>2 DEF performPhase
<1>11. ASSUME NEW d \in Calls, activateOne(d) PROVE FALSE
  <2>1. op[d].kind = "activate" /\ d # c
    BY <1>11 DEF activateOne
  <2> QED
    BY <1>8, <1>10, <1>11, <2>1 DEF activateOne
<1>12. ASSUME NEW d \in Calls, nextTarget(d) PROVE FALSE
  <2>1. [op[c] EXCEPT !.plan = Tail(@)].kind = op[c].kind
    BY <1>1 DEF Ops
  <2> QED
    BY <1>8, <1>10, <1>12, <2>1 DEF nextTarget
<1>13. ASSUME NEW d \in Calls, disposeNext(d) PROVE FALSE
  <2>1. d = c
    BY <1>8, <1>13 DEF disposeNext
  <2> DEFINE on == [op[c] EXCEPT !.rest = Tail(@)]
  <2>2. /\ on.kind = op[c].kind
        /\ \A S : [on EXCEPT !.failed = @ \cup S].kind = op[c].kind
        /\ \A p : [on EXCEPT !.plan = p].kind = op[c].kind
    BY <1>1 DEF Ops
  <2> QED
    BY <1>8, <1>13, <2>1, <2>2 DEF disposeNext
<1>14. ASSUME NEW d \in Calls, NEW b \in BOOLEAN, phaseEnds(d, b) PROVE FALSE
  <2>1. d = c /\ After(c).kind = "idle" /\ op[c].at = "callback"
    BY <1>8, <1>14 DEF phaseEnds
  <2> QED
    BY <1>1, <2>1, AfterFacts DEF Planned
<1>15. ASSUME NEW d \in Calls, NEW b \in BOOLEAN, phaseFails(d, b) PROVE FALSE
  <2>1. d = c /\ Failed(c, op[c].phase.ext).kind = "idle"
    BY <1>8, <1>15 DEF phaseFails
  <2> QED
    BY <1>9, <2>1
<1>16. ASSUME NEW d \in Calls, loadFails(d) PROVE FALSE
  <2>1. d = c /\ op[c].at = "cleanup"
    BY <1>8, <1>16 DEF loadFails
  <2> QED
    BY <1>1, <2>1 DEF Shape
<1>17. ASSUME NEW d \in Calls, callEnds(d) PROVE d = c
  BY <1>8, <1>17 DEF callEnds
<1>18. ASSUME NEW d \in Calls, step(d) PROVE callEnds(c)
  BY <1>11, <1>12, <1>13, <1>14, <1>15, <1>16, <1>17, <1>18 DEF step
<1> QED
  BY <1>2, <1>5, <1>6, <1>7, <1>18 DEF Next, vars

LEMMA DisposeAllStep ==
  LifecycleInv /\ [Next]_vars =>
    [\A c \in Calls : op[c].kind = "disposeAll" /\ op'[c].kind = "idle" /\ ~raced =>
       \A e \in registered : st[e] # "disposed" => DependentClosure(e) \cap op[c].failed # {}]_vars
<1> SUFFICES ASSUME LifecycleInv, [Next]_vars, NEW c \in Calls, op[c].kind = "disposeAll",
                    op'[c].kind = "idle", ~raced, NEW e \in registered, st[e] # "disposed"
             PROVE  DependentClosure(e) \cap op[c].failed # {}
  OBVIOUS
<1>1. callEnds(c)
  BY DisposeAllEnds
<1>2. op[c].plan = << >> /\ op[c].rest = << >> /\ Range(<< >>) = {}
  BY <1>1 DEF callEnds, Range
<1>3. SweepOK(c)
  BY DEF LifecycleInv, Calm, CallOK
<1> QED
  BY <1>2, <1>3 DEF SweepOK

LEMMA ActiveDepsInv == LifecycleInv => ActiveNeedsActiveDeps
BY DEF LifecycleInv, Calm, DepsActive, ActiveNeedsActiveDeps

-----------------------------------------------------------------------------
(***************************************************************************)
(* Each of the overlapping calls keeps its plan, its frames and its phase  *)
(* in step with each other, whatever they do to each other's extensions.   *)
(***************************************************************************)
THEOREM LifecycleHolds == Spec => []LifecycleInv
<1> QED
  BY LifecycleInit, LifecycleStep, PTL DEF Spec

(***************************************************************************)
(* The states, registrations and records of the manager keep their types,  *)
(* for any extensions, dependencies and calls.                             *)
(***************************************************************************)
THEOREM LifecycleTypes == Spec => []TypeOK
BY LifecycleHolds, LifecycleTyped, PTL

(***************************************************************************)
(* An extension is active only while all it depends on is: activate goes   *)
(* below first, deactivate and dispose above, unless calls have raced.     *)
(***************************************************************************)
THEOREM DependenciesStayActive == Spec => []ActiveNeedsActiveDeps
BY LifecycleHolds, ActiveDepsInv, PTL

(***************************************************************************)
(* As long as calls do not overlap, a disposed extension never comes back  *)
(* to life and leaves no handler, and a disposeAll leaves nothing but what *)
(* hangs on a dispose that failed.                                         *)
(***************************************************************************)
THEOREM DisposalHolds == Spec => DisposedIsFinal /\ DisposeAllReachesAll
<1> QED
  BY LifecycleInit, LifecycleStep, DisposedStep, DisposeAllStep, PTL
     DEF Spec, DisposedIsFinal, DisposeAllReachesAll
=============================================================================
