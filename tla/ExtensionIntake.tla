--------------------------- MODULE ExtensionIntake ---------------------------
(***************************************************************************)
(* How extensions come into the program, and the rules they meet there,    *)
(* several of which the code has more than once.                           *)
(*                                                                         *)
(* The pure rules of the contracts (src/contracts) and of the core that    *)
(* applies them: a step asks one question, over a pair of versions with a  *)
(* range, a provider's capabilities, a declared cardinality, a hook, a     *)
(* stored slot.  The order extensions are brought up in, which the         *)
(* contract (dependency-resolution), the core's graph (dag, topological,   *)
(* cycle-detector) and the lifecycle manager (phase-runner) each find: a   *)
(* step puts one set of declarations to all three; names are numbers,      *)
(* whose order is the lexicographic one.                                   *)
(*                                                                         *)
(* The intake itself: the installer copies a source into its place and     *)
(* marks it (core/install), discovery reads the three layers and validates *)
(* what it finds (core/discovery), and the contract's own pipeline         *)
(* validates a list of candidates (contracts/validation-pipeline).  Files  *)
(* are written one at a time and a crash may fall between two of them;     *)
(* discovery and the pipeline each answer in a step.                       *)
(***************************************************************************)
EXTENDS Integers, Sequences, FiniteSets, FiniteSetsExt, SequencesExt

CONSTANTS
  MaxPart,       \* bound: parts of a version
  Exts,          \* extensions declared, numbered from 1
  Unknown,       \* a name no declaration has
  Categories,
  MaxDeps,       \* bound: entries of one dependsOn
  Releases,      \* versions of the extension that is installed
  FilesOf,       \* [Releases -> set of files]
  Ids,           \* numbers, for the order of names
  Stages,        \* the stages of validation an extension may fail at
  MaxFound,      \* bound: manifests in one layer
  MaxCandidates  \* bound: candidates given to the pipeline

Version == {<<a, b, c>> : a \in 0..MaxPart, b \in 0..MaxPart, c \in 0..MaxPart}

Before(a, b) ==
  \/ a[1] < b[1]
  \/ a[1] = b[1] /\ (a[2] < b[2] \/ (a[2] = b[2] /\ a[3] < b[3]))

AtLeast(a, b) == ~Before(a, b)

(***************************************************************************)
(* Ranges: the pipeline's own reading of requiredCoreVersion, and that of  *)
(* versioning-and-compatibility.  A range is a set of comparators.         *)
(***************************************************************************)
Operators  == {">=", ">", "<=", "<", "=", "^", "~", "other"}
Comparator == [op : Operators, base : Version]

Compares(op, v, base) ==
  \/ op = ">=" /\ AtLeast(v, base)
  \/ op = ">"  /\ Before(base, v)
  \/ op = "<=" /\ AtLeast(base, v)
  \/ op = "<"  /\ Before(v, base)
  \/ op = "="  /\ v = base

satisfiesSemVerRange(v, range) == \A c \in range : Compares(c.op, v, c.base)

satisfiesComparator(v, c) ==
  \/ c.op = "^" /\ AtLeast(v, c.base) /\ Before(v, <<c.base[1] + 1, 0, 0>>)
  \/ c.op = "~" /\ AtLeast(v, c.base) /\ Before(v, <<c.base[1], c.base[2] + 1, 0>>)
  \/ Compares(c.op, v, c.base)

satisfiesRange(v, range) == \A c \in range : satisfiesComparator(v, c)

(***************************************************************************)
(* Bumps of a contract's version.                                          *)
(***************************************************************************)
MajorClasses == {"removed-field", "narrowed-field-type", "changed-error-class", "changed-cardinality"}
MinorClasses == {"added-required-field"}

detectBumpLevel(from, to) ==
  CASE Before(to, from)  -> "downgrade"
    [] to = from         -> "none"
    [] to[1] > from[1]   -> "major"
    [] to[2] > from[2]   -> "minor"
    [] OTHER             -> "patch"

assertSemVerBump(from, to, breaking) ==
  LET level == detectBumpLevel(from, to)
  IN /\ level \notin {"downgrade", "none"}
     /\ breaking \cap MajorClasses /= {} => level = "major"
     /\ breaking \cap MinorClasses /= {} => level /= "patch"

(***************************************************************************)
(* Deprecations: the contract's verdict, and the check at load time.       *)
(***************************************************************************)
classifyDeprecation(soft, hard, core) ==
  CASE AtLeast(soft, hard)  -> "DeprecationWindowInvalid"
    [] AtLeast(core, hard)  -> "Deprecated"
    [] AtLeast(core, soft)  -> "warning"
    [] OTHER                -> "none"

checkDeprecation(soft, hard, core) == IF AtLeast(core, hard) THEN "Deprecated" ELSE "soft"

(***************************************************************************)
(* Capabilities.  Names stand for the kinds of claim there are: a flag     *)
(* (streaming and four others), one that may be found out on first use,    *)
(* and a number of tokens, each of which may be claimed as "probed".       *)
(***************************************************************************)
CAPABILITY_NAMES == {"streaming", "promptCaching", "contextWindow"}
Levels  == {"hard", "preferred", "probed"}
Windows == 1..2
Probed  == 0       \* the window a provider claims as "probed"
Claims  == [streaming : Levels \cup {"absent"}, promptCaching : Levels \cup {"absent"},
            contextWindow : Windows \cup {Probed}]
Requirement == [name : CAPABILITY_NAMES, level : Levels, minimum : Windows \cup {0}]   \* 0: no minimum declared

MissingCapability == {<<"refused", "hard">>}

(* contracts/capability-negotiation.ts: what is put off until first use,   *)
(* and what a provider's claims lack.                                      *)
Deferred(req, claims) ==
  req.level = "probed" \/ (req.name = "contextWindow" /\ claims.contextWindow = Probed)

Absent(req, claims) ==
  IF req.name = "contextWindow" THEN req.minimum /= 0 /\ claims.contextWindow < req.minimum
  ELSE claims[req.name] = "absent"

negotiateCapabilities(reqs, claims) ==
  LET deferred == {r \in reqs : Deferred(r, claims)}
      absent   == {r \in reqs \ deferred : Absent(r, claims)}
  IN IF \E r \in absent : r.level = "hard" THEN MissingCapability
     ELSE {<<r.name, "probe-pending">> : r \in deferred} \cup {<<r.name, "preferred-unmet">> : r \in absent}

(* core/capabilities/negotiator.ts works on the vector a model advertises, *)
(* in which a claim that is only probed counts as none, but for caching.   *)
levelToBoolean(level) == level \in {"hard", "preferred"}

advertised(claims) ==
  [streaming     |-> levelToBoolean(claims.streaming),
   promptCaching |-> CASE claims.promptCaching = "probed"        -> "probed"
                       [] levelToBoolean(claims.promptCaching)   -> "yes"
                       [] OTHER                                  -> "no",
   contextWindow |-> IF claims.contextWindow = Probed THEN 0 ELSE claims.contextWindow]

isCapabilitySatisfied(req, vector) ==
  CASE req.name = "contextWindow" -> req.minimum = 0 \/ vector.contextWindow >= req.minimum
    [] req.name = "promptCaching" -> vector.promptCaching \in {"yes", "probed"}
    [] OTHER                      -> vector.streaming

negotiate(reqs, vector) ==
  LET unmet == {r \in reqs : r.level /= "probed" /\ ~isCapabilitySatisfied(r, vector)}
  IN IF \E r \in unmet : r.level = "hard" THEN MissingCapability
     ELSE {<<r.name, "preferred-unmet">> : r \in unmet}

(***************************************************************************)
(* Cardinalities: what a category prescribes, what the pipeline's shape    *)
(* check and the conformance suite accept.                                 *)
(***************************************************************************)
Kind == {"Tool", "StateMachine", "SessionStore"}
CATEGORY_CARDINALITY ==
  [k \in Kind |-> [loaded |-> "unlimited",
     active |-> CASE k = "StateMachine" -> "one-attached" [] k = "SessionStore" -> "one" [] OTHER -> "unlimited"]]
Declaration == [loaded : {"unlimited", "one", "n", "other"}, active : {"unlimited", "one", "one-attached", "other"}]

assertCategoryCardinality(k, d) == d = CATEGORY_CARDINALITY[k]

checkShapeCardinalities(d) ==
  d.loaded \in {"unlimited", "one", "n"} /\ d.active \in {"unlimited", "one", "one-attached"}

runCheckCardinality(k, d) ==   \* "n" is an object here, not the string the pipeline takes
  /\ d.loaded \in {"unlimited", "one"} /\ d.active \in {"unlimited", "one", "one-attached"}
  /\ k = "SessionStore" => d.active = "one"

(***************************************************************************)
(* Where hooks may attach: the contract's table says which kinds are       *)
(* forbidden at a slot, the core's matrix which are allowed.               *)
(***************************************************************************)
HookKinds  == {"transform", "guard", "observer"}
HookStages == {"RECEIVE_INPUT", "COMPOSE_REQUEST", "SEND_REQUEST", "STREAM_RESPONSE", "TOOL_CALL", "RENDER"}
HOOK_SLOTS == HookStages \X {"pre", "post"}
HookSlot   == HOOK_SLOTS \cup {<<"other", "pre">>}

HOOK_TAXONOMY ==   \* the kinds a slot forbids
  [slot \in HOOK_SLOTS |->
     CASE slot \in {"SEND_REQUEST", "STREAM_RESPONSE", "RENDER"} \X {"post"} -> {"transform", "guard"}
       [] slot[2] = "post" \/ slot[1] = "RENDER"                            -> {"guard"}
       [] OTHER                                                            -> {}]

validateHookRegistration(slot, kind) ==
  CASE slot \notin HOOK_SLOTS           -> "HookSlotUnknown"
    [] kind \in HOOK_TAXONOMY[slot]     -> "HookInvalidAttachment"
    [] OTHER                            -> "ok"

HOOK_SLOT_MATRIX ==   \* the rules of the core: slot and allowed kinds
  {[slot |-> <<stage, "pre">>,  allowed |-> IF stage = "RENDER" THEN HookKinds \ {"guard"} ELSE HookKinds] :
     stage \in HookStages}
  \cup
  {[slot |-> <<stage, "post">>,
    allowed |-> IF stage \in {"RECEIVE_INPUT", "COMPOSE_REQUEST", "TOOL_CALL"}
                THEN {"transform", "observer"} ELSE {"observer"}] : stage \in HookStages}

validateAttachment(slot, kind) ==
  LET rules == {r \in HOOK_SLOT_MATRIX : r.slot = slot}
  IN CASE rules = {}                              -> "HookSlotUnknown"
       [] \A r \in rules : kind \notin r.allowed   -> "HookInvalidAttachment"
       [] OTHER                                   -> "ok"

(***************************************************************************)
(* State slots: the contract's verification, and the read that sessions    *)
(* go through.  A migration throws, is missing, or names its version.      *)
(***************************************************************************)
NoVersion == <<>>
Policies  == {"migrate", "warn", "reject"}
Outcomes  == {"absent", "throws", "current", "other"}

verifyStateSlot(stored, current, policy, migrate) ==
  CASE stored = NoVersion                            -> "SlotVersionMissing"
    [] stored = current                              -> "stored"
    [] policy = "reject"                             -> "SlotDriftRejected"
    [] policy = "warn"                               -> "stored"
    [] migrate \in {"absent", "throws"}              -> "SlotMigrationFailed"
    [] OTHER                                         -> "migrated"

migrateSlot(migrate) == IF migrate = "current" THEN "migrated" ELSE "SlotMigrationFailed"

readSlot(stored, current, policy, migrate) ==
  CASE stored = NoVersion   -> "SlotVersionMissing"
    [] stored = current     -> "stored"
    [] policy = "reject"    -> "SlotDriftRejected"
    [] policy = "warn"      -> "stored"
    [] OTHER                -> migrateSlot(migrate)

(***************************************************************************)
(* The questions.                                                          *)
(***************************************************************************)
VARIABLE question

Nothing == [about |-> "nothing"]
Questions ==
  [about : {"range"}, v : Version, range : {{c} : c \in Comparator}]
  \cup [about : {"bump"}, from : Version, via : Version, to : Version]
  \cup [about : {"deprecation"}, soft : Version, hard : Version, core : Version]
  \cup [about : {"capability"}, reqs : {{r, s} : r \in Requirement, s \in Requirement}, claims : Claims]
  \cup [about : {"cardinality"}, kind : Kind, declared : Declaration]
  \cup [about : {"hook"}, slot : HookSlot, kind : HookKinds]
  \cup [about : {"slot"}, stored : Version \cup {NoVersion}, current : Version, policy : Policies, migrate : Outcomes]

CRInit == question = Nothing
ask == question = Nothing /\ question' \in Questions
CRSpec == CRInit /\ [][ask]_question

(***************************************************************************)
(* What the pipeline takes as satisfied the contract's reading does too;   *)
(* a caret range admits no version that a breaking bump leads to, and the  *)
(* bumps of two releases in a row are a bump for both their changes.       *)
(***************************************************************************)
VersionRulesAgree ==
  /\ question.about = "range" =>
       /\ satisfiesSemVerRange(question.v, question.range) => satisfiesRange(question.v, question.range)
       /\ \A c \in question.range : c.op = "^" /\ satisfiesRange(question.v, {c})
            => \A b \in MajorClasses : ~assertSemVerBump(c.base, question.v, {b})
  /\ question.about = "bump" =>
       \A b1 \in SUBSET (MajorClasses \cup MinorClasses), b2 \in {{}, {"removed-field"}, MinorClasses} :
         assertSemVerBump(question.from, question.via, b1) /\ assertSemVerBump(question.via, question.to, b2)
           => assertSemVerBump(question.from, question.to, b1 \cup b2)

(***************************************************************************)
(* Where the two versions of a rule part, and nowhere else.  A deprecated  *)
(* field is refused by both or neither.  The core's negotiator refuses a   *)
(* provider, or warns, for what the contract's does, and beyond that only  *)
(* for a flag or a window the provider claims as "probed", which the       *)
(* contract leaves to the first use: it sees no such claim in the vector.  *)
(* A cardinality its category prescribes passes both checks.  A hook is    *)
(* refused by both for the same reason, or attaches for both.  A slot that *)
(* is read is one the contract's verification returns, with the same       *)
(* content, and a migrated one is at the current version.                  *)
(***************************************************************************)
TwinRulesAgree ==
  /\ question.about = "deprecation" =>
       LET verdict == classifyDeprecation(question.soft, question.hard, question.core)
       IN verdict /= "DeprecationWindowInvalid" =>
            (verdict = "Deprecated" <=> checkDeprecation(question.soft, question.hard, question.core) = "Deprecated")
  /\ question.about = "capability" =>
       LET contract == negotiateCapabilities(question.reqs, question.claims)
           core     == negotiate(question.reqs, advertised(question.claims))
           unseen   == {r \in question.reqs : /\ r.level /= "probed"
                                              /\ \/ r.name = "streaming" /\ question.claims.streaming = "probed"
                                                 \/ /\ r.name = "contextWindow" /\ r.minimum /= 0
                                                    /\ question.claims.contextWindow = Probed}
       IN /\ core = MissingCapability <=> \/ contract = MissingCapability
                                         \/ \E r \in unseen : r.level = "hard"
          /\ core /= MissingCapability =>
               core = {w \in contract : w[2] = "preferred-unmet"}
                      \cup {<<r.name, "preferred-unmet">> : r \in unseen}
  /\ question.about = "cardinality" /\ assertCategoryCardinality(question.kind, question.declared) =>
       checkShapeCardinalities(question.declared) /\ runCheckCardinality(question.kind, question.declared)
  /\ question.about = "hook" =>
       validateHookRegistration(question.slot, question.kind) = validateAttachment(question.slot, question.kind)
  /\ question.about = "slot" =>
       LET read == readSlot(question.stored, question.current, question.policy, question.migrate)
       IN /\ read = "migrated" => question.migrate = "current"
          /\ read \in {"stored", "migrated"} =>
            read = verifyStateSlot(question.stored, question.current, question.policy, question.migrate)
-----------------------------------------------------------------------------
(***************************************************************************)
(* The three orders.                                                       *)
(***************************************************************************)
Ref == [to : {"ext"}, id : Exts \cup {Unknown}] \cup [to : {"category"}, id : Categories]

DependencyRefs == UNION {kSubset(n, Ref) : n \in 0..MaxDeps}

VARIABLES category,    \* of each extension
          dependsOn    \* of each extension, the entries
doVars == <<category, dependsOn>>

DOInit == category = [e \in Exts |-> CHOOSE c \in Categories : TRUE] /\ dependsOn = [e \in Exts |-> {}]

declare ==
  /\ \A e \in Exts : dependsOn[e] = {}
  /\ category' \in [Exts -> Categories]
  /\ dependsOn' \in [Exts -> DependencyRefs]

DOSpec == DOInit /\ [][declare]_doVars

Members(c) == {e \in Exts : category[e] = c}

\* What an entry of e's stands for; a category never means e itself.
Targets(e, ref) == IF ref.to = "ext" THEN {ref.id} \cap Exts ELSE Members(ref.id) \ {e}

resolveDependencyIds(e) == UNION {Targets(e, ref) : ref \in dependsOn[e]}

Unresolved(e, tooFew) ==
  \E ref \in dependsOn[e] : IF ref.to = "ext" THEN ref.id \notin Exts ELSE ref.id \in tooFew

Failed(code) == [error |-> code, order |-> <<>>]
Resolved(order) == IF Len(order) = Cardinality(Exts) THEN [error |-> "none", order |-> order] ELSE Failed("DependencyCycle")

(***************************************************************************)
(* Kahn's algorithm with its sorted queue: a name is admitted once its     *)
(* count has come down to nought exactly.                                  *)
(***************************************************************************)
Dependents == [d \in Exts |-> {e \in Exts : d \in resolveDependencyIds(e)}]

Kahn(inDegree, dependents) ==
  LET Ready(order) == {e \in Exts \ ToSet(order) :
                         inDegree[e] = Cardinality({d \in ToSet(order) : e \in dependents[d]})}
      after[n \in 0..Cardinality(Exts)] ==
        IF n = 0 THEN <<>>
        ELSE IF Ready(after[n - 1]) = {} THEN after[n - 1]
        ELSE Append(after[n - 1], Min(Ready(after[n - 1])))
  IN after[Cardinality(Exts)]

(***************************************************************************)
(* The contract counts every entry, and every member of a category, while  *)
(* its sets hold a dependent once.                                         *)
(***************************************************************************)
counted == [e \in Exts |-> Cardinality({p \in dependsOn[e] \X Exts : p[2] \in Targets(e, p[1])})]

resolveDependencies ==
  IF \E e \in Exts : Unresolved(e, {c \in Categories : Members(c) = {}}) THEN Failed("DependencyMissing")
  ELSE Resolved(Kahn(counted, Dependents))

(***************************************************************************)
(* The core's graph: an edge to oneself is not drawn, but it is counted.   *)
(***************************************************************************)
buildDag == [d \in Exts |-> Dependents[d] \ {d}]

(* Mutant: as in the contract, the entries are counted.                    *)
countsEntries(degrees) == Resolved(Kahn(counted, buildDag))

degreesOf == [e \in Exts |-> Cardinality(resolveDependencyIds(e))]

sortGraph(degrees) == Resolved(Kahn(degrees, buildDag))

topologicalSort ==
  IF \E e \in Exts : Unresolved(e, {c \in Categories : Members(c) \subseteq {e}}) THEN Failed("DependencyMissing")
  ELSE sortGraph(degreesOf)

(***************************************************************************)
(* The manager's depth-first walk, over entries that name extensions.      *)
(***************************************************************************)
Handles(e) == {ref.id : ref \in {r \in dependsOn[e] : r.to = "ext"}}

Walks == [error : {"none", "DependencyCycle", "DependencyMissing"}, order : Seq(Exts)]

visit[walk \in Walks, e \in Exts \cup {Unknown}, stack \in SUBSET Exts] ==
  IF walk.error /= "none" \/ e \in ToSet(walk.order) THEN walk
  ELSE IF e \in stack    THEN Failed("DependencyCycle")
  ELSE IF e \notin Exts  THEN Failed("DependencyMissing")
  ELSE LET below == FoldLeft(LAMBDA w, d : visit[w, d, stack \cup {e}], walk, SetToSortSeq(Handles(e), <))
       IN IF below.error /= "none" THEN below ELSE [below EXCEPT !.order = Append(@, e)]

resolveDependencyOrder ==
  FoldLeft(LAMBDA w, e : visit[w, e, {}], [error |-> "none", order |-> <<>>], SetToSortSeq(Exts, <))

(***************************************************************************)
(* What all three are for.                                                 *)
(***************************************************************************)
Cyclic(deps(_)) == \E S \in (SUBSET Exts) \ {{}} : \A e \in S : deps(e) \cap S /= {}

Respects(order, deps(_)) ==
  /\ ToSet(order) = Exts /\ Len(order) = Cardinality(Exts)
  /\ \A i, j \in DOMAIN order : order[i] \in deps(order[j]) => i < j

(***************************************************************************)
(* An order that is returned has every dependency before its dependents,   *)
(* the contract and the core return the same one, and the core and the     *)
(* manager report a cycle exactly when the graph has one: otherwise an     *)
(* extension would be initialised before what it needs, or differently by  *)
(* two parts of one program.                                               *)
(***************************************************************************)
OrdersAgree ==
  LET contract == resolveDependencies
      core     == topologicalSort
      manager  == resolveDependencyOrder
  IN /\ contract.error = "none" => Respects(contract.order, resolveDependencyIds)
     /\ core.error = "none" => /\ Respects(core.order, resolveDependencyIds)
                               /\ contract.error = "none" => contract = core
     /\ manager.error = "none" <=> ~Cyclic(Handles) /\ \A e \in Exts : Handles(e) \subseteq Exts
     /\ manager.error = "none" => Respects(manager.order, Handles)
     /\ core.error = "DependencyCycle" => Cyclic(resolveDependencyIds)
-----------------------------------------------------------------------------
(***************************************************************************)
(* The intake.                                                             *)
(***************************************************************************)
Files  == UNION {FilesOf[r] : r \in Releases}
None   == "none"

VARIABLES
  installed,    \* file -> the release its bytes are of, or None
  marker,       \* .stud-install.json: a release, None, or "torn"
  installing,   \* the install that runs
  interrupted,  \* a copy has stopped half way since the last one that ended
  answer        \* what discovery or the pipeline was asked last
eiVars == <<installed, marker, installing, interrupted, answer>>

Idle   == [at |-> "idle"]
Silent == [asked |-> "nothing"]

EIInit ==
  /\ installed = [f \in Files |-> None] /\ marker = None
  /\ installing = Idle /\ interrupted = FALSE /\ answer = Silent

Fs == <<installed, marker, interrupted>>

(***************************************************************************)
(* install: an untrusted project, an unreadable source or an integrity     *)
(* other than the expected one stop it before a byte is written.           *)
(***************************************************************************)
isAlreadyInstalled(r) == marker = r

install ==
  /\ installing = Idle /\ answer = Silent
  /\ \E r \in Releases, refusal \in {None, "InstallSourceInvalid", "ProjectTrustRequired", "IntegrityFailed"} :
       installing' = IF refusal /= None THEN [at |-> "failed"]
             ELSE IF isAlreadyInstalled(r) THEN [at |-> "done", release |-> r, reused |-> TRUE]
             ELSE [at |-> "copying", release |-> r, left |-> FilesOf[r]]
  /\ UNCHANGED <<Fs, answer>>

copyFile ==
  /\ installing.at = "copying"
  /\ \E f \in installing.left :
       /\ installed' = [installed EXCEPT ![f] = installing.release]
       /\ installing' = [installing EXCEPT !.left = @ \ {f}]
  /\ UNCHANGED <<marker, interrupted, answer>>

\* writeFile empties the marker first.
openMarker ==
  /\ installing.at = "copying" /\ installing.left = {}
  /\ marker' = "torn" /\ installing' = [at |-> "marking", release |-> installing.release]
  /\ UNCHANGED <<installed, interrupted, answer>>

writeMarker ==
  /\ installing.at = "marking"
  /\ marker' = installing.release /\ interrupted' = FALSE
  /\ installing' = [at |-> "done", release |-> installing.release, reused |-> FALSE]
  /\ UNCHANGED <<installed, answer>>

\* The process dies, or cp or writeFile throws.
stops ==
  /\ installing.at \in {"copying", "marking"}
  /\ interrupted' = (interrupted \/ (installing.at = "copying" /\ installing.left /= FilesOf[installing.release]))
  /\ installing' = [at |-> "failed"]
  /\ UNCHANGED <<installed, marker, answer>>

reported == installing.at \in {"done", "failed"} /\ installing' = Idle /\ UNCHANGED <<Fs, answer>>

(***************************************************************************)
(* Discovery.  A manifest is what the layer's reader makes of a directory: *)
(* unreadable, valid, failing one of the stages, or with a schema that     *)
(* does not compile.                                                       *)
(***************************************************************************)
Verdicts == Stages \cup {"valid", "unreadable", "uncompilable"}
Manifest == [id : Ids, verdict : Verdicts]

\* What readLayer returns is sorted by name.
compareExtensions(m1, m2) == m1.id <= m2.id
Layers(n) == {ms \in UNION {[1..k -> Manifest] : k \in 0..n} : \A i, j \in DOMAIN ms : i < j => compareExtensions(ms[i], ms[j])}

Found(layer, scope) == [i \in DOMAIN layer |-> [id |-> layer[i].id, scope |-> scope, verdict |-> layer[i].verdict]]

Unreadable(layer) == \E i \in DOMAIN layer : layer[i].verdict = "unreadable"

discoverExtensions(bundled, global, project, trusted) ==
  CASE Unreadable(bundled) \/ Unreadable(global) -> [error |-> "DiscoveryManifestInvalid"]
    [] ~trusted                                  -> [error |-> "ProjectTrustRequired"]
    [] Unreadable(project)                       -> [error |-> "DiscoveryManifestInvalid"]
    [] OTHER -> [error |-> None,
                 extensions |-> Found(bundled, "bundled") \o Found(global, "global") \o Found(project, "project")]

\* countFailures, and the names that are loaded.
NothingLoaded == [loaded |-> [i \in Ids |-> None], warnings |-> 0, errors |-> 0, error |-> None]
FailsWith(summary, e) ==
  IF e.scope = "project" /\ summary.loaded[e.id] = "global"
  THEN [summary EXCEPT !.warnings = @ + 1] ELSE [summary EXCEPT !.errors = @ + 1]

validateExtension(summary, e) ==
  CASE e.verdict = "valid"        -> [summary EXCEPT !.loaded[e.id] = e.scope]
    [] e.verdict = "uncompilable" -> [summary EXCEPT !.error = "InternalPipelineFailure"]
    [] OTHER                      -> FailsWith(summary, e)

validate(extensions) ==
  FoldLeft(LAMBDA s, e : IF s.error /= None THEN s ELSE validateExtension(s, e),
           NothingLoaded, extensions)

\* Bound: the questions are put before the first install; they do not read it.
Asking == answer = Silent /\ installing = Idle /\ marker = None /\ \A f \in Files : installed[f] = None

discover ==
  /\ Asking
  /\ \E bundled \in Layers(1), global \in Layers(1), project \in Layers(MaxFound), trusted \in BOOLEAN :
       LET found == discoverExtensions(bundled, global, project, trusted)
       IN answer' = [asked |-> "discovery", found |-> found,
                     summary |-> IF found.error = None THEN validate(found.extensions) ELSE found]
  /\ UNCHANGED <<Fs, installing>>

(***************************************************************************)
(* The contract's pipeline: the candidates in the order they are given.    *)
(***************************************************************************)
Candidate == [extId : Ids, verdict : Stages \cup {"valid"}, override : BOOLEAN]

checkRegister(report, c) == IF c.extId \in ToSet(report.passed) THEN "register" ELSE None

\* The first stage that fails, before registration; the order of the stages
\* only tells which one is named.
checkShape(c) == IF c.verdict /= "valid" THEN c.verdict ELSE None

failedDiagnostic(report, c) == IF checkShape(c) /= None THEN checkShape(c) ELSE checkRegister(report, c)

takeCandidate(report, c) ==
  LET failed == failedDiagnostic(report, c)
      passes == failed = None \/ (c.override /\ checkRegister(report, c) = None)
  IN [passed   |-> IF passes THEN Append(report.passed, c.extId) ELSE report.passed,
      disabled |-> IF failed = None THEN report.disabled ELSE Append(report.disabled, <<c.extId, failed>>)]

runValidationPipeline(inputs) == FoldLeft(takeCandidate, [passed |-> <<>>, disabled |-> <<>>], inputs)

askPipeline ==
  /\ Asking
  /\ \E inputs \in UNION {[1..n -> Candidate] : n \in 0..MaxCandidates} :
       answer' = [asked |-> "pipeline", inputs |-> inputs, report |-> runValidationPipeline(inputs)]
  /\ UNCHANGED <<Fs, installing>>

EINext == install \/ copyFile \/ openMarker \/ writeMarker \/ stops \/ reported \/ discover \/ askPipeline
EISpec == EIInit /\ [][EINext]_eiVars

EITypeOK ==
  /\ installed \in [Files -> Releases \cup {None}] /\ marker \in Releases \cup {None, "torn"}
  /\ installing.at \in {"idle", "copying", "marking", "done", "failed"} /\ interrupted \in BOOLEAN

(***************************************************************************)
(* The marker of a release means that each of its files is there, and, as  *)
(* long as no copy runs or has stopped half way since the last install     *)
(* that ended, that each is of that release: an install that finds its     *)
(* marker copies nothing (installer.ts:60).  After a copy of another       *)
(* release has stopped half way the old marker stays over files of both,   *)
(* and the next install of the old release takes them for its own.         *)
(***************************************************************************)
MarkedIsComplete ==
  marker \in Releases => \A f \in FilesOf[marker] :
    /\ installed[f] /= None
    /\ ~interrupted /\ installing.at /= "copying" => installed[f] = marker

(***************************************************************************)
(* Nothing a project brings takes away a valid global extension, and the   *)
(* verdict on a name does not depend on the order of its candidates: it is *)
(* loaded when one of them is valid, or overrides a global one.            *)
(***************************************************************************)
IntakeKeepsValid ==
  /\ answer.asked = "discovery" /\ answer.summary.error = None =>
       \A i \in Ids : answer.summary.loaded[i] /= None <=>
         \E n \in DOMAIN answer.found.extensions :
           answer.found.extensions[n].id = i /\ answer.found.extensions[n].verdict = "valid"
  /\ answer.asked = "pipeline" =>
       LET report == answer.report
           inputs == ToSet(answer.inputs)
       IN /\ Len(report.passed) = Cardinality(ToSet(report.passed))
          /\ ToSet(report.passed) = {c.extId : c \in {d \in inputs : d.verdict = "valid" \/ d.override}}
==============================================================================
