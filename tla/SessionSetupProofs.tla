------------------------- MODULE SessionSetupProofs -------------------------
(***************************************************************************)
(* What a session is set up from, for any entries, configurations, projects, *)
(* secrets and sessions: the entry in use keeps a context through every swap, *)
(* and a launch goes through its places with the user's consent, the secrets *)
(* its settings refer to and the session it takes up.  Each of the two has an *)
(* inductive invariant of its own; a step of the whole is a step of one part *)
(* or leaves it alone.                                                     *)
(***************************************************************************)
EXTENDS MCExtensionLifecycle, ExtensionLifecycleProofs, NaturalsInduction, WellFoundedInduction

(* Sets of natural numbers have a least element.                           *)
Ascends(R) == \A x, y \in Nat : x < y => <<x, y>> \in R

LEMMA AscendsLeast ==
  ASSUME NEW S, S \subseteq Nat, NEW R, Ascends(R), NEW x \in S, \A y \in S : ~(<<y, x>> \in R)
  PROVE  \A y \in S : x <= y
<1> SUFFICES ASSUME NEW y \in S PROVE x <= y
  OBVIOUS
<1>1. ~(y < x)
  BY DEF Ascends
<1> QED
  BY <1>1

LEMMA LeastNumber ==
  ASSUME NEW S, S \subseteq Nat, S # {}
  PROVE  \E x \in S : \A y \in S : x <= y
<1>1. \E R : IsWellFoundedOn(R, Nat) /\ Ascends(R)
  <2>1. IsWellFoundedOn(OpToRel(<, Nat), Nat)
    BY NatLessThanWellFounded, Zenon
  <2>2. Ascends(OpToRel(<, Nat))
    BY DEF OpToRel, Ascends
  <2> QED
    BY <2>1, <2>2, Zenon
<1>2. PICK R : IsWellFoundedOn(R, Nat) /\ Ascends(R)
  BY <1>1
<1>3. IsWellFoundedOn(R, Nat)
  BY <1>2
<1>4. \E x \in S : \A y \in S : ~(<<y, x>> \in R)
  BY <1>3, WFMin
<1> QED
  BY <1>2, <1>4, AscendsLeast

-----------------------------------------------------------------------------
(***************************************************************************)
(* The entries of a session, their contexts, and a swap of the one in use. *)
(***************************************************************************)
(* The settings a session may read, and the stages of a swap.              *)
SettingsRead == [providers : [Entries -> Configs \cup {NoConfig}], active : PP!Active]
Swapping ==
       [at : {"ensure", "load"}, target : PP!Selection]
  \cup [at : {"write"}, target : PP!Selection, read : SettingsRead]

(* The inductive invariant behind ActiveHasContext: from its ensure on, a  *)
(* swap's target has a context, which only that swap may give up, and not  *)
(* when it is the one in use.                                              *)
ChoicesInv ==
  /\ selection \in PP!Selection
  /\ settings \in SettingsRead
  /\ contexts \in [Entries -> Configs \cup {NoConfig}]
  /\ swap \in Swapping \cup {PP!NoSwap}
  /\ swap.at \in {"load", "write"} => contexts[swap.target.entry] # NoConfig
  /\ PP!ActiveHasContext

LEMMA ChoicesInit == PP!PPInit => ChoicesInv
<1> SUFFICES ASSUME PP!PPInit PROVE ChoicesInv
  OBVIOUS
<1>1. settings \in SettingsRead /\ settings.providers \in [Entries -> Configs]
  BY DEF PP!PPInit, SettingsRead
<1>2. PICK k \in Configs : k = settings.providers[settings.active.entry]
  BY <1>1 DEF PP!PPInit, PP!Active
<1>3. /\ selection = [entry |-> settings.active.entry, config |-> k, model |-> settings.active.model]
      /\ contexts = [e \in Entries |-> IF e = settings.active.entry THEN k ELSE NoConfig]
      /\ swap = PP!NoSwap
  BY <1>2 DEF PP!PPInit
<1>4. settings.active.entry \in Entries /\ settings.active.model \in PP!Models
  BY <1>1 DEF SettingsRead, PP!Active
<1>5. swap.at = "none"
  BY <1>3 DEF PP!NoSwap
<1> QED
  BY <1>1, <1>2, <1>3, <1>4, <1>5 DEF ChoicesInv, PP!Selection, PP!ActiveHasContext

(* A model a configuration declares, asked for or preferred, is one.       *)
LEMMA ModelsDeclared ==
  ASSUME NEW k \in Configs
  PROVE  /\ ModelsOf[k][1] \in PP!Models
         /\ \A m : PP!Contains(ModelsOf[k], m) => m \in PP!Models
  BY ChoicesAssumption DEF PP!Contains

LEMMA SwapStarts ==
  ASSUME ChoicesInv, NEW target \in PP!Selection, PP!SwapBegins(target)
  PROVE  ChoicesInv'
<1>1. /\ swap' = [at |-> "ensure", target |-> target]
      /\ UNCHANGED <<selection, contexts, settings>>
  BY DEF PP!SwapBegins
<1>2. swap' \in Swapping /\ swap'.at = "ensure"
  BY <1>1 DEF Swapping
<1> QED
  BY <1>1, <1>2 DEF ChoicesInv, PP!ActiveHasContext

LEMMA SwapStep ==
  ASSUME ChoicesInv,
         \/ PP!ensure \/ PP!ensureFails \/ PP!persistLoads \/ PP!persistActiveSelection \/ PP!persistFails
  PROVE  ChoicesInv'
<1> DEFINE Target == swap.target
<1>0. NoConfig \notin Configs
  BY ChoicesAssumption
<1>1. swap \in Swapping /\ Target \in PP!Selection /\ selection \in PP!Selection
  BY DEF ChoicesInv, Swapping, PP!NoSwap, PP!ensure, PP!ensureFails, PP!persistLoads,
         PP!persistActiveSelection, PP!persistFails
<1>2. /\ Target.entry \in Entries /\ Target.config \in Configs /\ Target.model \in PP!Models
      /\ selection.entry \in Entries /\ selection.config \in Configs
      /\ contexts \in [Entries -> Configs \cup {NoConfig}]
      /\ contexts[selection.entry] = selection.config
  BY <1>1 DEF PP!Selection, ChoicesInv, PP!ActiveHasContext
<1>3. PP!NoSwap.at = "none"
  BY DEF PP!NoSwap
<1>4. CASE PP!ensure
  <2>1. swap \in [at : {"ensure", "load"}, target : PP!Selection]
    BY <1>1, <1>4 DEF PP!ensure, Swapping
  <2>2. swap' = [swap EXCEPT !.at = "load"] /\ UNCHANGED <<leaves, selection, settings>>
    BY <1>4 DEF PP!ensure
  <2>3. swap' \in Swapping /\ swap'.at = "load" /\ swap'.target = Target
    BY <2>1, <2>2 DEF Swapping
  <2>4. /\ contexts' \in [Entries -> Configs \cup {NoConfig}]
        /\ contexts'[Target.entry] # NoConfig
        /\ contexts'[selection.entry] = selection.config
    BY <1>0, <1>2, <1>4 DEF PP!ensure
  <2> QED
    BY <2>2, <2>3, <2>4 DEF ChoicesInv, PP!ActiveHasContext
<1>5. CASE PP!ensureFails
  BY <1>5, <1>3 DEF PP!ensureFails, PP!SwapEnds, ChoicesInv, PP!ActiveHasContext
<1>6. CASE PP!persistLoads
  <2>1. /\ swap' = [at |-> "write", target |-> Target, read |-> settings]
        /\ UNCHANGED <<selection, contexts, settings>> /\ swap.at = "load"
    BY <1>6 DEF PP!persistLoads
  <2>2. swap' \in Swapping /\ swap'.target = Target
    BY <1>1, <2>1 DEF Swapping, ChoicesInv
  <2> QED
    BY <2>1, <2>2 DEF ChoicesInv, PP!ActiveHasContext
<1>7. CASE PP!persistActiveSelection
  <2>1. /\ settings' = [swap.read EXCEPT !.active = [entry |-> Target.entry, model |-> Target.model]]
        /\ selection' = [Target EXCEPT !.config = contexts[Target.entry]]
        /\ swap' = PP!NoSwap /\ contexts' = contexts /\ swap.at = "write"
    BY <1>7 DEF PP!persistActiveSelection, PP!SwapEnds
  <2>2. swap.read \in SettingsRead
    BY <1>1, <2>1 DEF Swapping
  <2>3. [entry |-> Target.entry, model |-> Target.model] \in PP!Active
    BY <1>2 DEF PP!Active
  <2>4. settings' \in SettingsRead
    BY <2>1, <2>2, <2>3 DEF SettingsRead
  <2>5. contexts[Target.entry] \in Configs
    BY <1>2, <2>1 DEF ChoicesInv
  <2>6. /\ selection' \in PP!Selection /\ selection'.entry = Target.entry
        /\ selection'.config = contexts[Target.entry]
    BY <1>1, <2>1, <2>5 DEF PP!Selection
  <2> QED
    BY <1>2, <1>3, <2>1, <2>4, <2>6 DEF ChoicesInv, PP!ActiveHasContext
<1>8. CASE PP!persistFails
  <2>1. /\ swap' = PP!NoSwap /\ UNCHANGED <<selection, settings>>
        /\ contexts' = IF Target.entry = selection.entry THEN contexts
                       ELSE [contexts EXCEPT ![Target.entry] = NoConfig]
    BY <1>8 DEF PP!persistFails, PP!SwapEnds, PP!disposeTarget
  <2>2. contexts' \in [Entries -> Configs \cup {NoConfig}] /\ contexts'[selection.entry] = selection.config
    BY <1>2, <2>1
  <2> QED
    BY <1>3, <2>1, <2>2 DEF ChoicesInv, PP!ActiveHasContext
<1> QED
  BY <1>4, <1>5, <1>6, <1>7, <1>8

LEMMA ChoicesStep == ChoicesInv /\ [PP!PPNext]_paramVars => ChoicesInv'
<1> SUFFICES ASSUME ChoicesInv, [PP!PPNext]_paramVars PROVE ChoicesInv'
  OBVIOUS
<1>1. ASSUME NEW p \in PP!Paths, NEW v \in PP!Values, PP!dispatchParamsCommand(p, v)
      PROVE  ChoicesInv'
  BY <1>1 DEF PP!dispatchParamsCommand, ChoicesInv, PP!ActiveHasContext
<1>2. ASSUME NEW e \in Entries, PP!dispatchProviderCommand(e) PROVE ChoicesInv'
  <2>1. PICK k \in Configs : k = settings.providers[e]
    BY <1>2 DEF PP!dispatchProviderCommand, ChoicesInv, SettingsRead
  <2>2. PICK m \in PP!Models :
          m = IF PP!Contains(ModelsOf[k], settings.active.model) THEN settings.active.model
              ELSE ModelsOf[k][1]
    BY <2>1, ModelsDeclared
  <2>3. PP!SwapBegins([entry |-> e, config |-> k, model |-> m])
    BY <1>2, <2>1, <2>2 DEF PP!dispatchProviderCommand
  <2>4. [entry |-> e, config |-> k, model |-> m] \in PP!Selection
    BY DEF PP!Selection
  <2> QED
    BY <2>3, <2>4, SwapStarts
<1>3. ASSUME NEW model \in PP!Models, PP!dispatchModelCommand(model) PROVE ChoicesInv'
  <2>1. [selection EXCEPT !.model = model] \in PP!Selection
    BY DEF ChoicesInv, PP!Selection
  <2> QED
    BY <1>3, <2>1, SwapStarts DEF PP!dispatchModelCommand
<1>4. ASSUME NEW e \in Entries, NEW k \in ConfigsOf[e], PP!edit(e, k) PROVE ChoicesInv'
  <2>1. settings' \in SettingsRead
    BY <1>4, ChoicesAssumption DEF PP!edit, ChoicesInv, SettingsRead
  <2> QED
    BY <1>4, <2>1 DEF PP!edit, ChoicesInv, PP!ActiveHasContext
<1>5. CASE UNCHANGED paramVars
  BY <1>5 DEF paramVars, ChoicesInv, PP!ActiveHasContext
<1> QED
  BY <1>1, <1>2, <1>3, <1>4, <1>5, SwapStep DEF PP!PPNext

-----------------------------------------------------------------------------
(***************************************************************************)
(* A launch: what it asks for, what it stores and what it takes up.        *)
(***************************************************************************)
SessionIds == 1..MaxSessions
Offered == [id : SessionIds, project : Projects, mode : L!Modes]
Launching == [place : L!Places \ {"off", "session"}, args : L!Args, key : {"env", "none"} \cup Names,
              resumed : Offered \cup {L!NoSession}, merged : BOOLEAN]
Started == [place : {"session"}, session : L!Session]

(* What --continue found is what is on disk, and nothing there is later.   *)
AsPersisted(r) ==
  /\ r \in Offered
  /\ manifests[r.id].shape = "ok" /\ manifests[r.id].mode = r.mode /\ manifests[r.id].project = r.project
  /\ \A t \in L!Readable : manifests[t].updatedAt <= manifests[r.id].updatedAt

(* The inductive invariant of a launch.                                    *)
SecretsInv ==
  /\ secrets.names \subseteq Names
  /\ L!RefsResolve
  /\ run.place = "writing secret" => secrets.names # Names
  /\ run.place = "save settings" => run.key \in {"env", "none"} \cup secrets.names
ConsentInv ==
  /\ trust \subseteq consented
  /\ run.place \in {"granting", "read project"} => L!Project \in consented
  /\ run \in Launching /\ run.merged => run.place = "merge" /\ L!Project \in consented
ResumedInv ==
  /\ manifests \in [SessionIds -> L!Manifest \cup {L!NoManifest}]
  /\ run \in Launching /\ run.args.continue /\ run.place \notin {"settings", "latest"}
       => AsPersisted(run.resumed)
(* A manifest is what its session's latest save made it.                   *)
SavesInv ==
  /\ saves \in Seq(L!Save)
  /\ \A s \in SessionIds : manifests[s].shape # "missing" =>
       LET u == manifests[s].updatedAt
       IN /\ u \in 1..Len(saves)
          /\ saves[u] = [id |-> s, project |-> manifests[s].project, mode |-> manifests[s].mode]
          /\ \A j \in 1..Len(saves) : j > u => saves[j].id # s
RunTyped == run \in Launching \cup Started \cup {L!Off}
LaunchInv == RunTyped /\ SecretsInv /\ ConsentInv /\ ResumedInv /\ SavesInv

LEMMA SavesStay ==
  ASSUME SavesInv, UNCHANGED <<manifests, saves>> PROVE SavesInv'
  BY DEF SavesInv

LEMMA LaunchInit == L!LInit => LaunchInv
<1> SUFFICES ASSUME L!LInit PROVE LaunchInv
  OBVIOUS
<1>1. run = L!Off /\ run.place = "off"
  BY DEF L!LInit, L!Off
<1>2. run \notin Launching
  BY <1>1 DEF Launching
<1>3. SecretsInv
  BY <1>1, LaunchAssumption DEF L!LInit, SecretsInv, L!RefsResolve
<1>4. ConsentInv
  BY <1>1, <1>2 DEF L!LInit, ConsentInv
<1>5. ResumedInv
  BY <1>2 DEF L!LInit, ResumedInv, SessionIds
<1>6. SavesInv
  BY DEF L!LInit, SavesInv, SessionIds, L!NoManifest
<1> QED
  BY <1>1, <1>3, <1>4, <1>5, <1>6 DEF LaunchInv, RunTyped

(***************************************************************************)
(* What a place says about the run.                                        *)
(***************************************************************************)
LEMMA InLaunch ==
  ASSUME RunTyped, run.place \notin {"off", "session"}
  PROVE  run \in Launching
  BY DEF RunTyped, Started, L!Off

LEMMA InSession ==
  ASSUME RunTyped, run.place = "session"
  PROVE  run \in Started
  BY DEF RunTyped, Launching, L!Off

LEMMA Going ==
  ASSUME NEW p \in L!Places \ {"off", "session"}, run \in Launching
  PROVE  /\ [run EXCEPT !.place = p] \in Launching
         /\ [run EXCEPT !.place = p].place = p
         /\ [run EXCEPT !.place = p].args = run.args
         /\ [run EXCEPT !.place = p].key = run.key
         /\ [run EXCEPT !.place = p].resumed = run.resumed
         /\ [run EXCEPT !.place = p].merged = run.merged
  BY DEF Launching

(* What a step that starts a session promises.                             *)
Consents ==
  ~ L!AtPlace("session") /\ run'.place = "session" /\ run'.session.projectSettings
    => run'.session.project \in consented
TakesUpLatest ==
  ~ L!AtPlace("session") /\ run'.place = "session" /\ run'.session.resumed
    => LET s == run'.session
       IN /\ s.id \in L!Readable
          /\ \E i \in DOMAIN saves :
               /\ saves[i] = [id |-> s.id, project |-> s.project, mode |-> s.mode]
               /\ \A j \in DOMAIN saves : j > i => saves[j].id \notin L!Readable
Promised == Consents /\ TakesUpLatest

LEMMA NoStart ==
  ASSUME run'.place # "session" \/ run.place = "session"
  PROVE  Promised
  BY DEF Promised, Consents, TakesUpLatest, L!AtPlace

(***************************************************************************)
(* The steps that take a launch on, without a word on what it resumes.     *)
(***************************************************************************)
LEMMA LaunchMoves ==
  ASSUME LaunchInv, run \in Launching, run.place # "merge", run' \in Launching, SecretsInv',
         run'.args = run.args, run'.resumed = run.resumed, run'.merged = run.merged,
         UNCHANGED <<manifests, saves>>, trust' \subseteq consented', consented \subseteq consented',
         run'.place \in {"granting", "read project"} => L!Project \in consented',
         run.args.continue /\ run'.place \notin {"settings", "latest"} => run.place \notin {"settings", "latest"}
  PROVE  LaunchInv' /\ Promised
<1>1. L!Project' = L!Project
  BY DEF L!Project
<1>2. ConsentInv'
  BY <1>1 DEF LaunchInv, ConsentInv
<1>3. L!Readable' = L!Readable
  BY DEF L!Readable
<1>4. ResumedInv'
  BY <1>3 DEF LaunchInv, ResumedInv, AsPersisted
<1>5. run'.place # "session"
  BY DEF Launching
<1> QED
  BY <1>2, <1>4, <1>5, NoStart, SavesStay DEF LaunchInv, RunTyped

LEMMA LaunchGoes ==
  ASSUME LaunchInv, run \in Launching, run.place # "merge",
         NEW p \in L!Places \ {"off", "session", "save settings", "writing secret"},
         run' = [run EXCEPT !.place = p], UNCHANGED <<config, secrets, manifests, saves>>,
         trust' \subseteq consented', consented \subseteq consented',
         p \in {"granting", "read project"} => L!Project \in consented',
         run.args.continue /\ p \notin {"settings", "latest"} => run.place \notin {"settings", "latest"}
  PROVE  LaunchInv' /\ Promised
<1>1. /\ run' \in Launching /\ run'.place = p /\ run'.args = run.args
      /\ run'.resumed = run.resumed /\ run'.merged = run.merged
  BY Going
<1>2. SecretsInv'
  BY <1>1 DEF LaunchInv, SecretsInv, L!RefsResolve
<1> QED
  BY <1>1, <1>2, LaunchMoves

LEMMA Placed ==
  ASSUME LaunchInv, NEW p \in L!Places \ {"off", "session"}, L!AtPlace(p)
  PROVE  run \in Launching /\ run.place = p
  BY InLaunch DEF LaunchInv, L!AtPlace

LEMMA SettingsLoaded == ASSUME LaunchInv, L!loadSettings PROVE LaunchInv' /\ Promised
<1>1. run \in Launching /\ run.place = "settings"
  BY Placed DEF L!loadSettings, L!Places
<1>2. PICK p \in {"latest", "provider"} :
        run' = [run EXCEPT !.place = p] /\ (run.args.continue => p = "latest")
  BY DEF L!loadSettings, L!Goto
<1> QED
  BY <1>1, <1>2, LaunchGoes DEF L!loadSettings, L!Files, LaunchInv, ConsentInv, L!Places

LEMMA TrustSteps ==
  ASSUME LaunchInv,
         \/ L!providerConfigured \/ L!trustSettled \/ L!trustHeadless \/ L!promptTrust \/ L!grantPersisted
         \/ \E d \in {"trust", "once", "decline"} : L!answerTrust(d)
  PROVE  LaunchInv' /\ Promised
<1>1. PICK q \in {"provider", "trust", "ask trust", "granting"} : run \in Launching /\ run.place = q
  BY Placed DEF L!providerConfigured, L!trustSettled, L!trustHeadless, L!promptTrust, L!grantPersisted,
                L!answerTrust, L!Places
<1>2. PICK p \in {"trust", "merge", "read project", "ask trust", "granting"} :
        run' = [run EXCEPT !.place = p]
  BY DEF L!providerConfigured, L!trustSettled, L!trustHeadless, L!promptTrust, L!grantPersisted,
         L!answerTrust, L!Goto
<1>3. UNCHANGED <<config, secrets, manifests, saves>> /\ consented \subseteq consented'
  BY DEF L!providerConfigured, L!trustSettled, L!trustHeadless, L!promptTrust, L!grantPersisted,
         L!answerTrust, L!Files
<1>4. (p \in {"granting", "read project"} => L!Project \in consented') /\ trust' \subseteq consented'
  <2>1. [run EXCEPT !.place = p].place = p
    BY <1>1 DEF Launching
  <2>2. \A x : [run EXCEPT !.place = x].place = x
    BY <1>1 DEF Launching
  <2>3. trust \subseteq consented /\ (run.place = "granting" => L!Project \in consented)
    BY DEF LaunchInv, ConsentInv
  <2>4. CASE L!providerConfigured
    BY <1>2, <2>2, <2>3, <2>4 DEF L!providerConfigured, L!Goto, L!Files
  <2>5. CASE L!trustSettled
    BY <1>2, <2>2, <2>3, <2>5 DEF L!trustSettled, L!trustKnown, L!Goto, L!Files
  <2>6. CASE L!trustHeadless
    BY <2>3, <2>6 DEF L!trustHeadless, L!Files
  <2>7. CASE L!promptTrust
    BY <1>2, <2>2, <2>3, <2>7 DEF L!promptTrust, L!Goto, L!Files
  <2>8. CASE L!grantPersisted
    BY <2>3, <2>8 DEF L!grantPersisted, L!AtPlace
  <2>9. ASSUME NEW d \in {"trust", "once", "decline"}, L!answerTrust(d)
        PROVE  (p \in {"granting", "read project"} => L!Project \in consented') /\ trust' \subseteq consented'
    <3>1. CASE d = "decline"
      BY <1>2, <2>2, <2>3, <2>9, <3>1 DEF L!answerTrust, L!Goto, L!Files
    <3>2. CASE d # "decline"
      BY <2>3, <2>9, <3>2 DEF L!answerTrust, L!Files
    <3> QED
      BY <3>1, <3>2
  <2> QED
    BY <2>4, <2>5, <2>6, <2>7, <2>8, <2>9
<1> QED
  BY <1>1, <1>2, <1>3, <1>4, LaunchGoes DEF L!Places

(***************************************************************************)
(* Setting up a provider: the key is stored before the settings name it.   *)
(***************************************************************************)
LEMMA ProviderPrompted ==
  ASSUME LaunchInv, NEW auth \in {"secret", "env", "none"}, L!promptProviderConfig(auth)
  PROVE  LaunchInv' /\ Promised
<1>1. run \in Launching /\ run.place = "provider"
  BY Placed DEF L!promptProviderConfig, L!Places
<1>2. PICK p \in {"input secret", "save settings"}, k \in {"env", "none"} :
        run' = [run EXCEPT !.key = k, !.place = p]
  BY DEF L!promptProviderConfig
<1>3. /\ run' \in Launching /\ run'.place = p /\ run'.key = k /\ run'.args = run.args
      /\ run'.resumed = run.resumed /\ run'.merged = run.merged
  BY <1>1, <1>2 DEF Launching, L!Places
<1>4. UNCHANGED <<config, secrets, trust, manifests, saves, consented>>
  BY DEF L!promptProviderConfig, L!Files
<1>5. SecretsInv'
  BY <1>3, <1>4 DEF LaunchInv, SecretsInv, L!RefsResolve
<1>6. trust' \subseteq consented'
  BY <1>4 DEF LaunchInv, ConsentInv
<1> QED
  BY <1>1, <1>3, <1>4, <1>5, <1>6, LaunchMoves

LEMMA SecretBegun == ASSUME LaunchInv, L!storeSecret PROVE LaunchInv' /\ Promised
<1>1. run \in Launching /\ run.place = "input secret"
  BY Placed DEF L!storeSecret, L!Places
<1>2. run' = [run EXCEPT !.place = "writing secret"]
  BY DEF L!storeSecret, L!Goto
<1>3. /\ run' \in Launching /\ run'.place = "writing secret" /\ run'.args = run.args
      /\ run'.resumed = run.resumed /\ run'.merged = run.merged
  BY <1>1, <1>2 DEF Launching, L!Places
<1>4. UNCHANGED <<config, trust, manifests, saves, consented>>
      /\ secrets'.names = secrets.names /\ secrets.names # Names
  BY DEF L!storeSecret
<1>5. SecretsInv'
  BY <1>3, <1>4 DEF LaunchInv, SecretsInv, L!RefsResolve
<1>6. trust' \subseteq consented'
  BY <1>4 DEF LaunchInv, ConsentInv
<1> QED
  BY <1>1, <1>3, <1>4, <1>5, <1>6, LaunchMoves

LEMMA SecretStored == ASSUME LaunchInv, L!secretStored PROVE LaunchInv' /\ Promised
<1>1. run \in Launching /\ run.place = "writing secret"
  BY Placed DEF L!secretStored, L!Places
<1>2. secrets.names \subseteq Names /\ secrets.names # Names
  BY <1>1 DEF LaunchInv, SecretsInv
<1>3. PICK n \in Names : n = L!NextName
  BY <1>2 DEF L!NextName
<1>4. /\ run' = [run EXCEPT !.place = "save settings", !.key = n]
      /\ secrets'.names = secrets.names \cup {n}
      /\ UNCHANGED <<config, trust, manifests, saves, consented>>
  BY <1>3 DEF L!secretStored
<1>5. /\ run' \in Launching /\ run'.place = "save settings" /\ run'.key = n /\ run'.args = run.args
      /\ run'.resumed = run.resumed /\ run'.merged = run.merged
  BY <1>1, <1>4 DEF Launching, L!Places
<1>6. SecretsInv'
  BY <1>4, <1>5 DEF LaunchInv, SecretsInv, L!RefsResolve
<1>7. trust' \subseteq consented'
  BY <1>4 DEF LaunchInv, ConsentInv
<1> QED
  BY <1>1, <1>4, <1>5, <1>6, <1>7, LaunchMoves

LEMMA SettingsSaved == ASSUME LaunchInv, L!saveSettings PROVE LaunchInv' /\ Promised
<1>1. run \in Launching /\ run.place = "save settings"
  BY Placed DEF L!saveSettings, L!Places
<1>2. /\ run' = [run EXCEPT !.place = "trust", !.key = "none"] /\ config' = run.key
      /\ UNCHANGED <<secrets, trust, manifests, saves, consented>>
  BY DEF L!saveSettings
<1>3. /\ run' \in Launching /\ run'.place = "trust" /\ run'.args = run.args
      /\ run'.resumed = run.resumed /\ run'.merged = run.merged
  BY <1>1, <1>2 DEF Launching, L!Places
<1>4. run.key \in {"env", "none"} \cup secrets.names /\ secrets.names \subseteq Names
  BY <1>1 DEF LaunchInv, SecretsInv
<1>5. SecretsInv'
  BY <1>2, <1>3, <1>4, LaunchAssumption DEF LaunchInv, SecretsInv, L!RefsResolve
<1>6. trust' \subseteq consented'
  BY <1>2 DEF LaunchInv, ConsentInv
<1> QED
  BY <1>1, <1>2, <1>3, <1>5, <1>6, LaunchMoves

(***************************************************************************)
(* The manifests: the one saved last, and the clock.                       *)
(***************************************************************************)
LEMMA GreatestNumber ==
  ASSUME NEW S, NEW n \in Nat, S \subseteq 0..n, S # {}
  PROVE  \E x \in S : \A y \in S : y <= x
<1> DEFINE D == {n - x : x \in S}
<1>1. D \subseteq Nat /\ D # {}
  <2>1. ASSUME NEW x \in S PROVE n - x \in Nat
    <3>1. x \in 0..n
      OBVIOUS
    <3> QED
      BY <3>1
  <2>2. PICK x : x \in S
    OBVIOUS
  <2>3. n - x \in D
    BY <2>2
  <2> QED
    BY <2>1, <2>3
<1>2. PICK d \in D : \A e \in D : d <= e
  BY <1>1, LeastNumber
<1>3. PICK x \in S : d = n - x
  BY <1>2
<1>4. ASSUME NEW y \in S PROVE y <= x
  <2>1. n - x <= n - y
    BY <1>2, <1>3
  <2> QED
    BY <2>1
<1> QED
  BY <1>4

LEMMA ReadableManifest ==
  ASSUME ResumedInv, NEW s \in SessionIds, manifests[s].shape # "missing"
  PROVE  manifests[s] \in L!Manifest
  BY DEF ResumedInv, L!NoManifest

LEMMA LatestIs ==
  ASSUME ResumedInv, L!Readable # {}
  PROVE  /\ L!Latest \in SessionIds /\ manifests[L!Latest] \in L!Manifest
         /\ manifests[L!Latest].shape = "ok"
         /\ \A t \in L!Readable : manifests[t].updatedAt <= manifests[L!Latest].updatedAt
<1> DEFINE Times == {manifests[s].updatedAt : s \in L!Readable}
<1>0. MaxSaves \in Nat
  BY LaunchAssumption
<1>1. Times \subseteq 0..MaxSaves /\ Times # {}
  BY ReadableManifest DEF L!Readable, SessionIds, L!Manifest
<1>2. \E x \in Times : \A y \in Times : y <= x
  BY <1>0, <1>1, GreatestNumber
<1>3. \E s \in L!Readable : \A t \in L!Readable : manifests[t].updatedAt <= manifests[s].updatedAt
  BY <1>2
<1>4. L!Latest \in L!Readable /\ \A t \in L!Readable : manifests[t].updatedAt <= manifests[L!Latest].updatedAt
  BY <1>3 DEF L!Latest
<1> QED
  BY <1>4, ReadableManifest DEF L!Readable, SessionIds

LEMMA LatestRead == ASSUME LaunchInv, L!readLatestSessionManifest PROVE LaunchInv' /\ Promised
<1>1. run \in Launching /\ run.place = "latest"
  BY Placed DEF L!readLatestSessionManifest, L!Places
<1>2. PICK r : r = [id |-> L!Latest, project |-> manifests[L!Latest].project, mode |-> manifests[L!Latest].mode]
  OBVIOUS
<1>3. r \in Offered /\ AsPersisted(r)
  BY <1>2, LatestIs DEF L!readLatestSessionManifest, LaunchInv, Offered, AsPersisted, L!Manifest
<1>4. run' = [run EXCEPT !.place = "provider", !.resumed = r]
  BY <1>2 DEF L!readLatestSessionManifest
<1>5. /\ run' \in Launching /\ run'.place = "provider" /\ run'.args = run.args
      /\ run'.resumed = r /\ run'.merged = run.merged
  BY <1>1, <1>3, <1>4 DEF Launching, L!Places
<1>6. UNCHANGED <<config, secrets, trust, manifests, saves, consented>>
  BY DEF L!readLatestSessionManifest, L!Files
<1>7. SecretsInv'
  BY <1>5, <1>6 DEF LaunchInv, SecretsInv, L!RefsResolve
<1>8. AsPersisted(r)'
  BY <1>3, <1>6 DEF AsPersisted, L!Readable
<1>9. ResumedInv'
  BY <1>5, <1>6, <1>8 DEF LaunchInv, ResumedInv
<1> QED
  <2>1. run'.place # "session" /\ run'.merged = FALSE
    BY <1>1, <1>5 DEF LaunchInv, ConsentInv, Launching
  <2>2. ConsentInv'
    BY <1>5, <1>6, <2>1 DEF LaunchInv, ConsentInv
  <2> QED
    BY <1>5, <1>6, <1>7, <1>9, <2>1, <2>2, NoStart, SavesStay DEF LaunchInv, RunTyped

LEMMA Launched == ASSUME LaunchInv, NEW args \in L!Args, L!launch(args) PROVE LaunchInv' /\ Promised
<1>1. /\ run' = [place |-> "settings", args |-> args, key |-> "none", resumed |-> L!NoSession, merged |-> FALSE]
      /\ UNCHANGED <<config, secrets, trust, manifests, saves, consented>>
  BY DEF L!launch, L!Files
<1>2. run' \in Launching /\ run'.place = "settings" /\ run'.merged = FALSE
  BY <1>1 DEF Launching, L!Places
<1>3. SecretsInv'
  BY <1>1, <1>2 DEF LaunchInv, SecretsInv, L!RefsResolve
<1>4. ConsentInv'
  BY <1>1, <1>2 DEF LaunchInv, ConsentInv
<1>5. ResumedInv'
  BY <1>1, <1>2 DEF LaunchInv, ResumedInv
<1> QED
  BY <1>1, <1>2, <1>3, <1>4, <1>5, NoStart, SavesStay DEF LaunchInv, RunTyped

LEMMA ProjectRead == ASSUME LaunchInv, L!readProjectSettings PROVE LaunchInv' /\ Promised
<1>1. run \in Launching /\ run.place = "read project"
  BY Placed DEF L!readProjectSettings, L!Places
<1>2. /\ run' = [run EXCEPT !.place = "merge", !.merged = TRUE]
      /\ UNCHANGED <<config, secrets, trust, manifests, saves, consented>>
  BY DEF L!readProjectSettings, L!Files
<1>3. /\ run' \in Launching /\ run'.place = "merge" /\ run'.args = run.args /\ run'.resumed = run.resumed
  BY <1>1, <1>2 DEF Launching, L!Places
<1>4. L!Project' = L!Project /\ L!Readable' = L!Readable
  BY <1>2, <1>3 DEF L!Project, L!Readable
<1>5. SecretsInv'
  BY <1>2, <1>3 DEF LaunchInv, SecretsInv, L!RefsResolve
<1>6. ConsentInv'
  BY <1>1, <1>2, <1>3, <1>4 DEF LaunchInv, ConsentInv
<1>7. ResumedInv'
  BY <1>1, <1>2, <1>3, <1>4 DEF LaunchInv, ResumedInv, AsPersisted
<1> QED
  BY <1>2, <1>3, <1>5, <1>6, <1>7, NoStart, SavesStay DEF LaunchInv, RunTyped

(***************************************************************************)
(* A session's manifest is one, and stays the session's.                   *)
(***************************************************************************)
LEMMA ManifestSaved ==
  ASSUME ResumedInv, SavesInv, NEW s \in L!Session, L!Persist(s)
  PROVE  SavesInv' /\ manifests' \in [SessionIds -> L!Manifest \cup {L!NoManifest}]
<1>0. MaxSaves \in Nat
  BY LaunchAssumption
<1>1. Len(saves) \in Nat /\ L!Clock = Len(saves) + 1 /\ L!Clock \in 0..MaxSaves
  BY <1>0 DEF SavesInv, L!Clock, L!Persist
<1>2. PICK m : m = [shape |-> "ok", project |-> s.project, mode |-> s.mode, updatedAt |-> L!Clock]
  OBVIOUS
<1>3. m \in L!Manifest /\ s.id \in SessionIds
  BY <1>1, <1>2 DEF L!Manifest, L!Session, SessionIds
<1>4. manifests' = [manifests EXCEPT ![s.id] = m]
  BY <1>2 DEF L!Persist
<1>5. manifests' \in [SessionIds -> L!Manifest \cup {L!NoManifest}]
  BY <1>3, <1>4 DEF ResumedInv
<1>6. PICK e \in L!Save : e = [id |-> s.id, project |-> s.project, mode |-> s.mode]
  BY DEF L!Save, L!Session
<1>7. saves' = Append(saves, e)
  BY <1>6 DEF L!Persist
<1>8. /\ saves' \in Seq(L!Save) /\ Len(saves') = Len(saves) + 1
      /\ saves'[Len(saves) + 1] = e /\ \A j \in 1..Len(saves) : saves'[j] = saves[j]
  BY <1>7 DEF SavesInv
<1>9. ASSUME NEW t \in SessionIds, manifests'[t].shape # "missing"
      PROVE  LET u == manifests'[t].updatedAt
             IN /\ u \in 1..Len(saves')
                /\ saves'[u] = [id |-> t, project |-> manifests'[t].project, mode |-> manifests'[t].mode]
                /\ \A j \in 1..Len(saves') : j > u => saves'[j].id # t
  <2>1. CASE t = s.id
    <3>1. manifests'[t] = m
      BY <1>3, <1>4, <2>1 DEF ResumedInv
    <3> QED
      BY <1>1, <1>2, <1>6, <1>8, <2>1, <3>1
  <2>2. CASE t # s.id
    <3>1. manifests'[t] = manifests[t]
      BY <1>3, <1>4, <2>2 DEF ResumedInv
    <3>2. PICK u \in 1..Len(saves) :
            /\ u = manifests[t].updatedAt
            /\ saves[u] = [id |-> t, project |-> manifests[t].project, mode |-> manifests[t].mode]
            /\ \A j \in 1..Len(saves) : j > u => saves[j].id # t
      BY <1>9, <3>1 DEF SavesInv
    <3>3. u \in 1..Len(saves')
      BY <1>1, <1>8
    <3>4. ASSUME NEW j \in 1..Len(saves'), j > u PROVE saves'[j].id # t
      <4>1. j \in 1..Len(saves) \/ j = Len(saves) + 1
        BY <1>1, <1>8
      <4> QED
        BY <1>6, <1>8, <2>2, <3>2, <3>4, <4>1
    <3> QED
      BY <1>8, <3>1, <3>2, <3>3, <3>4
  <2> QED
    BY <2>1, <2>2
<1> QED
  BY <1>5, <1>8, <1>9 DEF SavesInv

LEMMA SessionOn ==
  ASSUME LaunchInv, run' \in Started, UNCHANGED <<config, secrets>>,
         trust' \subseteq consented', SavesInv',
         manifests' \in [SessionIds -> L!Manifest \cup {L!NoManifest}]
  PROVE  LaunchInv'
<1>1. run'.place = "session" /\ run' \notin Launching
  BY DEF Started, Launching
<1>2. SecretsInv'
  BY <1>1 DEF LaunchInv, SecretsInv, L!RefsResolve
<1>3. ConsentInv'
  BY <1>1 DEF ConsentInv
<1>4. ResumedInv'
  BY <1>1 DEF ResumedInv
<1> QED
  BY <1>2, <1>3, <1>4 DEF LaunchInv, RunTyped

LEMMA SessionStarts ==
  ASSUME LaunchInv, run \in Launching, NEW id, NEW project \in Projects, NEW mode \in L!Modes,
         L!Start(id, project, mode), project = L!Project,
         run.args.continue => AsPersisted([id |-> id, project |-> project, mode |-> mode]),
         UNCHANGED <<config, secrets, trust, consented>>
  PROVE  LaunchInv' /\ Promised
<1>1. id \in SessionIds
  BY DEF L!Start, SessionIds
<1>2. PICK s : s = [id |-> id, project |-> project, mode |-> mode, projectSettings |-> run.merged,
                    resumed |-> run.args.continue]
  OBVIOUS
<1>3. run' = [place |-> "session", session |-> s] /\ L!Persist(s)
  BY <1>2 DEF L!Start
<1>4. run.merged \in BOOLEAN /\ run.args.continue \in BOOLEAN
  BY DEF Launching, L!Args, L!NewArgs
<1>5. s \in L!Session
  BY <1>1, <1>2, <1>4 DEF L!Session, SessionIds
<1>6. run' \in Started /\ run'.session = s
  BY <1>3, <1>5 DEF Started
<1>7. LaunchInv'
  BY <1>1, <1>3, <1>5, <1>6, ManifestSaved, SessionOn DEF LaunchInv, ConsentInv
<1>8. Consents
  <2>1. run.merged => L!Project \in consented
    BY DEF LaunchInv, ConsentInv
  <2>2. s.project = L!Project /\ s.projectSettings = run.merged
    BY <1>2
  <2> QED
    BY <1>6, <2>1, <2>2 DEF Consents
<1>9. TakesUpLatest
  <2> SUFFICES ASSUME s.resumed
               PROVE  /\ id \in L!Readable
                      /\ \E i \in DOMAIN saves :
                           /\ saves[i] = [id |-> id, project |-> project, mode |-> mode]
                           /\ \A j \in DOMAIN saves : j > i => saves[j].id \notin L!Readable
    BY <1>2, <1>6 DEF TakesUpLatest
  <2>1. AsPersisted([id |-> id, project |-> project, mode |-> mode])
    BY <1>2
  <2>2. /\ manifests[id].shape = "ok" /\ manifests[id].mode = mode /\ manifests[id].project = project
        /\ \A t \in L!Readable : manifests[t].updatedAt <= manifests[id].updatedAt
    BY <2>1 DEF AsPersisted
  <2>3. id \in L!Readable
    BY <1>1, <2>2 DEF L!Readable, SessionIds
  <2>4. saves \in Seq(L!Save) /\ Len(saves) \in Nat /\ DOMAIN saves = 1..Len(saves)
    BY DEF LaunchInv, SavesInv
  <2>5. PICK i \in 1..Len(saves) :
          /\ i = manifests[id].updatedAt /\ saves[i] = [id |-> id, project |-> project, mode |-> mode]
    BY <1>1, <2>2 DEF LaunchInv, SavesInv
  <2>6. ASSUME NEW j \in 1..Len(saves), j > i, saves[j].id \in L!Readable PROVE FALSE
    <3>1. PICK t \in L!Readable : t = saves[j].id
      BY <2>6
    <3>2. t \in SessionIds /\ manifests[t].shape # "missing"
      BY DEF L!Readable, SessionIds
    <3>3. /\ manifests[t].updatedAt \in 1..Len(saves)
          /\ \A k \in 1..Len(saves) : k > manifests[t].updatedAt => saves[k].id # t
      BY <3>2 DEF LaunchInv, SavesInv
    <3>4. manifests[t].updatedAt <= i
      BY <2>2, <2>5
    <3>5. j > manifests[t].updatedAt
      BY <2>4, <2>6, <3>3, <3>4
    <3> QED
      BY <3>1, <3>3, <3>5
  <2> QED
    BY <2>3, <2>4, <2>5, <2>6
<1> QED
  BY <1>7, <1>8, <1>9 DEF Promised

LEMMA SessionBuilt == ASSUME LaunchInv, L!startSession PROVE LaunchInv' /\ Promised
<1>1. run \in Launching /\ run.place = "merge"
  BY Placed DEF L!startSession, L!Places
<1>2. UNCHANGED <<config, secrets, trust, consented>>
  BY DEF L!startSession
<1>3. CASE run.args.continue
  <2>1. PICK r \in Offered : r = run.resumed /\ AsPersisted(r)
    BY <1>1, <1>3 DEF LaunchInv, ResumedInv, AsPersisted
  <2>2. L!Start(r.id, r.project, r.mode)
    BY <1>3, <2>1 DEF L!startSession, L!resumedMode
  <2>3. r.project \in Projects /\ r.mode \in L!Modes /\ r.project = L!Project
        /\ r = [id |-> r.id, project |-> r.project, mode |-> r.mode]
    BY <1>3, <2>1 DEF Offered, L!Project
  <2> QED
    BY <1>1, <1>2, <2>1, <2>2, <2>3, SessionStarts
<1>4. CASE ~ run.args.continue
  <2>1. PICK mode \in L!Modes : L!Start(L!FreshId, run.args.cwd, mode)
    BY <1>4 DEF L!startSession
  <2>2. run.args.cwd \in Projects /\ run.args.cwd = L!Project
    BY <1>1, <1>4 DEF Launching, L!Args, L!NewArgs, L!Project
  <2> QED
    BY <1>1, <1>2, <1>4, <2>1, <2>2, SessionStarts
<1> QED
  BY <1>3, <1>4

LEMMA TurnKept == ASSUME LaunchInv, L!turnPersisted PROVE LaunchInv' /\ Promised
<1>1. run \in Started /\ run.place = "session"
  BY InSession DEF LaunchInv, L!turnPersisted, L!AtPlace
<1>2. PICK s \in L!Session : s = run.session
  BY <1>1 DEF Started
<1>3. run' = run /\ L!Persist(s) /\ UNCHANGED <<config, secrets, trust, consented>>
  BY <1>2 DEF L!turnPersisted
<1> QED
  BY <1>1, <1>3, ManifestSaved, SessionOn, NoStart DEF LaunchInv, ConsentInv

LEMMA Revoked == ASSUME LaunchInv, NEW p \in Projects, L!revokeTrust(p) PROVE LaunchInv' /\ Promised
<1>1. run \in Started /\ run.place = "session"
  BY InSession DEF LaunchInv, L!revokeTrust, L!AtPlace
<1>2. run' = run /\ UNCHANGED <<config, secrets, manifests, saves>>
      /\ trust' = trust \ {p} /\ consented' = consented \ {p}
  BY DEF L!revokeTrust
<1>3. trust' \subseteq consented' /\ manifests' \in [SessionIds -> L!Manifest \cup {L!NoManifest}]
  BY <1>2 DEF LaunchInv, ConsentInv, ResumedInv
<1>4. SavesInv'
  BY <1>2, SavesStay DEF LaunchInv
<1> QED
  BY <1>1, <1>2, <1>3, <1>4, SessionOn, NoStart

LEMMA NotRunning ==
  ASSUME LaunchInv, run' = L!Off, secrets' = secrets, config' \in {config, "missing", "empty"},
         trust' \subseteq consented', SavesInv',
         manifests' \in [SessionIds -> L!Manifest \cup {L!NoManifest}]
  PROVE  LaunchInv' /\ Promised
<1>1. run'.place = "off" /\ run' \notin Launching
  BY DEF L!Off, Launching
<1>2. SecretsInv'
  BY <1>1, LaunchAssumption DEF LaunchInv, SecretsInv, L!RefsResolve
<1>3. ConsentInv'
  BY <1>1 DEF ConsentInv
<1>4. ResumedInv'
  BY <1>1 DEF ResumedInv
<1> QED
  BY <1>1, <1>2, <1>3, <1>4, NoStart DEF LaunchInv, RunTyped

LEMMA Ends ==
  ASSUME LaunchInv, L!stop \/ L!answerTrust("abort") PROVE LaunchInv' /\ Promised
<1>1. trust \subseteq consented /\ manifests \in [SessionIds -> L!Manifest \cup {L!NoManifest}]
  BY DEF LaunchInv, ConsentInv, ResumedInv
<1>2. run' = L!Off /\ UNCHANGED <<config, secrets, trust, manifests, saves>>
  BY DEF L!stop, L!answerTrust, L!Files
<1>3. consented' \in {consented, consented \cap trust}
  BY DEF L!stop, L!answerTrust
<1>4. SavesInv'
  BY <1>2, SavesStay DEF LaunchInv
<1> QED
  BY <1>1, <1>2, <1>3, <1>4, NotRunning

LEMMA FilesChanged == ASSUME LaunchInv, L!filesChange PROVE LaunchInv' /\ Promised
<1>1. run = L!Off
  BY DEF LaunchInv, RunTyped, Launching, Started, L!filesChange, L!AtPlace, L!Off, L!Places
<1>2. UNCHANGED <<secrets, trust, saves, run, consented>> /\ config' \in {config, "missing", "empty"}
  BY DEF L!filesChange
<1>3. manifests' \in [SessionIds -> L!Manifest \cup {L!NoManifest}]
  <2>1. manifests \in [SessionIds -> L!Manifest \cup {L!NoManifest}]
    BY DEF LaunchInv, ResumedInv
  <2>2. ASSUME NEW s \in L!Used, NEW shape \in {"drift", "other store"},
               manifests' = [manifests EXCEPT ![s].shape = shape]
        PROVE  manifests' \in [SessionIds -> L!Manifest \cup {L!NoManifest}]
    <3>1. s \in SessionIds /\ manifests[s] \in L!Manifest
      BY ReadableManifest DEF LaunchInv, L!Used, SessionIds
    <3>2. [manifests[s] EXCEPT !.shape = shape] \in L!Manifest
      BY <3>1 DEF L!Manifest
    <3> QED
      BY <2>1, <2>2, <3>1, <3>2
  <2> QED
    BY <2>1, <2>2 DEF L!filesChange
<1>4. SavesInv'
  <2>1. CASE UNCHANGED manifests
    BY <1>2, <2>1, SavesStay DEF LaunchInv
  <2>2. ASSUME NEW s \in L!Used, NEW shape \in {"drift", "other store"},
               manifests' = [manifests EXCEPT ![s].shape = shape]
        PROVE  SavesInv'
    <3>1. s \in SessionIds /\ manifests[s] \in L!Manifest /\ manifests[s].shape # "missing"
      BY ReadableManifest DEF LaunchInv, L!Used, SessionIds
    <3>2. ASSUME NEW t \in SessionIds
          PROVE  /\ manifests'[t].shape # "missing" => manifests[t].shape # "missing"
                 /\ manifests[t].shape # "missing" =>
                      /\ manifests'[t].updatedAt = manifests[t].updatedAt
                      /\ manifests'[t].project = manifests[t].project
                      /\ manifests'[t].mode = manifests[t].mode
      <4>1. CASE t = s
        BY <2>2, <3>1, <4>1 DEF LaunchInv, ResumedInv, L!Manifest
      <4>2. CASE t # s
        BY <2>2, <3>1, <4>2 DEF LaunchInv, ResumedInv
      <4> QED
        BY <4>1, <4>2
    <3> QED
      BY <1>2, <3>2 DEF LaunchInv, SavesInv
  <2> QED
    BY <2>1, <2>2 DEF L!filesChange
<1> QED
  BY <1>1, <1>2, <1>3, <1>4, NotRunning DEF LaunchInv, ConsentInv

LEMMA LaunchStep == LaunchInv /\ [L!LNext]_launchVars => LaunchInv' /\ Promised
<1> SUFFICES ASSUME LaunchInv, [L!LNext]_launchVars PROVE LaunchInv' /\ Promised
  OBVIOUS
<1>1. CASE UNCHANGED launchVars
  BY <1>1, NoStart, SavesStay
     DEF launchVars, LaunchInv, RunTyped, SecretsInv, ConsentInv, ResumedInv, AsPersisted, L!RefsResolve,
         L!Project, L!Readable
<1>2. CASE L!LNext
  BY <1>2, Launched, SettingsLoaded, LatestRead, ProviderPrompted, SecretBegun, SecretStored,
     SettingsSaved, TrustSteps, ProjectRead, SessionBuilt, TurnKept, Revoked, Ends, FilesChanged
     DEF L!LNext
<1> QED
  BY <1>1, <1>2

-----------------------------------------------------------------------------
(***************************************************************************)
(* A step of the whole is, for each part, one of its steps or none.        *)
(***************************************************************************)
LEMMA PartsStart ==
  MCInit => Init /\ PP!PPInit /\ L!LInit
BY DEF MCInit

LEMMA PartsStep ==
  [MCNext]_allVars =>
    [Next]_vars /\ [PP!PPNext]_paramVars /\ [L!LNext]_launchVars
<1>1. CASE MCNext
  BY <1>1 DEF MCNext
<1>2. CASE UNCHANGED allVars
  BY <1>2 DEF allVars
<1> QED
  BY <1>1, <1>2

LEMMA ChoicesAlways == MCSpec => []ChoicesInv
<1>1. MCInit => ChoicesInv
  BY PartsStart, ChoicesInit
<1>2. ChoicesInv /\ [MCNext]_allVars => ChoicesInv'
  BY PartsStep, ChoicesStep
<1> QED
  BY <1>1, <1>2, PTL DEF MCSpec

LEMMA LaunchAlways == MCSpec => []LaunchInv
<1>1. MCInit => LaunchInv
  BY PartsStart, LaunchInit
<1>2. LaunchInv /\ [MCNext]_allVars => LaunchInv'
  BY PartsStep, LaunchStep
<1> QED
  BY <1>1, <1>2, PTL DEF MCSpec

(***************************************************************************)
(* The lifecycle manager keeps its promises among the parts of a session,  *)
(* whose composition implements it: as long as calls do not overlap, a     *)
(* disposed extension never comes back, and a disposeAll leaves nothing    *)
(* but what hangs on a dispose that failed.                                *)
(***************************************************************************)
THEOREM SessionDisposes == MCSpec => DisposalIsFinalAndTotal
<1>1. MCSpec => Spec
  <2>1. MCInit => Init
    BY PartsStart
  <2>2. [MCNext]_allVars => [Next]_vars
    BY PartsStep
  <2> QED
    BY <2>1, <2>2, PTL DEF MCSpec, Spec
<1> QED
  BY <1>1, DisposalHolds DEF DisposalIsFinalAndTotal

(***************************************************************************)
(* The entry in use has a context at every moment, also between the steps  *)
(* of a swap that fails, and a setting that refers to a secret finds it.   *)
(***************************************************************************)
THEOREM SessionConfigured == MCSpec => []ConfiguredIsThere
<1>1. ChoicesInv /\ LaunchInv => ConfiguredIsThere
  BY DEF ChoicesInv, LaunchInv, SecretsInv, ConfiguredIsThere
<1> QED
  BY <1>1, ChoicesAlways, LaunchAlways, PTL

(***************************************************************************)
(* A session starts with the settings of a project only after the user     *)
(* consented to them, and one that is continued is the one persisted last  *)
(* of those that can be read, with its project and mode of then.           *)
(***************************************************************************)
THEOREM SessionLaunches == MCSpec => L!ProjectSettingsNeedConsent /\ L!ResumedAsPersisted
<1>1. LaunchInv /\ [MCNext]_allVars =>
        [~ L!AtPlace("session") /\ run'.place = "session" /\ run'.session.projectSettings
           => run'.session.project \in consented]_(L!launchVars)
  BY PartsStep, LaunchStep DEF Promised, Consents
<1>2. LaunchInv /\ [MCNext]_allVars =>
        [~ L!AtPlace("session") /\ run'.place = "session" /\ run'.session.resumed
           => LET s == run'.session
              IN /\ s.id \in L!Readable
                 /\ \E i \in DOMAIN saves :
                      /\ saves[i] = [id |-> s.id, project |-> s.project, mode |-> s.mode]
                      /\ \A j \in DOMAIN saves : j > i => saves[j].id \notin L!Readable]_(L!launchVars)
  BY PartsStep, LaunchStep DEF Promised, TakesUpLatest
<1> QED
  BY <1>1, <1>2, LaunchAlways, PTL DEF MCSpec, L!ProjectSettingsNeedConsent, L!ResumedAsPersisted
=============================================================================
