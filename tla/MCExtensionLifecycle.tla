------------------------ MODULE MCExtensionLifecycle ------------------------
(***************************************************************************)
(* What a session is made of, part by part: the extensions with their      *)
(* lifecycle, their rules and their hooks, the providers' entries and the  *)
(* launch.  A behaviour explores one part, the lifecycle manager or one of *)
(* the modules instantiated below; the others stay in an initial state of  *)
(* theirs.                                                                 *)
(***************************************************************************)
EXTENDS ExtensionLifecycle, TLC

CONSTANTS
  Parts,                                                        \* the parts a run explores
  Entries, Configs, ConfigsOf, NoConfig, ProtocolOf, DefaultsOf, ModelsOf,   \* ProviderParams
  StartSettings,                                                \* one of its first settings
  Projects, Layouts, Names, MaxSessions, MaxSaves               \* Launch

(* "top" needs "mid" and, through it and by itself, "base".                *)
MCExt == {"base", "mid", "top"}
MCDependsOn == [e \in MCExt |->
  CASE e = "base" -> << >> [] e = "mid" -> <<"base">> [] OTHER -> <<"mid", "base">>]

(* Once calls have raced they run to their end, and no new ones are made.  *)
RaceEnds == raced => \A c \in Calls : Busy(c)' => Busy(c)

VARIABLES part,
  category, dependsOn, question,                                \* ExtensionIntake: orders, questions
  installed, marker, installing, interrupted, answer,           \* ExtensionIntake: the intake
  hookOf, hookSlot, orderFile, hookRun, stragglers,             \* HookSlots
  leaves, selection, contexts, settings, swap,                  \* ProviderParams
  config, secrets, trust, projectFile, manifests, saves, run, consented   \* Launch

(* Three extensions, each with up to two entries in dependsOn.  A release  *)
(* that drops a file of the one before and brings a new one.               *)
MCFilesOf == [r \in {"v1", "v2"} |-> IF r = "v1" THEN {"main", "old"} ELSE {"main", "new"}]
EI == INSTANCE ExtensionIntake WITH
        MaxPart <- 1, Exts <- {1, 2, 3}, Unknown <- 9, Categories <- {11, 12}, MaxDeps <- 2,
        Releases <- {"v1", "v2"}, FilesOf <- MCFilesOf, Ids <- {1, 2},
        Stages <- {"shape", "configSchema"}, MaxFound <- 2, MaxCandidates <- 3

(* Orders that name one extension twice, and one that is not attached.     *)
HS == INSTANCE HookSlots WITH
        HookExts <- {1, 2, 3}, HookFiles <- {<<2, 1>>, <<1, 1>>, <<3, 9, 2>>},
        SlotsTried <- {"TOOL_CALL/pre", "RENDER/pre", "RENDER/post"}

(* Two configurations of one protocol, with and without limits, one of     *)
(* another, and none.                                                      *)
MCConfigs      == {"a", "b", "o"}
MCConfigsOf    == [e \in {"e1", "e2"} |-> IF e = "e1" THEN {"a"} ELSE {"b", "o", "none"}]
MCProtocolOf   == [k \in MCConfigs |-> IF k = "o" THEN "openai-compatible" ELSE "anthropic"]
MCModelsOf     == [k \in MCConfigs |-> IF k = "a" THEN <<"m1", "m2">> ELSE <<"m1">>]
MCLeaf(name, value) == [path |-> <<name>>, value |-> value]
MCDefaultsOf == [k \in MCConfigs |->
  CASE k = "a" -> <<MCLeaf("maxOutputTokens", 1)>>
    [] k = "b" -> <<[path |-> <<"thinking", "budgetTokens">>, value |-> 1]>>
    [] OTHER   -> <<>>]
MCStartSettings == [providers |-> ("e1" :> "a") @@ ("e2" :> "b"), active |-> [entry |-> "e1", model |-> "m1"]]
PP == INSTANCE ProviderParams

(* A project with settings that can be used, and one without a directory.  *)
MCLayouts == {("p1" :> "usable") @@ ("p2" :> "no directory")}
L == INSTANCE Launch

(* A model for every configuration, and names of secrets that are none of  *)
(* the words the settings use.                                             *)
ASSUME ChoicesAssumption ==
  /\ NoConfig \notin Configs /\ ConfigsOf \in [Entries -> SUBSET (Configs \cup {NoConfig})]
  /\ \A k \in Configs : ModelsOf[k] # <<>> /\ ModelsOf[k] \in Seq(PP!Models)
ASSUME LaunchAssumption ==
  MaxSaves \in Nat /\ Names \cap {"missing", "empty", "malformed", "env", "none"} = {}
-----------------------------------------------------------------------------
doVars     == <<category, dependsOn>>
eiVars     == <<installed, marker, installing, interrupted, answer>>
hookVars   == <<hookOf, hookSlot, orderFile, hookRun, stragglers>>
paramVars  == <<leaves, selection, contexts, settings, swap>>
launchVars == <<config, secrets, trust, projectFile, manifests, saves, run, consented>>
allVars    == <<part, vars, doVars, question, eiVars, hookVars, paramVars, launchVars>>

(* A part that is not explored has one initial state.                      *)
OneState ==
  /\ IF part = "hooks" THEN TRUE
     ELSE /\ hookSlot = "TOOL_CALL/pre" /\ hookOf = [e \in {1, 2, 3} |-> "observer"]
          /\ orderFile = [s \in HS!HookScopes |-> HS!NoFile]
  /\ IF part = "params" THEN TRUE
     ELSE /\ settings = StartSettings
          /\ leaves = PP!flattenLeaves(DefaultsOf[StartSettings.providers[StartSettings.active.entry]])
  /\ IF part = "launch" THEN TRUE ELSE config = "missing"

MCInit ==
  /\ part \in Parts /\ OneState
  /\ Init /\ EI!DOInit /\ EI!EIInit /\ EI!CRInit /\ HS!HSInit /\ PP!PPInit /\ L!LInit

MCNext ==
  /\ UNCHANGED part
  /\ IF part = "lifecycle" THEN Next ELSE UNCHANGED vars
  /\ IF part = "order" THEN EI!declare ELSE UNCHANGED doVars
  /\ IF part = "intake" THEN EI!EINext ELSE UNCHANGED eiVars
  /\ IF part = "contracts" THEN EI!ask ELSE UNCHANGED question
  /\ IF part = "hooks" THEN HS!HSNext ELSE UNCHANGED hookVars
  /\ IF part = "params" THEN PP!PPNext ELSE UNCHANGED paramVars
  /\ IF part = "launch" THEN L!LNext ELSE UNCHANGED launchVars

MCSpec == MCInit /\ [][MCNext]_allVars

-----------------------------------------------------------------------------
(***************************************************************************)
(* Every variable of every part has its type.                              *)
(***************************************************************************)
TypesOK ==
  CASE part = "lifecycle" -> TypeOK      [] part = "intake" -> EI!EITypeOK
    [] part = "hooks" -> HS!HSTypeOK     [] part = "params" -> PP!PPTypeOK
    [] part = "launch" -> L!LTypeOK      [] OTHER -> TRUE

(***************************************************************************)
(* The rules that are written twice agree, or part exactly where the       *)
(* modules say, and keep what is valid: the orders of extensions           *)
(* (contracts, core, lifecycle manager), versions and deprecation, hooks,  *)
(* cardinality, and capabilities except those a provider only probes; an   *)
(* install marker names a release whose files are all there, and are of    *)
(* that release unless a copy stopped half way; discovery keeps valid      *)
(* candidates.                                                             *)
(***************************************************************************)
ExtensionRulesHold ==
  /\ part = "order" => EI!OrdersAgree
  /\ part = "contracts" => EI!VersionRulesAgree /\ EI!TwinRulesAgree
  /\ part = "intake" => EI!MarkedIsComplete /\ EI!IntakeKeepsValid

(***************************************************************************)
(* Observers see what the transforms, in the order of the project, have    *)
(* made of the payload, and settle with their slot (core/hooks).           *)
(***************************************************************************)
HooksKeepTheirPlace == part = "hooks" => HS!ObserversSeeWholePayload /\ HS!OnlyCancelLeavesObservers

(***************************************************************************)
(* What is configured is there when it is used: the context of the entry   *)
(* in use (cli/runtime, providers) and the secret the settings refer to.   *)
(***************************************************************************)
ConfiguredIsThere ==
  /\ part = "params" => PP!ActiveHasContext
  /\ part = "launch" => L!RefsResolve

(***************************************************************************)
(* Disposal is final and disposeAll reaches everything                     *)
(* (core/lifecycle/manager.ts).                                            *)
(***************************************************************************)
DisposalIsFinalAndTotal == DisposedIsFinal /\ DisposeAllReachesAll

(***************************************************************************)
(* A step changes only to what is allowed: a swap to parameters that were  *)
(* validated, where the context was made from the settings as they are and *)
(* the values nest no defaults; a launch to settings the user consented to *)
(* and to the session saved last among the readable ones, as it was saved. *)
(***************************************************************************)
ChangesAreAllowed == PP!ParamsStayValid /\ L!ProjectSettingsNeedConsent /\ L!ResumedAsPersisted
=============================================================================
