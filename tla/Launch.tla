-------------------------------- MODULE Launch --------------------------------
(***************************************************************************)
(* Starting the program, ending it in any way and starting it again        *)
(* (cli/shell.ts, cli/runtime.ts, cli/runtime/bootstrap*.ts, storage.ts,   *)
(* session-store.ts, trust-gate.ts): what the files under ~/.stud hold     *)
(* between launches, what each launch asks the user and writes, and which  *)
(* settings and which session it ends up with.                             *)
(*                                                                         *)
(* Each step is the code between two awaits; any of them may throw, and    *)
(* the process may die, which both end the launch where it stands.  One    *)
(* process runs at a time.  Settings hold at most one provider entry:      *)
(* bootstrap only adds an entry when there is none.                        *)
(***************************************************************************)
EXTENDS Integers, Sequences, FiniteSets

CONSTANTS
  Projects,      \* project roots a launch may be started in
  Layouts,       \* what their settings.json may be: [Projects -> ProjectFiles]
  Names,         \* names a secret is stored under: its entry and the time
  MaxSessions,   \* bound: sessions ever started
  MaxSaves       \* bound: manifests ever written

VARIABLES
  config,      \* ~/.stud/settings.json: its provider entry's credential, or why there is none
  secrets,     \* ~/.stud/secrets.json: the names stored, and whether it can be read
  trust,       \* projects ~/.stud/trust.json has as trusted
  projectFile, \* per project: <project>/settings.json
  manifests,   \* per session: its manifest on disk
  saves,       \* history: the manifests written so far, in order; it is the clock
  run,         \* the launch or session of the running process
  consented    \* projects the user trusts: for good, or for this launch

launchVars == <<config, secrets, trust, projectFile, manifests, saves, run, consented>>

Credentials == {"env", "none"} \cup Names           \* apiKeyRef: env, no auth, keyring name
SettingsFiles == {"missing", "empty", "malformed"} \cup Credentials
ProjectFiles  == {"no directory", "malformed", "unusable", "usable"}
Modes   == {"ask", "yolo"}
NewArgs == [continue : {FALSE}, prompts : {"interactive", "headless", "headless yolo"}, cwd : Projects]
(* A resumed launch looks neither at --yolo here nor at its directory.     *)
Args    == NewArgs \cup [continue : {TRUE}, prompts : {"interactive", "headless"}]
NoManifest == [shape |-> "missing"]
Manifest   == [shape : {"ok", "drift", "other store"}, project : Projects, mode : Modes,
               updatedAt : 0..MaxSaves]
Session    == [id : 1..MaxSessions, project : Projects, mode : Modes, projectSettings : BOOLEAN,
               resumed : BOOLEAN]
Save       == [id : 1..MaxSessions, project : Projects, mode : Modes]
NoSession  == [id |-> 0]
Off        == [place |-> "off"]
Places     == {"off", "settings", "latest", "provider", "input secret", "writing secret",
               "save settings", "trust", "ask trust", "granting", "read project", "merge", "session"}

(* Types.                                                                  *)
LTypeOK ==
  /\ config \in SettingsFiles
  /\ secrets \in [names : SUBSET Names, whole : BOOLEAN] /\ trust \subseteq Projects
  /\ projectFile \in [Projects -> ProjectFiles] /\ consented \subseteq Projects
  /\ manifests \in [1..MaxSessions -> Manifest \cup {NoManifest}] /\ saves \in Seq(Save)
  /\ run.place \in Places /\ (run.place \notin {"off", "session"} => run.args \in Args)
  /\ run.place = "session" => run.session \in Session

LInit ==
  /\ config \in {"missing", "empty", "malformed", "env"}
  /\ secrets = [names |-> {}, whole |-> TRUE]
  /\ trust = {} /\ consented = {}
  /\ projectFile \in Layouts
  /\ manifests = [s \in 1..MaxSessions |-> NoManifest] /\ saves = <<>>
  /\ run = Off

Files == <<config, secrets, trust, projectFile, manifests, saves>>

AtPlace(p)  == run.place = p
Goto(p)     == run' = [run EXCEPT !.place = p]
Interactive == run.args.prompts = "interactive"

(* The project in question: the launch's own, or the resumed session's.    *)
Project == IF run.args.continue THEN run.resumed.project ELSE run.args.cwd
ProjectExists == projectFile[Project] # "no directory"

(***************************************************************************)
(* bootstrapSession: the global settings first; a malformed file throws.   *)
(***************************************************************************)
launch(args) ==
  /\ AtPlace("off")
  /\ run' = [place |-> "settings", args |-> args, key |-> "none", resumed |-> NoSession, merged |-> FALSE]
  /\ UNCHANGED <<Files, consented>>

loadSettings ==
  /\ AtPlace("settings") /\ config # "malformed"
  /\ Goto(IF run.args.continue THEN "latest" ELSE "provider")
  /\ UNCHANGED <<Files, consented>>

(* --continue: manifests that cannot be read are passed over, but one of   *)
(* another store ends the listing; the latest of the rest is resumed.      *)
Readable == {s \in 1..MaxSessions : manifests[s].shape = "ok"}

(* Mutant: the order of the listing is turned round.                       *)
Earliest == CHOOSE s \in Readable : \A t \in Readable : manifests[t].updatedAt >= manifests[s].updatedAt

Latest   == CHOOSE s \in Readable : \A t \in Readable : manifests[t].updatedAt <= manifests[s].updatedAt

readLatestSessionManifest ==
  /\ AtPlace("latest")
  /\ \A s \in 1..MaxSessions : manifests[s].shape # "other store"
  /\ Readable # {}
  /\ run' = [run EXCEPT !.place = "provider",
               !.resumed = [id |-> Latest, project |-> manifests[Latest].project,
                            mode |-> manifests[Latest].mode]]
  /\ UNCHANGED <<Files, consented>>

(***************************************************************************)
(* ensureProviderSettings: nothing to do with a provider configured, else  *)
(* protocol, authentication and entry id are asked for; a headless launch  *)
(* throws instead.                                                         *)
(***************************************************************************)
Configured == config \in Credentials

providerConfigured ==
  /\ AtPlace("provider") /\ Configured
  /\ Goto("trust")
  /\ UNCHANGED <<Files, consented>>

promptProviderConfig(auth) ==
  /\ AtPlace("provider") /\ ~ Configured /\ Interactive
  /\ run' = [run EXCEPT !.key = IF auth = "secret" THEN "none" ELSE auth,
               !.place = CASE auth = "secret" -> "input secret"
                           [] OTHER -> "save settings"]
  /\ UNCHANGED <<Files, consented>>

(* storeSecret: the store is read, then written in place, not atomically;  *)
(* one that cannot be read throws.  Names never repeat.                    *)
NextName == CHOOSE n \in Names : n \notin secrets.names

storeSecret ==
  /\ AtPlace("input secret") /\ secrets.whole /\ secrets.names # Names
  /\ secrets' = [names |-> secrets.names, whole |-> FALSE]
  /\ Goto("writing secret")
  /\ UNCHANGED <<config, trust, projectFile, manifests, saves, consented>>

secretStored ==
  /\ AtPlace("writing secret")
  /\ secrets' = [names |-> secrets.names \cup {NextName}, whole |-> TRUE]
  /\ run' = [run EXCEPT !.place = "save settings", !.key = NextName]
  /\ UNCHANGED <<config, trust, projectFile, manifests, saves, consented>>

(* Model and base URL are asked for, then the file is replaced whole; two  *)
(* audit records follow.                                                   *)
saveSettings ==
  /\ AtPlace("save settings")
  /\ config' = run.key
  /\ run' = [run EXCEPT !.place = "trust", !.key = "none"]
  /\ UNCHANGED <<secrets, trust, projectFile, manifests, saves, consented>>

(***************************************************************************)
(* resolveProjectTrust for a new session, readTrustedProjectSettings for a *)
(* resumed one, which asks nothing.                                        *)
(***************************************************************************)
trustKnown == Project \in trust

trustSettled ==
  /\ AtPlace("trust")
  /\ \/ ~ ProjectExists /\ Goto("merge")
     \/ ProjectExists /\ trustKnown /\ Goto("read project")
     \/ ProjectExists /\ ~ trustKnown /\ run.args.continue /\ Goto("merge")
  /\ UNCHANGED <<Files, consented>>

trustHeadless ==
  /\ AtPlace("trust") /\ ~ run.args.continue /\ ProjectExists /\ ~ trustKnown
  /\ run.args.prompts = "headless yolo"
  /\ consented' = consented \cup {Project} /\ Goto("read project")
  /\ UNCHANGED Files

promptTrust ==
  /\ AtPlace("trust") /\ ~ run.args.continue /\ ProjectExists /\ ~ trustKnown /\ Interactive
  /\ Goto("ask trust")
  /\ UNCHANGED <<Files, consented>>

(* trust: the grant is persisted, then audited.  decline: audited, then    *)
(* recorded.  once: audited only.  abort: the launch ends.                 *)
answerTrust(decision) ==
  /\ AtPlace("ask trust")
  /\ CASE decision = "abort"   -> run' = Off
       [] decision = "decline" -> Goto("merge")
       [] decision = "once"    -> Goto("read project")
       [] decision = "trust"   -> Goto("granting")
  /\ consented' = IF decision \in {"once", "trust"} THEN consented \cup {Project} ELSE consented
  /\ UNCHANGED Files

grantPersisted ==
  /\ AtPlace("granting")
  /\ trust' = trust \cup {Project} /\ Goto("read project")
  /\ UNCHANGED <<config, secrets, projectFile, manifests, saves, consented>>

readProjectSettings ==
  /\ AtPlace("read project") /\ projectFile[Project] # "malformed"
  /\ run' = [run EXCEPT !.place = "merge", !.merged = TRUE]
  /\ UNCHANGED <<Files, consented>>

(***************************************************************************)
(* The merged settings must name a usable provider; then the session is    *)
(* built, a resumed one with its own mode, a new one with that of --mode,  *)
(* the settings or the default, and its manifest is written.               *)
(***************************************************************************)
resumedMode(resumed) == resumed.mode

Used    == {s \in 1..MaxSessions : manifests[s].shape # "missing"}
FreshId == Cardinality(Used) + 1
Clock   == 1 + Len(saves)

Persist(session) ==
  /\ Clock <= MaxSaves
  /\ manifests' = [manifests EXCEPT ![session.id] = [shape |-> "ok", project |-> session.project,
                                                    mode |-> session.mode, updatedAt |-> Clock]]
  /\ saves' = Append(saves, [id |-> session.id, project |-> session.project, mode |-> session.mode])

Start(id, project, mode) ==
  LET session == [id |-> id, project |-> project, mode |-> mode, projectSettings |-> run.merged,
                  resumed |-> run.args.continue]
  IN /\ id \in 1..MaxSessions /\ Persist(session)
     /\ run' = [place |-> "session", session |-> session]

startSession ==
  /\ AtPlace("merge") /\ (run.merged => projectFile[Project] # "unusable")
  /\ IF run.args.continue
     THEN Start(run.resumed.id, run.resumed.project, resumedMode(run.resumed))
     ELSE \E mode \in Modes : Start(FreshId, run.args.cwd, mode)
  /\ UNCHANGED <<config, secrets, trust, projectFile, consented>>

(* A turn that ends is persisted with the whole history so far.            *)
turnPersisted ==
  /\ AtPlace("session") /\ Persist(run.session)
  /\ UNCHANGED <<config, secrets, trust, projectFile, run, consented>>

(* /trust revoke or clear, in a session.                                   *)
revokeTrust(p) ==
  /\ AtPlace("session") /\ p \in trust
  /\ trust' = trust \ {p} /\ consented' = consented \ {p}
  /\ UNCHANGED <<config, secrets, projectFile, manifests, saves, run>>

(* The session ends, a step throws, or the process dies: consent for one   *)
(* launch ends with it; what was persisted stays.                          *)
stop ==
  /\ ~ AtPlace("off")
  /\ run' = Off
  /\ consented' = consented \cap trust
  /\ UNCHANGED Files

(* Between launches the user may remove the settings, and files of         *)
(* sessions may be damaged or come from another store.                     *)
filesChange ==
  /\ AtPlace("off")
  /\ \/ config' \in {"missing", "empty"} /\ UNCHANGED manifests
     \/ /\ \E s \in Used, shape \in {"drift", "other store"} :
             manifests' = [manifests EXCEPT ![s].shape = shape]
        /\ UNCHANGED config
  /\ UNCHANGED <<secrets, trust, projectFile, saves, run, consented>>

LNext ==
  \/ \E args \in Args : launch(args)
  \/ loadSettings \/ readLatestSessionManifest \/ providerConfigured
  \/ \E auth \in {"secret", "env", "none"} : promptProviderConfig(auth)
  \/ storeSecret \/ secretStored \/ saveSettings
  \/ trustSettled \/ trustHeadless \/ promptTrust
  \/ \E d \in {"trust", "once", "decline", "abort"} : answerTrust(d)
  \/ grantPersisted \/ readProjectSettings \/ startSession
  \/ turnPersisted \/ \E p \in Projects : revokeTrust(p)
  \/ stop \/ filesChange

LSpec == LInit /\ [][LNext]_launchVars

(***************************************************************************)
(* The credential the settings refer to is in the secret store, whichever  *)
(* step of setting up a provider the launch broke off at, unless the break *)
(* cut the store itself short; and then no launch overwrites it.           *)
(***************************************************************************)
RefsResolve == config \in Names => config \in secrets.names

(* A session starts with a project's settings only if the user trusted     *)
(* that project: for good and not revoked since, or in this very launch.   *)
ProjectSettingsNeedConsent ==
  [][~ AtPlace("session") /\ run'.place = "session" /\ run'.session.projectSettings
       => run'.session.project \in consented]_launchVars

(* --continue takes up the session that was persisted last, of those whose *)
(* manifest can still be read, with the project and the mode it was        *)
(* persisted with then, whatever was saved in between, and whatever the    *)
(* new launch's arguments and directory are.                               *)
ResumedAsPersisted ==
  [][~ AtPlace("session") /\ run'.place = "session" /\ run'.session.resumed
       => LET s == run'.session
          IN /\ s.id \in Readable
             /\ \E i \in DOMAIN saves :
                  /\ saves[i] = [id |-> s.id, project |-> s.project, mode |-> s.mode]
                  /\ \A j \in DOMAIN saves : j > i => saves[j].id \notin Readable]_launchVars
=============================================================================
