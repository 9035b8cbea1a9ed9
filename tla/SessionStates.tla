----------------------------- MODULE SessionStates -----------------------------
(***************************************************************************)
(* A session from its first turn to its resumption: the lifecycle machine  *)
(* (core/session-lifecycle), the snapshot writer and crash recovery (core/ *)
(* persistence) and the filesystem session store that keeps the manifest.  *)
(*                                                                         *)
(* A manifest is its turn (standing for messages and mode), the store it   *)
(* names and the state machine it names, if any.  Snapshots are written    *)
(* one at a time; each system call may fail, and the process may be killed *)
(* between any two steps.  Nothing in src/ calls these parts yet, so the   *)
(* callers are the smallest that obey their comments: a session starts in  *)
(* Idle or, to be resumed, in Closed.                                      *)
(***************************************************************************)
EXTENDS Integers, Sequences, FiniteSets

CONSTANTS Triggerers,     \* callers of trigger that may overlap
          MaxTurn,        \* how many snapshots are written
          MaxKills        \* how often the process is killed

VARIABLES current,        \* the lifecycle machine's state
          trig,           \* what each call of trigger is doing
          store,          \* whether the store knows the host
          disk,           \* manifest.json
          temp,           \* manifest.json.tmp
          save,           \* the writeSnapshot in progress
          acked,          \* history: the last manifest whose write was acknowledged
          unsure,         \* history: manifests whose write failed or was cut off since
          resume,         \* the resumeSession in progress, and its outcome
          kills

sessionVars == <<current, trig, store, disk, temp, save, acked, unsure, resume, kills>>

ActiveStore == "fs"
NoManifest  == [turn |-> 0, storeId |-> "none", sm |-> "none"]
Torn        == [turn |-> -1, storeId |-> "none", sm |-> "none"]
Manifests   == [turn : 1 .. MaxTurn, storeId : {"", ActiveStore, "other"}, sm : {"none", "sm"}]

NoTrigger == [pc |-> "none", from |-> "Idle", next |-> "Idle"]
NoSave    == [pc |-> "none", m |-> NoManifest, was |-> NoManifest]
NoResume  == [pc |-> "none", m |-> NoManifest, sm |-> "none", by |-> 0]

TRANSITION_TABLE ==
    {<<"Idle", "FirstTurn", "Active">>, <<"Active", "Snapshot", "Persisted">>,
     <<"Persisted", "FirstTurn", "Active">>, <<"Persisted", "Sigterm", "Closed">>,
     <<"Closed", "Resume", "Resumed">>, <<"Resumed", "FirstTurn", "Active">>}

SSInit ==
    /\ current = "Idle" /\ trig = [c \in Triggerers |-> NoTrigger]
    /\ store = "unknown" /\ disk = NoManifest /\ temp = NoManifest
    /\ save = NoSave /\ acked = NoManifest /\ unsure = {}
    /\ resume = NoResume /\ kills = 0

-----------------------------------------------------------------------------
\* createSessionStateMachine.

KeepMachine == UNCHANGED <<current, trig>>
KeepStore   == UNCHANGED <<store, disk, temp>>
KeepSave    == UNCHANGED <<save, acked, unsure>>

\* The state is set; a listener that throws rejects the call, which changes no more.
Enters(c, next) ==
    /\ current' = next
    /\ trig' = [trig EXCEPT ![c] = NoTrigger]

\* trigger up to its first await; a kind the table has no row for is rejected.
trigger(c, kind) ==
    /\ trig[c].pc = "none"
    /\ \E row \in TRANSITION_TABLE :
          /\ row[1] = current /\ row[2] = kind
          /\ IF current = "Resumed" /\ row[3] = "Active"
             THEN /\ trig' = [trig EXCEPT ![c] = [pc |-> "delivering", from |-> current,
                                                  next |-> row[3]]]
                  /\ UNCHANGED current
             ELSE Enters(c, row[3])

triggers(c, kind) == trigger(c, kind) /\ KeepStore /\ KeepSave /\ UNCHANGED <<resume, kills>>

Settles(c, how) == resume' = IF resume.pc = "delivering" /\ resume.by = c
                             THEN [resume EXCEPT !.pc = how] ELSE resume

\* deliverSmSlots has returned; when it rejects, the state stays.
delivered(c) ==
    /\ trig[c].pc = "delivering"
    /\ \/ Enters(c, trig[c].next) /\ Settles(c, "resumed")
       \/ /\ trig' = [trig EXCEPT ![c] = NoTrigger] /\ UNCHANGED current
          /\ Settles(c, "failed")
    /\ KeepStore /\ KeepSave /\ UNCHANGED kills

-----------------------------------------------------------------------------
\* The filesystem store's lifecycle.

init ==
    /\ store = "unknown" /\ store' = "ready"
    /\ KeepMachine /\ KeepSave /\ UNCHANGED <<disk, temp, resume, kills>>

dispose ==
    /\ store = "ready" /\ store' = "unknown"
    /\ KeepMachine /\ KeepSave /\ UNCHANGED <<disk, temp, resume, kills>>

-----------------------------------------------------------------------------
\* writeSnapshot, through persistManifest and writeCrashSafe.

KeepRest == KeepMachine /\ UNCHANGED <<store, resume, kills>>

Fails == /\ save' = [save EXCEPT !.pc = "failed"]
         /\ unsure' = unsure \cup {save.m} /\ UNCHANGED acked

\* assertCrashSafe, and stateForHost.
writeSnapshot(m) ==
    /\ save.pc \in {"none", "failed"} /\ m.turn = acked.turn + Cardinality(unsure) + 1
    /\ m.storeId # "" /\ store = "ready"
    /\ save' = [pc |-> "open", m |-> m, was |-> disk]
    /\ KeepRest /\ UNCHANGED <<disk, temp, acked, unsure>>

opensTemp ==
    /\ save.pc = "open"
    /\ \/ Fails /\ UNCHANGED temp
       \/ save' = [save EXCEPT !.pc = "fill"] /\ temp' = Torn /\ UNCHANGED <<acked, unsure>>
    /\ KeepRest /\ UNCHANGED disk

fillsTemp ==
    /\ save.pc = "fill"
    /\ \/ Fails /\ UNCHANGED temp
       \/ save' = [save EXCEPT !.pc = "rename"] /\ temp' = save.m /\ UNCHANGED <<acked, unsure>>
    /\ KeepRest /\ UNCHANGED disk

renames ==
    /\ save.pc = "rename"
    /\ \/ Fails /\ UNCHANGED <<disk, temp>>
       \/ /\ save' = [save EXCEPT !.pc = "audit"] /\ disk' = temp /\ temp' = NoManifest
          /\ UNCHANGED <<acked, unsure>>
    /\ KeepRest

\* The store's audit record; when it fails, so does the write.
acknowledges ==
    /\ save.pc = "audit"
    /\ \/ Fails
       \/ save' = NoSave /\ acked' = save.m /\ unsure' = {}
    /\ KeepRest /\ UNCHANGED <<disk, temp>>

-----------------------------------------------------------------------------
\* resumeSession.

assertStoreCompatible(m) == m.storeId = ActiveStore

Ends(why) == resume' = [resume EXCEPT !.pc = why] /\ KeepMachine

\* readLastSnapshot, parseManifest and the store check, or why there is no
\* resuming: the read may fail, and so may the audit record of a good one.
readLastSnapshot ==
    /\ resume.pc = "none" /\ current = "Closed" /\ store = "ready"
    /\ save.pc \in {"none", "failed"}
    /\ \E ends \in {"ManifestDrift", "Unaudited", "read"} :
         resume' = [m |-> disk, sm |-> "none", by |-> 0, pc |->
          IF disk = NoManifest THEN "NoSnapshot"
          ELSE IF disk = Torn THEN "ManifestDrift"
          ELSE IF ends = "ManifestDrift" THEN ends
          ELSE IF ~assertStoreCompatible(disk) THEN "ResumeMismatch"
          ELSE IF ends = "Unaudited" THEN ends
          ELSE IF disk.sm = "none" THEN "resume" ELSE "attach"]
    /\ KeepMachine /\ KeepStore /\ KeepSave /\ UNCHANGED kills

\* attachSm: attached, skipped or thrown, it goes on.
attachSm ==
    /\ resume.pc = "attach"
    /\ \E sm \in {"attached", "skipped"} : resume' = [resume EXCEPT !.pc = "resume", !.sm = sm]
    /\ KeepMachine /\ KeepStore /\ KeepSave /\ UNCHANGED kills

triggersResume(c) ==
    /\ resume.pc = "resume" /\ trig[c].pc = "none"
    /\ IF current = "Closed" THEN Enters(c, "Resumed") /\ resume' = [resume EXCEPT !.pc = "first"]
       ELSE Ends("IllegalTransition")
    /\ KeepStore /\ KeepSave /\ UNCHANGED kills

triggersFirstTurn(c) ==
    /\ resume.pc = "first" /\ trig[c].pc = "none"
    /\ IF current \in {"Idle", "Persisted", "Resumed"}
       THEN trigger(c, "FirstTurn") /\ resume' = [resume EXCEPT !.by = c, !.pc =
               IF current = "Resumed" THEN "delivering" ELSE "resumed"]
       ELSE Ends("IllegalTransition")
    /\ KeepStore /\ KeepSave /\ UNCHANGED kills

\* The process is killed; the next one has its machine in Closed, to resume.
killed ==
    /\ kills < MaxKills /\ kills' = kills + 1
    /\ current' = "Closed" /\ trig' = [c \in Triggerers |-> NoTrigger]
    /\ store' = "unknown" /\ save' = NoSave /\ resume' = NoResume
    /\ unsure' = IF save.pc \in {"none", "failed"} THEN unsure ELSE unsure \cup {save.m}
    /\ UNCHANGED <<disk, temp, acked>>

SSNext ==
    \/ init \/ dispose \/ opensTemp \/ fillsTemp \/ renames \/ acknowledges
    \/ readLastSnapshot \/ attachSm \/ killed
    \/ \E m \in Manifests : writeSnapshot(m)
    \/ \E c \in Triggerers :
          \/ \E k \in {"FirstTurn", "Snapshot", "Resume", "Sigterm"} : triggers(c, k)
          \/ delivered(c) \/ triggersResume(c) \/ triggersFirstTurn(c)

SSSpec == SSInit /\ [][SSNext]_sessionVars

-----------------------------------------------------------------------------
\* Properties.

\* The state keeps its types.
SSTypeOK ==
    /\ current \in {"Idle", "Active", "Persisted", "Closed", "Resumed"}
    /\ disk \in Manifests \cup {NoManifest, Torn} /\ temp \in Manifests \cup {NoManifest, Torn}
    /\ store \in {"unknown", "ready"}

\* A session that is resumed goes on from the snapshot last acknowledged, or
\* from one written after it whose write was not reported to have succeeded; a
\* kill in the middle of a write never leaves it without one (writeCrashSafe).
ResumesFromLastSnapshot ==
    [][resume.pc = "none" /\ resume'.pc # "none" => resume'.m \in {acked} \cup unsure]_resume

\* State is attached, and the session goes on, only from a snapshot this store
\* wrote, however the machine was driven meanwhile (resumeSession).
OwnSnapshotOnly ==
    resume.sm = "attached" \/ resume.pc = "resumed" => resume.m.storeId = ActiveStore
=============================================================================
