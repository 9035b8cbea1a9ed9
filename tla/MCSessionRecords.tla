-------------------------- MODULE MCSessionRecords --------------------------
(***************************************************************************)
(* What a session streams, assembles and keeps, part by part: responses,   *)
(* requests and their sources, the stages of a turn with their grants and  *)
(* scopes, and the records on disk.  A behaviour explores one part, one of *)
(* the modules instantiated below; the others stay in an initial state of  *)
(* theirs.                                                                 *)
(***************************************************************************)
EXTENDS Integers, Sequences, FiniteSets

CONSTANTS
  Parts,                                                        \* the parts a run explores
  CallIds, MaxText,                                             \* ProviderStreaming
  GrantTuples, Executions, ExecutionOf, Machines, SlotValues,   \* SMAttachment
  MaxScopes, MaxTasks,                                          \* TurnScopes
  MaxRecords, RotateAt, MaxRotatedFiles, MaxNow,                \* AuditTrail
  Triggerers, MaxTurn, MaxKills,                                \* SessionStates
  FileCallers, FileArgs, StartTexts, Ticks, Limits              \* FileTools

VARIABLES part,
  adapter, configured, wire, pending, yieldedIds, finished, acc, reports,    \* ProviderStreaming
  sent, chunk, buffer, ids, yielded, lines, over,                            \* ProviderStreaming: SSE
  asm, prun, graceful,                                                       \* ContextAssembly
  squeeze, tool, prompt,                                                     \* ContextAssembly: sources
  tokens, consumed, cleared, keysByStage, usable, smCalls, slots,
  attachedId, wired,                                                         \* SMAttachment
  scopes, turns, running, started, stream,                                   \* TurnScopes
  at, parts, chunks, calls, reason, aborted, record, shown, passes, begun,   \* LoopStages
  phase, logger, writers, text, path, rotated, append, now, removed,         \* AuditTrail
  current, trig, store, disk, manifestTmp, save, acked, unsure, resume,
  kills,                                                                     \* SessionStates
  file, dirs, temp, fcall, limit, composed, overlapped, sharedTemp           \* FileTools

(* Deltas of two calls, with and without their ids.                        *)
Delta(i, id, bare) == [kind |-> "delta", index |-> i, id |-> id, bare |-> bare]
MCPayloads == {[kind |-> "text"], Delta(0, "a", FALSE), Delta(0, "", FALSE), Delta(1, "b", TRUE), Delta(1, "", FALSE)}
PS == INSTANCE ProviderStreaming WITH config <- configured, Payloads <- MCPayloads, MaxLines <- 3

(* Fragments of equal and of different priority, over and within their     *)
(* budget, in one exclusive slot and in none, with and without a secret.   *)
Fragment(priority, size, budget, slot, secret) ==
  [priority |-> priority, size |-> size, budget |-> budget, slot |-> slot, secret |-> secret]
MCAnswers == {<<>>,
              <<Fragment(1, 1, 1, "s", "none"), Fragment(1, 2, 1, "s", "none")>>,
              <<Fragment(2, 2, 2, "no slot", "env")>>,
              <<Fragment(0, 1, 3, "s", "none"), Fragment(2, 2, 2, "no slot", "settings")>>,
              <<Fragment(2, 1, 1, "s", "key pattern")>>}
CA == INSTANCE ContextAssembly WITH
        CtxProviders <- {1, 2}, Answers <- MCAnswers, Windows <- {3}, BaseSizes <- {0, 1},
        Histories <- {<<>>, <<1, 1>>, <<1, 3>>}, Targets <- {0, 2, 3}, Summaries <- {1, 2}, MaxVersions <- 2,
        Holdings <- {{<<"history", "env">>}, {<<"systemPrompt", "settings">>, <<"tools", "env">>}}

(* Two grants of one stage execution; two machines that attach.            *)
MCExecutionOf == [g \in {"g1", "g2"} |-> "e1"]
SA == INSTANCE SMAttachment WITH calls <- smCalls

TSC == INSTANCE TurnScopes

LS == INSTANCE LoopStages WITH
        LoopCallIds <- {"c1", "c2"}, MaxParts <- 3, MaxTurns <- 1, MaxPasses <- 2,
        wire <- parts, turns <- begun

AT == INSTANCE AuditTrail WITH gone <- removed

SS == INSTANCE SessionStates WITH temp <- manifestTmp

(* Edits that apply and that do not, a write beside them and below a       *)
(* directory that is missing, and one out of the workspace.                *)
Edit(name, old, new)        == [tool |-> "edit", path |-> name, old |-> old, new |-> new]
Write(name, whole, parents) == [tool |-> "write", path |-> name, text |-> whole, parents |-> parents]
MCArgs == {Edit("f", <<1>>, <<2>>), Edit("f", <<1, 2>>, <<2>>), Write("f", <<2, 1>>, FALSE),
           Write("d/f", <<1>>, TRUE), Write("out", <<1>>, FALSE), [tool |-> "read", path |-> "f"],
           [tool |-> "list", path |-> ".", depth |-> 2]}
MCTexts == {<<1, 2>>, <<1, 1, 2>>}
FT == INSTANCE FileTools

(* An execution of its own for every grant, a first scope, a record in its *)
(* file, files of the workspace.                                           *)
ASSUME GrantsAssumption == ExecutionOf \in [GrantTuples -> Executions]
ASSUME ScopesAssumption == MaxScopes \in Nat \ {0}
ASSUME TrailAssumption ==
  MaxRecords \in Nat /\ RotateAt \in Nat /\ MaxRotatedFiles \in Nat /\ MaxNow \in Nat \ {0}
ASSUME FilesAssumption ==
  \A a \in FileArgs :
    /\ a.tool \in {"edit", "write", "read", "list"}
    /\ FT!Changes(a) => a.path \in FT!FilePaths \cup {"", "out"}
-----------------------------------------------------------------------------
streamVars == <<adapter, configured, wire, pending, yieldedIds, finished, acc, reports>>
sseVars    == <<sent, chunk, buffer, ids, yielded, lines, over>>
ctxVars    == <<asm, prun, graceful>>
sourceVars == <<squeeze, tool, prompt>>
saVars     == <<tokens, consumed, cleared, keysByStage, usable, smCalls, slots, attachedId, wired>>
scopeVars  == <<scopes, turns, running, started, stream>>
stageVars  == <<at, parts, chunks, calls, reason, aborted, record, shown, passes, begun>>
trailVars  == <<phase, logger, writers, text, path, rotated, append, now, removed>>
stateVars  == <<current, trig, store, disk, manifestTmp, save, acked, unsure, resume, kills>>
toolVars   == <<file, dirs, temp, fcall, limit, composed, overlapped, sharedTemp>>
allVars == <<part, streamVars, sseVars, ctxVars, sourceVars, saVars, scopeVars, stageVars, trailVars,
             stateVars, toolVars>>

(* A part that is not explored has one initial state.                      *)
OneState ==
  /\ IF part = "streams" THEN TRUE ELSE adapter = "bridge"
  /\ IF part = "context" THEN TRUE ELSE graceful = {}
  /\ IF part = "audit trail" THEN TRUE ELSE path = 0
  /\ IF part = "file tools" THEN TRUE
     ELSE dirs = {"."} /\ file = [f \in FT!FilePaths |-> FT!Missing]
          /\ limit = (CHOOSE l \in Limits : TRUE)

MCInit ==
  /\ part \in Parts /\ OneState
  /\ PS!PSInit /\ PS!SSEInit /\ CA!CAInit /\ CA!CSInit /\ SA!SAInit /\ TSC!TSCInit
  /\ LS!LSInit /\ AT!ATInit /\ SS!SSInit /\ FT!FTInit
  /\ file["d/f"] = FT!Missing

MCNext ==
  /\ UNCHANGED part
  /\ IF part = "streams" THEN PS!PSNext ELSE UNCHANGED streamVars
  /\ IF part = "wire" THEN PS!SSENext ELSE UNCHANGED sseVars
  /\ IF part = "context" THEN CA!CANext ELSE UNCHANGED ctxVars
  /\ IF part = "sources" THEN CA!CSNext ELSE UNCHANGED sourceVars
  /\ IF part = "attachment" THEN SA!SANext ELSE UNCHANGED saVars
  /\ IF part = "scopes" THEN TSC!TSCNext ELSE UNCHANGED scopeVars
  /\ IF part = "handlers" THEN LS!LSNext ELSE UNCHANGED stageVars
  /\ IF part = "audit trail" THEN AT!ATNext ELSE UNCHANGED trailVars
  /\ IF part = "session states" THEN SS!SSNext ELSE UNCHANGED stateVars
  /\ IF part = "file tools" THEN FT!FTNext ELSE UNCHANGED toolVars

MCSpec == MCInit /\ [][MCNext]_allVars

-----------------------------------------------------------------------------
(***************************************************************************)
(* Every variable of every part has its type.                              *)
(***************************************************************************)
TypesOK ==
  CASE part = "streams" -> PS!PSTypeOK       [] part = "wire" -> PS!SSETypeOK
    [] part = "context" -> CA!CATypeOK       [] part = "sources" -> CA!CSTypeOK
    [] part = "attachment" -> SA!SATypeOK    [] part = "scopes" -> TSC!TSCTypeOK
    [] part = "handlers" -> LS!LSTypeOK      [] part = "audit trail" -> AT!ATTypeOK
    [] part = "session states" -> SS!SSTypeOK
    [] part = "file tools" -> FT!FTTypeOK

(***************************************************************************)
(* Grants and scopes end with what they belong to, a grant that was issued *)
(* again to a stage already cleared with that stage's next clearing        *)
(* (core/sm/grant-token.ts, core/concurrency), and turns start in the      *)
(* order they were asked for.                                              *)
(***************************************************************************)
NothingOutlivesItsScope ==
  /\ part = "attachment" => SA!GrantsExpireWithStage
  /\ part = "scopes" => TSC!AbortReachesBelow /\ TSC!TurnsInOrder

(***************************************************************************)
(* What is streamed, assembled or squeezed is whole: the events of a wire  *)
(* in any chunks, the calls and texts of a response in their order, a      *)
(* request within its window, a compaction as it was reported.             *)
(***************************************************************************)
MessagesAreWhole ==
  /\ part = "wire" => PS!ChunksDoNotMatter /\ PS!DeltasMeet
  /\ part = "streams" => PS!EachCallOnce /\ PS!PartsKeepOrder
  /\ part = "handlers" => LS!ResponseAsStreamed /\ LS!ShownIsRecorded
  /\ part = "context" => CA!AssembledFits /\ CA!ExclusiveSlotsSettled
  /\ part = "sources" => CA!CompactionIsWhatWasReported /\ CA!PromptOfThisTurn

(***************************************************************************)
(* Whatever overlaps or fails: an audit record the logger took is in a     *)
(* log, and one it refused is lost only because its writer was closed or   *)
(* broken under it (extensions/loggers/file); a session goes on only from  *)
(* a snapshot of its own store (core/session-lifecycle); and a file of the *)
(* workspace never holds half a text, unless two edits of one millisecond  *)
(* shared their temporary (tools/edit, tools/write).                       *)
(***************************************************************************)
NothingIsLostOrMixed ==
  /\ part = "audit trail" => AT!RecordsAccounted
  /\ part = "session states" => SS!OwnSnapshotOnly
  /\ part = "file tools" => FT!FilesAreWhole

(***************************************************************************)
(* A step keeps its word: retention removes a rotated file only while      *)
(* newer ones are kept, a session resumes from the snapshot last           *)
(* acknowledged or a later one, the result of a file tool no other call    *)
(* overlapped agrees with the file, and no delta goes before a part that   *)
(* was there.                                                              *)
(***************************************************************************)
StepsKeepTheirWord ==
  /\ AT!RetentionKeepsNewest /\ SS!ResumesFromLastSnapshot /\ FT!ReportsAgree
  /\ PS!PartsOnlyGrow
=============================================================================
