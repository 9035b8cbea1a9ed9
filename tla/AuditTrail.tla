------------------------------- MODULE AuditTrail -------------------------------
(***************************************************************************)
(* The audit trail of a session: the observability bus (core/observability *)
(* /sinks.ts), the in-memory record store, and the bundled file logger     *)
(* (extensions/loggers/file) that cli/runtime/audit-bus.ts registers as a  *)
(* sink of the bus.                                                        *)
(*                                                                         *)
(* The bus does not wait for a sink, so appends overlap, and so do the     *)
(* rotations they start.  A file is a number and its text a sequence of    *)
(* records; a rotated file keeps its number.  Record 0 is what an earlier  *)
(* session left; r + MaxRecords is the SuppressedError that reports record *)
(* r.  Sizes count records.  Each system call may fail.                    *)
(***************************************************************************)
EXTENDS Integers, Sequences, FiniteSets

CONSTANTS MaxRecords,        \* how many records the session emits
          RotateAt,          \* rotateAtBytes, in records
          MaxRotatedFiles,   \* how many rotated files are kept
          MaxNow             \* the last millisecond of the clock

VARIABLES phase,      \* how far the bus's start or close has come
          logger,     \* the file logger: state.writer, 0 for null, and what closes it
          writers,    \* the StreamWriters: file, size, lines to come, closed, broken
          text,       \* the text of each file
          path,       \* the file at the log's path, 0 when there is none
          rotated,    \* the rotated files: time in the name, file
          append,     \* the appendRecord of each record
          now,
          gone        \* history: files retention removed or a rename replaced

trailVars == <<phase, logger, writers, text, path, rotated, append, now, gone>>

Originals == 1 .. MaxRecords
Records   == 0 .. 2 * MaxRecords

NoAppend == [pc |-> "none", w |-> 0, doomed |-> {}]
Finished == [NoAppend EXCEPT !.pc = "done"]

ATInit ==
    /\ phase = "off" /\ logger = [writer |-> 0, closing |-> 0, by |-> "none"]
    /\ writers = <<>> /\ rotated = {} /\ now = 1 /\ gone = {}
    /\ \/ /\ text = <<>> /\ path = 0
          /\ append = [r \in Records |-> NoAppend]
       \/ /\ text = << <<0>> >> /\ path = 1
          /\ append = [r \in Records |-> IF r = 0 THEN Finished ELSE NoAppend]

-----------------------------------------------------------------------------
\* Helpers.

PathFile == IF path = 0 THEN Len(text) + 1 ELSE path
Opened   == IF path = 0 THEN Append(text, <<>>) ELSE text
Writer(f, n) == [file |-> f, size |-> n, lines |-> <<>>, closed |-> FALSE, broken |-> FALSE]

\* Mutant of openWriter: the stream is opened with the flag that truncates.
openTruncating ==
    /\ path' = PathFile /\ text' = [Opened EXCEPT ![PathFile] = <<>>]
    /\ writers' = Append(writers, Writer(PathFile, 0))
    /\ logger' = [logger EXCEPT !.writer = Len(writers) + 1]

\* openWriter creates the file when there is none, and takes its size; the
\* writer becomes state.writer.
openWriter ==
    /\ path' = PathFile /\ text' = Opened
    /\ writers' = Append(writers, Writer(PathFile, Len(Opened[PathFile])))
    /\ logger' = [logger EXCEPT !.writer = Len(writers) + 1]

KeepDisk == UNCHANGED <<text, path, rotated, gone>>
KeepBus  == UNCHANGED <<phase, now>>

At(r, pc)  == append' = [append EXCEPT ![r].pc = pc]
Rejects(r) == At(r, "rejected")

\* appendRecord up to its first await, for a record the bus hands to the sink:
\* activate came before, so there is a writer.
Writable       == ~writers[logger.writer].closed
Started        == IF Writable THEN [NoAppend EXCEPT !.pc = "writing", !.w = logger.writer]
                              ELSE [NoAppend EXCEPT !.pc = "rejected", !.w = logger.writer]
TakesLine(r)   == writers' = IF Writable THEN [writers EXCEPT ![logger.writer].lines = Append(@, r)]
                                         ELSE writers

-----------------------------------------------------------------------------
\* startSessionAuditBus: init checks the path by opening it, activate opens the writer.

init ==
    /\ phase = "off"
    /\ \/ phase' = "failed" /\ UNCHANGED <<text, path>>
       \/ phase' = "inited" /\ path' = PathFile /\ text' = Opened
    /\ UNCHANGED <<logger, writers, rotated, append, now, gone>>

activate ==
    /\ phase = "inited"
    /\ \/ phase' = "failed" /\ UNCHANGED <<logger, text, path, writers>>
       \/ phase' = "on" /\ openWriter
    /\ UNCHANGED <<rotated, append, now, gone>>

\* emit reaches the file logger while it is registered.
emit(r) ==
    /\ phase = "on" /\ append[r].pc = "none"
    /\ \A s \in Originals : s < r => append[s].pc # "none"
    /\ append' = [append EXCEPT ![r] = Started] /\ TakesLine(r)
    /\ KeepBus /\ KeepDisk /\ UNCHANGED logger

-----------------------------------------------------------------------------
\* appendRecord, from await to await.

\* The line is written or refused, and a stream that refused one is destroyed;
\* rotateIfNeeded then gets the writer there is by now.
wrote(r) ==
    /\ append[r].pc = "writing" /\ Head(writers[append[r].w].lines) = r
    /\ LET w == append[r].w  cur == logger.writer
           wrs == [writers EXCEPT ![w].lines = Tail(@), ![w].size = @ + 1] IN
       \/ /\ Rejects(r) /\ UNCHANGED text
          /\ writers' = [writers EXCEPT ![w].lines = Tail(@), ![w].broken = TRUE]
       \/ /\ ~writers[w].broken /\ writers' = wrs
          /\ text' = [text EXCEPT ![writers[w].file] = Append(@, r)]
          /\ IF cur = 0 THEN Rejects(r)
             ELSE append' = [append EXCEPT ![r].w = cur, ![r].pc =
                     IF wrs[cur].size < RotateAt THEN "assigning"
                     ELSE IF wrs[cur].closed THEN "renaming" ELSE "flushing"]
    /\ KeepBus /\ UNCHANGED <<logger, path, rotated, gone>>

\* No rotation is due: state.writer is set to the writer that was looked at.
assigns(r) ==
    /\ append[r].pc = "assigning" /\ At(r, "done")
    /\ logger' = [logger EXCEPT !.writer = append[r].w]
    /\ KeepBus /\ KeepDisk /\ UNCHANGED writers

\* close: the second of two that flush finds no stream any more and is rejected.
flushed(r) ==
    /\ append[r].pc = "flushing"
    /\ LET w == append[r].w IN
       \/ Rejects(r) /\ UNCHANGED writers
       \/ /\ ~writers[w].closed
          /\ At(r, "ending") /\ writers' = [writers EXCEPT ![w].closed = TRUE]
    /\ KeepBus /\ KeepDisk /\ UNCHANGED logger

ended(r) ==
    /\ append[r].pc = "ending" /\ writers[append[r].w].lines = <<>>
    /\ \/ Rejects(r)
       \/ ~writers[append[r].w].broken /\ At(r, "renaming")
    /\ KeepBus /\ KeepDisk /\ UNCHANGED <<logger, writers>>

\* The name holds the time: a rename within the same millisecond replaces.
renames(r) ==
    /\ append[r].pc = "renaming"
    /\ \/ Rejects(r) /\ UNCHANGED <<path, rotated, gone>>
       \/ /\ path # 0 /\ At(r, "listing") /\ path' = 0
          /\ LET same == {x \in rotated : x.at = now} IN
             /\ rotated' = (rotated \ same) \cup {[at |-> now, file |-> path]}
             /\ gone' = gone \cup {x.file : x \in same}
    /\ KeepBus /\ UNCHANGED <<logger, writers, text>>

\* pruneRotatedFiles: the names that sort before the newest ones.
Overflow(rs) == {x \in rs : Cardinality({y \in rs : y.at > x.at}) >= MaxRotatedFiles}

lists(r) ==
    /\ append[r].pc = "listing"
    /\ \/ Rejects(r)
       \/ append' = [append EXCEPT ![r].pc = "pruning",
                                   ![r].doomed = {x.at : x \in Overflow(rotated)}]
    /\ KeepBus /\ KeepDisk /\ UNCHANGED <<logger, writers>>

\* One rm per name that is listed; a file gone already is no error.
prunes(r) ==
    /\ append[r].pc = "pruning"
    /\ IF append[r].doomed = {}
       THEN At(r, "reopening") /\ UNCHANGED <<rotated, gone>>
       ELSE \/ Rejects(r) /\ UNCHANGED <<rotated, gone>>
            \/ LET at == CHOOSE x \in append[r].doomed : \A y \in append[r].doomed : x <= y
                   named == {x \in rotated : x.at = at} IN
               /\ append' = [append EXCEPT ![r].doomed = @ \ {at}]
               /\ rotated' = rotated \ named
               /\ gone' = gone \cup {x.file : x \in named}
    /\ KeepBus /\ UNCHANGED <<logger, writers, text, path>>

reopens(r) ==
    /\ append[r].pc = "reopening"
    /\ \/ Rejects(r) /\ UNCHANGED <<logger, text, path, writers>>
       \/ At(r, "done") /\ openWriter
    /\ UNCHANGED <<rotated, gone>> /\ KeepBus

\* A rejection is broadcast as a SuppressedError to the sinks there still are;
\* the rejection of one is not reported again.
broadcast(r) ==
    /\ append[r].pc = "rejected"
    /\ IF r \notin Originals \/ phase # "on" THEN At(r, "lost") /\ UNCHANGED writers
       ELSE /\ append' = [append EXCEPT ![r].pc = "reported", ![r + MaxRecords] = Started]
            /\ TakesLine(r + MaxRecords)
    /\ KeepBus /\ KeepDisk /\ UNCHANGED logger

-----------------------------------------------------------------------------
\* close: unregister the sink, deactivate, dispose, which deactivates again.

AfterDeactivate(by) == IF by = "deactivate" THEN "disposing" ELSE "closed"

deactivate(by) ==
    LET w == logger.writer IN
    IF w = 0 THEN phase' = AfterDeactivate(by) /\ UNCHANGED logger
    ELSE IF writers[w].closed
    THEN phase' = AfterDeactivate(by) /\ logger' = [logger EXCEPT !.writer = 0]
    ELSE phase' = "closing" /\ logger' = [logger EXCEPT !.closing = w, !.by = by]

close ==
    /\ phase = "on" /\ deactivate("deactivate")
    /\ UNCHANGED <<writers, append, now>> /\ KeepDisk

dispose ==
    /\ phase = "disposing" /\ deactivate("dispose")
    /\ UNCHANGED <<writers, append, now>> /\ KeepDisk

closeFlushed ==
    /\ phase = "closing"
    /\ LET w == logger.closing IN
       \/ phase' = "close failed" /\ UNCHANGED writers
       \/ /\ ~writers[w].closed
          /\ phase' = "ending" /\ writers' = [writers EXCEPT ![w].closed = TRUE]
    /\ UNCHANGED <<logger, append, now>> /\ KeepDisk

closeEnds ==
    /\ phase = "ending" /\ writers[logger.closing].lines = <<>>
    /\ \/ phase' = "close failed" /\ UNCHANGED logger
       \/ /\ ~writers[logger.closing].broken
          /\ phase' = AfterDeactivate(logger.by) /\ logger' = [logger EXCEPT !.writer = 0]
    /\ UNCHANGED <<writers, append, now>> /\ KeepDisk

tick == /\ now < MaxNow /\ now' = now + 1
        /\ UNCHANGED <<phase, logger, writers, append>> /\ KeepDisk

ATNext ==
    \/ init \/ activate \/ close \/ dispose \/ closeFlushed \/ closeEnds \/ tick
    \/ \E r \in Originals : emit(r)
    \/ \E r \in Records :
          \/ wrote(r) \/ assigns(r) \/ flushed(r) \/ ended(r) \/ renames(r)
          \/ lists(r) \/ prunes(r) \/ reopens(r) \/ broadcast(r)

ATSpec == ATInit /\ [][ATNext]_trailVars

-----------------------------------------------------------------------------
\* Properties.

\* The state keeps its types.
ATTypeOK ==
    /\ phase \in {"off", "failed", "inited", "on", "closing", "ending", "disposing",
                  "closed", "close failed"}
    /\ logger.writer \in 0 .. Len(writers) /\ path \in 0 .. Len(text)
    /\ \A w \in 1 .. Len(writers) : writers[w].file \in 1 .. Len(text)
    /\ \A x \in rotated : x.at \in 1 .. MaxNow /\ x.file \in 1 .. Len(text)

Holds(f, r) == \E i \in 1 .. Len(text[f]) : text[f][i] = r

\* In the log, in a rotated file, or in one that retention removed.
Kept(r) == \E f \in 1 .. Len(text) : /\ Holds(f, r)
                                      /\ f \in {path} \cup {x.file : x \in rotated} \cup gone

\* The writer it was given to had been closed, or has lost its stream.
Refused(r) == LET w == append[r].w IN
              w \in 1 .. Len(writers) /\ (writers[w].closed \/ writers[w].broken)

\* A record the logger took is kept, and one whose append was rejected, a
\* report included, is kept too unless the writer it was given to could not
\* take it any more: overlapping rotations close writers under each other,
\* rename the new file too and fail half way, and a session may go on with the
\* log of an earlier one, but no line that reached an open stream disappears
\* (appendRecord, rotateIfNeeded, StreamWriter).  It does not say that every
\* record is kept or reported: during a rotation state.writer is closed, and
\* stays so after one that failed, and then both a record and the
\* SuppressedError that would report it are refused.
RecordsAccounted ==
    \A r \in Records :
       /\ append[r].pc = "done" => Kept(r)
       /\ append[r].pc \in {"rejected", "reported", "lost"} => Kept(r) \/ Refused(r)

\* Retention removes a rotated file only while maxRotatedFiles newer ones are
\* there, whatever rotations prune side by side (pruneRotatedFiles).
RetentionKeepsNewest ==
    [][\A x \in rotated \ rotated' :
          \/ \E y \in rotated' : y.at = x.at                        \* renamed over
          \/ Cardinality({y \in rotated : y.at > x.at}) >= MaxRotatedFiles]_rotated

=============================================================================
