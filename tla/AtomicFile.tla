----------------------------- MODULE AtomicFile -----------------------------
(***************************************************************************)
(* The write-to-temporary, fsync, rename protocol by which the program     *)
(* keeps its approval cache, session manifests and settings               *)
(* (core/security/approval/persistence.ts atomicWrite, the same code in    *)
(* cli/runtime/storage.ts atomicWriteJson and in the filesystem session    *)
(* store's writeCrashSafe).  The temporary's name is fixed, `${path}.tmp`, *)
(* so overlapping writers share it: files are modelled as inodes, which    *)
(* two handles, or a handle and a published name, may refer to at once.    *)
(***************************************************************************)
EXTENDS Naturals, FiniteSets

CONSTANTS
  Writers,       \* handles of write calls; a handle is reused when its call ended
  Data,          \* what may be written
  Size,          \* Data -> Nat: length of the serialised text
  Inodes,        \* enough that one is free whenever a temporary is created
  Nothing,       \* no file, no data, no inode
  Empty, Torn,   \* contents that do not parse: no bytes, or a mixture
  MaxInFlight    \* calls under way at once: 1 when every caller awaits the last

ASSUME AtomicFileAssumption ==
  /\ Size \in [Data -> Nat]
  /\ IsFiniteSet(Writers)
  /\ Nothing \notin Data \cup Inodes \cup {Empty, Torn}
  /\ Empty \notin Data /\ Torn \notin Data /\ Empty # Torn
  /\ MaxInFlight \in Nat \ {0}

VARIABLES
  content,   \* inode -> bytes
  dirty,     \* inodes with bytes that were not synced
  tmp,       \* inode the temporary's name refers to
  file,      \* inode the file's name refers to
  pc,        \* writer -> the await its call stands at
  data,      \* writer -> what it writes
  handle     \* writer -> inode its open handle refers to

fileVars == <<content, dirty, tmp, file, pc, data, handle>>

Pcs == {"idle", "begun", "opened", "written", "synced"}
Contents == Data \cup {Empty, Torn}

InFlight == {w \in Writers : pc[w] # "idle"}

FileInit ==
  /\ content = [i \in Inodes |-> Empty] /\ dirty = {}
  /\ tmp = Nothing /\ file = Nothing
  /\ pc = [w \in Writers |-> "idle"]
  /\ data = [w \in Writers |-> Nothing]
  /\ handle = [w \in Writers |-> Nothing]

(***************************************************************************)
(* What a reader of the file finds.                                        *)
(***************************************************************************)
Published == IF file = Nothing THEN Nothing ELSE content[file]

(***************************************************************************)
(* The call starts: what it writes is serialised now, then mkdir awaits.   *)
(***************************************************************************)
begin(w, d) ==
  /\ pc[w] = "idle" /\ Cardinality(InFlight) < MaxInFlight
  /\ pc' = [pc EXCEPT ![w] = "begun"]
  /\ data' = [data EXCEPT ![w] = d]
  /\ UNCHANGED <<content, dirty, tmp, file, handle>>

Free(i) == i \notin {tmp, file} /\ \A w \in Writers : handle[w] # i

(***************************************************************************)
(* open(tmpPath, "w") creates the temporary or truncates the one there is. *)
(***************************************************************************)
openTmp(w) ==
  /\ pc[w] = "begun"
  /\ pc' = [pc EXCEPT ![w] = "opened"]
  /\ \E i \in Inodes :
       /\ IF tmp = Nothing THEN Free(i) ELSE i = tmp
       /\ tmp' = i
       /\ handle' = [handle EXCEPT ![w] = i]
       /\ content' = [content EXCEPT ![i] = Empty]
       /\ dirty' = dirty \cup {i}
  /\ UNCHANGED <<file, data>>

(***************************************************************************)
(* What writing d from offset 0 leaves of c: bytes of c beyond d stay.     *)
(***************************************************************************)
Overwrite(c, d) ==
  CASE c = Empty  -> {d}
    [] c = Torn   -> {d, Torn}
    [] OTHER      -> IF Size[c] <= Size[d] THEN {d} ELSE {Torn}

writeFile(w) ==
  /\ pc[w] = "opened"
  /\ pc' = [pc EXCEPT ![w] = "written"]
  /\ \E c \in Overwrite(content[handle[w]], data[w]) :
       content' = [content EXCEPT ![handle[w]] = c]
  /\ dirty' = dirty \cup {handle[w]}
  /\ UNCHANGED <<tmp, file, data, handle>>

sync(w) ==
  /\ pc[w] = "written"
  /\ pc' = [pc EXCEPT ![w] = "synced"]
  /\ dirty' = dirty \ {handle[w]}
  /\ handle' = [handle EXCEPT ![w] = Nothing]
  /\ UNCHANGED <<content, tmp, file, data>>

end(w) ==
  /\ pc' = [pc EXCEPT ![w] = "idle"]
  /\ data' = [data EXCEPT ![w] = Nothing]
  /\ handle' = [handle EXCEPT ![w] = Nothing]

(***************************************************************************)
(* rename publishes whatever the temporary's name refers to by now, and    *)
(* the call succeeds.                                                      *)
(***************************************************************************)
rename(w) ==
  /\ pc[w] = "synced" /\ tmp # Nothing
  /\ file' = tmp /\ tmp' = Nothing
  /\ end(w)
  /\ UNCHANGED <<content, dirty>>

(***************************************************************************)
(* Another writer renamed the temporary away: ENOENT.                      *)
(***************************************************************************)
renameMissing(w) ==
  /\ pc[w] = "synced" /\ tmp = Nothing
  /\ end(w)
  /\ UNCHANGED <<content, dirty, tmp, file>>

(* Mutant: a failed write is renamed into place all the same. *)
ioFailsAndPublishes(w) ==
  /\ pc[w] \in {"begun", "opened", "written", "synced"}
  /\ IF pc[w] = "opened"
     THEN \E c \in Contents : content' = [content EXCEPT ![handle[w]] = c]
     ELSE UNCHANGED content
  /\ file' = (IF pc[w] = "opened" THEN handle[w] ELSE file)
  /\ tmp' = (IF pc[w] = "opened" THEN Nothing ELSE tmp)
  /\ end(w)
  /\ UNCHANGED dirty

(***************************************************************************)
(* mkdir, open, write, sync or rename fails: the handle is closed, the     *)
(* temporary stays, a failing write may have written a part.               *)
(***************************************************************************)
ioFails(w) ==
  /\ pc[w] \in {"begun", "opened", "written", "synced"}
  /\ IF pc[w] = "opened"
     THEN \E c \in {content[handle[w]], Torn} :
            content' = [content EXCEPT ![handle[w]] = c]
     ELSE UNCHANGED content
  /\ end(w)
  /\ UNCHANGED <<dirty, tmp, file>>

(***************************************************************************)
(* The process, or the machine, stops: calls are forgotten, bytes that     *)
(* were not synced may be lost.  Names of files are assumed to survive.    *)
(***************************************************************************)
crashFile ==
  /\ \E L \in SUBSET dirty :
       content' = [i \in Inodes |-> IF i \in L THEN Torn ELSE content[i]]
  /\ dirty' = {}
  /\ pc' = [w \in Writers |-> "idle"]
  /\ data' = [w \in Writers |-> Nothing]
  /\ handle' = [w \in Writers |-> Nothing]
  /\ UNCHANGED <<tmp, file>>

FileStep(w) ==
  \/ openTmp(w) \/ writeFile(w) \/ sync(w)
  \/ rename(w) \/ renameMissing(w) \/ ioFails(w)

FileNext ==
  \/ \E w \in Writers : (\E d \in Data : begin(w, d)) \/ FileStep(w)
  \/ crashFile

FileSpec == FileInit /\ [][FileNext]_fileVars

----------------------------------------------------------------------------
(***************************************************************************)
(* Every variable has its type.                                            *)
(***************************************************************************)
FileTypeOK ==
  /\ content \in [Inodes -> Contents]
  /\ dirty \in SUBSET Inodes
  /\ tmp \in Inodes \cup {Nothing} /\ file \in Inodes \cup {Nothing}
  /\ pc \in [Writers -> Pcs]
  /\ data \in [Writers -> Data \cup {Nothing}]
  /\ handle \in [Writers -> Inodes \cup {Nothing}]

(***************************************************************************)
(* A reader never finds a file that does not parse, and what it finds is   *)
(* on disk.  Claimed by the comment above atomicWrite ("Atomically write   *)
(* data to filePath"); it needs that calls do not overlap.                 *)
(***************************************************************************)
PublishedComplete ==
  file # Nothing => content[file] \in Data /\ file \notin dirty

(***************************************************************************)
(* The protocol implements an atomic file.                                 *)
(***************************************************************************)
Abstract == INSTANCE DurableFile WITH value <- Published, writing <- data

(***************************************************************************)
(* Refinement: every write takes effect at its rename or never.            *)
(***************************************************************************)
AbstractSpec == Abstract!Spec
============================================================================
