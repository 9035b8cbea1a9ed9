---------------------- MODULE ApprovalPersistenceProofs ----------------------
(***************************************************************************)
(* Proofs about the approval cache and the file below it, for any number   *)
(* of writers, keys and inodes.  When every caller awaits the call before  *)
(* it (MaxInFlight = 1), the file a reader finds is complete and on disk,  *)
(* and the protocol implements DurableFile; this part does not depend on   *)
(* what is written.  The cache keeps its promises as long as no call has   *)
(* overlapped another, and its types and the privacy of session approvals  *)
(* always.                                                                 *)
(***************************************************************************)
EXTENDS ApprovalPersistence, FiniteSetTheorems, TLAPS

(***************************************************************************)
(* What the writer under way has achieved at each await.                   *)
(***************************************************************************)
WriterInv ==
  \A w \in Writers :
    /\ pc[w] = "idle" <=> data[w] = Nothing
    /\ handle[w] # Nothing <=> pc[w] \in {"opened", "written"}
    /\ handle[w] # Nothing => handle[w] = tmp
    /\ pc[w] \in {"opened", "written", "synced"} => tmp # Nothing
    /\ pc[w] = "opened" => content[tmp] = Empty
    /\ pc[w] \in {"written", "synced"} => content[tmp] = data[w]
    /\ pc[w] = "synced" => tmp \notin dirty

OneWriter == \A v, w \in Writers : pc[v] # "idle" /\ pc[w] # "idle" => v = w

FileInv ==
  /\ OneWriter /\ WriterInv
  /\ PublishedComplete
  /\ file # Nothing => file # tmp

FileIInv == FileTypeOK /\ FileInv

(***************************************************************************)
(* A call begins only when none is under way.                              *)
(***************************************************************************)
LEMMA BeginsAlone ==
  ASSUME MaxInFlight = 1, NEW w \in Writers, NEW d \in Data, begin(w, d)
  PROVE  InFlight = {}
<1>1. IsFiniteSet(InFlight)
  BY AtomicFileAssumption, FS_Subset DEF InFlight
<1>2. Cardinality(InFlight) \in Nat /\ Cardinality(InFlight) < 1
  BY <1>1, FS_CardinalityType DEF begin
<1> QED
  BY <1>1, <1>2, FS_EmptySet

(***************************************************************************)
(* Every await of a call preserves the invariant of the file.              *)
(***************************************************************************)
LEMMA FileStepKeeps ==
  ASSUME FileIInv, NEW w \in Writers, FileStep(w) PROVE FileIInv'
<1> USE AtomicFileAssumption DEF FileIInv, FileInv, FileTypeOK, Contents, Pcs
<1>1. ASSUME openTmp(w) PROVE FileIInv'
  <2>1. PICK i \in Inodes :
          /\ IF tmp = Nothing THEN Free(i) ELSE i = tmp
          /\ tmp' = i
          /\ handle' = [handle EXCEPT ![w] = i]
          /\ content' = [content EXCEPT ![i] = Empty]
          /\ dirty' = dirty \cup {i}
    BY <1>1 DEF openTmp
  <2>2. FileTypeOK'
    BY <1>1, <2>1 DEF openTmp
  <2>3. i # file
    BY <2>1 DEF Free
  <2>4. OneWriter' /\ WriterInv'
    BY <1>1, <2>1 DEF openTmp, OneWriter, WriterInv
  <2> QED
    BY <1>1, <2>1, <2>2, <2>3, <2>4 DEF openTmp, PublishedComplete
<1>2. ASSUME writeFile(w) PROVE FileIInv'
  <2>1. handle[w] = tmp /\ tmp \in Inodes /\ tmp # file
        /\ content[tmp] = Empty /\ data[w] \in Data
    BY <1>2 DEF writeFile, WriterInv
  <2>2. content' = [content EXCEPT ![tmp] = data[w]] /\ dirty' = dirty \cup {tmp}
    BY <1>2, <2>1 DEF writeFile, Overwrite
  <2>3. FileTypeOK'
    BY <1>2, <2>1, <2>2 DEF writeFile
  <2>4. OneWriter' /\ WriterInv'
    BY <1>2, <2>1, <2>2 DEF writeFile, OneWriter, WriterInv
  <2> QED
    BY <1>2, <2>1, <2>2, <2>3, <2>4 DEF writeFile, PublishedComplete
<1>3. ASSUME sync(w) PROVE FileIInv'
  <2>1. FileTypeOK'
    BY <1>3 DEF sync
  <2>2. OneWriter' /\ WriterInv'
    BY <1>3 DEF sync, OneWriter, WriterInv
  <2> QED
    BY <1>3, <2>1, <2>2 DEF sync, PublishedComplete
<1>4. ASSUME rename(w) PROVE FileIInv'
  <2>1. tmp \in Inodes /\ content[tmp] = data[w] /\ data[w] \in Data /\ tmp \notin dirty
    BY <1>4 DEF rename, WriterInv
  <2>2. \A v \in Writers : v # w => pc[v] = "idle"
    BY <1>4 DEF rename, OneWriter
  <2>3. FileTypeOK'
    BY <1>4 DEF rename, end
  <2>4. OneWriter' /\ WriterInv'
    BY <1>4, <2>2 DEF rename, end, OneWriter, WriterInv
  <2> QED
    BY <1>4, <2>1, <2>3, <2>4 DEF rename, end, PublishedComplete
<1>5. ASSUME renameMissing(w) PROVE FileIInv'
  BY <1>5 DEF renameMissing, WriterInv
<1>6. ASSUME ioFails(w) PROVE FileIInv'
  <2>1. \A v \in Writers : v # w => pc[v] = "idle"
    BY <1>6 DEF ioFails, OneWriter
  <2>2. \/ content' = content
        \/ tmp # file /\ content' = [content EXCEPT ![tmp] = Torn]
    BY <1>6 DEF ioFails, WriterInv
  <2>3. FileTypeOK'
    BY <1>6, <2>2 DEF ioFails, end
  <2>4. OneWriter' /\ WriterInv'
    BY <1>6, <2>1 DEF ioFails, end, OneWriter, WriterInv
  <2> QED
    BY <1>6, <2>2, <2>3, <2>4 DEF ioFails, end, PublishedComplete
<1> QED
  BY <1>1, <1>2, <1>3, <1>4, <1>5, <1>6 DEF FileStep

(***************************************************************************)
(* So does a call that begins when none is under way.                      *)
(***************************************************************************)
LEMMA BeginKeeps ==
  ASSUME FileIInv, NEW w \in Writers, NEW d \in Data, begin(w, d), InFlight = {} PROVE FileIInv'
<1> USE AtomicFileAssumption DEF FileIInv, FileInv, FileTypeOK, Contents, Pcs
<1>1. \A v \in Writers : pc[v] = "idle"
  BY DEF InFlight
<1>2. FileTypeOK'
  BY DEF begin
<1>3. OneWriter' /\ WriterInv'
  BY <1>1 DEF begin, OneWriter, WriterInv
<1> QED
  BY <1>2, <1>3 DEF begin, PublishedComplete

(***************************************************************************)
(* And a crash, which may tear what was not synced.                        *)
(***************************************************************************)
LEMMA CrashKeeps == ASSUME FileIInv, crashFile PROVE FileIInv'
<1> USE AtomicFileAssumption DEF FileIInv, FileInv, FileTypeOK, Contents, Pcs
<1>1. FileTypeOK'
  BY DEF crashFile
<1>2. OneWriter' /\ WriterInv'
  BY DEF crashFile, OneWriter, WriterInv
<1> QED
  BY <1>1, <1>2 DEF crashFile, PublishedComplete

LEMMA FileInitInv == FileInit => FileIInv
  BY AtomicFileAssumption
  DEF FileInit, FileIInv, FileInv, FileTypeOK, OneWriter, WriterInv, PublishedComplete, Contents, Pcs

LEMMA FileStutterKeeps == FileIInv /\ UNCHANGED fileVars => FileIInv'
  BY DEF FileIInv, FileInv, FileTypeOK, fileVars, OneWriter, WriterInv, PublishedComplete

(***************************************************************************)
(* The invariant of the file holds in every state without overlap.         *)
(***************************************************************************)
LEMMA Invariance == ASSUME MaxInFlight = 1 PROVE FileSpec => []FileIInv
<1>1. FileIInv /\ [FileNext]_fileVars => FileIInv'
  BY BeginsAlone, BeginKeeps, FileStepKeeps, CrashKeeps, FileStutterKeeps DEF FileNext
<1> QED
  BY <1>1, FileInitInv, PTL DEF FileSpec

(***************************************************************************)
(* Without overlapping calls a reader never finds a torn or unsynced file, *)
(* wherever a failure or a crash struck (atomicWrite).                     *)
(***************************************************************************)
THEOREM FileIsComplete == ASSUME MaxInFlight = 1 PROVE FileSpec => []PublishedComplete
<1>1. FileIInv => PublishedComplete
  BY DEF FileIInv, FileInv
<1> QED
  BY <1>1, Invariance, PTL

(***************************************************************************)
(* Without overlapping calls the temporary-and-rename protocol implements  *)
(* the atomic file of DurableFile.                                         *)
(***************************************************************************)
THEOREM ImplementsDurableFile == ASSUME MaxInFlight = 1 PROVE FileSpec => AbstractSpec
<1>1. FileInit => Abstract!Init
  BY DEF FileInit, Abstract!Init, Published
<1>2. FileIInv /\ [FileNext]_fileVars => [Abstract!Next]_<<Published, data>>
  <2> SUFFICES ASSUME FileIInv, [FileNext]_fileVars
               PROVE  Abstract!Next \/ UNCHANGED <<Published, data>>
    BY DEF FileIInv, FileInv
  <2> USE AtomicFileAssumption DEF FileIInv, FileInv, FileTypeOK, Contents
  <2>1. ASSUME NEW w \in Writers, NEW d \in Data, begin(w, d) PROVE Abstract!Begin(w, d)
    BY <2>1 DEF begin, Abstract!Begin, WriterInv, Published
  <2>2. ASSUME NEW w \in Writers, openTmp(w) PROVE UNCHANGED <<Published, data>>
    <3>1. PICK i \in Inodes : i # file /\ content' = [content EXCEPT ![i] = Empty]
      BY <2>2 DEF openTmp, Free
    <3> QED
      BY <2>2, <3>1 DEF openTmp, Published
  <2>3. ASSUME NEW w \in Writers, writeFile(w) PROVE UNCHANGED <<Published, data>>
    <3>1. handle[w] \in Inodes /\ handle[w] # file
      BY <2>3 DEF writeFile, WriterInv
    <3>2. PICK c : content' = [content EXCEPT ![handle[w]] = c]
      BY <2>3 DEF writeFile
    <3> QED
      BY <2>3, <3>1, <3>2 DEF writeFile, Published
  <2>4. ASSUME NEW w \in Writers, sync(w) PROVE UNCHANGED <<Published, data>>
    BY <2>4 DEF sync, Published
  <2>5. ASSUME NEW w \in Writers, rename(w) PROVE Abstract!Publish(w)
    <3>1. data[w] # Nothing /\ content[tmp] = data[w]
      BY <2>5 DEF rename, WriterInv
    <3> QED
      BY <2>5, <3>1 DEF rename, end, Abstract!Publish, Published
  <2>6. ASSUME NEW w \in Writers, renameMissing(w) PROVE FALSE
    BY <2>6 DEF renameMissing, WriterInv
  <2>7. ASSUME NEW w \in Writers, ioFails(w) PROVE Abstract!Abandon
    <3>1. UNCHANGED Published
      BY <2>7 DEF ioFails, WriterInv, Published
    <3>2. data' = [v \in Writers |-> IF v \in {w} THEN Nothing ELSE data[v]]
      BY <2>7 DEF ioFails, end
    <3>3. \E W \in SUBSET Writers :
            data' = [v \in Writers |-> IF v \in W THEN Nothing ELSE data[v]]
      <4> {w} \in SUBSET Writers
        OBVIOUS
      <4> HIDE DEF FileIInv, FileInv, FileTypeOK
      <4> QED
        BY <3>2, Zenon
    <3> QED
      BY <3>1, <3>3 DEF Abstract!Abandon
  <2>8. ASSUME crashFile PROVE Abstract!Abandon
    <3>1. UNCHANGED Published
      BY <2>8 DEF crashFile, PublishedComplete, Published
    <3>2. data' = [v \in Writers |-> IF v \in Writers THEN Nothing ELSE data[v]]
      BY <2>8 DEF crashFile
    <3> QED
      BY <3>1, <3>2 DEF Abstract!Abandon
  <2>9. ASSUME UNCHANGED fileVars PROVE UNCHANGED <<Published, data>>
    BY <2>9 DEF fileVars, Published
  <2> QED
    BY <2>1, <2>2, <2>3, <2>4, <2>5, <2>6, <2>7, <2>8, <2>9
    DEF FileNext, FileStep, Abstract!Next
<1> QED
  BY <1>1, <1>2, Invariance, PTL DEF FileSpec, AbstractSpec, Abstract!Spec

-----------------------------------------------------------------------------
(***************************************************************************)
(* The cache.  D is what is in memory, save what a session approval has    *)
(* shadowed since.                                                         *)
(***************************************************************************)
Covers(D) ==
  /\ Projects(store) \subseteq D.approved
  /\ D.approved \ Projects(store) \subseteq {k \in Keys : store[k] = "session"}

\* While a call is under way its data covers the memory, else the last document does.
Flushed ==
  session = "open" =>
    IF InFlight = {} THEN ~failed => Covers(onDisk) ELSE \A w \in InFlight : Covers(data[w])

\* A call carries a document and, once it has opened the temporary, a handle.
CallsKnown ==
  \A w \in Writers : /\ pc[w] # "idle" => data[w] \in Data
                     /\ pc[w] \in {"opened", "written"} => handle[w] \in Inodes

\* What is true even after calls have overlapped.
AnyInv ==
  /\ TypeOK /\ CallsKnown
  /\ \A w \in Writers : data[w] \in Data => data[w].approved \subseteq granted
  /\ Projects(store) \subseteq granted
  /\ SessionScopeStaysInMemory
  /\ session # "open" => InFlight = {}

\* What is true as long as none has.
AloneInv == FileInv /\ AlwaysOpens /\ LastFlushReloads /\ Flushed

IInv == AnyInv /\ (~overlapped => AloneInv)

(***************************************************************************)
(* A document determines its keys, is none of the contents that do not     *)
(* parse, and is among the data.                                           *)
(***************************************************************************)
LEMMA DocumentFacts ==
  /\ Data = Documents
  /\ \A S \in SUBSET Keys : Document(S) \in Data /\ Document(S).approved = S
  /\ \A D \in Data : D.approved \in SUBSET Keys
  /\ Nothing \notin Data /\ Empty \notin Data /\ Torn \notin Data
  BY ApprovalAssumption, AtomicFileAssumption DEF Documents, Document

LEMMA CacheInit == Init => IInv
<1> SUFFICES ASSUME Init PROVE IInv
  OBVIOUS
<1>1. FileIInv
  BY FileInitInv DEF Init
<1>2. InFlight = {} /\ Projects(store) = {}
  BY DEF Init, FileInit, InFlight, Projects
<1>3. TypeOK
  BY <1>1, DocumentFacts DEF Init, TypeOK, FileIInv, Scopes
<1>4. AnyInv
  BY <1>2, <1>3, DocumentFacts, AtomicFileAssumption
  DEF Init, FileInit, AnyInv, CallsKnown, SessionScopeStaysInMemory
<1>5. LastFlushReloads /\ AlwaysOpens /\ Flushed
  BY DEF Init, FileInit, LastFlushReloads, AlwaysOpens, Flushed, Published
<1> QED
  BY <1>1, <1>4, <1>5 DEF IInv, AloneInv, FileIInv

(***************************************************************************)
(* Types outlive overlaps: a call always carries a document.               *)
(***************************************************************************)
LEMMA FileTypesKept ==
  ASSUME FileTypeOK, CallsKnown,
         \/ \E w \in Writers : FileStep(w) \/ \E d \in Data : begin(w, d)
         \/ crashFile
  PROVE  FileTypeOK' /\ CallsKnown'
<1> USE AtomicFileAssumption DEF FileTypeOK, CallsKnown, Contents, Pcs
<1>1. CASE \E w \in Writers : openTmp(w)
  BY <1>1 DEF openTmp
<1>2. ASSUME NEW w \in Writers, writeFile(w) PROVE FileTypeOK' /\ CallsKnown'
  <2>1. PICK c \in Overwrite(content[handle[w]], data[w]) :
          content' = [content EXCEPT ![handle[w]] = c]
    BY <1>2 DEF writeFile
  <2>2. c \in Contents
    BY <1>2, <2>1 DEF writeFile, Overwrite
  <2> QED
    BY <1>2, <2>1, <2>2 DEF writeFile
<1>3. CASE \E w \in Writers : sync(w)
  BY <1>3 DEF sync
<1>4. CASE \E w \in Writers : rename(w) \/ renameMissing(w)
  BY <1>4 DEF rename, renameMissing, end
<1>5. CASE \E w \in Writers : ioFails(w)
  BY <1>5 DEF ioFails, end
<1>6. CASE \E w \in Writers, d \in Data : begin(w, d)
  BY <1>6 DEF begin
<1>7. CASE crashFile
  BY <1>7 DEF crashFile
<1> QED
  BY <1>1, <1>2, <1>3, <1>4, <1>5, <1>6, <1>7 DEF FileStep

(***************************************************************************)
(* add and clear: what begins is the document of the map as it is now.     *)
(***************************************************************************)
LEMMA AddKeeps ==
  ASSUME IInv, NEW w \in Writers, NEW k \in Keys, addProject(w, k) PROVE IInv'
<1> USE DocumentFacts, AtomicFileAssumption
<1> DEFINE S == Projects(store')
<1>1. begin(w, Document(S)) /\ S = Projects(store)' /\ S \in SUBSET Keys
  BY DEF addProject, flushProjectEntries, Projects
<1>2. S \subseteq Projects(store) \cup {k}
  BY DEF addProject, Projects, IInv, AnyInv, TypeOK
<1>3. AnyInv'
  <2>1. FileTypeOK' /\ CallsKnown'
    BY <1>1, FileTypesKept DEF IInv, AnyInv, TypeOK
  <2>2. TypeOK'
    BY <2>1 DEF addProject, IInv, AnyInv, TypeOK, Scopes
  <2>3. \A v \in Writers : data'[v] \in Data => data'[v].approved \subseteq granted'
    BY <1>1, <1>2 DEF addProject, begin, IInv, AnyInv, TypeOK, FileTypeOK
  <2>4. SessionScopeStaysInMemory'
    BY <1>1 DEF addProject, begin, IInv, AnyInv, SessionScopeStaysInMemory
  <2> QED
    BY <1>1, <1>2, <2>1, <2>2, <2>3, <2>4 DEF addProject, IInv, AnyInv
<1>4. ASSUME ~overlapped' PROVE AloneInv'
  <2>1. ~overlapped /\ InFlight = {}
    BY <1>4 DEF addProject
  <2>2. FileInv'
    BY <1>1, <2>1, BeginKeeps DEF IInv, AnyInv, TypeOK, AloneInv, FileIInv
  <2>3. LastFlushReloads' /\ AlwaysOpens'
    BY <1>1, <2>1 DEF addProject, begin, IInv, AloneInv, LastFlushReloads, AlwaysOpens, Published
  <2>4. InFlight' = {w} /\ data'[w] = Document(S)
    BY <1>1, <2>1 DEF begin, InFlight, IInv, AnyInv, TypeOK, FileTypeOK
  <2>5. Flushed'
    BY <1>1, <2>4 DEF Flushed, Covers
  <2> QED
    BY <2>2, <2>3, <2>5 DEF AloneInv
<1> QED
  BY <1>3, <1>4 DEF IInv

LEMMA ClearKeeps ==
  ASSUME IInv, NEW w \in Writers, clear(w) PROVE IInv'
<1> USE DocumentFacts, AtomicFileAssumption
<1>1. begin(w, Document({})) /\ Projects(store)' = {}
  BY DEF clear, Projects
<1>2. AnyInv'
  <2>1. FileTypeOK' /\ CallsKnown'
    BY <1>1, FileTypesKept DEF IInv, AnyInv, TypeOK
  <2>2. TypeOK'
    BY <2>1 DEF clear, IInv, AnyInv, TypeOK, Scopes
  <2>3. \A v \in Writers : data'[v] \in Data => data'[v].approved \subseteq granted'
    BY <1>1 DEF clear, begin, IInv, AnyInv, TypeOK, FileTypeOK
  <2>4. SessionScopeStaysInMemory'
    BY <1>1 DEF clear, begin, IInv, AnyInv, SessionScopeStaysInMemory
  <2> QED
    BY <1>1, <2>1, <2>2, <2>3, <2>4 DEF clear, IInv, AnyInv
<1>3. ASSUME ~overlapped' PROVE AloneInv'
  <2>1. ~overlapped /\ InFlight = {}
    BY <1>3 DEF clear
  <2>2. FileInv'
    BY <1>1, <2>1, BeginKeeps DEF IInv, AnyInv, TypeOK, AloneInv, FileIInv
  <2>3. LastFlushReloads' /\ AlwaysOpens'
    BY <1>1, <2>1 DEF clear, begin, IInv, AloneInv, LastFlushReloads, AlwaysOpens, Published
  <2>4. InFlight' = {w} /\ data'[w] = Document({})
    BY <1>1, <2>1 DEF begin, InFlight, IInv, AnyInv, TypeOK, FileTypeOK
  <2>5. Flushed'
    BY <1>1, <2>4 DEF Flushed, Covers
  <2> QED
    BY <2>2, <2>3, <2>5 DEF AloneInv
<1> QED
  BY <1>2, <1>3 DEF IInv

(***************************************************************************)
(* Opening the cache: the map becomes what the file holds.                 *)
(***************************************************************************)
LEMMA OpenKeeps == ASSUME IInv, openApprovalCache PROVE IInv'
<1> USE DocumentFacts, AtomicFileAssumption
<1>1. UNCHANGED <<fileVars, onDisk, failed, granted, overlapped>> /\ session = "closed"
  BY DEF openApprovalCache
<1>2. FileTypeOK' /\ InFlight = {} /\ InFlight' = {}
  BY <1>1 DEF fileVars, IInv, AnyInv, CallsKnown, TypeOK, FileTypeOK, InFlight
<1>3. Projects(store)' \subseteq granted
  <2>1. CASE Published \in Documents
    <3>1. file \in Inodes /\ content[file] = Published
      BY <2>1 DEF Published, IInv, AnyInv, TypeOK, FileTypeOK
    <3>2. Published.approved \subseteq granted
      BY <2>1, <3>1 DEF IInv, AnyInv, SessionScopeStaysInMemory
    <3> QED
      BY <2>1, <3>2 DEF openApprovalCache, Projects
  <2>2. CASE Published = Nothing
    BY <2>2 DEF openApprovalCache, Projects
  <2>3. CASE Published \notin Documents \cup {Nothing}
    BY <2>3 DEF openApprovalCache, Projects, IInv, AnyInv
  <2> QED
    BY <2>1, <2>2, <2>3
<1>4. TypeOK'
  BY <1>1, <1>2 DEF openApprovalCache, IInv, AnyInv, TypeOK, Scopes
<1>5. AnyInv'
  BY <1>1, <1>2, <1>3, <1>4 DEF fileVars, IInv, AnyInv, CallsKnown, SessionScopeStaysInMemory
<1>6. ASSUME ~overlapped' PROVE AloneInv'
  <2>1. AloneInv
    BY <1>1, <1>6 DEF IInv
  <2>2. FileInv' /\ LastFlushReloads'
    BY <1>1, <1>2, <2>1, FileStutterKeeps
    DEF AloneInv, LastFlushReloads, Published, fileVars, IInv, AnyInv, TypeOK, FileIInv
  <2>3. Published \in Documents \cup {Nothing}
    BY <2>1 DEF AloneInv, FileInv, PublishedComplete, Published
  <2>4. session' = "open" /\ Projects(store)' = onDisk.approved
    <3>1. Published = onDisk \/ (Published = Nothing /\ onDisk.approved = {})
      BY <1>1, <1>6, <2>1 DEF AloneInv, LastFlushReloads
    <3>2. onDisk \in Documents
      BY DEF IInv, AnyInv, TypeOK
    <3>3. /\ session' = "open"
          /\ store' = [k \in Keys |->
               IF Published # Nothing /\ k \in Published.approved THEN "project" ELSE "none"]
      BY <2>3 DEF openApprovalCache
    <3> QED
      BY <3>1, <3>2, <3>3 DEF Projects
  <2>5. Flushed' /\ AlwaysOpens'
    BY <1>1, <1>2, <2>4 DEF Flushed, Covers, AlwaysOpens
  <2> QED
    BY <2>2, <2>5 DEF AloneInv
<1> QED
  BY <1>5, <1>6 DEF IInv

LEMMA AddSessionKeeps == ASSUME IInv, NEW k \in Keys, addSession(k) PROVE IInv'
<1> USE DocumentFacts
<1>1. UNCHANGED <<fileVars, session, onDisk, failed, granted, overlapped>>
  BY DEF addSession
<1>2. /\ Projects(store)' = Projects(store) \ {k}
      /\ store'[k] = "session" /\ \A j \in Keys \ {k} : store'[j] = store[j]
  BY DEF addSession, Projects, IInv, AnyInv, TypeOK
<1>3. AnyInv'
  <2>1. TypeOK'
    BY <1>1 DEF addSession, fileVars, IInv, AnyInv, TypeOK, FileTypeOK, Scopes
  <2> QED
    BY <1>1, <1>2, <2>1 DEF fileVars, IInv, AnyInv, CallsKnown, SessionScopeStaysInMemory, InFlight
<1>4. ASSUME ~overlapped' PROVE AloneInv'
  <2>1. AloneInv
    BY <1>1, <1>4 DEF IInv
  <2>2. FileInv' /\ LastFlushReloads' /\ AlwaysOpens'
    BY <1>1, <2>1, FileStutterKeeps
    DEF AloneInv, LastFlushReloads, AlwaysOpens, Published, fileVars, IInv, AnyInv, TypeOK, FileIInv
  <2>3. \A D : Covers(D) => Covers(D)'
    BY <1>2 DEF Covers, Projects
  <2>4. Flushed'
    BY <1>1, <2>1, <2>3 DEF AloneInv, Flushed, fileVars, InFlight, Covers
  <2> QED
    BY <2>2, <2>4 DEF AloneInv
<1> QED
  BY <1>3, <1>4 DEF IInv

(***************************************************************************)
(* The awaits of a flush.  Without overlap it is the only one, so that its *)
(* rename publishes its own document, and its failure is on record.        *)
(***************************************************************************)
LEMMA FlushKeeps == ASSUME IInv, NEW w \in Writers, flushStep(w) PROVE IInv'
<1> USE DocumentFacts, AtomicFileAssumption
<1>1. FileStep(w) /\ UNCHANGED <<session, store, granted, overlapped>>
  BY DEF flushStep, FileStep, cacheVars
<1>2. FileTypeOK' /\ CallsKnown'
  BY <1>1, FileTypesKept DEF IInv, AnyInv, TypeOK
<1>3. pc[w] # "idle" /\ InFlight' \in {InFlight, InFlight \ {w}} /\ data'[w] \in {data[w], Nothing}
      /\ \A v \in Writers \ {w} : data'[v] = data[v]
  BY <1>1 DEF FileStep, openTmp, writeFile, sync, rename, renameMissing, ioFails, end, InFlight,
              IInv, AnyInv, TypeOK, FileTypeOK, Pcs
<1>4. SessionScopeStaysInMemory'
  <2>1. ASSUME NEW i \in Inodes PROVE content'[i] \in {content[i], data[w], Empty, Torn}
    <3>1. CASE writeFile(w)
      <4>1. PICK c \in Overwrite(content[handle[w]], data[w]) :
              content' = [content EXCEPT ![handle[w]] = c]
        BY <3>1 DEF writeFile
      <4>2. c \in {data[w], Torn}
        BY <4>1 DEF Overwrite
      <4> QED
        BY <4>1, <4>2 DEF IInv, AnyInv, TypeOK, FileTypeOK
    <3>2. CASE ~writeFile(w)
      BY <1>1, <3>2 DEF FileStep, openTmp, sync, rename, renameMissing, ioFails, end,
                        IInv, AnyInv, TypeOK, FileTypeOK
    <3> QED
      BY <3>1, <3>2
  <2> QED
    BY <1>1, <1>3, <2>1 DEF IInv, AnyInv, SessionScopeStaysInMemory, InFlight
<1>5. AnyInv'
  <2>1. onDisk' \in Documents /\ failed' \in BOOLEAN
    BY <1>3 DEF flushStep, rename, Pcs, cacheVars, IInv, AnyInv, CallsKnown, TypeOK
  <2>2. TypeOK'
    BY <1>1, <1>2, <2>1 DEF IInv, AnyInv, TypeOK
  <2>3. \A v \in Writers : data'[v] \in Data => data'[v].approved \subseteq granted'
    BY <1>1, <1>3 DEF IInv, AnyInv
  <2>4. session' # "open" => InFlight' = {}
    BY <1>1, <1>3 DEF IInv, AnyInv
  <2>5. Projects(store)' = Projects(store)
    BY <1>1 DEF Projects
  <2> QED
    BY <1>1, <1>2, <1>4, <2>2, <2>3, <2>4, <2>5 DEF IInv, AnyInv
<1>6. ASSUME ~overlapped' PROVE AloneInv'
  <2>1. AloneInv /\ FileIInv
    BY <1>1, <1>6 DEF IInv, AnyInv, TypeOK, AloneInv, FileIInv
  <2>2. FileInv'
    BY <1>1, <2>1, FileStepKeeps DEF FileIInv
  <2>3. AlwaysOpens'
    BY <1>1, <2>1 DEF AloneInv, AlwaysOpens
  <2>4. InFlight = {w}
    BY <1>3, <2>1 DEF AloneInv, FileInv, OneWriter, InFlight
  <2>5. session = "open" /\ Covers(data[w])
    BY <2>1, <2>4 DEF AloneInv, Flushed, IInv, AnyInv
  <2>6. \A D : Covers(D)' <=> Covers(D)
    BY <1>1 DEF Covers, Projects
  <2>7. CASE openTmp(w) \/ writeFile(w) \/ sync(w)
    <3>1. UNCHANGED <<cacheVars, file, data>> /\ InFlight' = {w}
      BY <2>4, <2>7 DEF flushStep, openTmp, writeFile, sync, rename, renameMissing, ioFails, end,
                        cacheVars, InFlight, IInv, AnyInv, TypeOK, FileTypeOK
    <3>2. Published' = Published
      <4>1. file # Nothing => content'[file] = content[file]
        BY <2>1, <2>7 DEF openTmp, Free, writeFile, AloneInv, FileInv, FileIInv, FileTypeOK, WriterInv, sync
      <4> QED
        BY <3>1, <4>1 DEF Published
    <3>3. LastFlushReloads'
      BY <2>1, <3>1, <3>2 DEF AloneInv, LastFlushReloads, cacheVars
    <3>4. Flushed'
      BY <2>5, <3>1, <2>6 DEF Flushed, Covers
    <3> QED
      BY <2>2, <2>3, <3>3, <3>4 DEF AloneInv
  <2>8. CASE rename(w)
    <3>1. onDisk' = data[w] /\ InFlight' = {} /\ Published' = data[w]
      BY <2>1, <2>4, <2>8 DEF flushStep, rename, end, openTmp, writeFile, sync, renameMissing, ioFails, InFlight,
           FileIInv, FileTypeOK, FileInv, WriterInv, Published
    <3>2. LastFlushReloads'
      BY <3>1 DEF LastFlushReloads
    <3>3. Flushed'
      BY <2>5, <3>1, <2>6 DEF Flushed, Covers
    <3> QED
      BY <2>2, <2>3, <3>2, <3>3 DEF AloneInv
  <2>9. CASE renameMissing(w) \/ ioFails(w)
    <3>1. UNCHANGED onDisk /\ failed' = TRUE /\ InFlight' = {}
      BY <2>4, <2>9 DEF flushStep, rename, end, openTmp, writeFile, sync, renameMissing, ioFails, InFlight,
                        IInv, AnyInv, TypeOK, FileTypeOK
    <3>2. Published' = Published
      BY <2>1, <2>9 DEF renameMissing, ioFails, FileIInv, FileInv, FileTypeOK, WriterInv, Published
    <3> QED
      BY <1>1, <2>1, <2>2, <2>3, <3>1, <3>2 DEF AloneInv, LastFlushReloads, Flushed
  <2> QED
    BY <2>7, <2>8, <2>9 DEF flushStep
<1> QED
  BY <1>5, <1>6 DEF IInv

(***************************************************************************)
(* A crash closes the session; what it tears was not yet published.        *)
(***************************************************************************)
LEMMA CacheCrashKeeps == ASSUME IInv, crash PROVE IInv'
<1> USE DocumentFacts, AtomicFileAssumption
<1>1. FileTypeOK' /\ CallsKnown'
  BY FileTypesKept DEF crash, IInv, AnyInv, TypeOK
<1>2. InFlight' = {} /\ Projects(store)' = {}
  BY DEF crash, crashFile, InFlight, Projects
<1>3. AnyInv'
  <2>1. TypeOK'
    BY <1>1 DEF crash, IInv, AnyInv, TypeOK, Scopes
  <2>2. SessionScopeStaysInMemory'
    BY DEF crash, crashFile, IInv, AnyInv, SessionScopeStaysInMemory
  <2> QED
    BY <1>1, <1>2, <2>1, <2>2 DEF crash, crashFile, IInv, AnyInv
<1>4. ASSUME ~overlapped' PROVE AloneInv'
  <2>1. AloneInv /\ FileIInv
    BY <1>4 DEF crash, IInv, AnyInv, TypeOK, AloneInv, FileIInv
  <2>2. FileInv'
    BY <2>1, CrashKeeps DEF crash, FileIInv
  <2>3. Published' = Published
    BY <2>1 DEF crash, crashFile, Published, FileIInv, FileInv, FileTypeOK, PublishedComplete
  <2> QED
    BY <1>2, <2>1, <2>2, <2>3 DEF crash, AloneInv, LastFlushReloads, AlwaysOpens, Flushed
<1> QED
  BY <1>3, <1>4 DEF IInv

LEMMA CacheInvariance == Spec => []IInv
<1>1. IInv /\ UNCHANGED vars => IInv'
  <2> SUFFICES ASSUME IInv, UNCHANGED vars PROVE IInv'
    OBVIOUS
  <2> USE DEF vars, fileVars
  <2>1. AnyInv'
    BY DEF IInv, AnyInv, CallsKnown, TypeOK, FileTypeOK, SessionScopeStaysInMemory, InFlight, Projects
  <2>2. ASSUME ~overlapped' PROVE AloneInv'
    <3>1. FileInv'
      BY <2>2, FileStutterKeeps DEF IInv, AnyInv, TypeOK, AloneInv, FileIInv
    <3> QED
      BY <2>2, <3>1 DEF IInv, AloneInv, LastFlushReloads, AlwaysOpens, Published, Flushed, Covers,
                        InFlight, Projects
  <2> QED
    BY <2>1, <2>2 DEF IInv
<1>2. IInv /\ [Next]_vars => IInv'
  BY <1>1, AddKeeps, ClearKeeps, OpenKeeps, AddSessionKeeps, FlushKeeps, CacheCrashKeeps DEF Next
<1> QED
  BY <1>2, CacheInit, PTL DEF Spec

(***************************************************************************)
(* Every variable of the cache has its type, overlapping calls or not.     *)
(***************************************************************************)
THEOREM CacheTypeCorrect == Spec => []TypeOK
<1>1. IInv => TypeOK
  BY DEF IInv, AnyInv
<1> QED
  BY <1>1, CacheInvariance, PTL

(***************************************************************************)
(* A restart finds every approval that was kept and no other, for any      *)
(* number of keys, calls, failures and crashes (openApprovalCache).        *)
(***************************************************************************)
THEOREM RestartsAreFaithful == Spec => []RestartFindsApprovals
<1>1. ASSUME IInv PROVE MemoryFlushed
  BY <1>1 DEF IInv, AloneInv, Flushed, Covers, MemoryFlushed
<1>2. IInv => RestartFindsApprovals
  BY <1>1 DEF IInv, AnyInv, AloneInv, RestartFindsApprovals, AlwaysOpens, LastFlushReloads
<1> QED
  BY <1>2, CacheInvariance, PTL
=============================================================================
