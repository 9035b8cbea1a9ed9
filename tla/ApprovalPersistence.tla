------------------------ MODULE ApprovalPersistence ------------------------
(***************************************************************************)
(* The two-layer approval cache (openApprovalCache in                      *)
(* core/security/approval/persistence.ts): a map in memory, whose project  *)
(* scoped entries are flushed to approvals.json on every add and reloaded  *)
(* when a later session opens the cache.  The file is an AtomicFile; what  *)
(* is written is a set of keys, and a larger set is a longer text.         *)
(***************************************************************************)
EXTENDS AtomicFile, TLC

CONSTANT Keys   \* (tool, approval key) pairs

Document(S) == [approved |-> S]
Documents == {Document(S) : S \in SUBSET Keys}
DocumentSize == [D \in Documents |-> Cardinality(D.approved)]

ASSUME ApprovalAssumption == Data = Documents /\ Size = DocumentSize

VARIABLES
  session,   \* whether a process holds the cache open, or could not open it
  store,     \* key -> scope of its entry in memory, or "none"
  onDisk,    \* document of the last flush that succeeded
  failed,    \* a flush ended or died without success since then
  granted,   \* keys ever added with project scope
  overlapped \* a call began while another was under way

cacheVars == <<session, store, onDisk, failed, granted, overlapped>>
vars == <<fileVars, session, store, onDisk, failed, granted, overlapped>>

Scopes == {"none", "session", "project"}
Projects(st) == {k \in Keys : st[k] = "project"}

Init ==
  /\ FileInit
  /\ session = "closed"
  /\ store = [k \in Keys |-> "none"]
  /\ onDisk = Document({}) /\ failed = FALSE /\ granted = {} /\ overlapped = FALSE

(* Mutant: an entry is loaded with whatever the file holds. *)
openUnchecked ==
  /\ session = "closed"
  /\ session' = "open"
  /\ store' = [k \in Keys |->
       IF Published = Nothing THEN Nothing ELSE IF k \in Published.approved THEN "project" ELSE "none"]
  /\ UNCHANGED <<fileVars, onDisk, failed, granted, overlapped>>

(***************************************************************************)
(* openApprovalCache: an absent file is an empty cache, a malformed one is *)
(* ApprovalCacheUnavailable.                                               *)
(***************************************************************************)
openApprovalCache ==
  /\ session = "closed"
  /\ IF Published \in Documents \cup {Nothing}
     THEN /\ session' = "open"
          /\ store' = [k \in Keys |->
               IF Published # Nothing /\ k \in Published.approved THEN "project" ELSE "none"]
     ELSE session' = "ApprovalCacheUnavailable" /\ UNCHANGED store
  /\ UNCHANGED <<fileVars, onDisk, failed, granted, overlapped>>

(***************************************************************************)
(* flushProjectEntries collects the project entries of the map as it is    *)
(* now; the file operations follow.                                        *)
(***************************************************************************)
flushProjectEntries(w, st) == begin(w, Document(Projects(st)))

(***************************************************************************)
(* add: the map is updated first and stays so if the flush fails.          *)
(***************************************************************************)
addProject(w, k) ==
  /\ session = "open"
  /\ store' = [store EXCEPT ![k] = "project"]
  /\ flushProjectEntries(w, store')
  /\ granted' = granted \cup {k}
  /\ overlapped' = (overlapped \/ InFlight # {})
  /\ UNCHANGED <<session, onDisk, failed>>

(***************************************************************************)
(* A session-scope entry replaces the project entry of its key in the map  *)
(* and is not flushed.                                                     *)
(***************************************************************************)
addSession(k) ==
  /\ session = "open"
  /\ store' = [store EXCEPT ![k] = "session"]
  /\ UNCHANGED <<fileVars, session, onDisk, failed, granted, overlapped>>

(***************************************************************************)
(* clear empties the map and overwrites the file with an empty document.   *)
(***************************************************************************)
clear(w) ==
  /\ session = "open"
  /\ store' = [k \in Keys |-> "none"]
  /\ begin(w, Document({}))
  /\ overlapped' = (overlapped \/ InFlight # {})
  /\ UNCHANGED <<session, onDisk, failed, granted>>

(***************************************************************************)
(* The awaits of a flush; success is reported when the rename returns.     *)
(***************************************************************************)
flushStep(w) ==
  \/ /\ openTmp(w) \/ writeFile(w) \/ sync(w)
     /\ UNCHANGED cacheVars
  \/ /\ rename(w)
     /\ onDisk' = data[w] /\ failed' = FALSE
     /\ UNCHANGED <<session, store, granted, overlapped>>
  \/ /\ renameMissing(w) \/ ioFails(w)
     /\ failed' = TRUE
     /\ UNCHANGED <<session, store, onDisk, granted, overlapped>>

(***************************************************************************)
(* The process stops, in the middle of a flush or not.                     *)
(***************************************************************************)
crash ==
  /\ crashFile
  /\ session' = "closed"
  /\ store' = [k \in Keys |-> "none"]
  /\ failed' = (failed \/ InFlight # {})
  /\ UNCHANGED <<onDisk, granted, overlapped>>

Next ==
  \/ openApprovalCache \/ crash
  \/ \E w \in Writers : clear(w) \/ flushStep(w) \/ \E k \in Keys : addProject(w, k)
  \/ \E k \in Keys : addSession(k)

Spec == Init /\ [][Next]_vars

(* What the runs bound and take to be interchangeable: after an overlap,   *)
(* where any document may be lost, one project approval.                   *)
Symmetry == Permutations(Keys) \cup Permutations(Writers) \cup Permutations(Inodes)
OverlapBound == overlapped => Cardinality(granted) <= 1

----------------------------------------------------------------------------
(***************************************************************************)
(* Every variable has its type.                                            *)
(***************************************************************************)
TypeOK ==
  /\ FileTypeOK
  /\ session \in {"closed", "open", "ApprovalCacheUnavailable"}
  /\ store \in [Keys -> Scopes]
  /\ onDisk \in Documents /\ failed \in BOOLEAN
  /\ granted \in SUBSET Keys /\ overlapped \in BOOLEAN

(***************************************************************************)
(* When every caller awaits the call before it, a session can always open  *)
(* the cache, wherever the one before stopped.                             *)
(***************************************************************************)
AlwaysOpens == ~overlapped => session # "ApprovalCacheUnavailable"

(***************************************************************************)
(* What the next session will load is the document of the last flush that  *)
(* reported success: approvals survive restarts, and approvals that were   *)
(* cleared do not come back.                                               *)
(***************************************************************************)
LastFlushReloads ==
  ~overlapped =>
    Published = onDisk \/ (Published = Nothing /\ onDisk = Document({}))

(***************************************************************************)
(* Once its adds and clears have returned without error, a session's       *)
(* project approvals are on disk, and only entries it has since shadowed   *)
(* by a session approval are there besides.                                *)
(***************************************************************************)
MemoryFlushed ==
  (session = "open" /\ InFlight = {} /\ ~failed /\ ~overlapped) =>
    /\ Projects(store) \subseteq onDisk.approved
    /\ onDisk.approved \ Projects(store) \subseteq {k \in Keys : store[k] = "session"}

(***************************************************************************)
(* Session approvals reach no file, not even a temporary: every key ever   *)
(* written was approved for the project.                                   *)
(***************************************************************************)
SessionScopeStaysInMemory ==
  \A i \in Inodes : content[i] \in Documents => content[i].approved \subseteq granted

(***************************************************************************)
(* A restart finds every approval that was kept and no other: the file     *)
(* always opens, it reloads what the last flush wrote, what is granted in  *)
(* memory is flushed once nothing is in flight, and approvals for the      *)
(* session stay out of the file (core/security/approval/persistence.ts).   *)
(***************************************************************************)
RestartFindsApprovals ==
  AlwaysOpens /\ LastFlushReloads /\ MemoryFlushed /\ SessionScopeStaysInMemory
============================================================================
