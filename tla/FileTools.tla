------------------------------ MODULE FileTools ------------------------------
(***************************************************************************)
(* The bundled file tools (extensions/tools/edit and simple-tools/read,    *)
(* write and list) at work on one workspace, several calls at a time.      *)
(*                                                                         *)
(* A text is a sequence of letters; 0 stands for a byte that is not UTF-8. *)
(* The workspace holds "f", and "d/f" in a directory "d" that may be       *)
(* missing; "out" is a path outside it and "" the empty one.  Writing a    *)
(* temporary file takes two steps, truncation and content, and each system *)
(* call may fail.  edit names its temporary file by the clock (a value of  *)
(* Ticks), write by a random suffix (the caller itself, here).             *)
(***************************************************************************)
EXTENDS Integers, Sequences, FiniteSets

CONSTANTS FileCallers,   \* calls that may be in flight together
          FileArgs,      \* the argument records they are made with
          StartTexts,    \* what the files may hold at first
          Ticks,         \* the milliseconds an edit may fall in
          Limits         \* values of maxFileBytes and maxBytes

VARIABLES file,          \* the text of each file, or Missing
          dirs,          \* the directories there are
          temp,          \* the temporary files: name to text
          fcall,         \* what each call is doing
          limit,         \* _state of the tools: the byte limit in force
          composed,      \* history: the texts meant for each file
          overlapped,    \* history: calls that met another on their file
          sharedTemp     \* history: files two edits of one tick were made on

fileVars == <<file, dirs, temp, fcall, limit, composed, overlapped, sharedTemp>>

Missing   == <<-1>>
FilePaths == {"f", "d/f"}
ParentOf(p) == IF p = "f" THEN "." ELSE "d"
NoFileCall == [pc |-> "none", arg |-> "none"]

\* edit/path-scope.ts: the path relative to the workspace, null when outside.
toRelativePosix(p) == p # "out"

FTInit ==
    /\ dirs \in {{"."}, {".", "d"}}
    /\ file \in [FilePaths -> StartTexts \cup {Missing}]
    /\ "d" \notin dirs => file["d/f"] = Missing
    /\ temp = << >> /\ fcall = [c \in FileCallers |-> NoFileCall]
    /\ limit \in Limits
    /\ composed = [p \in FilePaths |-> {file[p]}]
    /\ overlapped = {} /\ sharedTemp = {}

-----------------------------------------------------------------------------
\* Helpers.

Target(c)  == fcall[c].arg.path
InFlight(c) == fcall[c].pc \notin {"none", "ok", "failed"}
Changes(a) == a.tool \in {"edit", "write"}

Found(t, s) == {i \in 1 .. Len(t) - Len(s) + 1 : SubSeq(t, i, i + Len(s) - 1) = s}

\* findExactOnce: the second search begins behind the first match.
findExactOnce(t, s) ==
    {i \in Found(t, s) : /\ \A j \in Found(t, s) : i <= j
                         /\ \A j \in Found(t, s) : j < i + Len(s)}

Replaced(t, i, s, by) == SubSeq(t, 1, i - 1) \o by \o SubSeq(t, i + Len(s), Len(t))

Decodes(t) == \A i \in 1 .. Len(t) : t[i] # 0

\* The temporary file of edit, and that of write.
editTemp(c, tick) == <<Target(c), "tick", tick>>
tempSibling(c)    == <<Target(c), "random", c>>

ReturnsError(c)  == fcall' = [fcall EXCEPT ![c].pc = "failed"]
ReturnsOk(c)     == fcall' = [fcall EXCEPT ![c].pc = "ok"]

KeepFiles == UNCHANGED <<file, dirs, temp>>
KeepNotes == UNCHANGED <<limit, composed, overlapped, sharedTemp>>

-----------------------------------------------------------------------------
\* The checks made before the first await, and what the state said then.

Refused(a) ==
    \/ a.path = "" \/ ~toRelativePosix(a.path)
    \/ a.tool = "edit" /\ a.old = a.new
    \/ a.tool = "write" /\ Len(a.text) > limit
    \/ a.tool = "list" /\ a.depth < 0

call(c, a) ==
    /\ fcall[c].pc = "none"
    /\ fcall' = [fcall EXCEPT ![c] =
          [pc |-> IF Refused(a) THEN "failed" ELSE a.tool, arg |-> a, limit |-> limit,
           was |-> IF a.path \in FilePaths THEN file[a.path] ELSE Missing,
           text |-> <<>>, name |-> << >>]]
    /\ overlapped' = overlapped \cup
          (IF Changes(a) /\ ~Refused(a)
           THEN LET o == {x \in FileCallers \ {c} : /\ InFlight(x) /\ Changes(fcall[x].arg)
                                                    /\ Target(x) = a.path}
                IN  IF o = {} THEN {} ELSE o \cup {c}
           ELSE {})
    /\ KeepFiles /\ UNCHANGED <<limit, composed, sharedTemp>>

\* readUtf8 and the search of executeEdit.
editReads(c) ==
    /\ fcall[c].pc = "edit"
    /\ LET a == fcall[c].arg  t == file[a.path] IN
       \/ ReturnsError(c) /\ UNCHANGED composed          \* readFile fails
       \/ /\ t # Missing
          /\ IF Len(t) > fcall[c].limit \/ ~Decodes(t) \/ findExactOnce(t, a.old) = {}
             THEN ReturnsError(c) /\ UNCHANGED composed
             ELSE \E i \in findExactOnce(t, a.old), tick \in Ticks :
                     LET new == Replaced(t, i, a.old, a.new) IN
                     /\ fcall' = [fcall EXCEPT ![c].pc = "open", ![c].text = new,
                                               ![c].name = editTemp(c, tick)]
                     /\ composed' = [composed EXCEPT ![a.path] = @ \cup {new}]
    /\ KeepFiles /\ UNCHANGED <<limit, overlapped, sharedTemp>>

\* dirExists, mkdir and fileExists of executeWrite.
writePrepares(c) ==
    /\ fcall[c].pc = "write"
    /\ LET a == fcall[c].arg  d == ParentOf(a.path) IN
       \/ /\ d \notin dirs
          /\ ReturnsError(c) /\ UNCHANGED <<dirs, composed>>   \* not asked to, or mkdir fails
       \/ /\ d \in dirs \/ a.parents
          /\ dirs' = dirs \cup {d}
          /\ fcall' = [fcall EXCEPT ![c].pc = "open", ![c].text = a.text,
                                    ![c].name = tempSibling(c)]
          /\ composed' = [composed EXCEPT ![a.path] = @ \cup {a.text}]
    /\ UNCHANGED <<file, temp, limit, overlapped, sharedTemp>>

\* writeFile opens the temporary file, truncating it.
opensTemp(c) ==
    /\ fcall[c].pc = "open"
    /\ \/ ReturnsError(c) /\ UNCHANGED temp
       \/ /\ fcall' = [fcall EXCEPT ![c].pc = "fill"]
          /\ temp' = [n \in DOMAIN temp \cup {fcall[c].name} |->
                         IF n = fcall[c].name THEN <<>> ELSE temp[n]]
    /\ sharedTemp' = sharedTemp \cup
          (IF /\ fcall[c].arg.tool = "edit"
              /\ \E o \in FileCallers \ {c} : InFlight(o) /\ fcall[o].name = fcall[c].name
           THEN {Target(c)} ELSE {})
    /\ UNCHANGED <<file, dirs, limit, composed, overlapped>>

Without(n) == [x \in DOMAIN temp \ {n} |-> temp[x]]

\* Its content arrives, or the write fails: edit leaves the file, write unlinks it.
fillsTemp(c) ==
    /\ fcall[c].pc = "fill"
    /\ \/ /\ fcall' = [fcall EXCEPT ![c].pc = "rename"]
          /\ temp' = [n \in DOMAIN temp |-> IF n = fcall[c].name THEN fcall[c].text ELSE temp[n]]
       \/ /\ ReturnsError(c)
          /\ \/ UNCHANGED temp
             \/ fcall[c].arg.tool = "write" /\ temp' = Without(fcall[c].name)
    /\ UNCHANGED <<file, dirs>> /\ KeepNotes

\* What a failed rename makes of the call.  Mutant: its error is swallowed.
renameFailsUnseen(c) == ReturnsOk(c)
renameFails(c) == ReturnsError(c)

\* rename moves what the name holds now; it fails when the name is gone.
renames(c) ==
    /\ fcall[c].pc = "rename"
    /\ \/ /\ fcall[c].name \in DOMAIN temp
          /\ file' = [file EXCEPT ![Target(c)] = temp[fcall[c].name]]
          /\ ReturnsOk(c)
          /\ temp' = Without(fcall[c].name)
       \/ /\ renameFails(c) /\ UNCHANGED file
          /\ temp' \in {temp, Without(fcall[c].name)}     \* unlink's own failure is ignored
    /\ UNCHANGED dirs /\ KeepNotes

\* executeRead: the text, cut at the limit, or an error.
reads(c) ==
    /\ fcall[c].pc = "read"
    /\ LET t == file[Target(c)] IN
       \/ ReturnsError(c)
       \/ /\ t # Missing
          /\ IF Decodes(t)
             THEN fcall' = [fcall EXCEPT ![c].pc = "ok", ![c].text =
                              IF Len(t) > fcall[c].limit THEN SubSeq(t, 1, fcall[c].limit) ELSE t]
             ELSE ReturnsError(c)
    /\ KeepFiles /\ KeepNotes

\* walk: the entries in order of their path, "d" before "d/f" before "f";
\* a directory is entered while depth is left, an unreadable one is skipped.
Entries(depth) ==
    (IF depth >= 1 /\ "d" \in dirs THEN <<"d">> ELSE <<>>)
    \o (IF depth >= 2 /\ file["d/f"] # Missing THEN <<"d/f">> ELSE <<>>)
    \o (IF depth >= 1 /\ file["f"] # Missing THEN <<"f">> ELSE <<>>)

walks(c) ==
    /\ fcall[c].pc = "list"
    /\ \/ ReturnsError(c)                               \* stat fails, or no directory
       \/ \E all \in {<<>>, Entries(fcall[c].arg.depth)} :  \* readdir fails, or not
             fcall' = [fcall EXCEPT ![c].pc = "ok", ![c].text =
                         SubSeq(all, 1, IF Len(all) < fcall[c].limit THEN Len(all) ELSE fcall[c].limit)]
    /\ KeepFiles /\ KeepNotes

\* init and dispose replace the state later calls read.
setState(l) ==
    /\ limit # l /\ limit' = l
    /\ UNCHANGED <<file, dirs, temp, fcall, composed, overlapped, sharedTemp>>

FileStep(c) ==
    \/ editReads(c) \/ writePrepares(c) \/ opensTemp(c) \/ fillsTemp(c)
    \/ renames(c) \/ reads(c) \/ walks(c)

FTNext ==
    \/ \E c \in FileCallers, a \in FileArgs : call(c, a)
    \/ \E c \in FileCallers : FileStep(c)
    \/ \E l \in Limits : setState(l)

FTSpec == FTInit /\ [][FTNext]_fileVars

-----------------------------------------------------------------------------
FTTypeOK ==
    /\ DOMAIN file = FilePaths /\ dirs \subseteq {".", "d"}
    /\ \A n \in DOMAIN temp : n[1] \in FilePaths
    /\ \A c \in FileCallers : fcall[c].pc \in
          {"none", "edit", "write", "read", "list", "open", "fill", "rename", "ok", "failed"}
    /\ limit \in Limits

\* A file never holds half a text: what it holds is what it held at first or
\* a text some call composed for it, whatever calls overlap and whichever
\* fails.  Only two edits of one file in one millisecond, which share their
\* temporary file, may break it.
FilesAreWhole ==
    \A p \in FilePaths : file[p] \in composed[p] \/ p \in sharedTemp

\* A call that no other overlapped tells the truth when it returns: after ok
\* the file holds the text it composed, after a failure what it held when the
\* call began, whichever of its system calls failed.
ReportsAgree ==
    [][\A c \in FileCallers :
          InFlight(c) /\ fcall'[c].pc \in {"ok", "failed"}
          /\ Changes(fcall[c].arg) /\ c \notin overlapped
          => file'[Target(c)] = IF fcall'[c].pc = "ok" THEN fcall[c].text
                                                        ELSE fcall[c].was]_fileVars
=============================================================================
