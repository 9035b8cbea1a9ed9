------------------------------ MODULE ToolRuns -------------------------------
(***************************************************************************)
(* What runs outside the process on behalf of a call: the subprocess of    *)
(* the bash tool, the child of the CLI-wrapper provider, the request of    *)
(* web-fetch, and the question of ask-user.                                *)
(*                                                                         *)
(* A subprocess is a shell and a descendant of it ("kid"); the kid may     *)
(* leave the process group and still hold the pipes ("stray").  Output is  *)
(* counted in bytes.  "late" records that the clock has passed timeoutMs,  *)
(* whether or not a timer was still armed.                                 *)
(***************************************************************************)
EXTENDS Integers, FiniteSets

CONSTANTS Jobs, MaxBytesKept, MaxWrote

VARIABLES job,       \* what each job is, and how far it got
          signalled, \* the turn's abort signal has fired
          executable \* the CLI wrapper's executable is (still) there

runVars == <<job, signalled, executable>>

JobKinds == {"bash", "cli", "fetch", "ask"}
Results  == {"none", "ok", "timeout", "refused", "failed", "cancelled", "crash", "abandoned"}
NoJob == [kind |-> "none", pc |-> "idle", res |-> "none", procs |-> {}, stray |-> FALSE,
          wrote |-> 0, kept |-> 0, cut |-> FALSE, timer |-> "off", late |-> FALSE]

RInit == /\ job = [j \in Jobs |-> NoJob]
         /\ signalled = FALSE /\ executable = TRUE

-----------------------------------------------------------------------------
\* Helpers.

Set(j, r)     == job' = [job EXCEPT ![j] = r]
Settled(r, x) == [r EXCEPT !.pc = "settled", !.res = x, !.timer = "off"]
settle(j, x)  == Set(j, Settled(job[j], x))
Begin(k, p)   == [NoJob EXCEPT !.kind = k, !.pc = p, !.timer = IF k = "ask" THEN "off" ELSE "armed",
                               !.procs = IF p = "running" THEN {"sh"} ELSE {}]
KeepWorld == UNCHANGED <<signalled, executable>>
Alive(j)  == job[j].procs # {}
PipesOpen(j) == Alive(j) \/ job[j].stray

\* Mutant of killGroup: the shell alone is killed.
killShell(r)  == [r EXCEPT !.procs = @ \ {"sh"}]
\* bash: the whole group, with SIGKILL.
killGroup(r)  == [r EXCEPT !.procs = {}]
\* cli: SIGTERM to the child, which may ignore it; its descendants live on.
Terminated(r) == {r, [r EXCEPT !.procs = @ \ {"sh"}]}

\* collectStream: the bytes kept of a chunk of n, and whether any was dropped.
collectStream(r, n) ==
    IF r.cut \/ r.kept >= MaxBytesKept THEN [r EXCEPT !.cut = TRUE]
    ELSE IF n <= MaxBytesKept - r.kept THEN [r EXCEPT !.kept = @ + n]
    ELSE [r EXCEPT !.kept = MaxBytesKept, !.cut = TRUE]

-----------------------------------------------------------------------------
\* executeBash and the start of runSubprocess: the command is bad or blocked,
\* the signal has fired already, the spawn fails, or the subprocess runs.
executeBash(j) ==
    /\ job[j].pc = "idle"
    /\ \/ Set(j, Settled([NoJob EXCEPT !.kind = "bash"], "refused"))
       \/ /\ signalled
          /\ Set(j, Settled([NoJob EXCEPT !.kind = "bash"], "cancelled"))
       \/ /\ ~signalled
          /\ \E r \in {Begin("bash", "running"),
                       Settled([NoJob EXCEPT !.kind = "bash"], "failed")} : Set(j, r)
    /\ KeepWorld

\* spawnCLI: "error" is emitted on a child nobody listens to yet.
spawnCLI(j) ==
    /\ job[j].pc = "idle"
    /\ Set(j, IF executable THEN Begin("cli", "running")
              ELSE Settled([NoJob EXCEPT !.kind = "cli"], "crash"))
    /\ KeepWorld

\* executeWebFetch: URL, scheme and network policy, then the request.
executeWebFetch(j) ==
    /\ job[j].pc = "idle"
    /\ \E r \in {Settled([NoJob EXCEPT !.kind = "fetch"], "refused"),
                 Begin("fetch", "request")} : Set(j, r)
    /\ KeepWorld

\* executeAskUser: an empty prompt, a signal fired before, or the question.
executeAskUser(j) ==
    /\ job[j].pc = "idle"
    /\ \E r \in {Settled([NoJob EXCEPT !.kind = "ask"], "refused"),
                 IF signalled THEN Settled([NoJob EXCEPT !.kind = "ask"], "cancelled")
                              ELSE Begin("ask", "request")} : Set(j, r)
    /\ KeepWorld

\* The answer of host.interaction.raise, a timeout of it, its cancellation or
\* another error.
answered(j) ==
    /\ job[j].kind = "ask" /\ job[j].pc = "request"
    /\ \E x \in {"ok", "timeout", "cancelled", "failed"} : settle(j, x)
    /\ KeepWorld

-----------------------------------------------------------------------------
\* The subprocess.

forks(j) ==
    /\ "sh" \in job[j].procs /\ "kid" \notin job[j].procs /\ ~job[j].stray
    /\ Set(j, [job[j] EXCEPT !.procs = @ \cup {"kid"}]) /\ KeepWorld

leavesGroup(j) ==
    /\ "kid" \in job[j].procs
    /\ Set(j, [job[j] EXCEPT !.procs = @ \ {"kid"}, !.stray = TRUE]) /\ KeepWorld

exits(j) ==
    /\ PipesOpen(j)
    /\ \/ \E p \in job[j].procs : Set(j, [job[j] EXCEPT !.procs = @ \ {p}])
       \/ job[j].stray /\ Set(j, [job[j] EXCEPT !.stray = FALSE])
    /\ KeepWorld

\* A chunk of output: bash keeps what fits, the CLI wrapper hands on all of it.
writes(j) ==
    /\ job[j].pc = "running" /\ PipesOpen(j)
    /\ \E n \in {1, 2} :
          /\ job[j].wrote + n <= MaxWrote
          /\ LET r == [job[j] EXCEPT !.wrote = @ + n] IN
             Set(j, IF r.kind = "bash" THEN collectStream(r, n) ELSE [r EXCEPT !.kept = @ + n])
    /\ KeepWorld

\* Both streams have ended and the child has closed: timeout first, then the
\* signal, then the exit code, which is a result for bash and for the CLI
\* wrapper a failure unless it is zero.
subprocessCloses(j) ==
    /\ job[j].pc = "running" /\ ~PipesOpen(j)
    /\ IF job[j].timer = "fired" \/ signalled THEN settle(j, "timeout")
       ELSE \E x \in {"ok"} \cup (IF job[j].kind = "cli" THEN {"failed"} ELSE {}) : settle(j, x)
    /\ KeepWorld

\* The consumer of the stream stops reading: the generator's finally clears the
\* timer and the listener, and leaves the child.
abandons(j) ==
    /\ job[j].kind = "cli" /\ job[j].pc = "running"
    /\ settle(j, "abandoned") /\ KeepWorld

-----------------------------------------------------------------------------
\* The request of web-fetch (boundedFetch).

responds(j) ==
    /\ job[j].kind = "fetch" /\ job[j].pc = "request"
    /\ \/ settle(j, "failed")
       \/ settle(j, "ok")                                   \* HEAD, or no body
       \/ Set(j, [job[j] EXCEPT !.pc = "body", !.timer = "off"])
    /\ KeepWorld

readsBody(j) ==
    /\ job[j].kind = "fetch" /\ job[j].pc = "body"
    /\ \/ settle(j, "failed") \/ settle(j, "ok")
       \/ \E n \in {1, 2} :
             LET r == [job[j] EXCEPT !.wrote = @ + n] IN
             /\ r.wrote <= MaxWrote
             /\ Set(j, IF job[j].kept + n > MaxBytesKept
                       THEN Settled([r EXCEPT !.kept = MaxBytesKept, !.cut = TRUE], "ok")
                       ELSE [r EXCEPT !.kept = @ + n])
    /\ KeepWorld

-----------------------------------------------------------------------------
\* The clock passes timeoutMs: a timer still armed fires, killing the
\* subprocess or aborting the request.
timeoutElapses(j) ==
    /\ job[j].pc \in {"running", "request", "body"} /\ job[j].kind # "ask" /\ ~job[j].late
    /\ LET r == [job[j] EXCEPT !.late = TRUE] IN
       IF r.timer # "armed" THEN Set(j, r)
       ELSE CASE r.kind = "bash"  -> Set(j, killGroup([r EXCEPT !.timer = "fired"]))
              [] r.kind = "cli"   -> \E t \in Terminated([r EXCEPT !.timer = "fired"]) : Set(j, t)
              [] r.kind = "fetch" -> Set(j, Settled(r, "timeout"))
    /\ KeepWorld

\* The turn's signal: bash and the CLI wrapper listen, web-fetch does not.
Hit(j) == CASE job[j].pc = "running" /\ job[j].kind = "bash" -> {killGroup(job[j])}
            [] job[j].pc = "running" /\ job[j].kind = "cli"  -> Terminated(job[j])
            [] OTHER -> {job[j]}

signalAborts ==
    /\ ~signalled /\ signalled' = TRUE
    /\ \E f \in [Jobs -> UNION {Hit(j) : j \in Jobs}] :
          (\A j \in Jobs : f[j] \in Hit(j)) /\ job' = f
    /\ UNCHANGED executable

executableGoes == executable /\ executable' = FALSE /\ UNCHANGED <<job, signalled>>

RNext ==
    \/ \E j \in Jobs :
          \/ executeBash(j) \/ spawnCLI(j) \/ executeWebFetch(j) \/ executeAskUser(j)
          \/ answered(j) \/ forks(j) \/ leavesGroup(j) \/ exits(j) \/ writes(j)
          \/ subprocessCloses(j) \/ abandons(j) \/ responds(j) \/ readsBody(j)
          \/ timeoutElapses(j)
    \/ signalAborts \/ executableGoes

RFair == \A j \in Jobs : WF_runVars(subprocessCloses(j)) /\ WF_runVars(timeoutElapses(j))
RSpec == RInit /\ [][RNext]_runVars /\ RFair

-----------------------------------------------------------------------------
RTypeOK ==
    /\ \A j \in Jobs :
          /\ job[j].kind \in JobKinds \cup {"none"} /\ job[j].res \in Results
          /\ job[j].pc \in {"idle", "running", "request", "body", "settled"}
          /\ job[j].procs \subseteq {"sh", "kid"} /\ job[j].timer \in {"off", "armed", "fired"}
          /\ job[j].kept \in 0 .. MaxWrote /\ job[j].wrote \in 0 .. MaxWrote
    /\ signalled \in BOOLEAN /\ executable \in BOOLEAN

\* What the model is shown of a run's output is the output: a bash command or
\* a fetch that ended well shows all of it up to the limit, says it was
\* truncated exactly when some was dropped, and a command that ended by any
\* road has left no process of its group behind.
OutputIsAsWritten ==
    \A j \in Jobs :
        /\ job[j].kind \in {"bash", "fetch"} /\ job[j].res = "ok" =>
              /\ job[j].kept = IF job[j].wrote < MaxBytesKept THEN job[j].wrote ELSE MaxBytesKept
              /\ job[j].cut <=> job[j].wrote > MaxBytesKept
        /\ job[j].kind = "bash" /\ job[j].pc = "settled" => ~PipesOpen(j)

\* A bash command ends soon after its timeout, whatever it does and whatever
\* it started, unless a descendant left its process group with the pipes open.
TimedOut(j) == job[j].kind = "bash" /\ job[j].pc = "running" /\ job[j].late
=============================================================================
