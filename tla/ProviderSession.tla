--------------------------- MODULE ProviderSession ---------------------------
(***************************************************************************)
(* A whole session of the command line: the input loop and its turns       *)
(* (cli/runtime/session-loop.ts), the calls of tools with their approvals  *)
(* (tool-resolver.ts, tool-approval.ts) and the child sessions the         *)
(* `delegate` tool opens (core/subagent, cli/runtime/subagent-*.ts), under *)
(* Ctrl+C, crashes and resumption.  The tool calls of a session run one    *)
(* after the other and a child session runs inside a call of its parent:   *)
(* the sessions under way are a stack.  What interleaves with them is the  *)
(* user, the signals and the writing of the log.                           *)
(***************************************************************************)
EXTENDS Integers, Sequences, SequencesExt, FiniteSets, FiniteSetsExt

CONSTANTS
  Tools,       \* the tools but delegate
  Gated,       \* those of them that need an approval
  Envelopes,   \* requested envelopes: sets of tool names
  MaxDepth,    \* delegate.maxDepth
  MaxRounds,   \* continuationMaxIterations
  MaxBatch,    \* bound: tool calls in one reply of the provider
  MaxChildren, \* bound: child sessions opened
  MaxLines,    \* bound: lines the user types
  MaxResumes   \* bound: resumptions

Delegate == "delegate"
Root == 0
Children == 1..MaxChildren
Who == {Root} \cup Children

ASSUME SessionAssumption ==
  /\ Gated \subseteq Tools /\ Delegate \notin Tools
  /\ Envelopes \subseteq SUBSET (Tools \cup {Delegate})
  /\ {MaxDepth, MaxRounds, MaxBatch, MaxChildren, MaxLines, MaxResumes} \subseteq Nat
  /\ MaxRounds > 0 /\ MaxLines > 0

VARIABLES
  headless,    \* launched with --headless: no interactor
  trust,       \* "ask", "mode-yolo" (securityMode), "yolo" (launch flag)
  loop,        \* where runProviderSession stands
  typed,       \* lines buffered in the input queue
  aborted,     \* the session scope is cancelled
  stack,       \* sessions under way, the orchestrator's turn first
  cache,       \* approval cache of each session
  registered,  \* children in the SessionSubagentRegistry
  known,       \* children registered with the IpAuthority
  audit,       \* SubagentExecution records, of one child and one kind each
  written,     \* how many of them are on disk for certain
  lines,       \* lines typed
  resumes,     \* resumptions
  granted      \* history: what the user has approved for whom

launch == <<headless, trust>>
bookkeeping == <<cache, registered, known, audit, granted>>
vars == <<launch, loop, typed, aborted, stack, bookkeeping, written, lines, resumes>>

(* A call of a tool; it is also the key of its approval: the key of        *)
(* delegate holds the envelope.                                            *)
Calls == [tool : Tools, env : {{}}] \cup [tool : {Delegate}, env : Envelopes]
Batches == UNION {[1..n -> Calls] : n \in 1..MaxBatch}

Frame(w, depth, env) ==
  [who |-> w, depth |-> depth, env |-> env, at |-> "provider", round |-> 0, todo |-> << >>]
Places == {"provider", "calls", "approve", "exec", "child", "envelope"}

Init ==
  /\ headless \in BOOLEAN /\ trust \in {"ask", "mode-yolo", "yolo"}
  /\ loop = "next" /\ typed = 0 /\ aborted = FALSE
  /\ stack = << >> /\ cache = [w \in Who |-> {}]
  /\ registered = {} /\ known = {}
  /\ audit = << >> /\ written = 0 /\ lines = 0 /\ resumes = 0 /\ granted = {}

Top == Last(stack)
Below == Front(stack)
SetTop(f) == Append(Below, f)
InChild == Top.who # Root
Answered(f) == [f EXCEPT !.at = "calls", !.todo = Tail(@)]

Running == loop \notin {"closed", "down"}
OnStack == {stack[i].who : i \in DOMAIN stack} \ {Root}
Asking == stack # << >> /\ Top.at \in {"approve", "envelope"}

Terminals == {"Completed", "Halted", "Aborted"}
Recorded(c) == {r.kind : r \in {x \in Range(audit) : x.who = c}}
(* findDanglingSpawns and activeSubagents                                  *)
OpenSpawn(c) == "Spawned" \in Recorded(c) /\ Recorded(c) \cap Terminals = {}
FreshChildren == {c \in Children : c \notin registered /\ Recorded(c) = {}}

Records(c, kinds) == [i \in DOMAIN kinds |-> [who |-> c, kind |-> kinds[i]]]
Emit(c, kinds) == audit' = audit \o Records(c, kinds)

(***************************************************************************)
(* The end of the turn and of a child session.  Leaving a child takes it   *)
(* off both registries (the two `finally` blocks) and answers the          *)
(* delegate call of its parent.                                            *)
(***************************************************************************)
turnEnds == loop' = "next" /\ stack' = << >> /\ UNCHANGED bookkeeping

childLeaves ==
  /\ stack' = Append(Front(Below), Answered(Last(Below)))
  /\ registered' = registered \ {Top.who}
  /\ known' = known \ {Top.who}
  /\ UNCHANGED <<loop, cache, granted>>

childEnds(kinds) == childLeaves /\ Emit(Top.who, kinds)

(* runChildSession rejects: no terminal record is emitted.                 *)
childThrows == childEnds(<< >>)

answer == stack' = SetTop(Answered(Top)) /\ UNCHANGED <<loop, registered, known>>
refuse == answer /\ UNCHANGED <<cache, audit, granted>>

(* The approved call goes to its tool.  evaluateToolCall has recorded      *)
(* `kinds` for a child, and the resolver may still turn the call down.     *)
execute(kinds) ==
  /\ Emit(Top.who, kinds)
  /\ \/ stack' = SetTop([Top EXCEPT !.at = "exec"]) /\ UNCHANGED <<loop, registered, known>>
     \/ kinds # << >> /\ answer

(***************************************************************************)
(* The input loop.  A line typed while nobody waits for it is buffered;    *)
(* while a dialog is open the keys go to the dialog.  From the end of a    *)
(* turn to waitForInput no key or signal is delivered ("next").            *)
(***************************************************************************)
beginTurn == loop' = "turn" /\ stack' = <<Frame(Root, 0, {})>>

typeLine ==
  /\ ~headless /\ ~aborted /\ ~Asking /\ lines < MaxLines
  /\ lines' = lines + 1
  /\ \/ loop = "waiting" /\ beginTurn /\ UNCHANGED typed
     \/ loop = "turn" /\ typed' = typed + 1 /\ UNCHANGED <<loop, stack>>
  /\ UNCHANGED <<launch, aborted, bookkeeping, written, resumes>>

typeExit ==
  /\ loop = "waiting" /\ ~aborted /\ loop' = "teardown"
  /\ UNCHANGED <<launch, typed, aborted, stack, bookkeeping, written, lines, resumes>>

(* waitForInput; a headless launch has one line at most, all of stdin.     *)
waitForInput ==
  /\ loop = "next"
  /\ \/ ~headless /\ typed > 0 /\ typed' = typed - 1 /\ beginTurn /\ UNCHANGED lines
     \/ ~headless /\ typed = 0 /\ loop' = "waiting" /\ UNCHANGED <<typed, stack, lines>>
     \/ headless /\ lines = 0 /\ lines' = 1 /\ beginTurn /\ UNCHANGED typed
     \/ headless /\ loop' = "teardown" /\ UNCHANGED <<typed, stack, lines>>
  /\ UNCHANGED <<launch, aborted, bookkeeping, written, resumes>>

teardownSession ==
  /\ loop = "teardown" /\ loop' = "closed"
  /\ written' = Len(audit)
  /\ UNCHANGED <<launch, typed, aborted, stack, bookkeeping, lines, resumes>>

(***************************************************************************)
(* A turn and a child session are the same loop over provider and calls:   *)
(* continueAssistantTurn and runChildSession.                              *)
(***************************************************************************)
AtPlace(p) == loop = "turn" /\ Top.at = p
quiet == UNCHANGED <<launch, typed, aborted, written, lines, resumes>>

providerFails ==
  /\ AtPlace("provider")
  /\ IF InChild THEN childEnds(<<"Aborted">>) ELSE turnEnds
  /\ quiet

providerStops ==
  /\ AtPlace("provider")
  /\ IF InChild THEN childEnds(<<"Completed">>) ELSE turnEnds
  /\ quiet

providerCalls ==
  /\ AtPlace("provider")
  /\ \E batch \in Batches : stack' = SetTop([Top EXCEPT !.at = "calls", !.todo = batch])
  /\ UNCHANGED <<loop, bookkeeping>> /\ quiet

(* The signal is looked at before a round and before each call, by a child *)
(* only.  The last round of a child ends it with Aborted.                  *)
(* Mutant: the bound is compared before the round is counted.              *)
nextRoundOffByOne ==
  /\ AtPlace("calls") /\ Top.todo = << >>
  /\ IF Top.round < MaxRounds /\ ~(InChild /\ aborted)
     THEN /\ stack' = SetTop([Top EXCEPT !.at = "provider", !.round = @ + 1])
          /\ UNCHANGED <<loop, bookkeeping>>
     ELSE IF InChild THEN childEnds(<<"Aborted">>) ELSE turnEnds
  /\ quiet

nextRound ==
  /\ AtPlace("calls") /\ Top.todo = << >>
  /\ IF Top.round + 1 < MaxRounds /\ ~(InChild /\ aborted)
     THEN /\ stack' = SetTop([Top EXCEPT !.at = "provider", !.round = @ + 1])
          /\ UNCHANGED <<loop, bookkeeping>>
     ELSE IF InChild THEN childEnds(<<"Aborted">>) ELSE turnEnds
  /\ quiet

AtCall == AtPlace("calls") /\ Top.todo # << >>
Call == Head(Top.todo)

cancelBatch == AtCall /\ InChild /\ aborted /\ childEnds(<<"Aborted">>) /\ quiet

(***************************************************************************)
(* resolveToolCallResult for the orchestrator, evaluateChildToolCall and   *)
(* executeChildToolCall for a child.  preflight lets a delegate call pass  *)
(* below the depth cap only (here also: while a child is left).            *)
(***************************************************************************)
Live == AtCall /\ ~(InChild /\ aborted)
InEnvelope == Call.tool \in Top.env
Preflight == Call.tool = Delegate => Top.depth < MaxDepth /\ FreshChildren # {}
Asks == /\ Call.tool \in Gated \cup {Delegate} /\ trust = "ask"
        /\ Call \notin cache[Top.who] /\ ~InEnvelope

(* A missing tool, a schema violation, failed normalisation, preflight.    *)
rejectCall == Live /\ refuse /\ quiet

admitCall ==
  /\ Live /\ ~Asks /\ (InChild => InEnvelope) /\ Preflight
  /\ execute(<< >>) /\ UNCHANGED <<cache, granted>> /\ quiet

(* Outside the envelope the gate is asked first, with the raw arguments:   *)
(* delegate.deriveApprovalKey throws on them.                              *)
escalateCall ==
  /\ Live /\ InChild /\ ~InEnvelope /\ ~Asks /\ Call.tool # Delegate
  /\ execute(<<"Escalated">>) /\ UNCHANGED <<cache, granted>> /\ quiet

delegateThrows ==
  /\ Live /\ InChild /\ ~InEnvelope /\ Call.tool = Delegate
  /\ childThrows /\ quiet

askApproval ==
  /\ Live /\ Asks /\ (InChild => Call.tool # Delegate) /\ Preflight
  /\ \/ ~headless /\ ~aborted /\ stack' = SetTop([Top EXCEPT !.at = "approve"])
        /\ UNCHANGED <<loop, bookkeeping>>
     \/ ~headless /\ aborted /\ refuse
     \/ headless /\ (IF InChild THEN childEnds(<<"Halted">>) ELSE turnEnds)
  /\ quiet

toolEnds ==
  /\ AtPlace("exec") /\ Call.tool # Delegate
  /\ refuse /\ quiet

(* executeDelegate, openChild and runChildWithLifecycle up to the envelope *)
(* prompt.  Without an interactor the child halts before anything else can *)
(* run, and its registration is undone.                                    *)
(* The first records of a child that may start.                            *)
Started == <<"EnvelopeApproved", "Spawned">>

(* Only --yolo starts a child unasked; securityMode does not.              *)
ChildFrame(c) ==
  [Frame(c, Top.depth + 1, Call.env) EXCEPT !.at = IF trust = "yolo" THEN @ ELSE "envelope"]

openChild ==
  /\ AtPlace("exec") /\ Call.tool = Delegate
  /\ IF aborted \/ (headless /\ trust # "yolo")
     THEN refuse
     ELSE LET c == CHOOSE x \in FreshChildren : \A y \in FreshChildren : x <= y
          IN  /\ registered' = registered \cup {c}
              /\ known' = known \cup {c}
              /\ stack' = Append(SetTop([Top EXCEPT !.at = "child"]), ChildFrame(c))
              /\ Emit(c, IF trust = "yolo" THEN Started ELSE << >>)
              /\ UNCHANGED <<loop, cache, granted>>
  /\ quiet

(***************************************************************************)
(* The dialogs.  The approval dialog of the orchestrator has two answers;  *)
(* those of a child go through the IpAuthority, where Esc and the unmount  *)
(* reject the request: around the envelope prompt the Cancellation becomes *)
(* an aborted result, out of evaluateToolCall it escapes runChildSession.  *)
(***************************************************************************)
Replies == {"approve", "deny", "escape"}

approveEnvelope ==
  /\ stack' = SetTop([Top EXCEPT !.at = "provider"])
  /\ Emit(Top.who, Started)
  /\ granted' = granted \cup {<<Top.who, k>> : k \in {x \in Calls : x.tool \in Top.env}}
  /\ UNCHANGED <<loop, cache, registered, known>>

(* Mutant: a child shares the cache of its parent.                         *)
rememberShared ==
  /\ cache' = [w \in Who |-> cache[w] \cup {Call}]
  /\ granted' = granted \cup {<<Top.who, Call>>}

remember ==
  /\ cache' = [cache EXCEPT ![Top.who] = @ \cup {Call}]
  /\ granted' = granted \cup {<<Top.who, Call>>}

answerEnvelope(reply) ==
  \/ reply = "approve" /\ approveEnvelope
  \/ reply = "deny" /\ childEnds(<<"EnvelopeDenied">>)
  \/ reply = "escape" /\ childEnds(<< >>)

answerApproval(reply) ==
  \/ reply = "approve" /\ remember /\ execute(IF InChild THEN <<"Escalated">> ELSE << >>)
  \/ (reply = "deny" \/ (reply = "escape" /\ ~InChild)) /\ refuse
  \/ reply = "escape" /\ InChild /\ childThrows

(* A dialog rejects when it is dismissed; the wait for an envelope's answer *)
(* rejects with the child's signal besides, whichever comes first.         *)
settle(reply) == IF Top.at = "envelope" THEN answerEnvelope(reply) ELSE answerApproval(reply)

userAnswers == Asking /\ (\E reply \in Replies : settle(reply)) /\ quiet

(***************************************************************************)
(* SIGINT cancels the session scope and unmounts the UI, which rejects the *)
(* waitForInput under way, drops the buffered lines and dismisses the      *)
(* dialog; teardown takes the handler off first.  A second SIGINT exits at *)
(* once: like a crash, it loses what is not on disk.  Resuming reads the   *)
(* log and closes what it finds open.                                      *)
(***************************************************************************)
(* Mutant: the unmount leaves the dialog open.                             *)
sigintKeepsDialog ==
  /\ loop \in {"waiting", "turn"} /\ ~aborted /\ aborted' = TRUE
  /\ typed' = 0
  /\ loop' = (IF loop = "waiting" THEN "teardown" ELSE loop)
  /\ UNCHANGED <<stack, bookkeeping>>
  /\ UNCHANGED <<launch, written, lines, resumes>>

dismissed == Asking /\ settle("escape")

sigint ==
  /\ loop \in {"waiting", "turn"} /\ ~aborted /\ aborted' = TRUE
  /\ typed' = 0
  /\ \/ dismissed
     \/ ~Asking /\ loop' = (IF loop = "waiting" THEN "teardown" ELSE loop)
        /\ UNCHANGED <<stack, bookkeeping>>
  /\ UNCHANGED <<launch, written, lines, resumes>>

(* The file logger writes in order and behind: what it has not written is  *)
(* lost, which may be anything since the last teardown or crash.           *)
crash ==
  /\ Running /\ loop' = "down"
  /\ stack' = << >> /\ registered' = {} /\ known' = {} /\ typed' = 0
  /\ \E n \in written..Len(audit) : written' = n /\ audit' = SubSeq(audit, 1, n)
  /\ UNCHANGED <<launch, aborted, cache, granted, lines, resumes>>

(* Mutant: the scan does not look for the terminal records.                *)
EverySpawn == {c \in Children : "Spawned" \in Recorded(c)}

(* findDanglingSpawns, in any order: in the code it is that of the log,    *)
(* and nothing depends on it.                                              *)
Dangling == {c \in Children : OpenSpawn(c)}

resume ==
  /\ ~Running /\ resumes < MaxResumes /\ resumes' = resumes + 1
  /\ loop' = "next" /\ aborted' = FALSE /\ typed' = 0 /\ lines' = 0
  /\ \E order \in Bijection(1..Cardinality(Dangling), Dangling) :
       audit' = audit \o [i \in DOMAIN order |-> [who |-> order[i], kind |-> "Aborted"]]
  /\ cache' = [w \in Who |-> {}] /\ granted' = {}
  /\ UNCHANGED <<launch, stack, registered, known, written>>

Progress ==
  \/ waitForInput \/ teardownSession
  \/ providerFails \/ providerStops \/ providerCalls \/ nextRound \/ cancelBatch
  \/ rejectCall \/ admitCall \/ escalateCall \/ delegateThrows \/ askApproval
  \/ toolEnds \/ openChild

Next ==
  \/ Progress \/ typeLine \/ typeExit \/ userAnswers
  \/ sigint \/ crash \/ resume

Spec == Init /\ [][Next]_vars
(* The program runs on; the user, the signals and the log owe nothing.     *)
FairSpec == Spec /\ WF_vars(Progress)

-----------------------------------------------------------------------------
(***************************************************************************)
(* Properties.                                                             *)
(***************************************************************************)

(* Every variable keeps its shape: no more sessions than the depth cap     *)
(* allows, no more rounds than the limit, and a log on disk that is a      *)
(* prefix of what was recorded.                                            *)
TypeOK ==
  /\ headless \in BOOLEAN /\ trust \in {"ask", "mode-yolo", "yolo"}
  /\ loop \in {"next", "waiting", "turn", "teardown", "closed", "down"}
  /\ typed \in 0..MaxLines /\ aborted \in BOOLEAN
  /\ \A i \in DOMAIN stack :
       /\ stack[i].who = Root <=> i = 1
       /\ stack[i].who \in Who /\ stack[i].depth = i - 1 /\ stack[i].depth <= MaxDepth
       /\ stack[i].at \in Places /\ (stack[i].at = "child" <=> i < Len(stack))
       /\ stack[i].round \in 0..MaxRounds - 1
  /\ loop = "turn" <=> stack # << >>
  /\ cache \in [Who -> SUBSET Calls]
  /\ registered \subseteq Children /\ known \subseteq Children
  /\ \A i \in DOMAIN audit : audit[i].who \in Children
  /\ written \in 0..Len(audit)
  /\ lines \in 0..MaxLines /\ resumes \in 0..MaxResumes

(* The records of one child tell one story, through crashes and resumed    *)
(* sessions: at most one envelope decision before anything else, at most   *)
(* one spawn and one terminal record, nothing after the terminal one.      *)
Position(c, kinds) == {i \in DOMAIN audit : audit[i].who = c /\ audit[i].kind \in kinds}
OneStory ==
  \A c \in Children :
    LET decided == Position(c, {"EnvelopeApproved", "EnvelopeDenied"})
        spawned == Position(c, {"Spawned"})
        ended   == Position(c, Terminals)
        others  == Position(c, {"Spawned", "Escalated"} \cup Terminals)
    IN  /\ Cardinality(decided) <= 1 /\ Cardinality(spawned) <= 1 /\ Cardinality(ended) <= 1
        /\ \A o \in others : \E d \in decided : d < o /\ audit[d].kind = "EnvelopeApproved"
        /\ \A e \in ended : \A o \in others : o <= e
        /\ \A e \in ended : \E b \in spawned : b < e

(* While the process runs, the registry of the session, the IpAuthority    *)
(* and the sessions under way name the same children, however each left:   *)
(* answered, refused, cancelled or thrown out.                             *)
RegistriesAgree == registered = OnStack /\ known = OnStack

(* A child past its envelope prompt that has not ended is open in the log, *)
(* so activeSubagents and the resume scan see it.                          *)
LiveChildIsOpen ==
  \A i \in DOMAIN stack : stack[i].who # Root /\ stack[i].at # "envelope" => OpenSpawn(stack[i].who)

(* The three accounts of a child agree: log, registries, running sessions. *)
ChildRecordsAddUp == OneStory /\ RegistriesAgree /\ LiveChildIsOpen

(* A gated tool runs for a session only under a yolo trust or after the    *)
(* user approved it for that session, directly or with its envelope: an    *)
(* approval never leaks between a parent, its children and a resumed       *)
(* session, and a child runs under --yolo alone or an approved envelope.   *)
ToolsRunOnlyIfApproved ==
  \A i \in DOMAIN stack :
    stack[i].at \in {"exec", "child"} =>
      LET k == Head(stack[i].todo)
      IN  k.tool \in Gated \cup {Delegate} /\ trust = "ask" => <<stack[i].who, k>> \in granted

(* A cancelled turn ends: nothing of it waits for an answer nobody can     *)
(* give once the UI is unmounted.                                          *)
CancelledTurnEnds == (aborted /\ loop = "turn") ~> (loop # "turn")

(* What run-child.ts states: a child that has left was recorded as         *)
(* completed, halted or aborted.                                           *)
SpawnedEndsRecorded ==
  Running => \A c \in Children : OpenSpawn(c) => c \in OnStack

(* What installSigintCascade states: after SIGINT waitForInput rejects, so *)
(* that the loop unwinds into teardown.                                    *)
CancelEndsInput == aborted => loop # "waiting"

=============================================================================
