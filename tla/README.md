# stud-cli: TLA+ models and proofs

stud-cli is a command-line agent in TypeScript: a session takes lines from a user, asks a
language-model provider, runs the tools the provider requests after their approval, lets a tool
open child sessions, and keeps its state in files. Its code is single-threaded, and everything in
it that is hard is asynchronous: calls that stand at an `await` while other calls, answers,
timers, signals and crashes go on. A second difficulty is that many rules are written more than
once (in a contract and in the core, by the writer of a file and by its readers), and nothing but
care keeps the versions together.

This directory holds TLA+ models of the parts where that matters, TLC configurations that check
them on small instances, and proofs, checked by TLAPS, of what holds for every instance. Paths in
this document are relative to `src/src/`.

- [1. The system](#1-the-system)
- [2. Modules](#2-modules)
- [3. What the runs check](#3-what-the-runs-check)
- [4. What is proved](#4-what-is-proved)
- [5. Findings](#5-findings)
- [6. What is not modelled](#6-what-is-not-modelled)
- [7. Plan](#7-plan)

## 1. The system

### 1.1 Components

What each component keeps, what can be done to it, and what makes it hard and correct.

**Turns**

| component | code | state | operations | what makes it hard | what makes it correct |
|---|---|---|---|---|---|
| Message loop | `core/loop/orchestrator.ts`, `stage-runner.ts`, `loop-bound.ts` | handlers, pass counter, cap flag | `registerStage`, `runTurn` | any stage may throw; the bound meets tool rounds | events nest on every path; the bound cuts after exactly that many passes and never with tools running; a turn ends |
| TOOL_CALL stage | `core/loop/stages/tool-call.ts` | approvals so far, running executors, results by id | one invocation per round | approvals in order, executors concurrent, a late halt | nothing runs before the last verdict; each call answered once, in request order |
| Other stages | `core/loop/stages/` | chunks and calls of a stream, history | five handlers | parts of several calls interleave; a store that fails | calls and text reach the next stage as streamed; the user sees nothing the history lacks |
| State-machine stages | `core/sm/`, `extensions/state-machines/ralph/` | executions, their phases, grants, attachment | four drivers, grants, `attach` | an abort in every phase, a fan-out whose first failure aborts its siblings | siblings settle together, the failure reported is one that happened; a grant ends with its stage |
| Scopes and turn queue | `core/concurrency/`, `core/events/command-ordering.ts` | tree of scopes, chain of turns, ordered stream | cancel, enqueue, drain | children made while an abort is under way | nothing below an aborted scope is live; turns start in order |
| Context | `core/context/`, `extensions/context-providers/`, `extensions/tools/context-compaction/` | fragments, history, cached prompt | assemble, compact, provide | budgets, providers that fail, a read that spans turns | a request fits its window; what is reported compacted is |
| Provider streams | `extensions/providers/`, `cli/runtime/provider-stream.ts` | buffer, assembler, accumulator | events of a request | chunks cut anywhere, calls told twice, in pieces or without ids | each call once and whole; the message keeps the stream's order |

**Approval and trust**

| component | code | state | operations | what makes it hard | what makes it correct |
|---|---|---|---|---|---|
| Approval stack | `core/security/approval/`, `core/security/modes/gate.ts` | consumed grant tuples, session cache | `runApprovalStack` | four authorities, several calls at an `await` at once | an approval had an authority, passed the guards and was audited; a grant is used once |
| Tool routing | `cli/runtime/tool-resolver.ts`, `tool-registry.ts`, `tool-approval.ts` | remembered approval keys | resolve a call | keys that stand for several paths; calls that end early on seven paths | a call runs within what was approved; every call is closed in the audit trail as in the events |
| Approval cache | `core/security/approval/persistence.ts`, `cache.ts` | map, file, temporary | open, add, clear | crashes and failures between truncation and rename; overlapping flushes | the file reopens with what was last acknowledged; session approvals never reach it |
| Project trust | `core/security/trust/`, `core/project/trust-gate.ts` and three readers | document in memory, file | grant, decline, revoke, clear, gate | memory ahead of a failed write; one file and several parsers | trusted means somebody agreed; a grant is reported once it would survive, or after the write of that very change failed |
| MCP trust | `core/mcp/trust.ts` | two lists | grant, clear, load | read, change and write with awaits between | a server whose clear nobody overlapped stays cleared |
| Interaction authority | `cli/runtime/ip-authority.ts` | queue, `processing` flag, timers, subagents | raise, register, unregister, answers | microtasks, timers that race answers, a three-key comparator | one prompt at a time, none stranded, each settled by its own answer |
| Race arbiter | `core/interaction/arbiter.ts` | pending count, dismiss subscriptions | `raise` | several interactors answer, fail or throw | one winner in event, dismissals and result; nothing leaks but a request that throws at once |
| Interaction protocol | `core/interaction/protocol.ts`, `timeout.ts` | queue, `isRunning`, pending count | `raise`, `raiseWithTimeout`, dismissals | the timer settles the caller and leaves the entry | strict order, never idle, callers told the truth |

**Sessions**

| component | code | state | operations | what makes it hard | what makes it correct |
|---|---|---|---|---|---|
| Session loop | `cli/runtime/session-loop.ts`, `provider-stream.ts`, `tool-approval.ts` | history, approval cache, where the loop stands | turns, tool rounds, teardown | SIGINT in every place, headless and yolo launches, crashes | a cancelled turn ends; tools run only when approved |
| Subagent sessions | `core/subagent/`, `cli/runtime/subagent-*.ts`, `extensions/tools/delegate/` | registries, envelopes, audit records | open, escalate, end, resume scan | a child may leave by result, cancellation or exception; the log ends anywhere | log, registries and running sessions agree |
| Launch | `cli/runtime.ts`, `cli/runtime/bootstrap*.ts`, `storage.ts`, `session-store.ts` | settings, secrets, trust, manifests | one launch, step by step | a launch stops anywhere and another follows | references resolve; project settings need consent; a resumed session is the one persisted |
| Providers and parameters | `cli/runtime/swap-commands.ts`, `params-*.ts`, `runtime-context-registry.ts` | entry in use, contexts, parameter leaves | swap, set, unset, edit of the settings | a swap fails at any of its steps | the entry in use has its context; parameters stay valid for it |
| Session lifecycle and persistence | `core/session-lifecycle/`, `core/persistence/`, `extensions/session-stores/filesystem/` | state, manifest, temporary | trigger, write, resume | triggers overlap a delivery; kills in a write | resumes from the last acknowledged snapshot of its own store |
| Audit trail | `core/observability/`, `extensions/loggers/file/` | writers, log, rotated files | emit, rotate, prune, close | appends and rotations overlap | a record an open stream has taken is in a file; none is mixed or torn |
| Terminal interface | `extensions/ui/default-tui/` | transcript, drafts, cards, dialogs, input queue | events, keys, submit, answer, unmount | everything arrives while something else is half done | the screen tells what happened; lines reach the loop once; nobody waits for an answer that cannot come |
| Runtime collector | `core/host/internal/runtime-collector.ts` | snapshot, timer, subscribers | write, subscribe, publish, dispose | listeners that change what is published; token listeners called before the update is scheduled | at rest nobody has an old snapshot |

**Extensions and tools**

| component | code | state | operations | what makes it hard | what makes it correct |
|---|---|---|---|---|---|
| Lifecycle manager | `core/lifecycle/manager.ts` | registry, state per extension, subscriptions | load, activate, deactivate, dispose, disposeAll | callbacks that fail; calls that overlap | an active extension has active dependencies; disposal is final and complete |
| Dependency order | `core/lifecycle/dag.ts`, `topological.ts`, `cycle-detector.ts`, `phase-runner.ts`, `contracts/dependency-resolution.ts` | none | three orders | written three times | the orders agree with the graph and with each other |
| Installation and discovery | `core/install/`, `core/discovery/`, `contracts/validation-pipeline.ts` | files, marker, layers | install, discover, validate | a copy that stops; overrides that fail | a marked release has all its files, and they are its own unless a copy was cut short; nothing valid is lost |
| Hooks | `core/hooks/` | orders of three scopes, one slot run | run a slot | concurrent observers, cancellation | observers see what the transforms made, and settle with the slot |
| Contract rules | `contracts/` | none | version, deprecation, negotiation, cardinality and slot rules | each is stated again in the core | both statements accept the same, or differ where it is known |
| MCP client | `core/mcp/client.ts`, `reconnect.ts`, `prompt-consume.ts`, `resource-binding.ts` | connections by server | connect, use, disconnect, reconnect | late callbacks of old transports, which delete by server name | a registered connection is open; every call ends |
| File tools | `extensions/tools/edit`, `extensions/tools/simple-tools/` | files, temporaries | edit, write, read, list | overlapping calls on one file | a file is never half a text; results tell the truth |
| Running tools | `extensions/tools/bash`, `web-fetch`, `ask-user`, the CLI-wrapper provider | processes, pipes, timers | run, stop, read | a timer, a signal, an exit and open pipes race | output is what was written; what timed out ends |

The components left out, each with its reason, are in `PROJECT.json` and in section 6.

### 1.2 How they interact

The session loop calls the provider and, for every tool call of a reply, the tool resolver; the
resolver asks the approval stack through `tool-approval.ts`; where the mode says so the stack asks
the user through the interaction authority; the authority shows one prompt of the whole session at
a time by raising an event that the terminal answers with another. The `delegate` tool opens a
child session inside a tool call of its parent. The child runs a loop of its own over the same
resolver, asks through the same authority, and records what becomes of it on the audit bus, whose
records the file logger appends to the session's log; a resumed session reads that log and closes
children that were cut off. SIGINT aborts the session's scope, dismisses open prompts and unmounts
the terminal. A launch reads and writes settings, secrets, trust and manifests before the loop
starts, and `/provider`, `/model` and `/params` change what the next request is sent to and with.

The message loop with its stages, the state-machine driver, the arbiter, the single-interactor
protocol, the persistent approval cache, the session lifecycle and the lifecycle manager are
libraries of `core` which the command line does not yet call at this commit (their callers are the
tests); their contracts stand in their own code and comments.

Shared state is where two of these meet: a file (trust, approvals, manifest, log, workspace), a
map (connections by server, grants by tuple, contexts by entry), or a queue (prompts, turns, lines).

### 1.3 Hazards

`PROJECT.json` lists under `hazards` what a test would hardly reach in this code, each at its
line with the properties that would catch it. They fall into seven groups: calls that overlap at an
`await` and use state from before it; failures in the middle of a sequence that must leave things
usable; crashes between the steps of a write; timers that race answers; queues that must neither
strand nor reorder; bounds tested next to an increment, and chunks cut at a boundary; rules and file
layouts stated in two places. One has no property: the repository does not say what the history
should hold after a batch of calls was abandoned. Some have a property that covers them in part, as the code
itself fails in the rest; their notes name the case, and section 5 lists it.

## 2. Modules

    ToolCallStage <- MessageLoop <- MCMessageLoop           with StageMachine, ToolRuns, McpClient
    MCMessageLoop <- MessageLoopProofs
    ApprovalStack <- MCApprovalStack                        with ToolRouting, TrustStore, McpTrust,
    MCApprovalStack <- ApprovalStackProofs                       TuiTranscript, TuiDialogs, RuntimeCollector
    PromptService <~ IpAuthority <- MCIpAuthority           with InteractionProtocol, RaceArbiter
    MCIpAuthority <- IpAuthorityProofs
    DurableFile <~ AtomicFile <- ApprovalPersistence <- ApprovalPersistenceProofs
    ExtensionLifecycle <- MCExtensionLifecycle              with ExtensionIntake, HookSlots, ProviderParams, Launch
    ExtensionLifecycle <- ExtensionLifecycleProofs
    MCExtensionLifecycle, ExtensionLifecycleProofs <- SessionSetupProofs
    MCSessionRecords                                        with ProviderStreaming, ContextAssembly, SMAttachment,
                                                                 TurnScopes, LoopStages, AuditTrail,
                                                                 SessionStates, FileTools
    MCSessionRecords <- SessionRecordsProofs
    ProviderSession <- ProviderSessionProofs

    <-  EXTENDS       <~  is implemented by (INSTANCE ... WITH)       with  INSTANCE ... WITH

**Parts.** The components of one MC module share no state, so that the product of their state spaces
would only repeat each of them. Such a module therefore has a variable `part`: a behaviour explores the
part it chose at the start, and the variables of the others keep an initial value. TLC's work is the
sum, not the product, and a property of a part is checked on all behaviours of that part. Where
components do interact, one module has both (the loop with TOOL_CALL, the session with its
children, the cache over the file protocol, routing with the approvals it remembers).

**Conventions.** An action is one stretch of code that runs without interruption: from a call or the
end of an `await` to the next `await` or return. Actions have the name of the function they model or
of the point in it. History variables record what properties need and no action reads them; they are
marked in the declarations. Definitions under a comment "Mutant:" are wrong on purpose: each is a
plausible slip in the definition below it, and the run named for it in `PROJECT.json` must then
fail. Each bound is a CONSTANT.

### 2.1 Turns

**ToolCallStage** models one handler invocation. `cursor` is the loop over the requested calls, with
`ApproveCall`, `DenyCall`, `HaltCall` and `ApprovalThrows` for what the injected approval stack does;
`DispatchAll` starts every approved executor in one step, as the code's `map` does;
`ExecutorSettles` ends one of them, in any order; `ReturnResults` is the continuation after
`Promise.all`. `resultsById` is the code's map, keyed by call id; that ids are distinct within a
reply is an assumption, stated as `CallListsAssumption`.

**MessageLoop** composes it with the turn: `pc` and `inside` say which stage runs, `beginPass` and
`hitBound` are the top of the loop, `stageThrows` is a rejection in any stage and `endTurn` the
`finally`. Handlers other than TOOL_CALL are injected in the code and free in the model.

**LoopStages** is what those handlers do when they are the code's own: the input that is validated, the
request composed and sent, the parts of the stream gathered into text and calls (`toolCall` and
`toolCallDelta` are the two ways a call arrives, `resolveToolCalls` their end), the pass after the tools,
and the rendering, which writes the history before the screen.

**StageMachine** has a record per stage execution (`runs`), each walking its seven phases and losing
its race against the signal in any of them, and the four drivers of `core/sm`: `schedule`,
`runSequential`, `runParallel` and `runJoin`. `failFast` is the signal the first failing sibling aborts;
`turn.firstFailure` is what the code will report. The graph of stages is that of the bundled machine.
**SMAttachment** has the maps of the grant store (`tokens`, `consumed`, `keysByStage`, `cleared`) and
`attach` from await to await with its slot.

**TurnScopes** has the tree of scopes (`cancel` reaches all below, `buildScope` makes children), the
serializer's chain and the ordered stream with its drain. **ContextAssembly** is one assembly: providers
in order, budgets and compaction; beside it the leak scan (`enforceIsolation`, over system prompt, history, tools
and fragments), which is an operation of its own that the assembler never calls, the provider runtime with its
exclusive slots, and the sources: the compactor, the compaction tool up to its audit record, and the provider that
caches the system prompt for a turn.

**ProviderStreaming** takes a wire as marks (a data line, a return, a newline), so that a chunk may end
between any two and lines may end as they like; `drainSseBuffer` and `toolCallDeltaEvents` are the parser's
functions over sequences, `separatorLength` with its guess of four included. A stream may end without a finish,
and then completes as the code lets it. It goes on from there with two adapters (`adapter`),
the assembler of calls (`pending`, `yieldedIds`) and the accumulator of a reply (`acc`). **McpClient** has
the map of connections, the transports with their late callbacks (`onclose` and `onerror` delete whatever is
registered under the server's name), and calls that connect, use, lose and retry; the delay before an attempt,
which the code draws at random, is a moment of any length. **ToolRuns** has one subprocess with its process group, pipes, timer and byte count, a fetch, and
a question to the user.

### 2.2 Approval and trust

**ApprovalStack** is the run of several calls through the stack at once. Every `await` (the state
machine's grant, the user's answer, each guard, the audit write) is a place in `st`, and what comes
back is free, rejections included. A grant tuple is a pair of proposal and tool, an approval key a
model value, and validation a subset of the keys; the settings of a session are chosen in `Init`.

**ToolRouting** is a call on its way through the resolver, a place per stage; directories are sequences of
names, so that `pathApprovalCovers` is a prefix test, and a key that is derived from several paths
(`diffKeys`) is computed as the code does. **TrustStore** has the document in memory and the file with its
format; `grant`, `decline`, `revoke` and `clear` change memory, then write; the gate audits after the
write. `unwritten` are the projects whose own change this process failed to write, until a write succeeds. **McpTrust** has two files and calls that read, change and write with awaits between; `cleared` are the servers whose last clear no other call
overlapped.

**IpAuthority** has the queue, the microtasks (`wakeups`), the processing loop (`processNextStarts`,
`processNextContinues`, `processNextLeaves`) and timers. The queue is a set: the code sorts it by a
comparator before every shift, and `SortedFirst` is the set of entries that sort may put first. The
clock is the tick number that ties depend on. **PromptService** is what it promises: requests are
shown one at a time and each is settled once, after it was shown.

**RaceArbiter** and **InteractionProtocol** model the two interaction libraries, with interactors that
answer, fail or throw when dismissed; `raiseThrows` is an interactor that throws before it has returned a
promise, after which that request stays counted and subscribed, as in the code. In InteractionProtocol `raisePlain` and `raiseWithTimeout` are
the two ways into the one queue; `timerFires` settles the caller while the entry goes on.

**AtomicFile** is the write protocol of `atomicWrite`, one action per `await`, down to inodes:
`tmp` and `file` are the names, `handle` what a call has open, `content` and `dirty` the bytes, so
that two calls through the same temporary name do to each other what they would do on disk. Any step
may fail; a crash may keep or lose what was not synced. **DurableFile** is the abstract file whose
writes take effect at once or not at all. **ApprovalPersistence** adds the cache's map, its scopes
and its sessions.

### 2.3 Sessions

**ProviderSession** is a session of the command line. Calls of one session are sequential and a child
runs inside a call of its parent, so that the sessions under way are a `stack` of records (the frame
says where each stands, its round, the calls left). Interleaved with them are the user (`typeLine`,
`typeExit`, `userAnswers`), `sigint`, `crash` and the writing of the log: `audit` is the sequence of
records, `written` how many are on disk for certain; a crash keeps any prefix from there on.
`resume` starts over with that log and runs the scan of `core/subagent/resume-scan.ts`. The launch
mode (headless, yolo, security mode) is chosen in `Init`.

**Launch** is one launch after another over the files they share: `run.place` is where a launch stands,
any step may throw or be its last, and the next launch finds what was written. `saves` is the history of all
manifests persisted, by the launch or by a turn that ended. **ProviderParams** keeps the
parameters as the code does, a list of leaves with the layer each is from, and takes a swap through
validation, preparation, saving and publication. **SessionStates** joins the transition table, the snapshot
writer and `resumeSession`; triggers stand at the slot delivery, writes at each system call.
**AuditTrail** has the bus that does not wait, the logger's writers (one may be closed under an append),
rotation and retention. **TuiTranscript** and **TuiDialogs** are the terminal: the first from events and keys to
items, cards and lines, in both renderers; the second the dialogs with the promises behind them.
**RuntimeCollector** has the state, the snapshot made of it, the timer, and the loop over subscribers
which may change while it runs. An update of the tokens is two steps, as the token listeners are called between the
change and its scheduling (`emitting`), and one of them may throw (`tokenListenerThrows`).

### 2.4 Extensions and tools

**ExtensionLifecycle** has one record per call under way: its plan (`ensureDependencies` in order,
dependents before their dependency, or all extensions), and the callback it stands at. `thread` is
the call that runs at the moment. `raced` marks that calls whose effects can undo each other have
overlapped; the manager has no protection against that, and the properties are stated without it. A `disposeAll`
over a registry in which a failed load left a dependent without its dependency throws and changes nothing; it
is no step of the model.

**ExtensionIntake** is what an extension passes before it is loaded. It has the installer's copy file by
file with its marker, discovery over three layers, and the contract's validation pipeline. It puts one set of
declarations to the three orders of the code, each written as its algorithm is (a depth-first visit,
counted degrees, a collection of a chain), with folds and, for the visit, a recursive function. And it does
the same for pairs of rules, the contract's and the core's: a step asks one question, and the
properties compare the two answers. **HookSlots** has the merged
order and one slot run. **FileTools** has overlapping calls from check to rename, over texts of single
marks, so that an edit which applies, one that does not and one that is ambiguous all occur.

## 3. What the runs check

| run | instance | distinct states |
|---|---|---|
| `message_loop` | replies with 0, 1 or 2 calls, bounds 1 and 2; four stage plans (a chain, a fan-out of two with its join, one of one, the scheduler) with at most 5 executions; one subprocess of up to 4 bytes where 2 are kept; two callers and two transports of one MCP server, two attempts | 177 thousand |
| `approval_stack` | 2 concurrent calls, 2 tools, 3 keys (one malformed), one proposal, one guard, every mode, envelope and state machine; 14 calls to route; 2 projects; 2 callers of MCP trust; 1 tool call, 2 deltas, 2 keys typed; 2 prompts with 2 replies; 2 listeners and 1 token listener | 2.1 million |
| `ip_authority` | parent and 2 subagents, 3 requests, 2 ticks, with and without timeout; 3 requests to the protocol; 2 overlapping races of 3 interactors | 649 thousand |
| `approval_persistence` | 2 keys, 2 calls under way, 3 inodes, failures and crashes anywhere | 313 thousand |
| `provider_session` | a gated tool and `delegate`, children two deep, 2 rounds, 2 lines, one crash or close and one resumption, every launch mode | 186 thousand |
| `extension_lifecycle` | 3 extensions (top needs mid and base, mid needs base), 2 calls under way; every graph over 3 extensions with up to 2 references each; 2 releases, 2 names in 3 layers; 3 hooks of every kind in 3 slots; 2 entries with 3 configurations; 2 projects, 2 sessions, 3 saves | 906 thousand |
| `session_records` | 3 lines of a wire with two calls; 2 calls and 2 texts of a stream; 2 providers with up to 2 fragments; histories of 2; 2 grants and 2 machines; 3 scopes and 2 turns; 3 parts of a turn; 2 records with a rotation after each; 2 turns and a kill; 2 overlapping file calls | 810 thousand |

Each run checks the type invariants of its modules (`TypesOK`) and:

**message_loop.** `NoDispatchBeforeVerdicts` and `ContinuationAnswersEveryCall` are those of section 4.
`StagesAndOutputWhole`: events nest, the bound cuts where it says, a fan-out leaves no sibling behind and
reports a failure of its own, and the output of a subprocess is kept as it was written up to the limit,
with "truncated" said exactly when something was dropped. `McpCallsFindConnections`: whatever
callbacks arrive late, a connection that is registered is open, and a reconnection gives up only after all
its attempts (that an open connection stays registered does not hold: section 5). `TurnSettles` and `AbortedWorkEnds`: a turn ends; so do an aborted stage driver, a
subprocess past its timeout (unless a descendant left its group and holds the pipes, which the code
cannot end) and every MCP call.

**approval_stack.** `ApprovalIsAuthorised`: with a state machine attached `yolo` alone approves nothing;
without one, an approval in mode `ask` rests on a user's approval of that tool *and* key, although the
cache is read before an `await` and written after it. `GrantIsSingleUse`, `ApprovalPassedGuards`,
`ReturnedIsAudited` are the rest of section 4. `ConsentIsKept`: every directory a routed call touches is one the
user approved for its tool, or below one, with one exception, the root in a diff that mixes it with another
directory; the call is closed in the audit trail with the outcome the host was told; a project that a new
process would find trusted is one somebody agreed to trust, with no refusal written since; an MCP server whose
clear no other call overlapped is untrusted until it is granted again, whatever overlaps later.
`GrantReportedIsWritten`: what the gate audits as granted was consented to, and the file says so, unless this
process failed to write a change to that very project and no write has succeeded since.
`ScreenIsTrue`: what was streamed is on screen once and in order, a card runs only while its call does,
lines reach the loop once and in order; a pending request has a dialog; at rest every listener has what the
collector's state holds, and `snapshot()` returns it whenever no token listener is being called, unless one threw
and nothing was written since.

**ip_authority.** `NoLostWakeup`; `SettledByOwnAnswer`: an answer that arrives after its prompt's timer
fired does not settle the prompt on screen by then; `SpawnOrderAmongChildren` and, in
`OneAnswerPerRequest`, `ShownByTick` are what is left of the documented order (finding 1), with the
strict order, pairing of events and truthful outcomes of the protocol, and the one winner of the
arbiter, with nothing left behind by any request but one whose `raise` threw. `ServiceSpec` is the refinement. `EveryRequestSettles`: again and again everything raised so far is
settled, unless a prompt without a timeout is on the screen, which does hold the queue.

**approval_persistence.** `RestartFindsApprovals`: what the next session loads is the document of the
last flush that reported success, wherever the process stopped; approvals that were cleared do not
return; session approvals are never written.

**provider_session.** `ChildRecordsAddUp`: through crashes and resumptions a child's records tell one
story, and while the process runs, the session registry, the authority and the sessions under way name
the same children, in whatever way each left. `ToolsRunOnlyIfApproved`: approvals do not leak between a
parent, its children and a resumed session. `CancelledTurnEnds`.

**extension_lifecycle.** `ActiveNeedsActiveDeps`. `DisposalIsFinalAndTotal`: a sweep that ends leaves an
extension undisposed only if its own dispose callback, or that of something depending on it, failed in that
sweep. `ExtensionRulesHold`: the three orders agree; the contract's rules and the core's accept the same, for
capabilities up to exactly the claims "probed", which only the contract defers; under an install marker every file
of the release is there, and of that release unless a copy was cut short and not repeated; a project takes away no
valid global extension. `HooksKeepTheirPlace`.
`ConfiguredIsThere`: the entry in use has its context with the configuration the session holds, though
swaps fail at any step; the secret the settings refer to is in the store, whichever step of setting up a
provider a launch broke off at. `ChangesAreAllowed`: after any sequence of commands the bag of parameters a
request is given is valid for its provider, save in two cases where what is validated is not what is applied (a
context older than the settings since edited, and a default whose path is nested with an override's); a session
has a project's settings only by consent that stands; `--continue` takes up, of the sessions that can be read,
the one saved last, with the project and mode of that save (three saves: two sessions with one saved again, or
a session resumed over another's manifest).

**session_records.** `NothingOutlivesItsScope`: a token is held exactly for grants that are neither used nor
outlived by their stage; nothing below an aborted scope is live. `MessagesAreWhole`: the events of a wire do
not depend on its chunks (for each separator `\r\n\n`, which the parser measures wrongly, one event more or
less is allowed), deltas of a call meet under one id; each call told to its end is seen once, and after a
finish no begun one is missing; a request fits its window; what is reported compacted is.
`NothingIsLostOrMixed`: an audit record the logger took is in a log, a rotated file, or was removed there by
retention, and so is one whose append was rejected, unless its writer had been closed or had lost its stream; a
session goes on only from a snapshot of its own store; a file of the workspace never holds half a text (but for
two edits of one file in one millisecond, which share their temporary).
`StepsKeepTheirWord`: retention removes only what is older than what it keeps; a session resumes from the
snapshot last acknowledged or a later one; the result of a file tool no other call overlapped agrees with the file.

Each property has a mutant of the model in `PROJECT.json` that breaks it. Five more runs each show one
violation (section 5).

**Why the bounds are enough.** Interference in this code is between two parties over one cell: two calls
and one grant tuple or cache entry, two writers and one temporary, two callbacks and one extension's
state, an answer and a timer, a rotation and an append. Two of each party is where it happens, and a
third party is added where an order among bystanders matters: three requests in the queues (one settled,
one shown, one waiting), three interactors (a winner, a loser that has answered, a loser that has not),
three extensions (so that dependency is transitive and direct at once, and a cycle may leave one out),
three hooks, three scopes (a child of a child). Inodes: a published file, the one being written, and the
one a slower call still has open. Sessions two deep with two children are a parent, a child and a
grandchild, or two children one after the other; two rounds reach the round limit. Streams have as many
marks as it takes to cut inside a separator with a call on either side. Limits are small enough to be
passed: two bytes kept of four, one rotated file of two, a window of three. Behaviours are otherwise
unbounded: crashes and reopenings of the cache, turns of the loop and lifecycle calls may go on for ever.
Three constraints cut state spaces, none of them what a property is about: `OverlapBound` keeps one project
approval once calls have overlapped (most properties then no longer apply), `RaceEnds` lets lifecycle calls
that have raced run out without starting new ones, and the `Max...` constants bound what users and the
environment do. Symmetry is used where members are interchangeable and no liveness is checked in that run.

**Deadlock** is checked for `message_loop` (its parts other than the loop may be finished, and then
stutter: `MayStop`) and `approval_persistence`. In the others the instance ends when its requests are used
up or its session is closed.

**Fairness.** All of it is the event loop's: a microtask that is queued runs (`Loop`), a timer that is
armed fires (`timerFires`, `timeoutElapses`), the continuation of a promise that has settled runs
(`Continues`, `Resumes`, `Progress`). No fairness is assumed of a user, of interactors, of signals, or of
the log. `TurnSettles` and `CancelledTurnEnds` also assume that handlers and tools come back: a tool
that never ends holds its turn for ever in the code too. `AbortedWorkEnds` does not: the work of a phase may
never end, and the race against the signal is what ends the stage. For an MCP call it assumes that the
SDK's promises settle, for each call by itself; for a subprocess that the kernel closes the pipes of a group
that was killed.

## 4. What is proved

| module | theorem | says |
|---|---|---|
| `MessageLoopProofs` | `TCTypeCorrect`, `DispatchIsApproved`, `ContinuationIsComplete` | the TOOL_CALL handler alone: types; `NoDispatchBeforeVerdicts`; `ContinuationAnswersEveryCall`, for every list of calls |
| | `LoopTypes`, `LoopApprovesAndAnswers`, `TurnsNest`, `TurnsAreBounded` | the same inside the loop, pass after pass; events nest; no turn makes more passes than its bound |
| | `PartsTypes`, `StagesAreWhole`, `ConnectionsAreFound` | `TypesOK`; `StagesAndOutputWhole`; `McpCallsFindConnections`, for every plan of stages, limit on output and number of callers |
| `ApprovalStackProofs` | `Authorised`, `SingleUse`, `PassedGuards`, `Audited` | the four properties of the stack, for any number of calls, tools, keys, proposals and guards |
| | `PartsTypes`, `ConsentKept`, `GrantsAreWritten` | `TypesOK`; `ConsentIsKept` (routing, project trust and MCP trust) and `GrantReportedIsWritten`, each with the exceptions section 3 states |
| | `PromptsAnswerable`, `ListenersCurrent` | the conjuncts of `ScreenIsTrue` on dialogs and on the collector, for any listeners and writes |
| `IpAuthorityProofs` | `NeverStranded`, `OnePrompt`, `OwnAnswer`, `ImplementsService` | `NoLostWakeup`; one loop and one prompt; `SettledByOwnAnswer`; the authority refines PromptService, for any number of subagents, requests and ticks |
| | `TicksKeepOrder`, `ChildrenKeepOrder` | `ShownByTick`; `SpawnOrderAmongChildren` |
| | `InteractionTypes`, `AnswersReachTheirCallers` | `TypesOK`; `OneAnswerPerRequest`: the protocol is never idle, strict in order and tells the truth, the arbiter has one winner and leaks nothing but a `raise` that threw |
| `ApprovalPersistenceProofs` | `CacheTypeCorrect`, `RestartsAreFaithful` | `TypeOK`; `RestartFindsApprovals`, with calls overlapping or not |
| | `FileIsComplete`, `ImplementsDurableFile` | without overlapping calls a reader finds no torn or unsynced file, and the protocol refines DurableFile |
| `ProviderSessionProofs` | `SessionTypes`, `ChildrenAddUp`, `ApprovalsStayHome` | `TypeOK`; `ChildRecordsAddUp`; `ToolsRunOnlyIfApproved`, for any tools, depth, quota, rounds and lines, through crashes and resumptions |
| `ExtensionLifecycleProofs` | `LifecycleTypes`, `DependenciesStayActive`, `DisposalHolds` | the lifecycle manager alone: types; `ActiveNeedsActiveDeps`; `DisposedIsFinal` and `DisposeAllReachesAll`, for every graph without cycles and any number of calls |
| `SessionSetupProofs` | `SessionDisposes` | the composed specification implements the manager's, hence `DisposalIsFinalAndTotal` |
| | `SessionConfigured`, `SessionLaunches` | `ConfiguredIsThere`; the two conjuncts of `ChangesAreAllowed` about launches, for any number of sessions and saves |
| `SessionRecordsProofs` | `SessionScoped` | `NothingOutlivesItsScope`, for any grants and executions, scopes and turns |
| | `RecordsKept`, `StepsKept` | `NothingIsLostOrMixed`; `StepsKeepTheirWord`, for any records, limits, triggers, kills, file calls and deltas |

Each rests on the named assumptions of its constants and on nothing else (`CallListsAssumption`,
`MaxBoundAssumption`, `StackAssumption`, `IpAssumption`, `AtomicFileAssumption`, `SessionAssumption`, and the `PartsAssumption` of each
MC module with parts: sets of names and natural numbers; that plans name stages that there are; that
`MaxAttempts` is at least 1, as in the one policy there is (5), and rounds and lines too; that gated tools are tools and `delegate` is none of them; that of the tools routed only `diff` has two paths).
The two modules of a session's set-up and records state theirs part by part: `LifecycleAssumption` (finitely many
extensions whose dependencies have no cycle, as `load` refuses one whose dependency is not registered),
`ChoicesAssumption` (a configuration has a model), `LaunchAssumption` (names of secrets are none of the
words for a setting's state), `GrantsAssumption`, `ScopesAssumption`, `TrailAssumption` and `FilesAssumption`
(the four tools there are; a call that changes a file names one of the workspace, none, or one outside). Two
assume more: `FileIsComplete` and `ImplementsDurableFile` have `MaxInFlight = 1`, that callers await each write,
which is exactly what the second finding is about. `RestartsAreFaithful` does not, since its property says
itself which of its parts is about overlapping calls.

**TOOL_CALL.** The goal properties are not inductive: that a continuation is complete needs what the loop
has established so far. `TCInv` adds that verdicts are known below the cursor and only there, that the
approved positions are those with the verdict, that dispatching happens with the cursor past the end,
and that the map holds the denials. `MergedLemma` carries the weight: with distinct ids, the map of
results, which the code fills by id in the order executors finish, has at every id its own result.

**The loop and the modules beside it.** In the loop the stage's state is live only while the loop is in
TOOL_CALL, so `LoopApprovesAndAnswers` carries `TCInv` from pass to pass: a stage that starts is in an initial
state, and between stages nothing moves. That events nest follows from the exact list of open brackets that
`pc` and `inside` stand for; the bound from the number of begun passes being the loop's counter. For the
fan-out, that the failure reported is one of its own needs: while nobody has failed nothing is aborted but by the
turn's signal, and once somebody has, `firstFailure` stays that one. Output: what is kept is the
first `MaxBytesKept` bytes of what was written, and "truncated" is set exactly when more came. For the MCP client, the
transport that a retry has just made is registered with nobody yet and has no pending callback; whatever is
registered is therefore open, since what closes a transport first takes out whatever is registered under its
name. It may take out too much: a late callback of an old transport removes the live one that replaced it.

**Approval stack.** `IInv` is a statement about each call alone (`CallInv`: what it may have decided at
the place where it stands, by which authority, past how many guards, with which audit record) and one
across calls (`GrantInv`: the cache holds only users' approvals; calls with a granted tuple have
different ones, all of them consumed). Each step changes one call: `OwnStep` shows that call's part,
`OthersUndisturbed` that the others' survive since users' approvals only grow, `StepGrants` the
part across calls, where testing and consuming a tuple in one synchronous step is the whole point.

**Asking and showing.** Of the modules beside the stack each has an invariant of its own. Routing: the keys
remembered lie within approved directories, per tool, through every clearing. Project trust: what the
store's memory trusts rests on consent, and so does the file; they differ about a project only while its own
write runs or after it failed (`unwritten`), not after another's. MCP trust: a list that a caller is about to write
may be old, but one read after a clear that was alone does not hold the server, and no list read before it is
still under way. Dialogs: while no reply has been overtaken,
at most one reply at a time holds the state in which its request is gone. Collector: what is
being published is the state, and no publication is under way while a timer is armed; an update that is not
scheduled yet has a token listener's call under way or one that threw.

**Interaction authority.** `NoLostWakeup` needs `SingleLoop` (the flag is held by one loop, which either
awaits one open entry or is about to resume), which needs `LiveInv`: ids are fresh, and an entry is
in exactly one of queued, open and settled. The refinement maps an entry to its arrival order, and every
step to Ask, Show, Settle or a stutter; `SortedFirst` is used only through `FirstIsQueued`, so the result
does not depend on the comparator. The order does: the comparator runs in circles as soon as the
parent and two children raise requests in one tick. The proof finds the part of the order that survives in
sets closed under "goes before": whatever the sort does with a circle, it takes the first from a set that nothing
outside goes before. The entries of the earliest tick are such a set, and within them, while only children
have any, those of the child spawned first.

**Interaction protocol and arbiter.** "Never idle" is not inductive: the invariant says that the queue,
the running entry and the count of pending requests are one line, cut at the entry being served. The
arbiter's says of each race which interactors may still speak: before the winner all that were asked, after
it none; a race that threw before it began keeps its count and subscriptions, which `Held` counts apart.

**Cache and file.** With one call at a time, `IInv` says what the temporary's inode holds at each `await`, that
the published inode is another one, complete and synced, and that at most one writer is busy. Renaming is
the abstract Publish, a failure or a crash the abstract Abandon. The cache adds that a flush under way has the
document of the cache at its call, so that the file, when that flush reports success, holds what a restart reads.

**Session.** `SessionInv` says of the log that it is a story: of each child at most one decision, then one Spawned
record, any number of escalations, one terminal record, in that order. It ties the log to memory: a child
on the stack past its prompt is open in the log and one before it has no record; registry and authority name
exactly the children on the stack, each at its depth; an approval in a session's cache, or in the envelope it was
launched with, was granted to that session; and a `delegate` call let through still has a number to open. A
step changes the top of the stack alone (`TopChanges`, `ChildPushes`, `ChildPops`) and the log grows by the
top session's own records, so that the others' stories stay as they were (`StoryGoesOn`, `StoryBegins`). A crash
leaves any of them cut; the scan at the next launch ends each exactly once, in whatever order it finds them.

**Lifecycle.** Types hold whatever overlaps; all else (`Calm`) is said as long as no calls have raced. That an
active extension has active dependencies needs to know, of each call, how far it has come. An activation holds a
stack of frames: below the position of each, the dependencies are active already. A deactivation or a
disposal holds a plan, and its plan contains every active extension that needs one of it, those first; so what
is torn down next is needed by nobody active. `PlanFacts` is why a plan is so: it orders the least set closed under dependents, in
which every member but the extension itself depends on another (`ClosureFacts`), so that the extension comes last. A sweep over all accounts for each registered extension: disposed, still to come, the one at hand, or
hanging on a dispose that failed. `Overlaps` says who may overlap without a race: a load with one other call,
unless both load the same extension.

**Set-up.** `MCSpec` lets one part run and the others keep an initial value: `PartsStart` and `PartsStep` split
its first state and its steps, and each part's invariant is carried by its own steps alone. A swap's target has
its context from `ensure` on, and the swap that made it is the only one that gives it up, not when it is the one
in use. A launch: what a setting refers to is in the store before the settings are saved; a project is trusted only
after consent, and merged settings belong to the project the launch stands in. Of the sessions: each readable manifest is the
last save of its session in the history of saves and bears the time of it, times are distinct, so that the
greatest among the readable is the one saved last; nothing rewrites it before the launch takes it up.

**Records.** Grants: the keys of a stage are its own and a token is held exactly for what is neither used nor
cleared. Scopes: each is younger than its parent, so that an abort closed under one step down is closed under any
number (what lies below is defined scope by scope, from the oldest on), and the started turns lie before those waiting. Audit trail: a record that was
written is in a file that exists, was rotated or was removed by retention; one on its way is in its writer's queue
and that writer's file is there, also when a rotation has put another in its place; one whose append ended by an
error is either kept so or was refused by a writer closed or broken by then, and no writer is ever reopened (the
fate of each record, `FateInv`); no two rotated files have
the same time, and what a pruning is about to remove was overtaken by `MaxRotatedFiles` newer ones, which stays so
while others rotate and prune beside it: a newer file they remove had as many above it. Session
states: what is on disk is the snapshot last acknowledged or one whose write has an unknown outcome, and what a
resumption goes on with carries its own store's name. File tools: a temporary file holds its call's text as long as no
other call has its name (which takes two calls on one file in one tick, and is marked), and a call nobody overlapped
finds in the file what it read. Streams: a delta finds its part by its place or adds one at the end.

**Only model-checked.** Liveness and everything that speaks of ENABLED (fairness) is beyond the prover:
`TurnSettles`, `AbortedWorkEnds`, `EveryRequestSettles`, `CancelledTurnEnds`, `MayStop`. So is induction over data: what folds, sorts and
recursive functions compute is checked for every small input and proved for none. That is all of
`ExtensionRulesHold` (orders and rules compared), `HooksKeepTheirPlace` (the merged order), `MessagesAreWhole` (the
parser's drain, fragments sorted and cut to a budget, histories squeezed) and, of `ChangesAreAllowed`,
`ParamsStayValid` (a list of leaves merged layer by layer). The `TypesOK` of these two runs contain the types of those
parts, so that they are proved in parts only (`LifecycleTypes`, and within the invariants behind the other
theorems). `ScreenIsTrue` as a whole is checked only: its part on the transcript compares a sequence flattened and selected from another with what was
streamed, which is induction over data again; its other two parts are theorems. In TuiDialogs the pending
dialogs are a set, as the code's array is never read by position.

## 5. Findings

Five runs check a statement of the repository's own comments or tests and fail:

1. `ip_authority_tie` (`SpawnOrderOnTie`): the comparator orders two children by spawn time but a
   parent and a child by arrival. Three entries of one tick can form a cycle, and the sort then shows
   the later-spawned child first. `ShownByTick` and `SpawnOrderAmongChildren`, which hold, say how much
   of the documented order is left.
2. `approval_persistence_overlap` (`PublishedComplete`): two overlapping flushes share `approvals.json.tmp`;
   the second truncates what the first is about to rename.
3. `provider_session_spawned` (`SpawnedEndsRecorded`): `evaluateToolCall` is awaited outside the `try` of
   `runOneToolCall`. A child whose approval is cancelled leaves `runChildSession` by an exception, and its
   Spawned record has no terminal one while the session goes on. The resume scan of a later session
   closes it.
4. `provider_session_cancel` (`CancelEndsInput`): a SIGINT during a turn rejects the input consumers waiting
   at that moment, of which there are none; the `waitForInput` after the turn waits for ever.
5. `project_trust` (`ProjectTrustHonoured`): the trust store writes `{"entries": [...]}`, and the check
   before a project-scope MCP grant accepts only an array, so a project the user has trusted is refused.
   The test's fixture writes the array.

More places came up, while the models were checked, where the code does not do what its comments say or
what one would expect of it. The models do what the code does there, and the properties that meet such a
case are stated so that they hold beside it and name it in their comments.

Approvals and trust:

- `cli/runtime/tool-registry.ts:354-368`: the key of a diff joins its paths' scopes by `|`, the root's scope is the
  empty string, and `splitPathApprovalKey` (`tool-approval.ts:35-40`) drops empty parts. A diff of a file at the root
  with one in `d` has the key `|d`, which an approval for `d` covers: the file at the root is read without having
  been approved (`MixesRoot` in ToolRouting).
- `core/mcp/trust.ts:247`: a grant or a clear that reads its list while a clear is under way writes the cleared entry
  back (McpTrust: `cleared` has only servers whose clear nobody overlapped).
- `core/security/trust/store.ts:296` changes the document before it is written, and after a failed write goes on with
  it, where line 6 says that "mutating methods atomically fsync-persist every change". `trust-gate.ts:198-201` asks that
  document, so that a gate entered again audits "granted" for a decision that is on no disk, where its line 6 says that it
  "persists the decision in the global trust list" (`unwritten` in TrustStore).

Sessions and their records:

- `core/host/internal/runtime-collector.ts:296-297`: token listeners are called before the snapshot is marked dirty.
  `snapshot()` called in one returns the state before, where `core/host/api/metrics.ts:199` says it "Returns the current
  deeply-readonly snapshot"; a listener that throws leaves it so until the next write (RuntimeCollector).
- `extensions/loggers/file/lifecycle.ts:107-109`: during a rotation `state.writer` is a closed writer, and after a
  rotation that failed it stays so. Records emitted then are rejected, the SuppressedError that reports one is rejected by
  the same writer, and `core/observability/sinks.ts:82-85` does not report that again: both are lost, and after a failed
  rotation the log takes nothing more. `cli/runtime/audit-bus.ts:177` says that "The audit JSONL remains the durable
  record" (AuditTrail: `Refused`).
- `cli/runtime/swap-commands.ts:181-185` validates "the *effective merged bag*" so that an override the target
  does not know "surface[s] as ParamUnknown BEFORE the target is published". What is applied differs from what was
  validated when a default's path runs through an override's or lies below it, and when the entry's context is older
  than the settings edited since (ProviderParams: `ParamsStayValid`).
- `core/session-lifecycle/transitions.ts:75`: a trigger that arrives while `deliverSmSlots` is awaited finds
  the old state, and the slots are delivered twice; they are "called exactly once" by the comment.
- `extensions/session-stores/filesystem/lifecycle.ts:107`: the audit record is written after the rename; when it
  fails the write is reported failed, though the snapshot was replaced, where
  `contracts/session-store.ts` says "A failed write leaves the previous snapshot intact".

Streams, requests and prompts:

- `extensions/providers/openai-compatible/sse-parser.ts:209` takes any separator that begins with a return for four
  characters long, though the expression it was found by also matches `\r\n\n`: the first character of what follows is
  cut with it, and an event may be lost or split off (ProviderStreaming: `Miscounted`). Of a newline and `\r\n` one
  character too few is cut, which does no harm.
- `extensions/providers/_adapter/ai-sdk-bridge.ts:267-275` and `stream-mapper.ts:211-270` let a stream end without a
  finish, and the chunk "abort" is dropped (`ai-sdk-bridge.ts:450-453`): the request completes as if it had stopped by
  itself, and calls told in part are dropped without an error.
- `core/context/assembler.ts:282-373` never calls `enforceIsolation`; nothing in `src/` does. The scan of
  `isolation-guard.ts` is therefore modelled as an operation beside the assembly, and
  `AssembledFits` does not say that a request is free of secrets.
- `core/interaction/arbiter.ts:129-147`: an interactor whose `request` throws before it returns a promise leaves
  `raise` by an exception with the request counted and every dismissal subscribed (RaceArbiter: `raiseThrows`).
- `core/mcp/client.ts:303-309`: `onclose` and `onerror` delete by server id. The late callback of a transport that has
  been replaced unregisters the live one, which stays open and unused (McpClient: `RegisteredIsOpen` is the half that
  holds).

Extensions and tools:

- `contracts/capability-negotiation.ts:216` defers a context window claimed as "probed" to the first use ("probe-pending
  for any level"), while `cli/runtime/swap-commands.ts:73-91` turns the claim into 0, and "probed" flags into false, so that
  the core's negotiator refuses them. All four protocols claim a "probed" window; `computeRequiredCapabilities` asks for
  nothing yet, so that no session meets it at this commit (ExtensionIntake: `unseen` in `TwinRulesAgree`).
- `core/install/installer.ts:60` copies over the old release with its marker in place: a copy that stops leaves the old
  marker over files of both (ExtensionIntake: `MarkedIsComplete`). Installing again repairs it.
- `extensions/tools/edit/execute.ts:17`: "write content to a sibling `.stud_edit_tmp_*` file, then rename over the
  target" names the file by the clock, and two edits of one file in one millisecond write into each other's
  (FileTools: `sharedTemp`).
- `core/sm/attach.ts:140`: the test and the entry are awaits apart, and two machines can attach.
- `core/sm/sequential.ts` walks its list whatever a stage's Assert said, so that a join in the list is entered
  after a failed sibling, which `extensions/state-machines/ralph/stages.ts` excludes under any driver.
- `contracts/dependency-resolution.ts:229` reports `DependencyCycle` also for an order that is short because
  an entry is counted twice, where there is no cycle.
- `extensions/tools/web-fetch/fetch.ts:53`: the timer is cleared when the response's headers are in, so that
  reading the body has no timeout.

## 6. What is not modelled

- **Reached by the models as the environment**: provider services, the SDKs for them and for MCP, tools'
  own effects beyond those of section 2, guard hooks (their answers), interactors, the file system (per
  operation, with failure), the operating system's processes.
- **Data no property depends on**: prompt texts and options, display attribution, tool arguments beyond the
  directories they name, message contents, metrics, correlation ids.
- **No state of their own**: settings and configuration (scopes resolved and one document merged on demand),
  environment and network tests, secrets hygiene, the request serializer and headless resolver, host
  façades, contracts that are types and schemas, tool results, request bodies of adapters, usage errors and
  texts, rendering. Their correctness is that of pure functions and sequential input and output, which unit
  tests reach.
- **Tables filled at start-up**: commands, prompts, resources, capabilities, the MCP server registry.
- **Nothing runs them at this commit**: the continuation controller and the extension reloader.
- **Parts of modelled components**: slash commands and metrics in the session loop; the manifest's fields
  beyond turn, store, machine and mode; the transcript local to a state-machine stage; history keys, mouse and
  layout of the terminal; hashes and signatures of installed extensions; the text that reports a changed
  hook order.

`PROJECT.json` gives the reason for each component.

## 7. Plan

The models cover what carries the program's own logic, and each of the seven passing runs has safety properties
that are proved. What is left to prove is what section 4 lists as only model-checked, once a prover takes theorems
with an operator as parameter: first `ParamsStayValid`, whose invariant (the leaves of each layer are valid for the
protocol of the entry in use) is known and lacks only the induction over the list, then the merged order of
`HooksKeepTheirPlace`.

Models worth joining once there is a reason in the code: session loop, approval stack and authority, so that
calls of parent and children wait in one queue while settings hold for all; StageMachine's tool calls with the
grants of SMAttachment and the stack's grant check.
