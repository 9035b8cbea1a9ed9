----------------------------- MODULE TuiTranscript -----------------------------
(***************************************************************************)
(* The bundled terminal UI (extensions/ui/default-tui) while a session     *)
(* runs: the renderer subscribed to the session's event bus, the Ink store *)
(* it writes, the composer with its paste regions and palette, and the     *)
(* queue that hands lines to the session loop.  A terminal that Ink does   *)
(* not support gets the plain console UI, which sees the same events.      *)
(*                                                                         *)
(* The bus side is the order in which cli/runtime/provider-stream.ts and   *)
(* tool-resolver.ts emit: a request, its deltas, its end, its calls one by *)
(* one.  The user types at any time.  Deltas are numbered as they arrive;  *)
(* a line is a sequence of chunks, "/" the one that begins a command.      *)
(***************************************************************************)
EXTENDS Integers, Sequences, FiniteSets, SequencesExt

CONSTANTS CallIds,        \* ids of tool calls
          MaxDeltas,      \* how many deltas arrive
          MaxKeys         \* how many chunks the user types or pastes

VARIABLES kind,           \* what mountTUI mounted: "ink" or "console"
          turn,           \* the session: waiting, requesting, streaming, calling, ended
          call,           \* the tool call in progress
          shown,          \* InkState: items, drafts, running cards, turnActive, queue depth
          out,            \* the console: open blocks and what was written
          buffer,         \* the composer's regions
          palette,        \* entries and paletteSelectedIndex, or closed
          dialog,         \* the dialog that takes the keys
          queue,          \* the input queue: lines to come, and whether the loop waits
          arrived,        \* history: deltas in the order they arrived
          called,         \* history: calls begun or rejected
          stuck,          \* history: calls whose tool threw
          keys, submitted, taken

tuiVars == <<kind, turn, call, shown, out, buffer, palette, dialog, queue, arrived,
             called, stuck, keys, submitted, taken>>

Closed == [size |-> 0, selected |-> 0]
NoCall == "no call"
Owed   == "a call to come"

\* inkSupported: a terminal with raw mode, or the console that reads lines.
Mounts   == {"ink", "console"}
NewQueue == [values |-> <<>>, waits |-> TRUE]
Console0 == [open |-> FALSE, thinking |-> FALSE, output |-> FALSE, text |-> <<>>]

TTInit ==
    /\ kind \in Mounts /\ turn = "waiting" /\ call = NoCall
    /\ shown = [items |-> <<>>, draft |-> <<>>, thinking |-> <<>>, cards |-> <<>>,
                busy |-> FALSE, depth |-> 0]
    /\ out = Console0
    /\ buffer = <<>> /\ palette = Closed /\ dialog = "none"
    /\ queue = NewQueue
    /\ arrived = <<>> /\ called = {} /\ stuck = {} /\ keys = 0 /\ submitted = <<>> /\ taken = <<>>

KeepInput   == UNCHANGED <<buffer, palette, queue, keys, submitted, taken>>
KeepHistory == UNCHANGED <<kind, arrived, called, stuck>>

Item(k, x) == [kind |-> k, text |-> x]

-----------------------------------------------------------------------------
\* The Ink store.

flushThinkingDraft(s) ==
    IF s.thinking = <<>> THEN s
    ELSE [s EXCEPT !.items = Append(@, Item("thinking", s.thinking)), !.thinking = <<>>]

commitAssistantDraft(s) ==
    LET f == flushThinkingDraft(s) IN
    IF f.draft = <<>> THEN f
    ELSE [f EXCEPT !.items = Append(@, Item("assistant", f.draft)), !.draft = <<>>]

pushRunningToolCard(s, c) == [flushThinkingDraft(s) EXCEPT !.cards = Append(@, c)]

commitToolCard(s, c) ==
    [s EXCEPT !.cards = SelectSeq(@, LAMBDA d : d # c), !.items = Append(@, Item("tool", c))]

-----------------------------------------------------------------------------
\* The console: a heading opens a block, and "end" closes it.

Writes(o, word)   == [o EXCEPT !.text = Append(@, [word |-> word, n |-> 0])]
WritesDelta(o, n) == [o EXCEPT !.text = Append(@, [word |-> "delta", n |-> n])]
closeThinkingBlock(o) ==
    IF o.thinking THEN [Writes(o, "end") EXCEPT !.thinking = FALSE] ELSE o
ensureAssistantLine(o) ==
    LET c == closeThinkingBlock(o) IN
    IF c.open THEN c ELSE [Writes(c, "assistant") EXCEPT !.open = TRUE]
consoleThinking(o, n) ==
    WritesDelta(IF o.thinking THEN o ELSE [Writes(o, "thinking") EXCEPT !.thinking = TRUE], n)
consoleEnd(o) ==
    LET c == closeThinkingBlock(o) IN
    [Writes(c, IF c.open THEN "end" ELSE "no output") EXCEPT !.open = FALSE, !.output = FALSE]

\* Each event is rendered by the one that is mounted.
Renders(s, o) ==
    IF kind = "ink" THEN shown' = s /\ UNCHANGED out ELSE out' = o /\ UNCHANGED shown

-----------------------------------------------------------------------------
\* The events of a request.

ProviderRequestStarted ==
    /\ turn = "requesting" /\ turn' = "streaming"
    /\ Renders(flushThinkingDraft([shown EXCEPT !.draft = <<>>]), ensureAssistantLine(out))
    /\ KeepInput /\ KeepHistory /\ UNCHANGED <<call, dialog>>

\* A delta of text; the console drops the blanks a reply begins with.
ProviderTokensStreamed(blank) ==
    /\ turn = "streaming" /\ Len(arrived) < MaxDeltas
    /\ LET d == [n |-> Len(arrived) + 1, kind |-> "text"] IN
       /\ arrived' = Append(arrived, [d EXCEPT !.kind = IF blank THEN "blank" ELSE "text"])
       /\ Renders(flushThinkingDraft([shown EXCEPT !.draft = Append(@, d.n)]),
                  IF blank /\ ~out.output THEN out
                  ELSE [WritesDelta(ensureAssistantLine(out), d.n) EXCEPT !.output = TRUE])
    /\ KeepInput /\ UNCHANGED <<kind, turn, call, called, dialog, stuck>>

ProviderReasoningStreamed ==
    /\ turn = "streaming" /\ Len(arrived) < MaxDeltas
    /\ LET n == Len(arrived) + 1 IN
       /\ arrived' = Append(arrived, [n |-> n, kind |-> "thinking"])
       /\ Renders([shown EXCEPT !.thinking = Append(@, n)], consoleThinking(out, n))
    /\ KeepInput /\ UNCHANGED <<kind, turn, call, called, dialog, stuck>>

\* A proposed call shows in the console alone.
ToolInvocationProposed ==
    /\ turn = "streaming" /\ kind = "console" /\ Len(arrived) < MaxDeltas /\ ~out.output
    /\ out' = [Writes(ensureAssistantLine(out), "tool call") EXCEPT !.output = TRUE]
    /\ KeepInput /\ KeepHistory /\ UNCHANGED <<turn, call, shown, dialog>>

\* endAssistant, whether the request completed or failed; a failure ends the
\* turn with an error.
ProviderRequestEnded(next) ==
    /\ turn = "streaming" /\ next \in {"calling", "failed", "ended"} /\ turn' = next
    /\ next = "calling" => called # CallIds
    /\ call' = IF next = "calling" THEN Owed ELSE NoCall
    /\ Renders(commitAssistantDraft(shown), consoleEnd(out))
    /\ KeepInput /\ KeepHistory /\ UNCHANGED dialog

renderTurnError ==
    /\ turn = "failed" /\ turn' = "ended"
    /\ Renders([shown EXCEPT !.items = Append(@, Item("error", <<>>))],
               Writes(closeThinkingBlock(out), "error"))
    /\ KeepInput /\ KeepHistory /\ UNCHANGED <<call, dialog>>

-----------------------------------------------------------------------------
\* The events of a call.

Begins(c) == call \in {NoCall, Owed} /\ c \notin called /\ called' = called \cup {c}
\* An approval is asked before the call starts.
requestApproval(c) ==
    /\ turn = "calling" /\ dialog = "none" /\ kind = "ink"
    /\ Begins(c) /\ call' = c /\ dialog' = "approval"
    /\ KeepInput /\ UNCHANGED <<kind, turn, shown, out, arrived, stuck>>

ToolInvocationStarted(c) ==
    /\ turn = "calling" /\ dialog = "none" /\ turn' = "running" /\ call' = c
    /\ (call = c /\ UNCHANGED called) \/ Begins(c)
    /\ Renders(pushRunningToolCard(shown, c), Writes(closeThinkingBlock(out), "running"))
    /\ KeepInput /\ UNCHANGED <<kind, dialog, arrived, stuck>>

\* The end of a call that ran, or of one that was rejected before it started.
ToolInvocationEnded(c) ==
    /\ turn \in {"calling", "running"} /\ dialog = "none"
    /\ (call = c /\ UNCHANGED called) \/ (turn = "calling" /\ Begins(c))
    /\ turn' = "calling" /\ call' = NoCall
    /\ Renders(commitToolCard(shown, c), Writes(closeThinkingBlock(out), "tool"))
    /\ KeepInput /\ UNCHANGED <<kind, dialog, arrived, stuck>>

\* A tool that throws ends the turn: there is no event for its call.
toolThrows ==
    /\ turn = "running" /\ dialog = "none" /\ turn' = "failed"
    /\ stuck' = stuck \cup {call} /\ call' = NoCall
    /\ KeepInput /\ UNCHANGED <<kind, shown, out, dialog, arrived, called>>

\* A tool that asks the user raises a select.
raisesSelect ==
    /\ turn = "running" /\ dialog = "none" /\ kind = "ink" /\ dialog' = "select"
    /\ KeepInput /\ KeepHistory /\ UNCHANGED <<turn, call, shown, out>>

nextRequest ==
    /\ turn = "calling" /\ call = NoCall /\ turn' = "requesting"
    /\ KeepInput /\ KeepHistory /\ UNCHANGED <<call, shown, out, dialog>>

-----------------------------------------------------------------------------
\* The queue and the loop.

IsCommand(line) == line # <<>> /\ line[1] = "/"
Turn(line) == IF line = <<>> \/ IsCommand(line) THEN "ended" ELSE "requesting"

\* The next waitForInput: a buffered line at once, or the next one submitted.
\* The console's prompt echoes the line it returns.
awaitNextInput ==
    /\ turn = "ended" /\ KeepHistory
    /\ IF queue.values = <<>>
       THEN /\ turn' = "waiting" /\ queue' = [queue EXCEPT !.waits = TRUE]
            /\ shown' = [shown EXCEPT !.busy = FALSE] /\ UNCHANGED taken
       ELSE /\ turn' = Turn(Head(queue.values)) /\ queue' = [queue EXCEPT !.values = Tail(@)]
            /\ taken' = Append(taken, Head(queue.values))
            /\ shown' = [shown EXCEPT !.busy = TRUE, !.depth = Len(queue.values) - 1]
    /\ UNCHANGED <<call, out, buffer, palette, dialog, keys, submitted>>

\* Mutant of resolveNext: a line for a waiting loop is buffered as well.
buffersToo(s, line) ==
    /\ queue' = [values |-> Append(queue.values, line), waits |-> FALSE]
    /\ IF queue.waits
       THEN /\ taken' = Append(taken, line) /\ turn' = Turn(line)
            /\ shown' = [s EXCEPT !.busy = TRUE]
       ELSE /\ UNCHANGED <<taken, turn>> /\ shown' = [s EXCEPT !.depth = Len(queue.values) + 1]

resolveNext(s, line) ==
    IF queue.waits
    THEN /\ queue' = [queue EXCEPT !.waits = FALSE] /\ taken' = Append(taken, line)
         /\ turn' = Turn(line) /\ shown' = [s EXCEPT !.busy = TRUE]
    ELSE /\ queue' = [queue EXCEPT !.values = Append(@, line)] /\ UNCHANGED <<taken, turn>>
         /\ shown' = [s EXCEPT !.depth = Len(queue.values) + 1]

-----------------------------------------------------------------------------
\* The composer.

IsPaste(r) == r.paste > 0
Flat(rs)   == FlattenSeq([i \in 1 .. Len(rs) |-> rs[i].text])
\* The display shows a placeholder for a paste.
Display(rs) == FlattenSeq([i \in 1 .. Len(rs) |->
                             IF IsPaste(rs[i]) THEN <<"pasted">> ELSE rs[i].text])

appendBuffer(rs, chunk, paste) ==
    IF paste
    THEN Append(rs, [paste |-> Cardinality({i \in 1 .. Len(rs) : IsPaste(rs[i])}) + 1,
                     text |-> <<chunk>>])
    ELSE IF rs # <<>> /\ ~IsPaste(Last(rs))
    THEN [rs EXCEPT ![Len(rs)].text = Append(@, chunk)]
    ELSE Append(rs, [paste |-> 0, text |-> <<chunk>>])

backspaceBuffer(rs) ==
    IF rs = <<>> THEN rs
    ELSE IF IsPaste(Last(rs)) \/ Len(Last(rs).text) <= 1 THEN Front(rs)
    ELSE [rs EXCEPT ![Len(rs)].text = Front(@)]

\* filterPalette over a catalog of two commands, the second alone with an "x":
\* how many entries the display leaves.
Matches(d) == IF ~IsCommand(d) THEN 0 ELSE IF Len(d) = 1 THEN 2 ELSE
              IF d = <<"/", "x">> THEN 1 ELSE 0
refreshDisplay(rs) ==
    LET n == Matches(Display(rs)) IN
    /\ buffer' = rs
    /\ palette' = IF n = palette.size THEN palette ELSE [size |-> n, selected |-> 0]

Keyed == kind = "ink" /\ dialog = "none"
Typing == UNCHANGED <<turn, call, out, shown, dialog, queue, submitted, taken>>

types(chunk, paste) ==
    /\ Keyed /\ keys < MaxKeys /\ keys' = keys + 1
    /\ refreshDisplay(appendBuffer(buffer, chunk, paste)) /\ Typing /\ KeepHistory

deletes ==
    /\ Keyed /\ buffer # <<>> /\ refreshDisplay(backspaceBuffer(buffer))
    /\ Typing /\ KeepHistory /\ UNCHANGED keys

movesSelection(n) ==
    /\ Keyed /\ palette.size > 0 /\ n \in 0 .. palette.size - 1
    /\ n \in {palette.selected - 1, palette.selected + 1}
    /\ palette' = [palette EXCEPT !.selected = n]
    /\ Typing /\ KeepHistory /\ UNCHANGED <<buffer, keys>>

\* Tab puts the first completion in place of what is typed.
completes ==
    /\ Keyed /\ palette.size > 0
    /\ refreshDisplay(<<[paste |-> 0, text |-> <<"/", "x">>]>>)
    /\ Typing /\ KeepHistory /\ UNCHANGED keys

\* Return submits the selected entry of the palette, or the line.  The line is
\* echoed unless it is a command.
Line == IF palette.size = 0 THEN Flat(buffer)
        ELSE IF palette.size = 2 /\ palette.selected = 0 THEN <<"/", "y">> ELSE <<"/", "x">>

submit ==
    /\ Keyed /\ Len(submitted) <= MaxKeys
    /\ buffer' = <<>> /\ palette' = Closed /\ submitted' = Append(submitted, Line)
    /\ resolveNext(IF Line = <<>> \/ IsCommand(Line) THEN shown
                   ELSE [shown EXCEPT !.items = Append(@, Item("user", Line))], Line)
    /\ KeepHistory /\ UNCHANGED <<call, out, dialog, keys>>

\* While a dialog is up the keys are its own.
decides ==
    /\ kind = "ink" /\ dialog # "none" /\ dialog' = "none"
    /\ KeepInput /\ KeepHistory /\ UNCHANGED <<turn, call, shown, out>>

\* The console prompts on its own; its input never queues.
promptsConsole(line) ==
    /\ kind = "console" /\ queue.waits /\ keys < MaxKeys /\ keys' = keys + 1
    /\ submitted' = Append(submitted, line) /\ taken' = Append(taken, line)
    /\ queue' = [queue EXCEPT !.waits = FALSE] /\ turn' = Turn(line)
    /\ UNCHANGED <<call, shown, out, buffer, palette, dialog>> /\ KeepHistory

TTNext ==
    \/ ProviderRequestStarted \/ ProviderReasoningStreamed \/ ToolInvocationProposed
    \/ renderTurnError \/ toolThrows \/ raisesSelect \/ nextRequest \/ awaitNextInput
    \/ deletes \/ completes \/ submit \/ decides
    \/ \E blank \in BOOLEAN : ProviderTokensStreamed(blank)
    \/ \E next \in {"calling", "failed", "ended"} : ProviderRequestEnded(next)
    \/ \E c \in CallIds : requestApproval(c) \/ ToolInvocationStarted(c) \/ ToolInvocationEnded(c)
    \/ \E chunk \in {"/", "x"}, paste \in BOOLEAN : types(chunk, paste)
    \/ \E n \in 0 .. 1 : movesSelection(n)
    \/ \E line \in {<<"x">>, <<"/", "x">>} : promptsConsole(line)

TTSpec == TTInit /\ [][TTNext]_tuiVars

-----------------------------------------------------------------------------
\* Properties.

\* The state keeps its types.
TTTypeOK ==
    /\ turn \in {"waiting", "requesting", "streaming", "calling", "running", "failed", "ended"}
    /\ palette.size \in 0 .. 2 /\ palette.selected \in 0 .. 1
    /\ shown.depth \in Nat /\ dialog \in {"none", "approval", "select"}

Texts(k)   == SelectSeq(shown.items, LAMBDA i : i.kind = k)
Joined(k)  == FlattenSeq([i \in 1 .. Len(Texts(k)) |-> Texts(k)[i].text])
Numbers(P(_)) == LET ds == SelectSeq(arrived, P) IN [i \in 1 .. Len(ds) |-> ds[i].n]
IsThinking(d) == d.kind = "thinking"
IsText(d)     == d.kind # "thinking"

Written   == SelectSeq(out.text, LAMBDA t : t.word = "delta")

\* What a provider streamed is on screen once and in order, whatever came in
\* between, and no reasoning is shown after text that came later; a card runs
\* only while its call does, unless its tool threw (commitAssistantDraft,
\* flushThinkingDraft, commitToolCard).
TranscriptKeepsStream ==
    /\ kind = "console" =>
       [i \in 1 .. Len(Written) |-> Written[i].n] \in
          {Numbers(LAMBDA d : d.kind # "blank" \/ d.n \in ns) : ns \in SUBSET (1 .. MaxDeltas)}
    /\ kind = "ink" =>
       /\ Joined("assistant") \o shown.draft = Numbers(IsText)
       /\ Joined("thinking") \o shown.thinking = Numbers(IsThinking)
       /\ \A i \in 1 .. Len(shown.items) :
             shown.items[i].kind = "thinking" =>
                \A j \in 1 .. i - 1 : shown.items[j].kind = "assistant" =>
                   Last(shown.items[i].text) > Last(shown.items[j].text)
       /\ ToSet(shown.cards) \ stuck = IF turn = "running" THEN {call} ELSE {}

\* A line that was submitted reaches the loop once and in order, also when it
\* was typed ahead; the hint counts the lines that wait, and "working" shows
\* exactly while the loop is not waiting.  The placeholders of two pastes
\* differ (createInputQueue, awaitNextInput, append).
LinesReachTheLoop ==
    /\ taken \o queue.values = submitted
    /\ kind = "ink" => /\ shown.depth = Len(queue.values)
                       /\ shown.busy = ~queue.waits
                       /\ [i \in 1 .. Len(Texts("user")) |-> Texts("user")[i].text] =
                             SelectSeq(submitted, LAMBDA l : l # <<>> /\ ~IsCommand(l))
    /\ \A i, j \in 1 .. Len(buffer) :
          IsPaste(buffer[i]) /\ buffer[i].paste = buffer[j].paste => i = j

=============================================================================
