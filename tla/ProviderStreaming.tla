------------------------- MODULE ProviderStreaming -------------------------
(***************************************************************************)
(* One request to a provider: the chunks of the SDK (external) through the *)
(* bridge and the assembler of tool calls, the provider's surface, and the *)
(* accumulator of the session's iteration.  The other reader of a wire,    *)
(* mapStream, is the second value of adapter.  A tool call's arguments     *)
(* come in pieces; the wire may or may not repeat the call as a whole.     *)
(*                                                                         *)
(* And below it the event stream of an OpenAI-compatible server, read      *)
(* chunk by chunk (extensions/providers/openai-compatible/sse-parser.ts):  *)
(* SSESpec, over variables of its own.  A buffer is cut at blank lines, the *)
(* data lines of a block are one JSON payload, and the deltas of a tool    *)
(* call are brought together under an id.                                  *)
(***************************************************************************)
EXTENDS Integers, Sequences, SequencesExt, FiniteSets

CONSTANTS
  CallIds,     \* tool calls the model makes
  MaxText,     \* bound: text and reasoning deltas of one request
  Payloads,    \* what a data line of the wire may carry
  MaxLines     \* bound: lines the server sends

Adapters == {"bridge", "mapper"}
Wire0    == "absent"
Stages   == {Wire0, "named", "partial", "complete", "closed"}

VARIABLES
  adapter,    \* which reader the wire goes through
  config,     \* configsByHost of the provider's extension, and disposedHosts
  wire,       \* how far the wire is with each call
  pending,    \* the assembler's pendingCalls
  yieldedIds, \* ids of calls yielded whole
  finished,   \* mapStream's emittedFinish
  acc,        \* the IterationAccumulator, and the place of the iteration
  reports,    \* history: ProviderRequestStarted, Completed and Failed events
  sent,       \* history: the whole wire so far
  chunk,      \* marks sent and not yet read
  buffer,     \* parseSse's buffer
  ids,        \* OpenAIToolCallParseState
  yielded,    \* the WireEvents, in order
  lines,      \* lines sent whole
  over        \* the server has closed, the reader has seen it

streamVars == <<adapter, config, wire, pending, yieldedIds, finished, acc, reports>>

Text(n)  == [type |-> "text", size |-> n]
Thinking == [type |-> "thinking", size |-> 1]
Call(c)  == [type |-> c, size |-> 0]

newAccumulator == [at |-> "idle", text |-> 0, deltas |-> 0, parts |-> <<>>, calls |-> <<>>, reason |-> "stop"]

PSTypeOK ==
  /\ adapter \in Adapters
  /\ config \in {"none", "loaded", "disposed"}
  /\ wire \in [CallIds -> Stages]
  /\ pending \subseteq CallIds /\ yieldedIds \subseteq CallIds /\ finished \in BOOLEAN
  /\ acc.at \in {"idle", "streaming", "completed", "failed"}
  /\ acc.text <= acc.deltas /\ acc.deltas \in 0..MaxText
  /\ reports.started \in 0..2

PSInit ==
  /\ adapter \in Adapters
  /\ config = "none"
  /\ wire = [c \in CallIds |-> Wire0] /\ pending = {} /\ yieldedIds = {} /\ finished = FALSE
  /\ acc = newAccumulator
  /\ reports = [started |-> 0, completed |-> 0, failed |-> 0]

(* init stores the configuration; dispose forgets it, but only the first   *)
(* time for a host.                                                        *)
initProvider ==
  /\ config = "none"
  /\ config' = "loaded"
  /\ UNCHANGED <<adapter, wire, pending, yieldedIds, finished, acc, reports>>

disposeProvider ==
  /\ config = "loaded" /\ acc.at /= "streaming"
  /\ config' = "disposed"
  /\ UNCHANGED <<adapter, wire, pending, yieldedIds, finished, acc, reports>>

(* The iteration announces the request, and the surface refuses it without *)
(* a configuration or with a model the entry does not declare.             *)
runAssistantIteration(modelDeclared) ==
  /\ acc.at /= "streaming" /\ reports.started < 2
  /\ wire' = [c \in CallIds |-> Wire0] /\ pending' = {} /\ yieldedIds' = {} /\ finished' = FALSE
  /\ IF config = "loaded" /\ modelDeclared
     THEN /\ acc' = [newAccumulator EXCEPT !.at = "streaming"]
          /\ reports' = [reports EXCEPT !.started = @ + 1]
     ELSE /\ acc' = [newAccumulator EXCEPT !.at = "failed"]
          /\ reports' = [reports EXCEPT !.started = @ + 1, !.failed = @ + 1]
  /\ UNCHANGED <<adapter, config>>

(***************************************************************************)
(* What the accumulator does with the events of the surface.               *)
(***************************************************************************)
appendOrCoalesceText(parts) ==
  IF parts /= <<>> /\ Last(parts).type = "text"
  THEN [parts EXCEPT ![Len(parts)].size = @ + 1] ELSE Append(parts, Text(1))

dispatchText == acc' = [acc EXCEPT !.text = @ + 1, !.deltas = @ + 1, !.parts = appendOrCoalesceText(@)]

(* Reasoning is kept in its place unless the parameters say otherwise.     *)
dispatchThinking(sendReasoning) ==
  acc' = [acc EXCEPT !.deltas = @ + 1, !.parts = IF sendReasoning THEN Append(@, Thinking) ELSE @]

dispatchCalls(made) == acc' = [acc EXCEPT !.calls = @ \o made, !.parts = @ \o [i \in DOMAIN made |-> Call(made[i])]]

emitProviderCompletion(error) ==
  /\ acc' = [acc EXCEPT !.at = IF error THEN "failed" ELSE "completed"]
  /\ reports' = IF error THEN [reports EXCEPT !.failed = @ + 1] ELSE [reports EXCEPT !.completed = @ + 1]

Streaming == acc.at = "streaming"

textDelta ==
  /\ Streaming /\ acc.deltas < MaxText
  /\ dispatchText
  /\ UNCHANGED <<adapter, config, wire, pending, yieldedIds, finished, reports>>

reasoningDelta(sendReasoning) ==
  /\ Streaming /\ acc.deltas < MaxText
  /\ dispatchThinking(sendReasoning)
  /\ UNCHANGED <<adapter, config, wire, pending, yieldedIds, finished, reports>>

(***************************************************************************)
(* Deltas of a call.  The assembler yields the call with the first delta   *)
(* after which its name is known and its arguments are JSON.               *)
(***************************************************************************)
ingest(c, stage) ==
  /\ wire' = [wire EXCEPT ![c] = stage]
  /\ IF stage = "complete"
     THEN /\ pending' = pending \ {c}
          /\ yieldedIds' = yieldedIds \cup {c}
          /\ dispatchCalls(<<c>>)
     ELSE /\ pending' = pending \cup {c}
          /\ UNCHANGED <<yieldedIds, acc>>

toolInputStart(c) ==
  /\ Streaming /\ ~finished /\ wire[c] = Wire0
  /\ ingest(c, "named")
  /\ UNCHANGED <<adapter, config, finished, reports>>

toolInputDelta(c) ==
  /\ Streaming /\ ~finished /\ wire[c] \in {"named", "partial"}
  /\ \E stage \in {"partial", "complete"} : ingest(c, stage)
  /\ UNCHANGED <<adapter, config, finished, reports>>

(* The SDK closes every call with the whole of it; the bridge drops it if  *)
(* the deltas yielded it already.  A wire read by mapStream sends a call   *)
(* one way or the other.                                                   *)
toolCallChunk(c) ==
  /\ Streaming /\ ~finished /\ wire[c] /= "closed"
  /\ adapter = "mapper" => wire[c] = Wire0
  /\ wire' = [wire EXCEPT ![c] = "closed"]
  /\ yieldedIds' = yieldedIds \cup {c}
  /\ IF c \in yieldedIds THEN UNCHANGED acc ELSE dispatchCalls(<<c>>)
  /\ UNCHANGED <<adapter, config, pending, finished, reports>>

(* The finish of the wire.  The SDK has closed its calls by then; mapStream*)
(* turns every call still pending into an error, which the surface throws. *)
finish(reason) ==
  /\ Streaming /\ ~finished
  /\ adapter = "bridge" => \A c \in CallIds : wire[c] \in {Wire0, "closed"}
  /\ IF adapter = "mapper" /\ pending /= {}
     THEN emitProviderCompletion(TRUE) /\ pending' = {} /\ UNCHANGED finished
     ELSE finished' = TRUE /\ acc' = [acc EXCEPT !.reason = reason] /\ UNCHANGED <<pending, reports>>
  /\ UNCHANGED <<adapter, config, wire, yieldedIds>>

(* The stream ends: after its finish or without one, as when it is aborted,*)
(* for the bridge drops the abort chunk.  Either way the request completes,*)
(* with the reason it has so far, and what is pending is dropped.          *)
streamEnds ==
  /\ Streaming
  /\ emitProviderCompletion(FALSE)
  /\ UNCHANGED <<adapter, config, wire, pending, yieldedIds, finished>>

(* Or it fails: with an error chunk, or by throwing, which the bridge turns*)
(* into an error event.                                                    *)
streamFails ==
  /\ Streaming
  /\ emitProviderCompletion(TRUE)
  /\ UNCHANGED <<adapter, config, wire, pending, yieldedIds, finished>>

PSNext ==
  \/ initProvider \/ disposeProvider \/ textDelta \/ streamEnds \/ streamFails
  \/ \E b \in BOOLEAN : runAssistantIteration(b) \/ reasoningDelta(b)
  \/ \E c \in CallIds : toolInputStart(c) \/ toolInputDelta(c) \/ toolCallChunk(c)
  \/ \E r \in {"stop", "tool-calls"} : finish(r)

PSSpec == PSInit /\ [][PSNext]_streamVars

(***************************************************************************)
(* The session sees each call at most once although the wire tells it      *)
(* twice, and a request that completes has passed on the calls that were   *)
(* told to the end.  After a finish these are all that were begun; in a    *)
(* stream that ends without one the others are dropped.                    *)
(***************************************************************************)
EachCallOnce ==
  /\ IsInjective(acc.calls)
  /\ acc.at = "completed" => ToSet(acc.calls) = {c \in CallIds : wire[c] \in {"complete", "closed"}}
  /\ acc.at = "completed" /\ finished => ToSet(acc.calls) = {c \in CallIds : wire[c] /= Wire0}

(***************************************************************************)
(* The message keeps the order of the stream: the calls in it are those    *)
(* dispatched, its texts add up to the text shown, and two texts are never *)
(* neighbours; every announced request is reported done or failed, once.   *)
(***************************************************************************)
PartsKeepOrder ==
  /\ SelectSeq(acc.parts, LAMBDA p : p.type \in CallIds) = [i \in DOMAIN acc.calls |-> Call(acc.calls[i])]
  /\ FoldLeft(LAMBDA n, p : n + IF p.type = "text" THEN p.size ELSE 0, 0, acc.parts) = acc.text
  /\ \A i \in 1..(Len(acc.parts) - 1) : acc.parts[i].type = "text" => acc.parts[i + 1].type /= "text"
  /\ reports.started = reports.completed + reports.failed + (IF Streaming THEN 1 ELSE 0)

(* No text delta is put before a part that was already there.              *)
PartsOnlyGrow == [][acc'.at = "streaming" /\ acc.at = "streaming" =>
  /\ Len(acc'.parts) >= Len(acc.parts)
  /\ \A i \in 1..(Len(acc.parts) - 1) : acc'.parts[i] = acc.parts[i]]_acc
-----------------------------------------------------------------------------
(***************************************************************************)
(* The wire is a sequence of marks: a data line without its end is one     *)
(* mark, and so are a return and a newline, for a chunk may end between    *)
(* any two.  A server may end each line in its own way.                    *)
(***************************************************************************)
sseVars == <<sent, chunk, buffer, ids, yielded, lines, over>>

\* Payloads: text, the end, "[DONE]", comments and JSON of another shape, and
\* deltas of a tool call with or without its id, its index, and any words of
\* its name or arguments (bare).
Other       == [kind |-> "other"]
TextPart    == [kind |-> "text"]
FinishPart  == [kind |-> "finish"]
DonePart    == [kind |-> "done"]
Delta(i, d, b) == [kind |-> "delta", index |-> i, id |-> d, bare |-> b]   \* -1, "": absent

Return  == [kind |-> "return"]
Newline == [kind |-> "newline"]
Ends    == {<<Newline>>, <<Return, Newline>>}

SSEInit ==
    /\ sent = <<>> /\ chunk = <<>> /\ buffer = <<>>
    /\ ids = [byIndex |-> <<>>, next |-> 0] /\ yielded = <<>> /\ lines = 0 /\ over = FALSE

-----------------------------------------------------------------------------
\* resolveToolCallId: the id given, remembered for the index; else the one
\* remembered; else one made of the index, or of a counter.
Known(st, i)  == {n \in DOMAIN st.byIndex : st.byIndex[n].index = i}
Remember(st, i, id) ==
    [st EXCEPT !.byIndex = Append(SelectSeq(@, LAMBDA e : e.index # i), [index |-> i, id |-> id])]

resolveToolCallId(st, p) ==
    IF p.id # "" THEN [id |-> <<p.id>>, st |-> IF p.index = -1 THEN st ELSE Remember(st, p.index, <<p.id>>)]
    ELSE IF p.index = -1 THEN [id |-> <<"openai-tool", st.next>>, st |-> [st EXCEPT !.next = @ + 1]]
    ELSE IF Known(st, p.index) # {}
    THEN [id |-> st.byIndex[CHOOSE n \in Known(st, p.index) : TRUE].id, st |-> st]
    ELSE [id |-> <<"openai-tool", p.index>>, st |-> Remember(st, p.index, <<"openai-tool", p.index>>)]

toolCallDeltaEvents(p, s) ==
    LET r == resolveToolCallId(s.st, p) IN
    [st |-> r.st, out |-> IF p.bare THEN s.out
                          ELSE Append(s.out, [kind |-> "tool-call-delta", id |-> r.id, of |-> p])]

\* eventsFromSseBlock: the data lines of a block, joined; two are no JSON.
DataLines(block) == SelectSeq(block, LAMBDA m : m.kind \notin {"return", "newline"})
eventsFromSseBlock(block, s) ==
    LET data == DataLines(block) IN
    IF Len(data) # 1 \/ data = <<Other>> THEN s
    ELSE IF data[1].kind = "delta" THEN toolCallDeltaEvents(data[1], s)
    ELSE [s EXCEPT !.out = Append(@, [kind |-> IF data[1].kind = "text" THEN "text-delta" ELSE "finish"])]

\* The first blank line: a return that is optional, a newline, and again.
IsAt(b, i, marks) == i + Len(marks) - 1 <= Len(b) /\ SubSeq(b, i, i + Len(marks) - 1) = marks
Boundaries(b) == {i \in DOMAIN b : \E e \in Ends, f \in Ends : IsAt(b, i, e \o f)}
boundary(b)   == CHOOSE i \in Boundaries(b) : \A j \in Boundaries(b) : i <= j

\* A block at a time while there is a blank line, whose length is measured by
\* Length.
drainBy(Length(_), b, s) ==
    LET drained[n \in 0 .. Len(b)] ==
          IF n = 0 THEN [s |-> s, rest |-> b]
          ELSE LET d == drained[n - 1]  r == d.rest IN
               IF Boundaries(r) = {} THEN d
               ELSE [s |-> eventsFromSseBlock(SubSeq(r, 1, boundary(r) - 1), d.s),
                     rest |-> SubSeq(r, boundary(r) + Length(r), Len(r))]
    IN drained[Len(b)]

\* Mutant: four marks are cut off whatever the boundary is.
alwaysFour(b) == 4

\* Four if it begins with a return, else two, whatever follows: one too many
\* of a return, a newline and a newline.
separatorLength(b) == IF b[boundary(b)] = Return THEN 4 ELSE 2

drainSseBuffer(b, s) == drainBy(separatorLength, b, s)

-----------------------------------------------------------------------------
Sends(marks) == /\ sent' = sent \o marks /\ chunk' = chunk \o marks
                /\ UNCHANGED <<buffer, ids, yielded, over>>

\* The server: a data line, a blank line, the second half of an end of line.
Unfinished == sent # <<>> /\ Last(sent).kind = "return"
AtLine     == sent # <<>> => Last(sent) = Newline
sendsData(p)  == ~over /\ AtLine /\ lines < MaxLines /\ lines' = lines /\ Sends(<<p>>)
sendsEnd      == ~over /\ sent # <<>> /\ ~Unfinished /\ ~AtLine /\ lines' = lines + 1
                 /\ \E m \in {Return, Newline} : Sends(<<m>>)
sendsBlank    == ~over /\ sent # <<>> /\ AtLine /\ lines < MaxLines /\ lines' = lines + 1
                 /\ \E m \in {Return, Newline} : Sends(<<m>>)
sendsNewline  == ~over /\ Unfinished /\ lines' = lines /\ Sends(<<Newline>>)

\* reader.read() returns what has come: the buffer grows by it and is drained.
read ==
    /\ chunk # <<>> /\ ~over /\ chunk' = <<>>
    /\ LET d == drainSseBuffer(buffer \o chunk, [st |-> ids, out |-> yielded]) IN
       ids' = d.s.st /\ yielded' = d.s.out /\ buffer' = d.rest
    /\ UNCHANGED <<sent, lines, over>>

\* The server closes: what is left is a block.
parseEnds ==
    /\ chunk = <<>> /\ ~over /\ over' = TRUE /\ buffer' = <<>>
    /\ LET s == eventsFromSseBlock(buffer, [st |-> ids, out |-> yielded]) IN
       ids' = s.st /\ yielded' = s.out
    /\ UNCHANGED <<sent, chunk, lines>>

SSENext == \/ \E p \in Payloads : sendsData(p)
           \/ sendsEnd \/ sendsBlank \/ sendsNewline \/ read \/ parseEnds

SSESpec == SSEInit /\ [][SSENext]_sseVars
-----------------------------------------------------------------------------
SSETypeOK ==
    /\ lines \in 0..MaxLines /\ over \in BOOLEAN
    /\ \A i \in DOMAIN yielded : yielded[i].kind \in {"text-delta", "finish", "tool-call-delta"}

\* What a blank line is: the marks that match, no more.
TrueLength(b) == Max({Len(p[1] \o p[2]) : p \in {q \in Ends \X Ends : IsAt(b, boundary(b), q[1] \o q[2])}})

Whole == LET d == drainBy(TrueLength, sent, [st |-> [byIndex |-> <<>>, next |-> 0], out |-> <<>>]) IN
         IF over THEN eventsFromSseBlock(d.rest, d.s) ELSE d.s

\* The blank lines whose length is taken for four and is three.
Miscounted == {i \in DOMAIN sent : IsAt(sent, i, <<Return, Newline, Newline>>)}

\* However the wire is cut into chunks, the events are those of the wire read
\* whole with its blank lines cut as they are (drainSseBuffer), none lost at a
\* boundary and none read twice, as long as no line that ended in "\r\n" is
\* followed by a blank one that is "\n"; and every such line costs the events
\* of one block, no more.
ChunksDoNotMatter ==
    chunk = <<>> =>
      /\ Miscounted = {} => yielded = Whole.out /\ ids = Whole.st
      /\ Len(yielded) \in (Len(Whole.out) - Cardinality(Miscounted)) .. (Len(Whole.out) + Cardinality(Miscounted))

DeltasOf(w, i)   == SelectSeq(w, LAMBDA m : m.kind = "delta" /\ m.index = i)
EventsOf(i)   == SelectSeq(yielded, LAMBDA e : e.kind = "tool-call-delta" /\ e.of.index = i)
NamedFirst(i) == \A k \in 2 .. Len(DeltasOf(sent, i)) : DeltasOf(sent, i)[k].id = ""
NamesDiffer   == \A m, n \in {sent[k] : k \in DOMAIN sent} :
                     m.kind = "delta" /\ n.kind = "delta" /\ m.id # "" /\ m.id = n.id => m.index = n.index

\* The deltas of a call meet under one id and those of two calls never do, as
\* long as a call is named by its first delta, if at all, and has an index.
DeltasMeet ==
    DeltasOf(sent, -1) = <<>> /\ NamesDiffer /\ NamedFirst(0) /\ NamedFirst(1) =>
        \A i, j \in 0..1 : \A k \in DOMAIN EventsOf(i), l \in DOMAIN EventsOf(j) :
            i = j <=> EventsOf(i)[k].id = EventsOf(j)[l].id
=============================================================================
