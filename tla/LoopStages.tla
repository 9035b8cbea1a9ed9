----------------------------- MODULE LoopStages -----------------------------
(***************************************************************************)
(* What the stages MessageLoop leaves to injected handlers do (core/loop/  *)
(* stages): RECEIVE_INPUT, COMPOSE_REQUEST, SEND_REQUEST, STREAM_RESPONSE  *)
(* and RENDER, with the TOOL_CALL stage answered by the environment.  Each *)
(* may throw, which ends the turn; the history's store, the assembler, the *)
(* dispatcher and the stream may fail, and the turn may be cancelled at    *)
(* any moment.                                                             *)
(***************************************************************************)
EXTENDS Integers, Sequences, SequencesExt, FiniteSets

CONSTANTS LoopCallIds, \* ids the provider gives its calls
          MaxParts,    \* parts a response streams
          MaxTurns,    \* turns that begin
          MaxPasses    \* requests a turn sends

VARIABLES at,      \* the stage that runs, or how the turn ended
          wire,    \* history: the parts of the pass's stream, in order
          chunks,  \* assistantChunks
          calls,   \* toolAccumulators, in the order of their ids' insertion
          reason,  \* finishReason
          aborted, \* turnSignal
          record,  \* appendHistory: the session's messages
          shown,   \* handOffToUI: texts the user was given
          passes, turns

stageVars == <<at, wire, chunks, calls, reason, aborted, record, shown, passes, turns>>

Absent  == "undefined"
Reasons == {"stop", "tool-calls"}   \* "length" and "error" are taken as "stop"
Well_   == <<"{", "}">>            \* the one pair of argument deltas that parses

\* StreamPart.
StreamParts == [kind : {"text-delta"}, delta : {"a"}]
    \cup [kind : {"tool-call"}, id : LoopCallIds, args : {"w1", "w2", Absent}]
    \cup [kind : {"tool-call-delta"}, id : LoopCallIds, piece : {"{", "}"}]
    \cup [kind : {"finish"}, reason : Reasons]

LSInit ==
    /\ at = "idle" /\ wire = <<>> /\ chunks = <<>> /\ calls = <<>> /\ reason = "stop"
    /\ aborted = FALSE /\ record = <<>> /\ shown = <<>>
    /\ passes = 0 /\ turns = 0

KeepStream == UNCHANGED <<wire, chunks, calls, reason>>
KeepStore  == UNCHANGED <<record, shown>>
KeepTurn   == UNCHANGED <<aborted, turns>>

\* A stage that throws ends the turn (orchestrator.ts).
throws == at' = "failed" /\ KeepStream /\ KeepStore /\ KeepTurn /\ UNCHANGED passes

-----------------------------------------------------------------------------
\* A blank message, a nameless command and any other value are refused.
receivesInvalid ==
    /\ at \in {"idle", "ended", "failed"} /\ turns < MaxTurns
    /\ turns' = turns + 1 /\ aborted' = FALSE /\ passes' = 0 /\ at' = "failed"
    /\ KeepStream /\ KeepStore

\* Otherwise the input is appended and the turn composes its request.
receiveInput(kind) ==
    /\ at \in {"idle", "ended", "failed"} /\ turns < MaxTurns
    /\ turns' = turns + 1 /\ aborted' = FALSE /\ passes' = 0
    /\ \/ at' = "COMPOSE_REQUEST" /\ record' = Append(record, [role |-> kind, text |-> <<>>])
       \/ at' = "failed" /\ UNCHANGED record                       \* StoreUnavailable
    /\ KeepStream /\ UNCHANGED shown

cancels == at \notin {"idle", "ended", "failed"} /\ ~aborted /\ aborted' = TRUE
           /\ UNCHANGED <<at, passes, turns>> /\ KeepStream /\ KeepStore

\* No assembler, or one that fails, throws.
composeRequest ==
    /\ at = "COMPOSE_REQUEST"
    /\ \/ at' = "SEND_REQUEST" /\ KeepStream /\ KeepStore /\ KeepTurn /\ UNCHANGED passes
       \/ throws

\* Tested once, before dispatch: a dispatcher may still ignore the signal.
sendRequest ==
    /\ at = "SEND_REQUEST"
    /\ \/ /\ ~aborted /\ at' = "STREAM_RESPONSE" /\ passes' = passes + 1
          /\ wire' = <<>> /\ chunks' = <<>> /\ calls' = <<>> /\ reason' = "stop"
          /\ KeepStore /\ KeepTurn
       \/ throws

-----------------------------------------------------------------------------
\* The accumulator of an id, made when the id is first met.
IndexOf(id) == {i \in DOMAIN calls : calls[i].id = id}
Put(acc)    == IF IndexOf(acc.id) = {} THEN Append(calls, acc)
               ELSE [i \in DOMAIN calls |-> IF calls[i].id = acc.id THEN acc ELSE calls[i]]
Current(id) == IF IndexOf(id) = {} THEN [id |-> id, named |-> FALSE, args |-> Absent, deltas |-> <<>>]
               ELSE calls[CHOOSE i \in IndexOf(id) : TRUE]

toolCall(p)      == Put([Current(p.id) EXCEPT !.named = TRUE, !.args = p.args])
toolCallDelta(p) == Put([Current(p.id) EXCEPT !.deltas = Append(@, p.piece)])

streams(p) ==
    /\ at = "STREAM_RESPONSE" /\ Len(wire) < MaxParts
    /\ wire' = Append(wire, p)
    /\ chunks' = IF p.kind = "text-delta" THEN Append(chunks, p.delta) ELSE chunks
    /\ calls' = CASE p.kind = "tool-call" -> toolCall(p)
                  [] p.kind = "tool-call-delta" -> toolCallDelta(p)
                  [] OTHER -> calls
    /\ reason' = IF p.kind = "finish" THEN p.reason ELSE reason
    /\ UNCHANGED <<at, passes>> /\ KeepStore /\ KeepTurn

\* resolveToolCalls; parseToolArgs of deltas that are no JSON, none at all
\* among them, throws OutputMalformed.
Resolves(c)      == c.named /\ (c.args # Absent \/ c.deltas = Well_)
parseToolArgs(c) == IF c.args # Absent THEN c.args ELSE c.deltas
resolveToolCalls == [i \in DOMAIN calls |-> [id |-> calls[i].id, args |-> parseToolArgs(calls[i])]]

\* The stream ends; calls are run only if the provider said it stopped for them.
streamEnds ==
    /\ at = "STREAM_RESPONSE"
    /\ IF \A i \in DOMAIN calls : Resolves(calls[i])
       THEN /\ at' = IF reason = "tool-calls" /\ calls # <<>> THEN "TOOL_CALL" ELSE "RENDER"
            /\ KeepStream /\ KeepStore /\ KeepTurn /\ UNCHANGED passes
       ELSE throws

\* An error part, an iterator that rejects, the signal obeyed: coerceStreamError.
streamFails == at = "STREAM_RESPONSE" /\ throws

\* TOOL_CALL asks for another pass, is told to go on without, or throws.
toolsAnswered ==
    /\ at = "TOOL_CALL"
    /\ \/ at' \in (IF passes < MaxPasses THEN {"COMPOSE_REQUEST", "RENDER"} ELSE {"RENDER"})
          /\ KeepStream /\ KeepStore /\ KeepTurn /\ UNCHANGED passes
       \/ throws

\* Appended to the history, then handed to the UI, whether or not the turn
\* has been cancelled meanwhile.
render ==
    /\ at = "RENDER"
    /\ \/ /\ at' = "ended" /\ record' = Append(record, [role |-> "assistant", text |-> chunks])
          /\ shown' = Append(shown, chunks) /\ KeepStream /\ KeepTurn /\ UNCHANGED passes
       \/ throws                                                   \* StoreUnavailable

LSNext == \/ receivesInvalid \/ \E kind \in {"message", "command"} : receiveInput(kind)
          \/ cancels \/ composeRequest \/ sendRequest \/ \E p \in StreamParts : streams(p)
          \/ streamEnds \/ streamFails \/ toolsAnswered \/ render

LSSpec == LSInit /\ [][LSNext]_stageVars
-----------------------------------------------------------------------------
\* Type correctness of the turn's state.
LSTypeOK ==
    /\ at \in {"idle", "ended", "failed", "COMPOSE_REQUEST", "SEND_REQUEST", "STREAM_RESPONSE",
               "TOOL_CALL", "RENDER"}
    /\ reason \in Reasons /\ aborted \in BOOLEAN /\ passes \in 0..MaxPasses /\ turns \in 0..MaxTurns
    /\ \A i \in DOMAIN wire : wire[i] \in StreamParts

\* The calls as the wire tells them: each id where it is first met, with the
\* arguments of its last whole call or else of its deltas put together.
Of(id, kind) == SelectSeq(wire, LAMBDA p : p.kind = kind /\ p.id = id)
First(id)    == CHOOSE i \in DOMAIN wire : "id" \in DOMAIN wire[i] /\ wire[i].id = id
                  /\ \A j \in 1 .. i - 1 : "id" \in DOMAIN wire[j] => wire[j].id # id
Told(id)     == LET whole == Of(id, "tool-call") IN
                IF whole # <<>> /\ Last(whole).args # Absent THEN Last(whole).args
                ELSE [i \in DOMAIN Of(id, "tool-call-delta") |-> Of(id, "tool-call-delta")[i].piece]
Met          == {id \in LoopCallIds : \E i \in DOMAIN wire : "id" \in DOMAIN wire[i] /\ wire[i].id = id}

\* What the TOOL_CALL stage is given is what the provider streamed: every call
\* once, in the order they began, with whole arguments, however its parts and
\* those of the others interleave, and what RENDER is given is the text of the
\* deltas that were announced (stream-response.ts).
ResponseAsStreamed ==
    at \in {"TOOL_CALL", "RENDER"} =>
        /\ Len(chunks) = Len(SelectSeq(wire, LAMBDA p : p.kind = "text-delta"))
        /\ {resolveToolCalls[i].id : i \in DOMAIN calls} = Met /\ Len(calls) = Cardinality(Met)
        /\ \A i \in DOMAIN calls : resolveToolCalls[i].args = Told(calls[i].id)
        /\ \A i, j \in DOMAIN calls : i < j => First(calls[i].id) < First(calls[j].id)

\* The user is never given a reply the history lacks: a resumed session would
\* contradict what was shown (render.ts), whichever turns fail in between.
ShownIsRecorded ==
    shown = LET said == SelectSeq(record, LAMBDA e : e.role = "assistant") IN
            [i \in DOMAIN said |-> said[i].text]
=============================================================================
