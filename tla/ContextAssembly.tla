-------------------------- MODULE ContextAssembly --------------------------
(***************************************************************************)
(* The request a turn sends (core/context): fragments of the context       *)
(* providers resolved one provider after the other, sorted, cut to their   *)
(* budgets, and the history compacted when the window is exceeded.  The    *)
(* scan for secrets is an operation of its own, which the assembly does    *)
(* not call.  Beside it the provider runtime, which runs providers together*)
(* and settles exclusive slots.  Sizes stand for tokens.                   *)
(* And what a request is made from and how it shrinks: the compactor of    *)
(* the history (compactor.ts, around an external library), the compaction  *)
(* tool, and the provider that reads the system prompt from a file once    *)
(* per turn.                                                               *)
(***************************************************************************)
EXTENDS Integers, Sequences, SequencesExt, TLC

CONSTANTS
  CtxProviders,  \* numbers, so that they sort as their ids do
  Answers,       \* sequences of fragments a provider may return
  Windows,       \* model windows
  BaseSizes,     \* tokens of system prompt and tools, and of the history
  Histories,     \* token sizes of the messages of a history
  Targets,       \* target budgets asked for
  Summaries,     \* token sizes a summary may have
  Holdings,      \* which surfaces of an input hold which of those values
  MaxVersions    \* bound: edits of the prompt file

CtxFailures == {"fails", "invalid", "cancelled"}
NoSlot_ == "no slot"
Sources  == {"env", "settings"}   \* of the values the scan looks for
Surfaces == {"systemPrompt", "history", "tools"}
Unset   == "unset"

VARIABLES
  asm,        \* assembleRequest
  prun,       \* runProviders
  graceful,   \* providers whose failure is tolerated
  squeeze,    \* one compactHistory call
  tool,       \* one call of the context-compaction tool, and what it left
  prompt      \* the system-prompt-file provider

ctxVars == <<asm, prun, graceful>>

Size(frags) == FoldLeft(LAMBDA sum, f : sum + f.size, 0, frags)

(* Higher priority first, then by owner; the sort is stable.               *)
sortFragments(frags) ==
  LET before(i, j) ==
        \/ frags[i].priority > frags[j].priority
        \/ /\ frags[i].priority = frags[j].priority
           /\ frags[i].owner < frags[j].owner \/ (frags[i].owner = frags[j].owner /\ i < j)
      order == SetToSortSeq(DOMAIN frags, before)
  IN [i \in DOMAIN order |-> frags[order[i]]]

(* The budget of a provider is the one its first fragment declares; the    *)
(* fragments behind share what is left of it.                              *)
enforcePerProviderBudget(frags) ==
  LET budget(o) == frags[CHOOSE i \in DOMAIN frags :
                     frags[i].owner = o /\ \A j \in 1..(i - 1) : frags[j].owner /= o].budget
      used(i)   == Size(SelectSeq(SubSeq(frags, 1, i - 1), LAMBDA f : f.owner = frags[i].owner))
      left(i)   == IF budget(frags[i].owner) > used(i) THEN budget(frags[i].owner) - used(i) ELSE 0
  IN [i \in DOMAIN frags |-> [frags[i] EXCEPT !.size = IF @ > left(i) THEN left(i) ELSE @]]

Asm0 == [at |-> "idle", todo |-> <<>>, frags |-> <<>>, base |-> 0, history |-> 0, window |-> 0,
         total |-> 0, compacted |-> FALSE, held |-> {}, outcome |-> "none", verdict |-> "none"]
Prun0 == [answers |-> [p \in CtxProviders |-> Unset], outcome |-> "none", result |-> <<>>]

CATypeOK ==
  /\ asm.at \in {"idle", "providing", "compacting"} /\ asm.held \subseteq (Surfaces \X Sources)
  /\ asm.outcome \in {"none", "assembled", "ContextProviderFailed", "ContextOverflow",
                      "ContextContainsForbiddenSource"}
  /\ asm.verdict \in {"none", "clean", "LLMContextLeak"}
  /\ asm.total \in Nat /\ graceful \subseteq CtxProviders
  /\ prun.outcome \in {"none", "running", "resolved", "ContextProviderFailed", "invalid", "cancelled"}

CAInit ==
  /\ asm = Asm0 /\ prun = Prun0
  /\ graceful \in SUBSET CtxProviders

Fail(code) == asm' = [asm EXCEPT !.at = "idle", !.outcome = code]

(* The window must be positive.  The surfaces of the input may hold values *)
(* that were resolved from the environment or the settings.                *)
assembleRequest(window, base, history, held) ==
  /\ asm.at = "idle" /\ window > 0
  /\ asm' = [Asm0 EXCEPT !.at = "providing", !.todo = SetToSortSeq(CtxProviders, <), !.base = base,
                         !.history = history, !.window = window, !.held = held]
  /\ UNCHANGED <<prun, graceful>>

Owned(p, answer) == [i \in DOMAIN answer |-> [owner |-> p] @@ answer[i]]

(* One provider's fragments, each checked for key material as it comes.    *)
resolveFragments(answer) ==
  /\ asm.at = "providing" /\ asm.todo /= <<>>
  /\ IF \E i \in DOMAIN answer : answer[i].secret = "key pattern"
     THEN Fail("ContextContainsForbiddenSource")
     ELSE asm' = [asm EXCEPT !.todo = Tail(@), !.frags = @ \o Owned(Head(asm.todo), answer)]
  /\ UNCHANGED <<prun, graceful>>

providerFails ==
  /\ asm.at = "providing" /\ asm.todo /= <<>>
  /\ IF Head(asm.todo) \in graceful
     THEN asm' = [asm EXCEPT !.todo = Tail(@)]
     ELSE Fail("ContextProviderFailed")
  /\ UNCHANGED <<prun, graceful>>

computeBreakdown(frags, history) == asm.base + history + Size(frags)

Assembled(request) == [request EXCEPT !.at = "idle", !.outcome = "assembled"]

(* Sort, cut, count, and compact only if the window is exceeded.           *)
enforceBudgets ==
  /\ asm.at = "providing" /\ asm.todo = <<>>
  /\ LET frags == enforcePerProviderBudget(sortFragments(asm.frags))
         total == computeBreakdown(frags, asm.history)
         whole == [asm EXCEPT !.frags = frags, !.total = total]
     IN asm' = IF total > asm.window THEN [whole EXCEPT !.at = "compacting"] ELSE Assembled(whole)
  /\ UNCHANGED <<prun, graceful>>

(* The compacted history is counted again, and may have lost its secrets.  *)
compact(history, forgets) ==
  /\ asm.at = "compacting" /\ history <= asm.history
  /\ LET total == computeBreakdown(asm.frags, history) IN
     IF total > asm.window THEN Fail("ContextOverflow")
     ELSE asm' = Assembled([asm EXCEPT !.history = history, !.compacted = TRUE, !.total = total,
            !.held = IF forgets THEN {h \in @ : h[1] /= "history"} ELSE @])
  /\ UNCHANGED <<prun, graceful>>

(* Every surface against every resolved value, but those the user typed;   *)
(* what a budget cut off is no longer there.                               *)
scanForLeaks(typed) ==
  {h \in asm.held : h[2] \notin typed} \cup
  {<<"fragment", asm.frags[i].secret>> : i \in {j \in DOMAIN asm.frags :
     asm.frags[j].secret \in Sources \ typed /\ asm.frags[j].size > 0}}

(* The scan of a request that was assembled: it is returned as it is, or   *)
(* an exception.  Tests call it; the assembly and the session do not.      *)
enforceIsolation(typed) ==
  /\ asm.at = "idle" /\ asm.outcome = "assembled" /\ asm.verdict = "none"
  /\ asm' = [asm EXCEPT !.verdict = IF scanForLeaks(typed) = {} THEN "clean" ELSE "LLMContextLeak"]
  /\ UNCHANGED <<prun, graceful>>

(***************************************************************************)
(* The provider runtime: all providers at once, the first error wins.      *)
(***************************************************************************)
runProviders ==
  /\ prun.outcome /= "running"
  /\ prun' = [Prun0 EXCEPT !.outcome = "running"]
  /\ UNCHANGED <<asm, graceful>>

(* Of the fragments for one slot the one whose owner's id is smallest      *)
(* stays, and of that owner the one that sorts first.                      *)
applyExclusiveSlots(frags) ==
  LET loses(i) == \E j \in DOMAIN frags :
        /\ frags[i].slot /= NoSlot_ /\ frags[i].slot = frags[j].slot
        /\ frags[j].owner < frags[i].owner \/ (frags[j].owner = frags[i].owner /\ j < i)
      kept == SetToSortSeq({i \in DOMAIN frags : ~loses(i)}, <)
  IN [k \in DOMAIN kept |-> frags[kept[k]]]

AllFragments(answers) == FlattenSeq([i \in DOMAIN SetToSortSeq(CtxProviders, <) |->
  LET p == SetToSortSeq(CtxProviders, <)[i] IN Owned(p, answers[p])])

providerResolves(p, answer) ==
  /\ prun.outcome = "running" /\ prun.answers[p] = Unset
  /\ LET answers == [prun.answers EXCEPT ![p] = answer] IN
     prun' = IF \E q \in CtxProviders : answers[q] = Unset
             THEN [prun EXCEPT !.answers = answers]
             ELSE [prun EXCEPT !.answers = answers, !.outcome = "resolved",
                     !.result = applyExclusiveSlots(sortFragments(AllFragments(answers)))]
  /\ UNCHANGED <<asm, graceful>>

(* Only a plain failure of a graceful provider counts as no fragments.     *)
providerRejects(p, failure) ==
  /\ prun.outcome = "running" /\ prun.answers[p] = Unset
  /\ ~(failure = "fails" /\ p \in graceful)
  /\ prun' = [prun EXCEPT !.outcome = IF failure = "fails" THEN "ContextProviderFailed" ELSE failure]
  /\ UNCHANGED <<asm, graceful>>

providerTolerated(p) == p \in graceful /\ providerResolves(p, <<>>)

CANext ==
  \/ \E w \in Windows, b, h \in BaseSizes, held \in Holdings : assembleRequest(w, b, h, held)
  \/ \E a \in Answers : resolveFragments(a)
  \/ providerFails \/ enforceBudgets
  \/ \E h \in BaseSizes, f \in BOOLEAN : compact(h, f)
  \/ \E t \in SUBSET {"env"} : enforceIsolation(t)
  \/ runProviders
  \/ \E p \in CtxProviders, a \in Answers : providerResolves(p, a)
  \/ \E p \in CtxProviders, f \in CtxFailures : providerRejects(p, f)
  \/ \E p \in CtxProviders : providerTolerated(p)

CASpec == CAInit /\ [][CANext]_ctxVars

(***************************************************************************)
(* An assembled request fits the window, its total is what its parts       *)
(* add up to after the cuts, and no provider takes more than the largest   *)
(* budget it asked for, however it spreads its fragments.                  *)
(***************************************************************************)
AssembledFits ==
  asm.outcome = "assembled" =>
    /\ asm.total <= asm.window /\ asm.total = asm.base + asm.history + Size(asm.frags)
    /\ \A p \in CtxProviders :
         LET own == SelectSeq(asm.frags, LAMBDA f : f.owner = p) IN
         own /= <<>> => \E i \in DOMAIN own : Size(own) <= own[i].budget

(***************************************************************************)
(* An exclusive slot is filled by exactly one fragment when anybody asked  *)
(* for it, by the provider with the smallest id; fragments without a slot  *)
(* are all kept.                                                           *)
(***************************************************************************)
ExclusiveSlotsSettled ==
  prun.outcome = "resolved" =>
    LET asked == {p \in CtxProviders : \E i \in DOMAIN prun.answers[p] : prun.answers[p][i].slot /= NoSlot_}
        won   == SelectSeq(prun.result, LAMBDA f : f.slot /= NoSlot_)
        free  == SelectSeq(AllFragments(prun.answers), LAMBDA f : f.slot = NoSlot_)
    IN /\ Len(won) = IF asked = {} THEN 0 ELSE 1
       /\ \A p \in asked : won[1].owner <= p
       /\ Len(prun.result) = Len(won) + Len(free)
-----------------------------------------------------------------------------
(***************************************************************************)
(* The sources of a context, and its compaction: CSSpec, over sourceVars,  *)
(* which the assembly reads and changes no more than they read its state.  *)
(***************************************************************************)
sourceVars == <<squeeze, tool, prompt>>

NoCopy == 0
Codes_ == {"none", "ok", "ContextOverflow", "SummarizeFailed", "AuditFailed"}
ToolCodes == {"none", "ok", "ConfigSchemaViolation", "TurnCancelled", "OutputMalformed", "StoreUnavailable", "AuditFailed"}

estimateModelTokens(history) == FoldLeft(+, 0, history)

Squeeze0 == [at |-> "idle", history |-> <<>>, result |-> <<>>, target |-> 0, performed |-> 0, code |-> "none"]
Tool0    == [at |-> "idle", result |-> 0, code |-> "none"]

CSTypeOK ==
  /\ squeeze.at \in {"idle", "summarizing", "auditing"} /\ squeeze.code \in Codes_
  /\ squeeze.performed \in 0..1
  /\ tool.call.at \in {"idle", "compacting", "persisting", "auditing"} /\ tool.call.code \in ToolCodes
  /\ tool.slot \in 0..2 /\ tool.audited \in 0..2 /\ tool.compactions \in 0..2
  /\ prompt.cached \in 0..MaxVersions /\ prompt.file \in 1..MaxVersions
  /\ prompt.state \in {"none", "asking", "ready", "gone", "refused"}

CSInit ==
  /\ squeeze = Squeeze0
  /\ tool = [call |-> Tool0, slot |-> 0, audited |-> 0, compactions |-> 0]
  /\ prompt = [state |-> "none", file |-> 1, cached |-> NoCopy, reading |-> NoCopy, turnFile |-> 1, spans |-> FALSE]

(***************************************************************************)
(* The compactor.                                                          *)
(***************************************************************************)
hasOverflow(tokens, target) == tokens > target

compactHistory(history, target) ==
  /\ squeeze.at = "idle"
  /\ squeeze' = [Squeeze0 EXCEPT !.history = history, !.target = target, !.result = history,
       !.code = IF target <= 0 THEN "ContextOverflow" ELSE "none",
       !.performed = IF target > 0 /\ ~hasOverflow(estimateModelTokens(history), target) THEN 1 ELSE 0,
       !.at = IF target <= 0 THEN "idle"
              ELSE IF hasOverflow(estimateModelTokens(history), target) THEN "summarizing" ELSE "auditing"]
  /\ UNCHANGED <<tool, prompt>>

(* The library keeps the last message and has the older ones summarized,   *)
(* or throws; whatever else it throws is an overflow.                      *)
summarizeFails(code) ==
  /\ squeeze.at = "summarizing"
  /\ squeeze' = [squeeze EXCEPT !.at = "idle", !.code = code, !.result = <<>>]
  /\ UNCHANGED <<tool, prompt>>

compactWithAgentool(summary) ==
  /\ squeeze.at = "summarizing"
  /\ LET result == <<summary, Last(squeeze.history)>> IN
     squeeze' = IF hasOverflow(estimateModelTokens(result), squeeze.target)
       THEN [squeeze EXCEPT !.at = "idle", !.code = "ContextOverflow", !.result = <<>>]
       ELSE [squeeze EXCEPT !.at = "auditing", !.performed = 1, !.result = result]
  /\ UNCHANGED <<tool, prompt>>

(* The event is out before the audit record is written, which may fail.    *)
compactionAudited ==
  /\ squeeze.at = "auditing"
  /\ squeeze' = [squeeze EXCEPT !.at = "idle", !.code = "ok"]
  /\ UNCHANGED <<tool, prompt>>

compactionAuditFails ==
  /\ squeeze.at = "auditing"
  /\ squeeze' = [squeeze EXCEPT !.at = "idle", !.code = "AuditFailed", !.result = <<>>]
  /\ UNCHANGED <<tool, prompt>>

(***************************************************************************)
(* The tool.  Its arguments and the signal are checked before the work     *)
(* and not again.                                                          *)
(***************************************************************************)
ToolEnds(code) == tool' = [tool EXCEPT !.call = [tool.call EXCEPT !.at = "idle", !.code = code]]

executeContextCompaction(valid, aborted) ==
  /\ tool.call.at = "idle"
  /\ tool' = [tool EXCEPT !.call = [Tool0 EXCEPT
       !.code = IF ~valid THEN "ConfigSchemaViolation" ELSE IF aborted THEN "TurnCancelled" ELSE "none",
       !.at   = IF valid /\ ~aborted THEN "compacting" ELSE "idle"]]
  /\ UNCHANGED <<squeeze, prompt>>

compactReturns ==
  /\ tool.call.at = "compacting" /\ tool.compactions < 2
  /\ tool' = [tool EXCEPT !.compactions = @ + 1, !.call.at = "persisting", !.call.result = tool.compactions + 1]
  /\ UNCHANGED <<squeeze, prompt>>

(* A malformed summary: the history may have been compacted all the same.  *)
compactMalformed ==
  /\ tool.call.at = "compacting"
  /\ ToolEnds("OutputMalformed") \/ ToolEnds("TurnCancelled")
  /\ UNCHANGED <<squeeze, prompt>>

persisted ==
  /\ tool.call.at = "persisting"
  /\ tool' = [tool EXCEPT !.slot = tool.call.result, !.call.at = "auditing"]
  /\ UNCHANGED <<squeeze, prompt>>

persistFails ==
  /\ tool.call.at = "persisting"
  /\ ToolEnds("StoreUnavailable")
  /\ UNCHANGED <<squeeze, prompt>>

auditWritten ==
  /\ tool.call.at = "auditing"
  /\ tool' = [tool EXCEPT !.audited = tool.call.result, !.call = [@ EXCEPT !.at = "idle", !.code = "ok"]]
  /\ UNCHANGED <<squeeze, prompt>>

auditRejected ==
  /\ tool.call.at = "auditing"
  /\ ToolEnds("AuditFailed")
  /\ UNCHANGED <<squeeze, prompt>>

(***************************************************************************)
(* The system-prompt-file provider.                                        *)
(***************************************************************************)
init(outside) ==
  /\ prompt.state \in {"none", "gone", "refused"}
  /\ prompt' = [prompt EXCEPT !.cached = NoCopy, !.state = IF outside THEN "asking" ELSE "ready"]
  /\ UNCHANGED <<squeeze, tool>>

(* A path outside the project is read only after the user said yes.        *)
checkPathTrust(answer) ==
  /\ prompt.state = "asking"
  /\ prompt' = [prompt EXCEPT !.state = IF answer = "yes" THEN "ready" ELSE "refused"]
  /\ UNCHANGED <<squeeze, tool>>

fileEdited ==
  /\ prompt.file < MaxVersions
  /\ prompt' = [prompt EXCEPT !.file = @ + 1]
  /\ UNCHANGED <<squeeze, tool>>

(* cachedContent ??= await read: what was read is stored when the read     *)
(* comes back, whatever happened to the cache meanwhile.                   *)
provide ==
  /\ prompt.state = "ready" /\ prompt.cached = NoCopy /\ prompt.reading = NoCopy
  /\ prompt' = [prompt EXCEPT !.reading = prompt.file, !.spans = FALSE]
  /\ UNCHANGED <<squeeze, tool>>

readFileContent ==
  /\ prompt.reading /= NoCopy
  /\ prompt' = [prompt EXCEPT !.reading = NoCopy,
                  !.cached = IF prompt.state = "ready" THEN prompt.reading ELSE NoCopy]
  /\ UNCHANGED <<squeeze, tool>>

readFails ==
  /\ prompt.reading /= NoCopy
  /\ prompt' = [prompt EXCEPT !.reading = NoCopy, !.spans = FALSE]
  /\ UNCHANGED <<squeeze, tool>>

buildTurnEndHandler ==
  /\ prompt' = [prompt EXCEPT !.turnFile = prompt.file, !.spans = prompt.reading /= NoCopy,
                  !.cached = NoCopy]
  /\ UNCHANGED <<squeeze, tool>>

deactivate ==
  /\ prompt.state = "ready"
  /\ prompt' = [prompt EXCEPT !.cached = NoCopy]
  /\ UNCHANGED <<squeeze, tool>>

dispose ==
  /\ prompt.state = "ready"
  /\ prompt' = [prompt EXCEPT !.state = "gone", !.cached = NoCopy]
  /\ UNCHANGED <<squeeze, tool>>

CSNext ==
  \/ \E h \in Histories, t \in Targets : compactHistory(h, t)
  \/ \E c \in {"SummarizeFailed", "ContextOverflow"} : summarizeFails(c)
  \/ \E s \in Summaries : compactWithAgentool(s)
  \/ compactionAudited \/ compactionAuditFails
  \/ \E v, a \in BOOLEAN : executeContextCompaction(v, a)
  \/ compactReturns \/ compactMalformed \/ persisted \/ persistFails \/ auditWritten \/ auditRejected
  \/ \E o \in BOOLEAN : init(o)
  \/ \E a \in {"yes", "no", "unavailable"} : checkPathTrust(a)
  \/ fileEdited \/ provide \/ readFileContent \/ readFails \/ buildTurnEndHandler \/ deactivate \/ dispose

CSSpec == CSInit /\ [][CSNext]_sourceVars

(***************************************************************************)
(* What compactHistory returns fits its target, and is the history itself  *)
(* only if that fitted; the tool says ok only if the slot and the audit    *)
(* hold the compaction it reports.                                         *)
(***************************************************************************)
CompactionIsWhatWasReported ==
  /\ squeeze.code = "ok" =>
       /\ estimateModelTokens(squeeze.result) <= squeeze.target
       /\ squeeze.result = squeeze.history \/ hasOverflow(estimateModelTokens(squeeze.history), squeeze.target)
  /\ tool.call.code = "ok" => tool.slot = tool.call.result /\ tool.audited = tool.call.result

(***************************************************************************)
(* The prompt that is cached was read in the turn it is used in, unless a  *)
(* read was under way when the turn before ended: that one stores its old  *)
(* content into the cache the turn's end had cleared.                      *)
(***************************************************************************)
PromptOfThisTurn ==
  prompt.cached /= NoCopy /\ ~prompt.spans => prompt.cached >= prompt.turnFile
=============================================================================
