-------------------------- MODULE MCApprovalStack --------------------------
(***************************************************************************)
(* Asking the user and showing him what happens, part by part.  A          *)
(* behaviour explores one part: the approval stack, with two concurrent    *)
(* calls over two tools, a good and a rejected key and a proposal they may *)
(* share, or one of the modules instantiated below; the others stay in an  *)
(* initial state of theirs.                                                *)
(***************************************************************************)
EXTENDS ApprovalStack, TLC

CONSTANTS c1, c2,
          Parts,                                                             \* the parts a run explores
          RoutedArgs, ParentDepths,                                          \* ToolRouting
          Projects,                                                          \* TrustStore
          Servers, Bundled, TrustCallers,                                    \* McpTrust
          CallIds, MaxDeltas, MaxKeys,                                       \* TuiTranscript
          Prompts, MaxDialogs, MaxReplies,                                   \* TuiDialogs
          Listeners, TokenListeners, BufferSize, MaxWrites                   \* RuntimeCollector

Symmetry == Permutations({c1, c2})

VARIABLES part,
  routed, approvedKeys, approvedPaths, parentDepth,                          \* ToolRouting
  trustFile, document, op, gateAudit, consented, rejected, unwritten,        \* TrustStore
  mcpFile, tmp, trustCall, overlapped, cleared,                              \* McpTrust
  kind, turn, call, shown, out, buffer, palette, dialog, queue, arrived,
  called, stuck, keys, submitted, taken,                                     \* TuiTranscript
  ui, life, listening, promise, replies, accepted, raised, replied, raced,   \* TuiDialogs
  state, snapshot, dirty, timer, disposed, subs, tokenSubs, publishing,
  emitting, seen, unscheduled, written                                       \* RuntimeCollector

(* Every tool that asks, at paths above, below and beside one another.     *)
To(tool, paths)      == [tool |-> tool, form |-> "fits", paths |-> paths]
Bash(form)           == [tool |-> "bash", form |-> form, key |-> "git"]
DelegateTo(request)  == [tool |-> "delegate", form |-> "fits", key |-> "child", request |-> request]
MCArgs == {To("read", << <<"d">> >>), To("edit", << <<"d">> >>), To("edit", << <<"d", "e">> >>),
           To("edit", << <<"..">> >>), To("diff", <<>>), To("diff", << <<"d">>, <<"d", "e">> >>),
           To("diff", << <<>>, <<"d">> >>), To("diff", << <<>> >>), Bash("renamed"), Bash("unfit"),
           [tool |-> "unknown", form |-> "fits"], DelegateTo("plain"), DelegateTo("forbidden prompt"),
           DelegateTo("unknown model")}

(* A tool that is scoped by path names one path or none, diff up to two    *)
(* files; a tool of another scope names its key.                           *)
ASSUME PartsAssumption ==
  /\ Parts \subseteq {"approval stack", "tool routing", "project trust", "mcp trust", "transcript",
                      "dialogs", "collector"}
  /\ \A a \in RoutedArgs :
       \/ a.tool = "unknown"
       \/ /\ a.tool \in {"read", "edit", "glob", "diff"} /\ a.paths \in Seq(Seq(STRING))
          /\ a.tool # "diff" => Len(a.paths) <= 1
       \/ a.tool \in {"bash", "web-fetch", "delegate"}
  /\ Projects # {} /\ Servers # {}
  /\ {MaxDeltas, MaxKeys, MaxDialogs, MaxReplies, BufferSize, MaxWrites} \subseteq Nat

RT == INSTANCE ToolRouting WITH granted <- approvedPaths

TS == INSTANCE TrustStore WITH file <- trustFile

MT == INSTANCE McpTrust WITH file <- mcpFile

TT == INSTANCE TuiTranscript

TD == INSTANCE TuiDialogs WITH overlapped <- raced

RC == INSTANCE RuntimeCollector

routeVars == <<routed, approvedKeys, approvedPaths, parentDepth>>
tsVars == <<trustFile, document, op, gateAudit, consented, rejected, unwritten>>
mtVars == <<mcpFile, tmp, trustCall, overlapped, cleared>>
tuiVars == <<kind, turn, call, shown, out, buffer, palette, dialog, queue, arrived, called, stuck,
             keys, submitted, taken>>
dialogVars == <<ui, life, listening, promise, replies, accepted, raised, replied, raced>>
collectorVars == <<state, snapshot, dirty, timer, disposed, subs, tokenSubs, publishing, emitting,
                   seen, unscheduled, written>>
allVars == <<part, vars, routeVars, tsVars, mtVars, tuiVars, dialogVars, collectorVars>>

(* A part that is not explored has one initial state.                      *)
MCInit ==
  /\ part \in Parts
  /\ IF part = "approval stack" THEN TRUE
     ELSE /\ sm = Nothing /\ staged = FALSE /\ mode = "ask" /\ allowlist = {} /\ envelope = {}
          /\ req = [c \in Calls |-> CHOOSE i \in Inputs : TRUE]
  /\ Init /\ RT!TRInit /\ TS!TSInit /\ MT!MTInit /\ TT!TTInit /\ TD!TDInit /\ RC!RCInit
  /\ part # "tool routing" => parentDepth = 0
  /\ part # "project trust" => trustFile.format = "absent"
  /\ part # "transcript" => kind = "ink"

MCNext ==
  /\ UNCHANGED part
  /\ IF part = "approval stack" THEN Next ELSE UNCHANGED vars
  /\ IF part = "tool routing" THEN RT!TRNext ELSE UNCHANGED routeVars
  /\ IF part = "project trust" THEN TS!TSNext ELSE UNCHANGED tsVars
  /\ IF part = "mcp trust" THEN MT!MTNext ELSE UNCHANGED mtVars
  /\ IF part = "transcript" THEN TT!TTNext ELSE UNCHANGED tuiVars
  /\ IF part = "dialogs" THEN TD!TDNext ELSE UNCHANGED dialogVars
  /\ IF part = "collector" THEN RC!RCNext ELSE UNCHANGED collectorVars

MCSpec == MCInit /\ [][MCNext]_allVars

-----------------------------------------------------------------------------
(***************************************************************************)
(* Every variable of every part has its type.                              *)
(***************************************************************************)
TypesOK ==
  CASE part = "approval stack" -> TypeOK
    [] part = "tool routing"   -> RT!TRTypeOK
    [] part = "project trust"  -> TS!TSTypeOK
    [] part = "mcp trust"      -> MT!MTTypeOK
    [] part = "transcript"     -> TT!TTTypeOK
    [] part = "dialogs"        -> TD!TDTypeOK
    [] part = "collector"      -> RC!RCTypeOK

(***************************************************************************)
(* What runs or is trusted was agreed to: a tool call the host resolves    *)
(* runs within what the user approved for its tool, except for the root in *)
(* a diff that mixes it with another directory, and its audit trail and    *)
(* events close it alike (cli/runtime/tool-resolver.ts, tool-approval.ts); *)
(* the trust file names a project only while consent to it was not         *)
(* withdrawn (core/security/trust/store.ts); an MCP server cleared by a    *)
(* call nobody overlapped stays untrusted until it is granted again        *)
(* (core/mcp/trust.ts); through failed writes and crashes.                 *)
(***************************************************************************)
ConsentIsKept ==
  /\ part = "tool routing" => RT!GrantsCoverCalls /\ RT!EveryCallClosed
  /\ part = "project trust" => TS!TrustNeedsConsent
  /\ part = "mcp trust" => MT!ClearedIsUntrusted

(***************************************************************************)
(* The trust gate audits a project as granted only by consent, and once    *)
(* the file says so or while this process goes on from a change to that    *)
(* very project which it failed to write                                   *)
(* (core/project/trust-gate.ts over core/security/trust/store.ts).         *)
(***************************************************************************)
GrantReportedIsWritten == TS!GrantReportedIsWritten

(***************************************************************************)
(* What streams is on screen once and in order and the lines typed reach   *)
(* the loop; what asks has a dialog to be answered by; what listens to the *)
(* runtime is current at rest, and snapshot() is outside the callbacks of  *)
(* token listeners (extensions/ui/default-tui,                             *)
(* core/host/internal/runtime-collector.ts).                               *)
(***************************************************************************)
ScreenIsTrue ==
  /\ part = "transcript" => TT!TranscriptKeepsStream /\ TT!LinesReachTheLoop
  /\ part = "dialogs" => TD!PromptsStayAnswerable
  /\ part = "collector" => RC!ListenersAreCurrent

(***************************************************************************)
(* "allows project-scope grant when prior project trust exists"            *)
(* (tests/core/mcp/trust.test.ts), in the layout the trust store writes.   *)
(***************************************************************************)
ProjectTrustHonoured == TS!ProjectTrustHonoured
============================================================================
