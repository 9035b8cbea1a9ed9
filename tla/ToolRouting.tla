----------------------------- MODULE ToolRouting -----------------------------
(***************************************************************************)
(* A tool call on its way through the shell (cli/runtime/tool-resolver.ts  *)
(* and tool-registry.ts): lookup, validation, normalisation, delegate's    *)
(* preflight, approval by a key that names what the call touches, and the  *)
(* run; and the approvals the session remembers (tool-approval.ts).        *)
(*                                                                         *)
(* A directory is the sequence of its names below the workspace root, so   *)
(* <<>> is the root; a path is named by the directory its approval key     *)
(* stands for, the file's parent or, for glob and grep, the directory      *)
(* itself.  A key that is no directory is a sequence of one name too.      *)
(***************************************************************************)
EXTENDS Integers, Sequences, SequencesExt, FiniteSets

CONSTANTS RoutedArgs,   \* the argument records calls are made with
          ParentDepths  \* how deep the calling session may be

VARIABLES routed,       \* the call being resolved
          approvedKeys, \* createRuntimeApprovalCache: the remembered keys
          granted,      \* history: what the user has approved, as directories
          parentDepth   \* depth of the calling session

routeVars == <<routed, approvedKeys, granted, parentDepth>>

Outside  == <<"..">>
MaxDelegateDepth == 1                    \* DELEGATE_DEFAULT_CONFIG
PathScoped == {"read", "edit", "glob"}
ScopeOf(t) == CASE t \in PathScoped -> "path" [] t = "diff" -> "path-set" [] OTHER -> "exact"
gated(t)   == t # "read"
Idle       == [pc |-> "idle", arg |-> "none", audit |-> <<>>, events |-> <<>>, asked |-> FALSE]

TRInit == /\ routed = Idle /\ approvedKeys = {} /\ granted = {}
          /\ parentDepth \in ParentDepths

-----------------------------------------------------------------------------
\* Keys.

\* normalizePathKeys refuses a path that leaves the workspace.
normalizes(a) == a.tool \in PathScoped \cup {"diff"} => \A i \in DOMAIN a.paths : a.paths[i] # Outside

\* deriveApprovalKey: the keys asked for.  A path-set is joined with "|" and
\* split again, which loses the empty key of the root beside another.
splitPathApprovalKey(keys) == IF keys \in {{}, {<<>>}} THEN {<<>>} ELSE keys \ {<<>>}

\* Those of diff, which names up to two files or none.
diffKeys(a) == IF a.paths = <<>> THEN {<<"content">>} ELSE splitPathApprovalKey(Range(a.paths))

deriveApprovalKey(a) ==
    CASE a.tool \in PathScoped -> {IF a.paths = <<>> THEN <<>> ELSE a.paths[1]}
      [] a.tool = "diff" -> diffKeys(a)
      [] OTHER -> {<<a.key>>}

pathApprovalCovers(approved, requested) == IsPrefix(approved, requested)

isToolApproved(a) ==
    \A k \in deriveApprovalKey(a) :
        IF ScopeOf(a.tool) = "exact" THEN <<a.tool, k>> \in approvedKeys
        ELSE \E e \in approvedKeys : e[1] = a.tool /\ pathApprovalCovers(e[2], k)

Touched(a) == IF a.tool \in PathScoped \cup {"diff"} /\ a.paths # <<>> THEN Range(a.paths)
              ELSE deriveApprovalKey(a)

-----------------------------------------------------------------------------
\* The stages of resolveToolCallResult.

Step(pc)           == routed' = [routed EXCEPT !.pc = pc]
closes(code, ev) == routed' = [routed EXCEPT !.pc = "done", !.audit = Append(@, "ToolCallFailed"),
                                             !.events = Append(@, ev)]
succeeds == routed' = [routed EXCEPT !.pc = "done", !.audit = Append(@, "ToolCallSucceeded"),
                                     !.events = Append(@, "ToolInvocationSucceeded")]
KeepRoute == UNCHANGED <<approvedKeys, granted, parentDepth>>

resolveToolCallResult(a) ==
    /\ routed.pc \in {"idle", "done"}
    /\ routed' = [Idle EXCEPT !.pc = "lookup", !.arg = a, !.audit = <<"ToolCallStarted">>]
    /\ KeepRoute

rejectMissingTool ==
    /\ routed.pc = "lookup" /\ routed.arg.tool = "unknown"
    /\ closes("tool-not-available", "ToolInvocationCancelled") /\ KeepRoute

\* The command of bash may come under another name.
coerceBashArgs(a) == IF a.tool = "bash" /\ a.form = "renamed" THEN "fits" ELSE a.form

\* validateArgs.
validates ==
    /\ routed.pc = "lookup" /\ routed.arg.tool # "unknown"
    /\ IF coerceBashArgs(routed.arg) = "fits"
       THEN Step("normalize") ELSE closes("schema-violation", "ToolInvocationFailed")
    /\ KeepRoute

normalizesArgs ==
    /\ routed.pc = "normalize"
    /\ IF ~normalizes(routed.arg) THEN closes("normalize-failed", "ToolInvocationFailed")
       ELSE Step(IF routed.arg.tool = "delegate" THEN "preflight" ELSE "approve")
    /\ KeepRoute

\* delegate's preflight: a refusal that says why as a value, a denial, or the
\* canonical arguments.
preflight ==
    /\ routed.pc = "preflight"
    /\ CASE routed.arg.request = "forbidden prompt" ->
               closes("preflight-denied", "ToolInvocationFailed")
         [] routed.arg.request \in {"unknown model", "invalid envelope"}
            \/ parentDepth >= MaxDelegateDepth -> succeeds       \* earlyReturn: aborted
         [] OTHER -> Step("approve")
    /\ KeepRoute

\* ensureToolApproval in a session that asks (ApprovalStack has the modes):
\* ungated, remembered, or asked.
approves ==
    /\ routed.pc = "approve" /\ (~gated(routed.arg.tool) \/ isToolApproved(routed.arg))
    /\ routed' = [routed EXCEPT !.pc = "run", !.events = Append(@, "ToolInvocationStarted")]
    /\ KeepRoute

\* rememberToolApproval after a yes.
asksApproval ==
    /\ routed.pc = "approve" /\ gated(routed.arg.tool) /\ ~isToolApproved(routed.arg)
    /\ \/ /\ approvedKeys' = approvedKeys \cup {<<routed.arg.tool, k>> : k \in deriveApprovalKey(routed.arg)}
          /\ granted' = granted \cup {<<routed.arg.tool, d>> : d \in Touched(routed.arg)}
          /\ routed' = [routed EXCEPT !.pc = "run", !.asked = TRUE,
                                      !.events = Append(@, "ToolInvocationStarted")]
       \/ closes("approval-denied", "ToolInvocationCancelled") /\ UNCHANGED <<approvedKeys, granted>>
       \/ Step("threw") /\ UNCHANGED <<approvedKeys, granted>>      \* nobody to ask
    /\ UNCHANGED parentDepth

\* executeWithHost or execute: both turn a throw into an error result.
executes ==
    /\ routed.pc = "run"
    /\ succeeds \/ closes("failed", "ToolInvocationFailed")
    /\ KeepRoute

\* A throw leaves the call as it stands; the session's next call finds it gone.
abandonsCall == routed.pc = "threw" /\ routed' = Idle /\ KeepRoute

TRNext == \/ \E a \in RoutedArgs : resolveToolCallResult(a)
          \/ rejectMissingTool \/ validates \/ normalizesArgs \/ preflight
          \/ approves \/ asksApproval \/ executes \/ abandonsCall
TRSpec == TRInit /\ [][TRNext]_routeVars

-----------------------------------------------------------------------------
TRTypeOK ==
    /\ routed.pc \in {"idle", "lookup", "normalize", "preflight", "approve", "run", "done", "threw"}
    /\ \A e \in approvedKeys : /\ gated(e[1])
                              /\ \E a \in RoutedArgs : e[1] = a.tool /\ e[2] \in deriveApprovalKey(a)
    /\ parentDepth \in ParentDepths

\* A diff of a file at the root with one below has the key "|d", which is
\* split into d alone.
MixesRoot(a) == a.tool = "diff" /\ <<>> \in Range(a.paths) /\ Range(a.paths) # {<<>>}

Granted(t, d) == \E g \in granted : g[1] = t /\ IsPrefix(g[2], d)

\* A call that runs without the user being asked touches only directories the
\* user has approved for its tool, or directories below one: however the
\* approvals were given, in whatever order, and for whatever other paths.  The
\* one exception is the root in a diff that mixes it with another directory:
\* there the file at the root is read on the approval of the other alone.
GrantsCoverCalls ==
    routed.pc = "run" /\ gated(routed.arg.tool)
        => \A d \in Touched(routed.arg) :
              Granted(routed.arg.tool, d) \/ (d = <<>> /\ MixesRoot(routed.arg))

\* Wherever a call ends, the audit trail closes it, with the outcome the host's
\* events report; and what the host was told has started, it is told has ended.
EveryCallClosed ==
    routed.pc = "done" =>
        /\ Len(routed.audit) = 2 /\ routed.audit[1] = "ToolCallStarted"
        /\ routed.audit[2] = "ToolCallSucceeded" <=> Last(routed.events) = "ToolInvocationSucceeded"
        /\ \A i \in DOMAIN routed.events :
              (i = Len(routed.events)) <=> routed.events[i] # "ToolInvocationStarted"
=============================================================================
