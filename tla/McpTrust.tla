------------------------------- MODULE McpTrust -------------------------------
(***************************************************************************)
(* The trust lists of MCP servers (core/mcp/trust.ts): one file per scope, *)
(* read anew by every call and replaced through one temporary name per     *)
(* file.  grantTrust and clearTrust await between what they read and what  *)
(* they write, and nothing serializes two calls.                           *)
(***************************************************************************)
EXTENDS Integers, FiniteSets

CONSTANTS
  Servers,         \* registered servers (server-registry.ts)
  Bundled,         \* those registered with scope "bundled"
  TrustCallers     \* overlapping calls

VARIABLES
  file,        \* per scope: the list on disk
  tmp,         \* per scope: the file under the temporary name
  trustCall,   \* per caller: where its grant or clear stands
  overlapped,  \* history: two calls have been under way at once
  cleared      \* history: servers cleared by a call nobody overlapped, and not granted since

mtVars == <<file, tmp, trustCall, overlapped, cleared>>

Scopes == {"global", "project"}

(* A list on disk: absent, cut short, or whole with its servers.  An       *)
(* absent file reads as the empty list; one cut short is malformed.        *)
Listing(s) == [shape |-> "whole", servers |-> s]
NoFile  == [shape |-> "absent", servers |-> {}]
Cut     == [shape |-> "cut", servers |-> {}]
Files   == {NoFile, Cut} \cup {Listing(s) : s \in SUBSET Servers}

TrustPlaces == {"idle", "project-trust", "load-global", "load-project", "open", "write", "rename"}
TrustCall   ==
  [op : {"grant", "clear"}, server : Servers, scope : Scopes, at : TrustPlaces,
   list : [Scopes -> SUBSET Servers],          \* what it read, and will write
   left : SUBSET Scopes,                       \* scopes still to save
   alone : BOOLEAN,                            \* history: no other call since it began
   handle : {"none", "tmp", "file", "gone"}]   \* what its open file has become

(* Types.                                                                  *)
MTTypeOK ==
  /\ file \in [Scopes -> Files] /\ tmp \in [Scopes -> Files]
  /\ trustCall \in [TrustCallers -> TrustCall]
  /\ overlapped \in BOOLEAN /\ cleared \subseteq Servers

MTResting == [op |-> "grant", server |-> CHOOSE s \in Servers : TRUE, scope |-> "global", at |-> "idle",
              list |-> [x \in Scopes |-> {}], left |-> {}, alone |-> FALSE, handle |-> "none"]

MTInit ==
  /\ file = [x \in Scopes |-> NoFile] /\ tmp = [x \in Scopes |-> NoFile]
  /\ trustCall = [c \in TrustCallers |-> MTResting]
  /\ overlapped = FALSE /\ cleared = {}

(* checkTrust: bundled servers always, others by either list.              *)
listTrusted == UNION {file[x].servers : x \in Scopes}
isTrusted(s) == s \in Bundled \cup listTrusted

TrustStep(c, next) == trustCall' = [trustCall EXCEPT ![c] = next]

TrustIdle(c) == trustCall[c].at = "idle"
TrustEnds(c) == trustCall' = [trustCall EXCEPT ![c] = MTResting]

(* A call begins: whoever is under way is no longer alone.                 *)
TrustBegins(c, next) ==
  LET others == {d \in TrustCallers : ~ TrustIdle(d)} IN
  /\ TrustIdle(c)
  /\ trustCall' = [d \in TrustCallers |-> IF d = c THEN [next EXCEPT !.alone = others = {}]
                                          ELSE [trustCall[d] EXCEPT !.alone = FALSE]]
  /\ overlapped' = (overlapped \/ others /= {})
  /\ UNCHANGED <<file, tmp>>

(* A call rejects: MCPTrustUnavailable, or ProjectTrustRequired.           *)
TrustRejects(c) == TrustEnds(c) /\ UNCHANGED <<file, tmp, overlapped, cleared>>

grantTrust(c, s, x) ==
  /\ TrustBegins(c, [trustCall[c] EXCEPT !.op = "grant", !.server = s, !.scope = x, !.left = {x},
                       !.at = IF x = "project" THEN "project-trust" ELSE "load-global"])
  /\ cleared' = cleared \ {s}

clearTrust(c, s) ==
  /\ TrustBegins(c, [trustCall[c] EXCEPT !.op = "clear", !.server = s, !.left = {}, !.at = "load-global"])
  /\ UNCHANGED cleared

(* assertProjectTrustGranted: the list of trusted projects names this one. *)
projectTrusted(c) ==
  /\ trustCall[c].at = "project-trust"
  /\ TrustStep(c, [trustCall[c] EXCEPT !.at = "load-project"])
  /\ UNCHANGED <<file, tmp, overlapped, cleared>>

(* clearTrust reads both lists, then saves those that named the server.    *)
loadForClear(c, x) ==
  LET read == file[x].servers
  IN TrustStep(c, [trustCall[c] EXCEPT !.list[x] = read \ {trustCall[c].server},
                   !.left = @ \cup {y \in {x} : trustCall[c].server \in read},
                   !.at = IF x = "global" THEN "load-project" ELSE "open"])

loadForGrant(c, x) ==
  TrustStep(c, [trustCall[c] EXCEPT !.list[x] = file[x].servers \cup {trustCall[c].server}, !.at = "open"])

loadScopeEntries(c, x) ==
  /\ trustCall[c].at = (IF x = "global" THEN "load-global" ELSE "load-project")
  /\ file[x].shape /= "cut"
  /\ IF trustCall[c].op = "grant" THEN loadForGrant(c, x) ELSE loadForClear(c, x)
  /\ UNCHANGED <<file, tmp, overlapped, cleared>>

(* The scope being saved: the global list before the project's.            *)
Saving(c) == IF "global" \in trustCall[c].left THEN "global" ELSE "project"

(***************************************************************************)
(* atomicWrite: open truncates the temporary file, whoever wrote it;       *)
(* rename moves the name, and handles opened under it keep the file.       *)
(***************************************************************************)
openTmp(c) ==
  /\ trustCall[c].at = "open" /\ trustCall[c].left /= {}
  /\ tmp' = [tmp EXCEPT ![Saving(c)] = Cut]
  /\ TrustStep(c, [trustCall[c] EXCEPT !.at = "write", !.handle = "tmp"])
  /\ UNCHANGED <<file, overlapped, cleared>>

writeTmp(c) ==
  LET x == Saving(c)
      content == Listing(trustCall[c].list[x])
  IN /\ trustCall[c].at = "write"
     /\ tmp'  = IF trustCall[c].handle = "tmp" THEN [tmp EXCEPT ![x] = content] ELSE tmp
     /\ file' = IF trustCall[c].handle = "file" THEN [file EXCEPT ![x] = content] ELSE file
     /\ TrustStep(c, [trustCall[c] EXCEPT !.at = "rename"])
     /\ UNCHANGED <<overlapped, cleared>>

(* Other calls' handles on the same scope follow the file they opened.     *)
Followed(x) ==
  [d \in TrustCallers |->
    IF trustCall[d].handle = "none" \/ Saving(d) /= x THEN trustCall[d]
    ELSE [trustCall[d] EXCEPT !.handle = IF @ = "tmp" THEN "file" ELSE "gone"]]

renameTmp(c) ==
  LET x == Saving(c) IN
  /\ trustCall[c].at = "rename" /\ tmp[x].shape /= "absent"
  /\ file' = [file EXCEPT ![x] = tmp[x]]
  /\ tmp' = [tmp EXCEPT ![x] = NoFile]
  /\ trustCall' = [Followed(x) EXCEPT ![c] =
       [trustCall[c] EXCEPT !.at = "open", !.left = @ \ {x}, !.handle = "none"]]
  /\ UNCHANGED <<overlapped, cleared>>

trustReports(c) ==
  /\ trustCall[c].at = "open" /\ trustCall[c].left = {}
  /\ cleared' = IF trustCall[c].op = "clear" /\ trustCall[c].alone THEN cleared \cup {trustCall[c].server}
                ELSE cleared
  /\ TrustEnds(c)
  /\ UNCHANGED <<file, tmp, overlapped>>

(* Any read, write or rename may fail, and one without its file does.      *)
trustFails(c) == ~ TrustIdle(c) /\ TrustRejects(c)

(* The process dies; the files stay as they are.                           *)
mcpCrash ==
  /\ \E c \in TrustCallers : ~ TrustIdle(c)
  /\ trustCall' = [c \in TrustCallers |-> MTResting]
  /\ UNCHANGED <<file, tmp, overlapped, cleared>>

MTNext ==
  \/ \E c \in TrustCallers :
       \/ \E s \in Servers : clearTrust(c, s) \/ \E x \in Scopes : grantTrust(c, s, x)
       \/ \E x \in Scopes : loadScopeEntries(c, x)
       \/ projectTrusted(c) \/ openTmp(c) \/ writeTmp(c) \/ renameTmp(c)
       \/ trustReports(c) \/ trustFails(c)
  \/ mcpCrash

MTSpec == MTInit /\ [][MTNext]_mtVars

(***************************************************************************)
(* A server whose clear nobody overlapped is untrusted until it is granted *)
(* again, however the calls after it overlap each other, fail, write the   *)
(* one temporary file or are cut short; and while none have overlapped at  *)
(* all, both lists can be read at every moment.  A clear that another call *)
(* does overlap is not covered, and not kept: the other writes back the    *)
(* list it read before.                                                    *)
(***************************************************************************)
ClearedIsUntrusted ==
  /\ \A s \in cleared \ Bundled : ~ isTrusted(s)
  /\ ~ overlapped => \A x \in Scopes : file[x].shape /= "cut"
=============================================================================
