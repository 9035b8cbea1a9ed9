------------------------------ MODULE McpClient ------------------------------
(***************************************************************************)
(* The MCP client for one registered server (core/mcp/client.ts), with the *)
(* reconnection loop (reconnect.ts) and the calls that go through a        *)
(* connection: listing, callTool, prompts (prompt-consume.ts), resources   *)
(* (resource-binding.ts).  Connections are kept by server id; a transport  *)
(* reports its own end through onclose and onerror, which delete by that   *)
(* id too, whichever transport is registered by then.                      *)
(*                                                                         *)
(* External: the SDK's transports.  Dialling, a request and a close end    *)
(* with success or failure; callbacks come whenever a transport has been   *)
(* dialled, also late, after its close.                                    *)
(***************************************************************************)
EXTENDS Integers, FiniteSets

CONSTANTS
  Callers,        \* overlapping calls of the api
  MaxTransports,  \* bound: transports ever created
  MaxAttempts     \* ReconnectPolicy.maxAttempts

VARIABLES
  connection,   \* connections.get(id): a transport, or 0
  transports,   \* how many were created
  open,         \* those dialled and not closed by either side
  call          \* per caller: what it does and where it stands

mcpVars == <<connection, transports, open, call>>

Uses    == {"list", "callTool", "prompt", "resource"}
Ops     == Uses \cup {"connect", "disconnect", "reconnect"}
Errors  == {"MCPUntrusted", "MCPConnectionLost", "MCPToolFailed", "PromptMissing", "ResourceMissing",
            "Raw", "CloseFailed"}
Places  == {"idle", "trust", "dial", "connected", "using", "closing", "sleep", "attempt", "ok"} \cup Errors
Resting == {"idle", "ok"} \cup Errors
Call    == [op : Ops, at : Places, attempt : 0..MaxAttempts, transport : 0..MaxTransports]

(* Types.                                                                  *)
MCPTypeOK ==
  /\ transports \in 0..MaxTransports
  /\ open \subseteq 1..transports /\ connection \in 0..transports
  /\ call \in [Callers -> Call]

MCPInit ==
  /\ connection = 0 /\ transports = 0 /\ open = {}
  /\ call = [c \in Callers |-> [op |-> "connect", at |-> "idle", attempt |-> 0, transport |-> 0]]

Go(c, place) ==
  call' = [call EXCEPT ![c].at = place, ![c].transport = IF place \in Resting THEN 0 ELSE @]

(***************************************************************************)
(* connect, for whichever operation needs it: present already, or trust    *)
(* check, then dial.                                                       *)
(***************************************************************************)
Connecting(c, o, k) ==
  call' = [call EXCEPT ![c] = [op |-> o, attempt |-> k, transport |-> 0,
             at |-> IF connection = 0 THEN "trust" ELSE "connected"]]

(* What the caller is told of an error: a prompt that cannot be had is     *)
(* missing whatever the reason, unless it is a Session error; an attempt   *)
(* of reconnect is followed by the next, or the loss is reported.          *)
After(c, e) ==
  CASE call[c].op = "prompt" /\ e /= "MCPUntrusted" -> "PromptMissing"
    [] call[c].op = "reconnect" /\ call[c].attempt < MaxAttempts -> "sleep"
    [] call[c].op = "reconnect" /\ call[c].attempt >= MaxAttempts -> "MCPConnectionLost"
    [] OTHER -> e

invoke(c, o) ==
  /\ call[c].at \in Resting /\ o \in Uses \cup {"connect"}
  /\ Connecting(c, o, 0)
  /\ UNCHANGED <<connection, transports, open>>

checkTrust(c) ==
  /\ call[c].at = "trust"
  /\ \/ Go(c, After(c, "MCPUntrusted")) /\ UNCHANGED transports
     \/ /\ transports < MaxTransports
        /\ transports' = transports + 1
        /\ call' = [call EXCEPT ![c].at = "dial", ![c].transport = transports + 1]
  /\ UNCHANGED <<connection, open>>

(* client.connect resolved: the new transport is registered, whatever is.  *)
dialled(c) ==
  /\ call[c].at = "dial"
  /\ open' = open \cup {call[c].transport}
  /\ connection' = call[c].transport
  /\ Go(c, "connected")
  /\ UNCHANGED transports

(* A transport that ends while it is dialled may report that too: onclose  *)
(* and onerror are set before client.connect.                              *)
dialFails(c) ==
  /\ call[c].at = "dial"
  /\ connection' \in {connection, 0}
  /\ Go(c, After(c, "MCPConnectionLost"))
  /\ UNCHANGED <<transports, open>>

(* What follows: the call returns, or takes the connection that is         *)
(* registered now (ensureConnected) and sends its request.                 *)
connected(c) ==
  /\ call[c].at = "connected"
  /\ call' = [call EXCEPT
       ![c].at = IF call[c].op \notin Uses THEN "ok"
                 ELSE IF connection = 0 THEN After(c, "MCPConnectionLost") ELSE "using",
       ![c].transport = connection]
  /\ UNCHANGED <<connection, transports, open>>

(* How a request fails: only callTool tells a lost connection (by the text *)
(* of the error) from a tool's failure, and a resource without contents is *)
(* missing; the others pass the SDK's error on.                            *)
Failures(o) ==
  CASE o = "callTool" -> {"MCPToolFailed", "MCPConnectionLost"}
    [] o = "resource" -> {"ResourceMissing", "Raw"}
    [] OTHER          -> {"Raw"}

answered(c) ==
  /\ call[c].at = "using"
  /\ \/ call[c].transport \in open /\ Go(c, "ok")
     \/ \E e \in Failures(call[c].op) : Go(c, After(c, e))
  /\ UNCHANGED <<connection, transports, open>>

(* disconnect: unregister, then close.  The close is awaited.              *)
Disconnect(c, o, k, next) ==
  /\ call' = [call EXCEPT ![c] = [op |-> o, attempt |-> k, transport |-> connection,
                at |-> IF connection = 0 THEN next ELSE "closing"]]
  /\ connection' = 0
  /\ UNCHANGED <<transports, open>>

disconnect(c) ==
  /\ call[c].at \in Resting
  /\ Disconnect(c, "disconnect", 0, "ok")

closed(c) ==
  /\ call[c].at = "closing"
  /\ \/ /\ open' = open \ {call[c].transport}
        /\ Go(c, IF call[c].op = "reconnect" THEN "attempt" ELSE "ok")
     \/ UNCHANGED open /\ Go(c, After(c, "CloseFailed"))
  /\ UNCHANGED <<connection, transports>>

(***************************************************************************)
(* reconnect: up to MaxAttempts times disconnect and connect, with a delay *)
(* before all but the first, which always elapses; how long it is (doubled *)
(* and shifted by a random jitter) is left out.                            *)
(***************************************************************************)
reconnect(c) ==
  /\ call[c].at \in Resting
  /\ Disconnect(c, "reconnect", 1, "attempt")

delayElapsed(c) ==
  /\ call[c].at = "sleep"
  /\ Disconnect(c, "reconnect", call[c].attempt + 1, "attempt")

attemptConnects(c) ==
  /\ call[c].at = "attempt"
  /\ Connecting(c, "reconnect", call[c].attempt)
  /\ UNCHANGED <<connection, transports, open>>

(***************************************************************************)
(* Callbacks of a transport, this one or an earlier one.                   *)
(***************************************************************************)
(* Mutant: the callback leaves the registration alone.                     *)
oncloseForgets(t) ==
  /\ t \in 1..transports
  /\ open' = open \ {t}
  /\ UNCHANGED <<connection, transports, call>>

onclose(t) ==
  /\ t \in 1..transports /\ \A c \in Callers : call[c].at = "dial" => call[c].transport /= t
  /\ open' = open \ {t}
  /\ connection' = 0
  /\ UNCHANGED <<transports, call>>

onerror(t) ==
  /\ t \in open
  /\ connection' = 0
  /\ UNCHANGED <<transports, open, call>>

Continue(c) ==
  \/ checkTrust(c) \/ dialled(c) \/ dialFails(c) \/ connected(c) \/ answered(c)
  \/ closed(c) \/ delayElapsed(c) \/ attemptConnects(c)

MCPNext ==
  \/ \E c \in Callers : Continue(c) \/ disconnect(c) \/ reconnect(c)
  \/ \E c \in Callers, o \in Ops : invoke(c, o)
  \/ \E t \in 1..transports : onclose(t) \/ onerror(t)

MCPSpec == MCPInit /\ [][MCPNext]_mcpVars /\ \A c \in Callers : WF_mcpVars(Continue(c))

(***************************************************************************)
(* However calls, disconnections and callbacks overlap, the registered     *)
(* transport is an open one: no call is handed a connection whose end has  *)
(* been reported, and a disconnection under way cannot be reused.  (The    *)
(* converse is not so: a late callback of an old transport, which deletes  *)
(* by server id, unregisters the open transport that replaced it.)         *)
(***************************************************************************)
RegisteredIsOpen == connection /= 0 => connection \in open

(***************************************************************************)
(* reconnect gives up only after every attempt, and each attempt first     *)
(* drops what is registered.                                               *)
(***************************************************************************)
ReconnectExhausts ==
  \A c \in Callers : call[c].op = "reconnect" =>
    /\ call[c].at \in Errors => call[c].attempt = MaxAttempts
    /\ call[c].at = "closing" => connection /= call[c].transport

=============================================================================
