----------------------------- MODULE TrustStore -----------------------------
(***************************************************************************)
(* Trust in projects: the list of decisions in ~/.stud/trust.json          *)
(* (core/security/trust/store.ts), the gate that asks for one              *)
(* (core/project/trust-gate.ts), the /trust command over it, and the two   *)
(* readers that open the file themselves: core/mcp/trust.ts and            *)
(* core/discovery/layer-reader.ts (the installer goes the same way).       *)
(*                                                                         *)
(* A store is opened, used by one operation at a time, and lost when the   *)
(* process ends.  Every change is made in memory first and then written    *)
(* through a temporary file; the write can fail.  Of the decisions kept    *)
(* for a project only the latest counts, so that is all a document holds.  *)
(***************************************************************************)
EXTENDS FiniteSets

CONSTANT Projects   \* canonical paths of .stud directories

Decision == {"none", "trusted", "declined"}
Formats  == {"absent", "list", "entries", "malformed"}   \* list: the legacy array
Document == [Projects -> Decision]
NoEntry  == [p \in Projects |-> "none"]

VARIABLES
  file,       \* trust.json: its format and what it says
  document,   \* the store's document; meaningful while open
  op,         \* the operation under way: what, for which project, where
  gateAudit,  \* projects audited as granted since the gate was last entered
  consented,  \* history: projects somebody agreed to trust, until a refusal is written
  rejected,   \* history: projects a reader of the file turned away though the store trusts them
  unwritten   \* history: projects whose change the open store made in memory and failed to write

tsVars == <<file, document, op, gateAudit, consented, rejected, unwritten>>

Kinds  == {"none", "grant", "recordDecline", "revoke", "clearAll", "gate", "trustGrant", "trustRevoke"}
Places == {"closed", "ready", "confirm", "write", "audit"}
Op(k, p, place) == [kind |-> k, project |-> p, at |-> place]
Some   == CHOOSE p \in Projects : TRUE
Idle   == Op("none", Some, "ready")
Closed == Op("none", Some, "closed")

(* Types.                                                                  *)
TSTypeOK ==
  /\ file \in [format : Formats, latest : Document]
  /\ document \in Document
  /\ op \in [kind : Kinds, project : Projects, at : Places]
  /\ {gateAudit, consented, rejected, unwritten} \subseteq SUBSET Projects

TSInit ==
  /\ \/ file = [format |-> "absent", latest |-> NoEntry]
     \/ \E d \in [Projects -> {"none", "trusted"}] : file = [format |-> "list", latest |-> d]
  /\ document = NoEntry /\ op = Closed /\ gateAudit = {} /\ rejected = {} /\ unwritten = {}
  /\ consented = {p \in Projects : file.latest[p] = "trusted"}

isTrusted(p) == document[p] = "trusted"

(***************************************************************************)
(* openTrustStore reads the file, whichever of the two formats it has.     *)
(***************************************************************************)
openTrustStore ==
  /\ op.at = "closed" /\ file.format /= "malformed"
  /\ document' = file.latest
  /\ op' = Idle
  /\ UNCHANGED <<file, gateAudit, consented, rejected, unwritten>>

(* The process ends, wherever it is.                                       *)
ends ==
  /\ op.at /= "closed"
  /\ op' = Closed /\ document' = NoEntry /\ unwritten' = {}
  /\ UNCHANGED <<file, gateAudit, consented, rejected>>

(* A change: memory now, the file next.                                    *)
Change(k, p, d) ==
  /\ document' = d
  /\ op' = Op(k, p, "write")

(* The decision is appended, and the latest one counts (latestDecisions).  *)
(* Mutant: the first one counts.                                           *)
AppendFirstCounts(p, decision) == IF document[p] = "none" THEN [document EXCEPT ![p] = decision] ELSE document

Append(p, decision) == [document EXCEPT ![p] = decision]

recordDecline(p) ==
  /\ op = Idle
  /\ Change("recordDecline", p, Append(p, "declined"))
  /\ UNCHANGED <<file, gateAudit, consented, rejected, unwritten>>

(* grant keeps the entry there is; revoke does nothing for the untrusted.  *)
Granting(k, p) ==
  /\ consented' = consented \cup {p}
  /\ IF isTrusted(p)
     THEN document' = document /\ op' = IF k = "grant" THEN Idle ELSE Op(k, p, "audit")
     ELSE Change(k, p, Append(p, "trusted"))

Revoking(k, p) ==
  IF isTrusted(p) THEN Change(k, p, Append(p, "declined"))
  ELSE document' = document /\ op' = IF k = "revoke" THEN Idle ELSE Op(k, p, "audit")

grant(p) ==
  /\ op = Idle
  /\ Granting("grant", p)
  /\ UNCHANGED <<file, gateAudit, rejected, unwritten>>

revoke(p) ==
  /\ op = Idle
  /\ Revoking("revoke", p)
  /\ UNCHANGED <<file, gateAudit, consented, rejected, unwritten>>

clearAll ==
  /\ op = Idle
  /\ Change("clearAll", Some, NoEntry)
  /\ UNCHANGED <<file, gateAudit, consented, rejected, unwritten>>

(***************************************************************************)
(* persistDocument writes the whole document, what an earlier failure left *)
(* in memory included, sorted by project and time.                         *)
(***************************************************************************)
persistDocument ==
  /\ op.at = "write"
  /\ file' = [format |-> "entries", latest |-> document]
  /\ consented' = CASE op.kind = "clearAll" -> {}
                    [] op.kind \in {"recordDecline", "revoke", "trustRevoke"} -> consented \ {op.project}
                    [] OTHER -> consented
  /\ op' = IF op.kind \in {"gate", "trustGrant", "trustRevoke"} THEN [op EXCEPT !.at = "audit"] ELSE Idle
  /\ unwritten' = {}
  /\ UNCHANGED <<document, gateAudit, rejected>>

writeFails ==
  /\ op.at = "write"
  /\ op' = Idle
  /\ unwritten' = unwritten \cup IF op.kind = "clearAll" THEN Projects ELSE {op.project}
  /\ UNCHANGED <<file, document, gateAudit, consented, rejected>>

(***************************************************************************)
(* The gate: a standing grant is audited and returned; otherwise the user  *)
(* is asked once, and the answer written before it is audited.  /trust     *)
(* grant asks nothing; /trust revoke asks unless configured not to.        *)
(***************************************************************************)
(* Mutant: the gate audits the grant before it is written.                 *)
auditsFirst(p) ==
  /\ op = Op("gate", p, "confirm")
  /\ Granting("gate", p)
  /\ gateAudit' = gateAudit \cup {p}
  /\ UNCHANGED <<file, rejected, unwritten>>

evaluateProjectTrust(p) ==
  /\ op = Idle
  /\ op' = Op("gate", p, IF isTrusted(p) THEN "audit" ELSE "confirm")
  /\ gateAudit' = {}
  /\ UNCHANGED <<file, document, consented, rejected, unwritten>>

confirmed(p) ==
  /\ op = Op("gate", p, "confirm")
  /\ Granting("gate", p)
  /\ UNCHANGED <<file, gateAudit, rejected, unwritten>>

(* Not confirmed, or the prompt was cancelled: the store is left alone.    *)
refused ==
  /\ op.at = "confirm"
  /\ op' = Idle
  /\ UNCHANGED <<file, document, gateAudit, consented, rejected, unwritten>>

audited ==
  /\ op.at = "audit"
  /\ gateAudit' = IF op.kind = "gate" THEN gateAudit \cup {op.project} ELSE gateAudit
  /\ op' = Idle
  /\ UNCHANGED <<file, document, consented, rejected, unwritten>>

executeGrant(p) ==
  /\ op = Idle
  /\ Granting("trustGrant", p)
  /\ UNCHANGED <<file, gateAudit, rejected, unwritten>>

executeRevoke(p) ==
  /\ op = Idle
  /\ \/ op' = Op("trustRevoke", p, "confirm") /\ UNCHANGED document
     \/ Revoking("trustRevoke", p)
  /\ UNCHANGED <<file, gateAudit, consented, rejected, unwritten>>

confirmRevoke(p) ==
  /\ op = Op("trustRevoke", p, "confirm")
  /\ Revoking("trustRevoke", p)
  /\ UNCHANGED <<file, gateAudit, consented, rejected, unwritten>>

(***************************************************************************)
(* The readers of the file outside the store: only a list is understood.   *)
(***************************************************************************)
assertProjectTrusted(p) == file.format = "list" /\ file.latest[p] = "trusted"

projectScopeAsked(p) ==
  /\ op = Idle
  /\ rejected' = IF isTrusted(p) /\ document = file.latest /\ ~assertProjectTrusted(p)
                 THEN rejected \cup {p} ELSE rejected
  /\ UNCHANGED <<file, document, op, gateAudit, consented, unwritten>>

TSNext ==
  \/ openTrustStore \/ ends \/ clearAll \/ persistDocument \/ writeFails \/ refused \/ audited
  \/ \E p \in Projects :
       \/ grant(p) \/ recordDecline(p) \/ revoke(p)
       \/ evaluateProjectTrust(p) \/ confirmed(p)
       \/ executeGrant(p) \/ executeRevoke(p) \/ confirmRevoke(p)
       \/ projectScopeAsked(p)

TSSpec == TSInit /\ [][TSNext]_tsVars

(***************************************************************************)
(* Whatever writes failed and whenever the process ended, a project that a *)
(* new process would find trusted is one somebody agreed to trust, with no *)
(* refusal written since.                                                  *)
(***************************************************************************)
TrustNeedsConsent == \A p \in Projects : file.latest[p] = "trusted" => p \in consented

(***************************************************************************)
(* Whatever the gate reports as granted somebody agreed to, and it would   *)
(* survive a restart, but for one case: this very process changed its mind *)
(* about that project and failed to write it.  The store then goes on with *)
(* the change in memory, so that a gate entered once more takes the grant  *)
(* for written.  A failure for one project never excuses another's, and    *)
(* the next write that succeeds, of whatever project, ends the exception.  *)
(***************************************************************************)
GrantReportedIsWritten ==
  [][\A p \in gateAudit' \ gateAudit :
       p \in consented /\ (file.latest[p] = "trusted" \/ p \in unwritten)]_tsVars

(* Violated: tests/core/mcp/trust.test.ts says a project-scope grant is    *)
(* allowed when prior project trust exists.                                *)
ProjectTrustHonoured == rejected = {}
=============================================================================
