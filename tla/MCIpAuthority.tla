--------------------------- MODULE MCIpAuthority ---------------------------
(***************************************************************************)
(* Requests put to the user, part by part.  A behaviour explores one part: *)
(* the session's queue with two interchangeable subagents and their        *)
(* parent, or one of the two queues instantiated below; the others stay in *)
(* their initial state.                                                    *)
(***************************************************************************)
EXTENDS IpAuthority, TLC

CONSTANTS s1, s2,
          IPRequests,     \* requests to the protocol, plain or under a timeout, in any order
          None,           \* no entry is running
          RARequests,     \* requests to the race arbiter, which may overlap
          NInteractors,   \* interactors it puts each of them to
          Parts           \* the parts a run explores

ASSUME PartsAssumption ==
  /\ None \notin IPRequests
  /\ IsFiniteSet(RARequests)
  /\ NInteractors \in Nat \ {0}
  /\ Parts \subseteq {"authority", "protocol", "races"}

VARIABLES part,
  waiting, running, race, pending, outcome, caller, timer, arrivals, log,    \* InteractionProtocol
  phase, replies, first, subs, racing, announced, got                        \* RaceArbiter

IP == INSTANCE InteractionProtocol WITH Requests <- IPRequests, queue <- waiting

RA == INSTANCE RaceArbiter WITH Requests <- RARequests, pending <- racing, log <- announced

ipVars  == <<waiting, running, race, pending, outcome, caller, timer, arrivals, log>>
raVars  == <<phase, replies, first, subs, racing, announced, got>>
allVars == <<part, vars, ipVars, raVars>>

MCInit == part \in Parts /\ Init /\ IP!Init /\ RA!Init

MCNext ==
  /\ UNCHANGED part
  /\ IF part = "authority" THEN Next ELSE UNCHANGED vars
  /\ IF part = "protocol" THEN IP!Next ELSE UNCHANGED ipVars
  /\ IF part = "races" THEN RA!Next ELSE UNCHANGED raVars

(* Microtasks run, settled races are resumed and armed timers fire;        *)
(* nothing makes a user answer.                                            *)
Resumes ==
  /\ UNCHANGED part
  /\ IF part = "authority" THEN Loop ELSE UNCHANGED vars
  /\ IF part = "protocol" THEN IP!finish ELSE UNCHANGED ipVars
  /\ IF part = "races" THEN \E r \in RARequests : RA!raceSettles(r) ELSE UNCHANGED raVars

Elapses ==
  /\ UNCHANGED <<part, raVars>>
  /\ IF part = "authority" THEN \E e \in timers : timerFires(e) ELSE UNCHANGED vars
  /\ IF part = "protocol" THEN \E r \in IPRequests : IP!timerFires(r) ELSE UNCHANGED ipVars

MCSpec == MCInit /\ [][MCNext]_allVars /\ WF_allVars(Resumes) /\ WF_allVars(Elapses)

-----------------------------------------------------------------------------
(***************************************************************************)
(* Every variable of every part has its type.                              *)
(***************************************************************************)
TypesOK ==
  CASE part = "authority" -> TypeOK
    [] part = "protocol"  -> IP!TypeOK
    [] part = "races"     -> RA!TypeOK

(***************************************************************************)
(* One answer reaches one caller: the authority shows its entries by their *)
(* ticks (cli/runtime/ip-authority.ts); the protocol shows its own one at a   *)
(* time as they were raised and tells each caller what became of           *)
(* his (core/interaction/protocol.ts); the race-to-answer arbiter          *)
(* announces the winner, dismisses the losers and leaves nothing behind    *)
(* (core/interaction/arbiter.ts).                                          *)
(***************************************************************************)
OneAnswerPerRequest ==
  /\ ShownByTick
  /\ part = "protocol" => IP!NeverIdle /\ IP!Fifo /\ IP!EventsPaired /\ IP!CallerToldTruth
  /\ part = "races" => RA!WinnerAnnouncedLosersDismissed /\ RA!NoLeak

(***************************************************************************)
(* Nobody need answer: again and again everything raised so far has        *)
(* settled, save a prompt without a timeout that is on the screen.         *)
(***************************************************************************)
EveryRequestSettles ==
  []<>(CASE part = "authority" -> RequestsSettled
         [] part = "protocol"  -> IP!TimedRaisesSettled
         [] part = "races"     -> RA!RacesSettled)
============================================================================
