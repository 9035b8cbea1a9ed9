---------------------------- MODULE RaceArbiter ----------------------------
(***************************************************************************)
(* The race-to-answer arbiter (core/interaction/arbiter.ts): a request is  *)
(* put to every attached interactor at once, the first answer wins, the    *)
(* losers are dismissed.  Requests may overlap; interactors are numbered   *)
(* from 1 and behave freely.                                               *)
(***************************************************************************)
EXTENDS Integers, Sequences, FiniteSets

CONSTANTS
  Requests,      \* correlation ids, each raised once
  NInteractors   \* interactors.length; createRaceArbiter throws on zero

VARIABLES
  phase,    \* request -> where raise is
  replies,  \* request -> interactor -> how its request() promise settled
  first,    \* request -> the interactor that settled first (0: none yet)
  subs,     \* request -> interactors with an onDismiss subscription
  pending,
  log,      \* request -> InteractionAnswered events and dismiss calls, in order
  got       \* request -> interactor whose response the caller got (0: none)

vars == <<phase, replies, first, subs, pending, log, got>>

Interactors == 1..NInteractors
Phases  == {"idle", "racing", "resolved", "rejected", "thrown"}
Replies == {"none", "response", "error"}

Answered(i) == [what |-> "InteractionAnswered", who |-> i]
Dismiss(i)  == [what |-> "dismiss", who |-> i]

Init ==
  /\ phase = [r \in Requests |-> "idle"]
  /\ replies = [r \in Requests |-> [i \in Interactors |-> "none"]]
  /\ first = [r \in Requests |-> 0]
  /\ subs = [r \in Requests |-> {}]
  /\ pending = 0
  /\ log = [r \in Requests |-> <<>>]
  /\ got = [r \in Requests |-> 0]

(* Mutant: a raise is not counted until it settles. *)
raiseUncounted(r) ==
  /\ phase[r] = "idle"
  /\ phase' = [phase EXCEPT ![r] = "racing"]
  /\ subs' = [subs EXCEPT ![r] = Interactors]
  /\ UNCHANGED <<replies, first, pending, log, got>>

(***************************************************************************)
(* raise: count, subscribe to every interactor's dismissals, ask them all. *)
(***************************************************************************)
raise(r) ==
  /\ phase[r] = "idle"
  /\ phase' = [phase EXCEPT ![r] = "racing"]
  /\ pending' = pending + 1
  /\ subs' = [subs EXCEPT ![r] = Interactors]
  /\ UNCHANGED <<replies, first, log, got>>

(***************************************************************************)
(* An interactor's request() throws instead of returning a promise: so     *)
(* does raise, which undoes nothing.                                       *)
(***************************************************************************)
raiseThrows(r) ==
  /\ phase[r] = "idle"
  /\ phase' = [phase EXCEPT ![r] = "thrown"]
  /\ pending' = pending + 1
  /\ subs' = [subs EXCEPT ![r] = Interactors]
  /\ UNCHANGED <<replies, first, log, got>>

(***************************************************************************)
(* Interactor i settles its request() promise, before or after the race is *)
(* decided; only the first settlement decides it.                          *)
(***************************************************************************)
settle(r, i, reply) ==
  /\ phase[r] # "idle" /\ replies[r][i] = "none"
  /\ replies' = [replies EXCEPT ![r][i] = reply]
  /\ first' = IF first[r] = 0 THEN [first EXCEPT ![r] = i] ELSE first
  /\ UNCHANGED <<phase, subs, pending, log, got>>

cleanup(r) ==
  /\ subs' = [subs EXCEPT ![r] = {}]
  /\ pending' = pending - 1

(***************************************************************************)
(* The losers of the race, in the order of the dismiss loop.               *)
(***************************************************************************)
Losers(w) == [k \in 1..(NInteractors - 1) |-> IF k < w THEN k ELSE k + 1]
DismissAll(w) == [k \in 1..(NInteractors - 1) |-> Dismiss(Losers(w)[k])]

(***************************************************************************)
(* The race was won by a response: announce it, dismiss the losers, return *)
(* the response.                                                           *)
(***************************************************************************)
raceWon(r) ==
  /\ phase[r] = "racing" /\ first[r] # 0
  /\ replies[r][first[r]] = "response"
  /\ log' = [log EXCEPT ![r] = @ \o <<Answered(first[r])>> \o DismissAll(first[r])]
  /\ got' = [got EXCEPT ![r] = first[r]]
  /\ phase' = [phase EXCEPT ![r] = "resolved"]
  /\ cleanup(r)
  /\ UNCHANGED <<replies, first>>

(***************************************************************************)
(* A loser's dismiss handler throws: the losers after it are not           *)
(* dismissed and the caller gets the error in place of the response.       *)
(***************************************************************************)
dismissThrows(r) ==
  /\ phase[r] = "racing" /\ first[r] # 0
  /\ replies[r][first[r]] = "response"
  /\ \E k \in 1..(NInteractors - 1) :
       log' = [log EXCEPT ![r] =
                 @ \o <<Answered(first[r])>> \o SubSeq(DismissAll(first[r]), 1, k)]
  /\ phase' = [phase EXCEPT ![r] = "rejected"]
  /\ cleanup(r)
  /\ UNCHANGED <<replies, first, got>>

(* Mutant: the rejected race forgets its cleanup. *)
raceFailedWithoutCleanup(r) ==
  /\ phase[r] = "racing" /\ first[r] # 0
  /\ replies[r][first[r]] = "error"
  /\ phase' = [phase EXCEPT ![r] = "rejected"]
  /\ UNCHANGED <<replies, first, subs, pending, log, got>>

(***************************************************************************)
(* The first settlement is a rejection: the error goes to the caller.  No  *)
(* event, and the other interactors are not dismissed.                     *)
(***************************************************************************)
raceFailed(r) ==
  /\ phase[r] = "racing" /\ first[r] # 0
  /\ replies[r][first[r]] = "error"
  /\ phase' = [phase EXCEPT ![r] = "rejected"]
  /\ cleanup(r)
  /\ UNCHANGED <<replies, first, log, got>>

raceSettles(r) == raceWon(r) \/ dismissThrows(r) \/ raceFailed(r)

Next ==
  \E r \in Requests :
    \/ raise(r) \/ raiseThrows(r)
    \/ \E i \in Interactors, reply \in {"response", "error"} : settle(r, i, reply)
    \/ raceSettles(r)

Spec == Init /\ [][Next]_vars

----------------------------------------------------------------------------
(***************************************************************************)
(* Every variable has its type.                                            *)
(***************************************************************************)
TypeOK ==
  /\ phase \in [Requests -> Phases]
  /\ replies \in [Requests -> [Interactors -> Replies]]
  /\ first \in [Requests -> 0..NInteractors]
  /\ subs \in [Requests -> SUBSET Interactors]
  /\ pending \in Nat
  /\ log \in [Requests -> Seq([what : {"InteractionAnswered", "dismiss"}, who : Interactors])]
  /\ got \in [Requests -> 0..NInteractors]

Count(r, e) == Cardinality({k \in DOMAIN log[r] : log[r][k] = e})

(***************************************************************************)
(* When a caller has its response, exactly one InteractionAnswered names   *)
(* the interactor the response came from, each other interactor has been   *)
(* dismissed once and the winner never, however many answered meanwhile.   *)
(***************************************************************************)
WinnerAnnouncedLosersDismissed ==
  \A r \in Requests : phase[r] = "resolved" =>
    /\ replies[r][got[r]] = "response"
    /\ Len(log[r]) = NInteractors
    /\ \A i \in Interactors :
         /\ Count(r, Answered(i)) = IF i = got[r] THEN 1 ELSE 0
         /\ Count(r, Dismiss(i))  = IF i = got[r] THEN 0 ELSE 1

(***************************************************************************)
(* pendingCount is the number of races without an outcome and only those   *)
(* hold dismiss subscriptions, so that no path out of a race leaks either, *)
(* but for one: a raise in which request() threw stays counted and         *)
(* subscribed for good.                                                    *)
(***************************************************************************)
Held == {r \in Requests : phase[r] \in {"racing", "thrown"}}

NoLeak ==
  /\ pending = Cardinality(Held)
  /\ \A r \in Requests : subs[r] # {} <=> r \in Held

(***************************************************************************)
(* A raise whose race any interactor has settled has its outcome           *)
(* (MCIpAuthority: again and again).                                       *)
(***************************************************************************)
RacesSettled == \A r \in Requests : first[r] # 0 => phase[r] \in {"resolved", "rejected", "thrown"}

============================================================================
