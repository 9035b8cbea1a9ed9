--------------------------- MODULE PromptService ---------------------------
(***************************************************************************)
(* What a session's prompt authority promises to the code that asks the    *)
(* user something: a request is shown only while no other is on screen,    *)
(* and each request is settled at most once, after it was shown.           *)
(***************************************************************************)
CONSTANT Requests

VARIABLES pending, open, done

Init == pending = {} /\ open = {} /\ done = {}

Ask(r) ==
  /\ r \notin pending \cup open \cup done
  /\ pending' = pending \cup {r}
  /\ UNCHANGED <<open, done>>

Show(r) ==
  /\ r \in pending /\ open = {}
  /\ pending' = pending \ {r}
  /\ open' = {r}
  /\ UNCHANGED done

Settle(r) ==
  /\ r \in open
  /\ open' = open \ {r}
  /\ done' = done \cup {r}
  /\ UNCHANGED pending

Next == \E r \in Requests : Ask(r) \/ Show(r) \/ Settle(r)

Spec == Init /\ [][Next]_<<pending, open, done>>
============================================================================
