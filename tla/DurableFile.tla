---------------------------- MODULE DurableFile ----------------------------
(***************************************************************************)
(* What the crash-safe writers promise of a file: a reader finds nothing,  *)
(* or the data of one complete write; a write takes effect in one step, or *)
(* not at all when it fails or the process dies.                           *)
(***************************************************************************)
CONSTANTS Writers, Data, Nothing

VARIABLES value, writing   \* writing: the data each unfinished write carries

Init == value = Nothing /\ writing = [w \in Writers |-> Nothing]

Begin(w, d) ==
  /\ writing[w] = Nothing
  /\ writing' = [writing EXCEPT ![w] = d]
  /\ UNCHANGED value

Publish(w) ==
  /\ writing[w] # Nothing
  /\ value' = writing[w]
  /\ writing' = [writing EXCEPT ![w] = Nothing]

Abandon ==
  /\ \E W \in SUBSET Writers :
       writing' = [w \in Writers |-> IF w \in W THEN Nothing ELSE writing[w]]
  /\ UNCHANGED value

Next ==
  \/ \E w \in Writers : (\E d \in Data : Begin(w, d)) \/ Publish(w)
  \/ Abandon

Spec == Init /\ [][Next]_<<value, writing>>
============================================================================
