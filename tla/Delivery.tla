------------------------------ MODULE Delivery ------------------------------
(***************************************************************************)
(* What the extension promises about a capture it accepted: it is kept on  *)
(* the device until the destination it was captured for has received it,   *)
(* or the owner discards it, and no other destination ever receives it.    *)
(***************************************************************************)
CONSTANT Items   \* a capture together with the destination it is pinned to

VARIABLES accepted,   \* ever kept
          kept,       \* on the device now
          received,   \* received by their destination
          discarded   \* dropped by the owner before a receipt came back

vars == <<accepted, kept, received, discarded>>

Init == accepted = {} /\ kept = {} /\ received = {} /\ discarded = {}

Accept(i) ==
  /\ accepted' = accepted \cup {i}
  /\ kept' = kept \cup {i}
  /\ UNCHANGED <<received, discarded>>

\* A request may arrive late, after the capture was discarded.
Receive(i) ==
  /\ i \in accepted
  /\ received' = received \cup {i}
  /\ UNCHANGED <<accepted, kept, discarded>>

Release(i) ==
  /\ i \in received
  /\ kept' = kept \ {i}
  /\ UNCHANGED <<accepted, received, discarded>>

Discard ==
  /\ kept' = {}
  /\ discarded' = discarded \cup kept
  /\ UNCHANGED <<accepted, received>>

Next == Discard \/ \E i \in Items : Accept(i) \/ Receive(i) \/ Release(i)

Spec == Init /\ [][Next]_vars
=============================================================================
