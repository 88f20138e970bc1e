---------------------------- MODULE EventEffects ----------------------------
(***************************************************************************)
(* What event delivery promises, with nothing of how: an event the store   *)
(* has committed is matched exactly once, or set aside because it cannot   *)
(* be decoded.  EventDelivery implements this module.                      *)
(***************************************************************************)
CONSTANTS Events,       \* events the store may commit
          Malformed     \* those whose payload no handler can decode

VARIABLE fate           \* fate[e]: what has become of event e

Init == fate = [e \in Events |-> "none"]

Store(e) ==
  /\ fate[e] = "none"
  /\ fate' = [fate EXCEPT ![e] = "stored"]

Match(e) ==
  /\ fate[e] = "stored" /\ e \notin Malformed
  /\ fate' = [fate EXCEPT ![e] = "matched"]

Reject(e) ==
  /\ fate[e] = "stored" /\ e \in Malformed
  /\ fate' = [fate EXCEPT ![e] = "rejected"]

Next == \E e \in Events : Store(e) \/ Match(e) \/ Reject(e)

Spec == Init /\ [][Next]_fate
=============================================================================
