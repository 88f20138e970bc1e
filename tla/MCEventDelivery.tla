--------------------------- MODULE MCEventDelivery ---------------------------
(* A discovery that waits for duplicate evidence, and an event whose       *)
(* payload does not decode.                                                *)
EXTENDS EventDelivery

MCEvents == 1..2
MCMalformed == {2}
MCDependent == {1}
=============================================================================
