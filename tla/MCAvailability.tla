--------------------------- MODULE MCAvailability ---------------------------
(* Instances of Availability for TLC.                                      *)
EXTENDS Availability

CONSTANT l1

OneListing == {l1}
=============================================================================
