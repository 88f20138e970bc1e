--------------------------- MODULE MCAlertDelivery ---------------------------
(* One user with two overlapping filters, and an event both of them want.  *)
EXTENDS AlertDelivery

MCFilters == 1..2
MCUsers == {"ann"}
MCOwner == [f \in MCFilters |-> "ann"]
MCEvents == {1}
MCWanted == [f \in MCFilters |-> MCEvents]
=============================================================================
