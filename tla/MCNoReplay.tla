------------------------------ MODULE MCNoReplay ------------------------------
(* AlertDelivery with a history variable: when its user last paused f.     *)
EXTENDS MCAlertDelivery

VARIABLE pausedAt

Remembered ==
  pausedAt' = [f \in Filters |->
                 IF status[f] = "enabled" /\ status'[f] = "paused" THEN clock ELSE pausedAt[f]]

ReplaySpec ==
  /\ Init /\ pausedAt = [f \in Filters |-> 0]
  /\ [][Next /\ Remembered]_<<vars, pausedAt>>

(* README: pausing deletes the pending messages, and restarting updates    *)
(* the activation time "so paused listings are not replayed": no event     *)
(* from before a pause is pending once the filter is enabled again.        *)
NoReplay ==
  \A f \in Filters, e \in Events :
    status[f] = "enabled" /\ note[<<f, e>>] = "pending" => occurred[e] >= pausedAt[f]
=============================================================================
