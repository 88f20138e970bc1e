----------------------------- MODULE AlertLife ------------------------------
(***************************************************************************)
(* What an alert goes through, with the filters, the transaction and the   *)
(* batches left out.  An event is matched once, and from then on each user *)
(* has an alert about it or never will.  An alert that has reached the     *)
(* chat may be marked as sent, and only such an alert; one that Telegram   *)
(* refuses has failed; and one that a pause or a deletion withdraws does   *)
(* not come back.  AlertDelivery implements this module.                   *)
(***************************************************************************)
CONSTANTS Users, Events

VARIABLES matched,   \* events whose match is committed
          alert,     \* alert[<<u, e>>]: what has become of u's alert about e
          chat       \* the alerts that have reached the chat of their user

vars == <<matched, alert, chat>>

Alerts == Users \X Events
Present == {"pending", "sent", "failed"}

Init ==
  /\ matched = {}
  /\ alert = [p \in Alerts |-> "none"]
  /\ chat = {}

Match(e) ==
  /\ e \notin matched
  /\ matched' = matched \cup {e}
  /\ \E U \in SUBSET Users :
       alert' = [p \in Alerts |-> IF p[2] = e /\ p[1] \in U THEN "pending" ELSE alert[p]]
  /\ UNCHANGED chat

(* A batch is sent from memory: a withdrawal may come too late for it.     *)
Send(p) ==
  /\ alert[p] # "none"
  /\ chat' = chat \cup {p}
  /\ UNCHANGED <<matched, alert>>

MarkSent(p) ==
  /\ alert[p] = "pending" /\ p \in chat
  /\ alert' = [alert EXCEPT ![p] = "sent"]
  /\ UNCHANGED <<matched, chat>>

Refuse(p) ==
  /\ alert[p] = "pending"
  /\ alert' = [alert EXCEPT ![p] = "failed"]
  /\ UNCHANGED <<matched, chat>>

Withdraw(u) ==
  /\ \E W \in SUBSET {p \in {u} \X Events : alert[p] \in Present} :
       alert' = [p \in Alerts |-> IF p \in W THEN "withdrawn" ELSE alert[p]]
  /\ UNCHANGED <<matched, chat>>

Next ==
  \/ \E e \in Events : Match(e)
  \/ \E p \in Alerts : Send(p) \/ MarkSent(p) \/ Refuse(p)
  \/ \E u \in Users : Withdraw(u)

Spec == Init /\ [][Next]_vars
=============================================================================
