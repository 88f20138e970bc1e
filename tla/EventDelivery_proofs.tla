------------------------- MODULE EventDelivery_proofs -------------------------
(***************************************************************************)
(* Proofs about EventDelivery, for every set of events, batch size and     *)
(* fault budget.                                                           *)
(***************************************************************************)
EXTENDS EventDelivery, TLAPS

(* The invariant holds before any event is stored.                         *)
LEMMA TypeInit == Init => TypeOK
BY EventsAssumption, NoEventAssumption, BoundsAssumption
   DEF Init, TypeOK, Relays, Consumers, Polling, Idle

LEMMA InitInv == Init => IInv
<1>. SUFFICES ASSUME Init PROVE IInv
  OBVIOUS
<1>1. TypeOK
  BY TypeInit
<1>2. Provenance
  BY NoEventAssumption DEF Init, Provenance, InFlight, Polling, Idle
<1>3. Covered
  BY NoEventAssumption DEF Init, Covered, Polling
<1>4. MatchedOnce
  BY DEF Init, MatchedOnce
<1>5. OnlyMalformedDie
  BY DEF Init, OnlyMalformedDie
<1>6. BoundedCopies
  BY NoEventAssumption
     DEF Init, BoundedCopies, Copies, Held, Unmarked, Polling, Idle
<1>. QED
  BY <1>1, <1>2, <1>3, <1>4, <1>5, <1>6 DEF IInv
(* Going down leaves both goroutines at their start.                        *)
LEMMA DownType ==
  ASSUME Down
  PROVE  /\ relay' \in Relays /\ (relay'.pc = "mark") = (relay'.event # NoEvent)
         /\ consumer' \in Consumers /\ (consumer'.pc = "idle") = (consumer'.event = NoEvent)
         /\ up' \in BOOLEAN
BY NoEventAssumption DEF Down, Relays, Consumers, Polling, Idle

(* The unacked delivery is of an event, and requeueing it adds one copy.    *)
LEMMA UnackedDelivery ==
  ASSUME TypeOK, consumer.pc # "idle"
  PROVE  consumer.event \in Events
BY DEF TypeOK, Consumers

LEMMA RequeuedCopies ==
  ASSUME TypeOK
  PROVE  /\ Requeued \in [Events -> Nat]
         /\ \A e \in Events :
              Requeued[e] = ready[e] + (IF consumer.event = e THEN 1 ELSE 0)
<1>1. CASE consumer.pc = "idle"
  BY <1>1, NoEventAssumption DEF Requeued, TypeOK
<1>2. CASE consumer.pc # "idle"
  BY <1>2, UnackedDelivery DEF Requeued, Add, TypeOK
<1>. QED
  BY <1>1, <1>2

(* An event that was absent had no copies, so its pending row counts as one. *)
LEMMA StoreEventInv ==
  ASSUME IInv, NEW e \in Events, StoreEvent(e)
  PROVE  IInv'
<1>. TypeOK
  BY DEF IInv
<1>1. TypeOK'
  BY NoEventAssumption
     DEF IInv, StoreEvent, brokerVars, TypeOK, Relays, Consumers, Polling,
         Idle
<1>2. Provenance'
  BY NoEventAssumption
     DEF IInv, StoreEvent, brokerVars, Provenance, InFlight, Polling, Idle,
         TypeOK, Relays, Consumers
<1>3. Covered'
  BY NoEventAssumption
     DEF IInv, StoreEvent, brokerVars, Covered, Copies, Held, Polling,
         Idle, TypeOK, Relays, Consumers
<1>4. MatchedOnce'
  BY DEF IInv, StoreEvent, brokerVars, MatchedOnce, TypeOK
<1>5. OnlyMalformedDie'
  BY DEF IInv, StoreEvent, brokerVars, OnlyMalformedDie, Provenance, TypeOK
<1>6. BoundedCopies'
  BY NoEventAssumption
     DEF IInv, StoreEvent, brokerVars, BoundedCopies, Provenance, InFlight,
         Copies, Held, Unmarked, Polling, Idle, TypeOK, Relays, Consumers
<1>. QED
  BY <1>1, <1>2, <1>3, <1>4, <1>5, <1>6 DEF IInv

LEMMA BecomeDueInv ==
  ASSUME IInv, NEW e \in Events, BecomeDue(e)
  PROVE  IInv'
<1>. TypeOK
  BY DEF IInv
<1>1. TypeOK'
  BY NoEventAssumption
     DEF IInv, BecomeDue, brokerVars, TypeOK, Relays, Consumers, Polling,
         Idle
<1>2. Provenance'
  BY NoEventAssumption
     DEF IInv, BecomeDue, brokerVars, Provenance, InFlight, Polling, Idle,
         TypeOK, Relays, Consumers
<1>3. Covered'
  BY NoEventAssumption
     DEF IInv, BecomeDue, brokerVars, Covered, Copies, Held, Polling, Idle,
         TypeOK, Relays, Consumers
<1>4. MatchedOnce'
  BY DEF IInv, BecomeDue, brokerVars, MatchedOnce, TypeOK
<1>5. OnlyMalformedDie'
  BY DEF IInv, BecomeDue, brokerVars, OnlyMalformedDie, Provenance, TypeOK
<1>6. BoundedCopies'
  BY NoEventAssumption
     DEF IInv, BecomeDue, brokerVars, BoundedCopies, Provenance, InFlight,
         Copies, Held, Unmarked, Polling, Idle, TypeOK, Relays, Consumers
<1>. QED
  BY <1>1, <1>2, <1>3, <1>4, <1>5, <1>6 DEF IInv

LEMMA SettleInv ==
  ASSUME IInv, NEW e \in Events, Settle(e)
  PROVE  IInv'
<1>. TypeOK
  BY DEF IInv
<1>1. TypeOK'
  BY NoEventAssumption
     DEF IInv, Settle, storeVars, brokerVars, TypeOK, Relays, Consumers,
         Polling, Idle
<1>2. Provenance'
  BY NoEventAssumption
     DEF IInv, Settle, storeVars, brokerVars, Provenance, InFlight,
         Polling, Idle, TypeOK, Relays, Consumers
<1>3. Covered'
  BY NoEventAssumption
     DEF IInv, Settle, storeVars, brokerVars, Covered, Copies, Held,
         Polling, Idle, TypeOK, Relays, Consumers
<1>4. MatchedOnce'
  BY DEF IInv, Settle, storeVars, brokerVars, MatchedOnce, TypeOK
<1>5. OnlyMalformedDie'
  BY DEF IInv, Settle, storeVars, brokerVars, OnlyMalformedDie, Provenance,
         TypeOK
<1>6. BoundedCopies'
  BY NoEventAssumption
     DEF IInv, Settle, storeVars, brokerVars, BoundedCopies, Provenance,
         InFlight, Copies, Held, Unmarked, Polling, Idle, TypeOK, Relays,
         Consumers
<1>. QED
  BY <1>1, <1>2, <1>3, <1>4, <1>5, <1>6 DEF IInv

LEMMA UnsettleInv ==
  ASSUME IInv, NEW e \in Events, Unsettle(e)
  PROVE  IInv'
<1>. TypeOK
  BY DEF IInv
<1>1. TypeOK'
  BY NoEventAssumption
     DEF IInv, Unsettle, storeVars, brokerVars, TypeOK, Relays, Consumers,
         Polling, Idle
<1>2. Provenance'
  BY NoEventAssumption
     DEF IInv, Unsettle, storeVars, brokerVars, Provenance, InFlight,
         Polling, Idle, TypeOK, Relays, Consumers
<1>3. Covered'
  BY NoEventAssumption
     DEF IInv, Unsettle, storeVars, brokerVars, Covered, Copies, Held,
         Polling, Idle, TypeOK, Relays, Consumers
<1>4. MatchedOnce'
  BY DEF IInv, Unsettle, storeVars, brokerVars, MatchedOnce, TypeOK
<1>5. OnlyMalformedDie'
  BY DEF IInv, Unsettle, storeVars, brokerVars, OnlyMalformedDie,
         Provenance, TypeOK
<1>6. BoundedCopies'
  BY NoEventAssumption
     DEF IInv, Unsettle, storeVars, brokerVars, BoundedCopies, Provenance,
         InFlight, Copies, Held, Unmarked, Polling, Idle, TypeOK, Relays,
         Consumers
<1>. QED
  BY <1>1, <1>2, <1>3, <1>4, <1>5, <1>6 DEF IInv

(* Only pending rows are claimed.                                          *)
LEMMA ClaimBatchInv ==
  ASSUME IInv, ClaimBatch
  PROVE  IInv'
<1>. TypeOK
  BY DEF IInv
<1>1. TypeOK'
  BY NoEventAssumption
     DEF IInv, ClaimBatch, brokerVars, Claimable, TypeOK, Relays,
         Consumers, Polling, Idle
<1>2. Provenance'
  BY NoEventAssumption
     DEF IInv, ClaimBatch, brokerVars, Claimable, Provenance, InFlight,
         Polling, Idle, TypeOK, Relays, Consumers
<1>3. Covered'
  BY NoEventAssumption
     DEF IInv, ClaimBatch, brokerVars, Claimable, Covered, Copies, Held,
         Polling, Idle, TypeOK, Relays, Consumers
<1>4. MatchedOnce'
  BY DEF IInv, ClaimBatch, brokerVars, Claimable, MatchedOnce, TypeOK
<1>5. OnlyMalformedDie'
  BY DEF IInv, ClaimBatch, brokerVars, Claimable, OnlyMalformedDie,
         Provenance, TypeOK
<1>6. BoundedCopies'
  BY NoEventAssumption
     DEF IInv, ClaimBatch, brokerVars, Claimable, BoundedCopies,
         Provenance, InFlight, Copies, Held, Unmarked, Polling, Idle, TypeOK,
         Relays, Consumers
<1>. QED
  BY <1>1, <1>2, <1>3, <1>4, <1>5, <1>6 DEF IInv

(* The copy in the queue replaces the one the pending row stood for.       *)
LEMMA PublishConfirmedInv ==
  ASSUME IInv, NEW e \in Events, PublishConfirmed(e)
  PROVE  IInv'
<1>. TypeOK
  BY DEF IInv
<1>1. TypeOK'
  BY NoEventAssumption
     DEF IInv, PublishConfirmed, storeVars, Add, TypeOK, Relays, Consumers,
         Polling, Idle
<1>2. Provenance'
  BY NoEventAssumption
     DEF IInv, PublishConfirmed, storeVars, Add, Provenance, InFlight,
         Polling, Idle, TypeOK, Relays, Consumers
<1>3. Covered'
  BY NoEventAssumption
     DEF IInv, PublishConfirmed, storeVars, Add, Covered, Copies, Held,
         Polling, Idle, TypeOK, Relays, Consumers
<1>4. MatchedOnce'
  BY DEF IInv, PublishConfirmed, storeVars, Add, MatchedOnce, TypeOK
<1>5. OnlyMalformedDie'
  BY DEF IInv, PublishConfirmed, storeVars, Add, OnlyMalformedDie,
         Provenance, TypeOK
<1>6. BoundedCopies'
  BY NoEventAssumption
     DEF IInv, PublishConfirmed, storeVars, Add, BoundedCopies, Provenance,
         InFlight, Copies, Held, Unmarked, Polling, Idle, TypeOK, Relays,
         Consumers
<1>. QED
  BY <1>1, <1>2, <1>3, <1>4, <1>5, <1>6 DEF IInv

LEMMA MarkPublishedInv ==
  ASSUME IInv, MarkPublished
  PROVE  IInv'
<1>. TypeOK
  BY DEF IInv
<1>1. TypeOK'
  BY NoEventAssumption
     DEF IInv, MarkPublished, brokerVars, TypeOK, Relays, Consumers,
         Polling, Idle
<1>2. Provenance'
  BY NoEventAssumption
     DEF IInv, MarkPublished, brokerVars, Provenance, InFlight, Polling,
         Idle, TypeOK, Relays, Consumers
<1>3. Covered'
  BY NoEventAssumption
     DEF IInv, MarkPublished, brokerVars, Covered, Copies, Held, Polling,
         Idle, TypeOK, Relays, Consumers
<1>4. MatchedOnce'
  BY DEF IInv, MarkPublished, brokerVars, MatchedOnce, TypeOK
<1>5. OnlyMalformedDie'
  BY DEF IInv, MarkPublished, brokerVars, OnlyMalformedDie, Provenance,
         TypeOK
<1>6. BoundedCopies'
  BY NoEventAssumption
     DEF IInv, MarkPublished, brokerVars, BoundedCopies, Provenance,
         InFlight, Copies, Held, Unmarked, Polling, Idle, TypeOK, Relays,
         Consumers
<1>. QED
  BY <1>1, <1>2, <1>3, <1>4, <1>5, <1>6 DEF IInv

LEMMA DeliverInv ==
  ASSUME IInv, NEW e \in Events, Deliver(e)
  PROVE  IInv'
<1>. TypeOK
  BY DEF IInv
<1>1. TypeOK'
  BY NoEventAssumption
     DEF IInv, Deliver, storeVars, Remove, TypeOK, Relays, Consumers,
         Polling, Idle
<1>2. Provenance'
  BY NoEventAssumption
     DEF IInv, Deliver, storeVars, Remove, Provenance, InFlight, Polling,
         Idle, TypeOK, Relays, Consumers
<1>3. Covered'
  BY NoEventAssumption
     DEF IInv, Deliver, storeVars, Remove, Covered, Copies, Held, Polling,
         Idle, TypeOK, Relays, Consumers
<1>4. MatchedOnce'
  BY DEF IInv, Deliver, storeVars, Remove, MatchedOnce, TypeOK
<1>5. OnlyMalformedDie'
  BY DEF IInv, Deliver, storeVars, Remove, OnlyMalformedDie, Provenance,
         TypeOK
<1>6. BoundedCopies'
  BY NoEventAssumption
     DEF IInv, Deliver, storeVars, Remove, BoundedCopies, Provenance,
         InFlight, Copies, Held, Unmarked, Polling, Idle, TypeOK, Relays,
         Consumers
<1>. QED
  BY <1>1, <1>2, <1>3, <1>4, <1>5, <1>6 DEF IInv

LEMMA MatchMalformedInv ==
  ASSUME IInv, MatchMalformed
  PROVE  IInv'
<1>. TypeOK
  BY DEF IInv
<1>1. TypeOK'
  BY NoEventAssumption
     DEF IInv, MatchMalformed, storeVars, brokerVars, Continue, TypeOK,
         Relays, Consumers, Polling, Idle
<1>2. Provenance'
  BY NoEventAssumption
     DEF IInv, MatchMalformed, storeVars, brokerVars, Continue, Provenance,
         InFlight, Polling, Idle, TypeOK, Relays, Consumers
<1>3. Covered'
  BY NoEventAssumption
     DEF IInv, MatchMalformed, storeVars, brokerVars, Continue, Covered,
         Copies, Held, Polling, Idle, TypeOK, Relays, Consumers
<1>4. MatchedOnce'
  BY DEF IInv, MatchMalformed, storeVars, brokerVars, Continue,
         MatchedOnce, TypeOK
<1>5. OnlyMalformedDie'
  BY DEF IInv, MatchMalformed, storeVars, brokerVars, Continue,
         OnlyMalformedDie, Provenance, TypeOK
<1>6. BoundedCopies'
  BY NoEventAssumption
     DEF IInv, MatchMalformed, storeVars, brokerVars, Continue,
         BoundedCopies, Provenance, InFlight, Copies, Held, Unmarked, Polling,
         Idle, TypeOK, Relays, Consumers
<1>. QED
  BY <1>1, <1>2, <1>3, <1>4, <1>5, <1>6 DEF IInv

(* The consumed row takes over from the delivery.                          *)
LEMMA MatchSucceedsInv ==
  ASSUME IInv, MatchSucceeds
  PROVE  IInv'
<1>. TypeOK
  BY DEF IInv
<1>a. consumer.event \in Events
  BY UnackedDelivery DEF MatchSucceeds
<1>1. TypeOK'
  BY NoEventAssumption, <1>a
     DEF IInv, MatchSucceeds, brokerVars, Continue, CommitMatch, Matchable,
         Add, TypeOK, Relays, Consumers, Polling, Idle
<1>2. Provenance'
  BY NoEventAssumption, <1>a
     DEF IInv, MatchSucceeds, brokerVars, Continue, CommitMatch, Matchable,
         Add, Provenance, InFlight, Polling, Idle, TypeOK, Relays, Consumers
<1>3. Covered'
  BY NoEventAssumption, <1>a
     DEF IInv, MatchSucceeds, brokerVars, Continue, CommitMatch, Matchable,
         Add, Covered, Copies, Held, Polling, Idle, TypeOK, Relays, Consumers
<1>4. MatchedOnce'
  BY <1>a
     DEF IInv, MatchSucceeds, brokerVars, Continue, CommitMatch, Matchable,
         Add, MatchedOnce, TypeOK
<1>5. OnlyMalformedDie'
  BY <1>a
     DEF IInv, MatchSucceeds, brokerVars, Continue, CommitMatch, Matchable,
         Add, OnlyMalformedDie, Provenance, TypeOK
<1>6. BoundedCopies'
  BY NoEventAssumption, <1>a
     DEF IInv, MatchSucceeds, brokerVars, Continue, CommitMatch, Matchable,
         Add, BoundedCopies, Provenance, InFlight, Copies, Held, Unmarked,
         Polling, Idle, TypeOK, Relays, Consumers
<1>. QED
  BY <1>1, <1>2, <1>3, <1>4, <1>5, <1>6 DEF IInv

LEMMA MatchPendingInv ==
  ASSUME IInv, MatchPending
  PROVE  IInv'
<1>. TypeOK
  BY DEF IInv
<1>1. TypeOK'
  BY NoEventAssumption
     DEF IInv, MatchPending, storeVars, brokerVars, Continue, TypeOK,
         Relays, Consumers, Polling, Idle
<1>2. Provenance'
  BY NoEventAssumption
     DEF IInv, MatchPending, storeVars, brokerVars, Continue, Provenance,
         InFlight, Polling, Idle, TypeOK, Relays, Consumers
<1>3. Covered'
  BY NoEventAssumption
     DEF IInv, MatchPending, storeVars, brokerVars, Continue, Covered,
         Copies, Held, Polling, Idle, TypeOK, Relays, Consumers
<1>4. MatchedOnce'
  BY DEF IInv, MatchPending, storeVars, brokerVars, Continue, MatchedOnce,
         TypeOK
<1>5. OnlyMalformedDie'
  BY DEF IInv, MatchPending, storeVars, brokerVars, Continue,
         OnlyMalformedDie, Provenance, TypeOK
<1>6. BoundedCopies'
  BY NoEventAssumption
     DEF IInv, MatchPending, storeVars, brokerVars, Continue,
         BoundedCopies, Provenance, InFlight, Copies, Held, Unmarked, Polling,
         Idle, TypeOK, Relays, Consumers
<1>. QED
  BY <1>1, <1>2, <1>3, <1>4, <1>5, <1>6 DEF IInv

LEMMA MatchFailsInv ==
  ASSUME IInv, MatchFails
  PROVE  IInv'
<1>. TypeOK
  BY DEF IInv
<1>a. consumer.event \in Events
  BY UnackedDelivery DEF MatchFails
<1>1. TypeOK'
  BY NoEventAssumption, BoundsAssumption, <1>a
     DEF IInv, MatchFails, brokerVars, Continue, CommitMatch, Matchable,
         Add, Fault, TypeOK, Relays, Consumers, Polling, Idle
<1>2. Provenance'
  BY NoEventAssumption, <1>a
     DEF IInv, MatchFails, brokerVars, Continue, CommitMatch, Matchable,
         Add, Fault, Provenance, InFlight, Polling, Idle, TypeOK, Relays,
         Consumers
<1>3. Covered'
  BY NoEventAssumption, <1>a
     DEF IInv, MatchFails, brokerVars, Continue, CommitMatch, Matchable,
         Add, Fault, Covered, Copies, Held, Polling, Idle, TypeOK, Relays,
         Consumers
<1>4. MatchedOnce'
  BY <1>a
     DEF IInv, MatchFails, brokerVars, Continue, CommitMatch, Matchable,
         Add, Fault, MatchedOnce, TypeOK
<1>5. OnlyMalformedDie'
  BY <1>a
     DEF IInv, MatchFails, brokerVars, Continue, CommitMatch, Matchable,
         Add, Fault, OnlyMalformedDie, Provenance, TypeOK
<1>6. BoundedCopies'
  BY NoEventAssumption, BoundsAssumption, <1>a
     DEF IInv, MatchFails, brokerVars, Continue, CommitMatch, Matchable,
         Add, Fault, BoundedCopies, Provenance, InFlight, Copies, Held,
         Unmarked, Polling, Idle, TypeOK, Relays, Consumers
<1>. QED
  BY <1>1, <1>2, <1>3, <1>4, <1>5, <1>6 DEF IInv

LEMMA PublishRetryInv ==
  ASSUME IInv, PublishRetry
  PROVE  IInv'
<1>. TypeOK
  BY DEF IInv
<1>a. consumer.event \in Events
  BY UnackedDelivery DEF PublishRetry
<1>1. TypeOK'
  BY NoEventAssumption, <1>a
     DEF IInv, PublishRetry, storeVars, Continue, Add, TypeOK, Relays,
         Consumers, Polling, Idle
<1>2. Provenance'
  BY NoEventAssumption, <1>a
     DEF IInv, PublishRetry, storeVars, Continue, Add, Provenance,
         InFlight, Polling, Idle, TypeOK, Relays, Consumers
<1>3. Covered'
  BY NoEventAssumption, <1>a
     DEF IInv, PublishRetry, storeVars, Continue, Add, Covered, Copies,
         Held, Polling, Idle, TypeOK, Relays, Consumers
<1>4. MatchedOnce'
  BY DEF IInv, PublishRetry, storeVars, Continue, Add, MatchedOnce, TypeOK
<1>5. OnlyMalformedDie'
  BY <1>a
     DEF IInv, PublishRetry, storeVars, Continue, Add, OnlyMalformedDie,
         Provenance, TypeOK
<1>6. BoundedCopies'
  BY NoEventAssumption, <1>a
     DEF IInv, PublishRetry, storeVars, Continue, Add, BoundedCopies,
         Provenance, InFlight, Copies, Held, Unmarked, Polling, Idle, TypeOK,
         Relays, Consumers
<1>. QED
  BY <1>1, <1>2, <1>3, <1>4, <1>5, <1>6 DEF IInv

LEMMA AckInv ==
  ASSUME IInv, Ack
  PROVE  IInv'
<1>. TypeOK
  BY DEF IInv
<1>1. TypeOK'
  BY NoEventAssumption
     DEF IInv, Ack, storeVars, brokerVars, TypeOK, Relays, Consumers,
         Polling, Idle
<1>2. Provenance'
  BY NoEventAssumption
     DEF IInv, Ack, storeVars, brokerVars, Provenance, InFlight, Polling,
         Idle, TypeOK, Relays, Consumers
<1>3. Covered'
  BY NoEventAssumption
     DEF IInv, Ack, storeVars, brokerVars, Covered, Copies, Held, Polling,
         Idle, TypeOK, Relays, Consumers
<1>4. MatchedOnce'
  BY DEF IInv, Ack, storeVars, brokerVars, MatchedOnce, TypeOK
<1>5. OnlyMalformedDie'
  BY DEF IInv, Ack, storeVars, brokerVars, OnlyMalformedDie, Provenance,
         TypeOK
<1>6. BoundedCopies'
  BY NoEventAssumption
     DEF IInv, Ack, storeVars, brokerVars, BoundedCopies, Provenance,
         InFlight, Copies, Held, Unmarked, Polling, Idle, TypeOK, Relays,
         Consumers
<1>. QED
  BY <1>1, <1>2, <1>3, <1>4, <1>5, <1>6 DEF IInv

LEMMA RejectInv ==
  ASSUME IInv, Reject
  PROVE  IInv'
<1>. TypeOK
  BY DEF IInv
<1>a. consumer.event \in Events
  BY UnackedDelivery DEF Reject
<1>1. TypeOK'
  BY NoEventAssumption, <1>a
     DEF IInv, Reject, storeVars, Add, TypeOK, Relays, Consumers, Polling,
         Idle
<1>2. Provenance'
  BY NoEventAssumption, <1>a
     DEF IInv, Reject, storeVars, Add, Provenance, InFlight, Polling, Idle,
         TypeOK, Relays, Consumers
<1>3. Covered'
  BY NoEventAssumption, <1>a
     DEF IInv, Reject, storeVars, Add, Covered, Copies, Held, Polling,
         Idle, TypeOK, Relays, Consumers
<1>4. MatchedOnce'
  BY DEF IInv, Reject, storeVars, Add, MatchedOnce, TypeOK
<1>5. OnlyMalformedDie'
  BY <1>a
     DEF IInv, Reject, storeVars, Add, OnlyMalformedDie, Provenance, TypeOK
<1>6. BoundedCopies'
  BY NoEventAssumption, <1>a
     DEF IInv, Reject, storeVars, Add, BoundedCopies, Provenance, InFlight,
         Copies, Held, Unmarked, Polling, Idle, TypeOK, Relays, Consumers
<1>. QED
  BY <1>1, <1>2, <1>3, <1>4, <1>5, <1>6 DEF IInv

LEMMA RetryExpiresInv ==
  ASSUME IInv, NEW e \in Events, RetryExpires(e)
  PROVE  IInv'
<1>. TypeOK
  BY DEF IInv
<1>1. TypeOK'
  BY NoEventAssumption
     DEF IInv, RetryExpires, storeVars, Add, Remove, TypeOK, Relays,
         Consumers, Polling, Idle
<1>2. Provenance'
  BY NoEventAssumption
     DEF IInv, RetryExpires, storeVars, Add, Remove, Provenance, InFlight,
         Polling, Idle, TypeOK, Relays, Consumers
<1>3. Covered'
  BY NoEventAssumption
     DEF IInv, RetryExpires, storeVars, Add, Remove, Covered, Copies, Held,
         Polling, Idle, TypeOK, Relays, Consumers
<1>4. MatchedOnce'
  BY DEF IInv, RetryExpires, storeVars, Add, Remove, MatchedOnce, TypeOK
<1>5. OnlyMalformedDie'
  BY DEF IInv, RetryExpires, storeVars, Add, Remove, OnlyMalformedDie,
         Provenance, TypeOK
<1>6. BoundedCopies'
  BY NoEventAssumption
     DEF IInv, RetryExpires, storeVars, Add, Remove, BoundedCopies,
         Provenance, InFlight, Copies, Held, Unmarked, Polling, Idle, TypeOK,
         Relays, Consumers
<1>. QED
  BY <1>1, <1>2, <1>3, <1>4, <1>5, <1>6 DEF IInv

(* A crash revives at most the unmarked row and the unacked delivery.      *)
LEMMA CrashInv ==
  ASSUME IInv, Crash
  PROVE  IInv'
<1>. TypeOK
  BY DEF IInv
<1>c. /\ relay' \in Relays /\ (relay'.pc = "mark") = (relay'.event # NoEvent)
      /\ consumer' \in Consumers /\ (consumer'.pc = "idle") = (consumer'.event = NoEvent)
      /\ up' \in BOOLEAN
  BY DownType DEF Crash
<1>d. faults' \in 0..MaxFaults
  BY BoundsAssumption DEF Crash, Fault, TypeOK
<1>b. /\ Requeued \in [Events -> Nat]
      /\ \A x \in Events : Requeued[x] = ready[x] + (IF consumer.event = x THEN 1 ELSE 0)
  BY RequeuedCopies
<1>1. TypeOK'
  BY <1>b, <1>c, <1>d
     DEF IInv, Crash, storeVars, TypeOK
<1>2. Provenance'
  BY NoEventAssumption, <1>b
     DEF IInv, Crash, storeVars, Fault, Down, Provenance, InFlight,
         Polling, Idle, TypeOK, Relays, Consumers
<1>3. Covered'
  BY NoEventAssumption, <1>b
     DEF IInv, Crash, storeVars, Fault, Down, Covered, Copies, Held,
         Polling, Idle, TypeOK, Relays, Consumers
<1>4. MatchedOnce'
  BY DEF IInv, Crash, storeVars, Fault, Down, MatchedOnce, TypeOK
<1>5. OnlyMalformedDie'
  BY <1>b
     DEF IInv, Crash, storeVars, Fault, Down, OnlyMalformedDie, Provenance,
         TypeOK
<1>6. BoundedCopies'
  BY NoEventAssumption, BoundsAssumption, <1>b
     DEF IInv, Crash, storeVars, Fault, Down, BoundedCopies, Provenance,
         InFlight, Copies, Held, Unmarked, Polling, Idle, TypeOK, Relays,
         Consumers
<1>. QED
  BY <1>1, <1>2, <1>3, <1>4, <1>5, <1>6 DEF IInv

LEMMA PublishFailsInv ==
  ASSUME IInv, NEW e \in Events, PublishFails(e)
  PROVE  IInv'
<1>. TypeOK
  BY DEF IInv
<1>c. /\ relay' \in Relays /\ (relay'.pc = "mark") = (relay'.event # NoEvent)
      /\ consumer' \in Consumers /\ (consumer'.pc = "idle") = (consumer'.event = NoEvent)
      /\ up' \in BOOLEAN
  BY DownType DEF PublishFails
<1>d. faults' \in 0..MaxFaults
  BY BoundsAssumption DEF PublishFails, Fault, TypeOK
<1>b. /\ Requeued \in [Events -> Nat]
      /\ \A x \in Events : Requeued[x] = ready[x] + (IF consumer.event = x THEN 1 ELSE 0)
  BY RequeuedCopies
<1>1. TypeOK'
  BY <1>b, <1>c, <1>d
     DEF IInv, PublishFails, Add, TypeOK
<1>2. Provenance'
  BY NoEventAssumption, <1>b
     DEF IInv, PublishFails, Add, Fault, Down, Provenance, InFlight,
         Polling, Idle, TypeOK, Relays, Consumers
<1>3. Covered'
  BY NoEventAssumption, <1>b
     DEF IInv, PublishFails, Add, Fault, Down, Covered, Copies, Held,
         Polling, Idle, TypeOK, Relays, Consumers
<1>4. MatchedOnce'
  BY DEF IInv, PublishFails, Add, Fault, Down, MatchedOnce, TypeOK
<1>5. OnlyMalformedDie'
  BY <1>b
     DEF IInv, PublishFails, Add, Fault, Down, OnlyMalformedDie,
         Provenance, TypeOK
<1>6. BoundedCopies'
  BY NoEventAssumption, BoundsAssumption, <1>b
     DEF IInv, PublishFails, Add, Fault, Down, BoundedCopies, Provenance,
         InFlight, Copies, Held, Unmarked, Polling, Idle, TypeOK, Relays,
         Consumers
<1>. QED
  BY <1>1, <1>2, <1>3, <1>4, <1>5, <1>6 DEF IInv

LEMMA MarkFailsInv ==
  ASSUME IInv, MarkFails
  PROVE  IInv'
<1>. TypeOK
  BY DEF IInv
<1>c. /\ relay' \in Relays /\ (relay'.pc = "mark") = (relay'.event # NoEvent)
      /\ consumer' \in Consumers /\ (consumer'.pc = "idle") = (consumer'.event = NoEvent)
      /\ up' \in BOOLEAN
  BY DownType DEF MarkFails
<1>d. faults' \in 0..MaxFaults
  BY BoundsAssumption DEF MarkFails, Fault, TypeOK
<1>b. /\ Requeued \in [Events -> Nat]
      /\ \A x \in Events : Requeued[x] = ready[x] + (IF consumer.event = x THEN 1 ELSE 0)
  BY RequeuedCopies
<1>1. TypeOK'
  BY <1>b, <1>c, <1>d
     DEF IInv, MarkFails, TypeOK
<1>2. Provenance'
  BY NoEventAssumption, <1>b
     DEF IInv, MarkFails, Fault, Down, Provenance, InFlight, Polling, Idle,
         TypeOK, Relays, Consumers
<1>3. Covered'
  BY NoEventAssumption, <1>b
     DEF IInv, MarkFails, Fault, Down, Covered, Copies, Held, Polling,
         Idle, TypeOK, Relays, Consumers
<1>4. MatchedOnce'
  BY DEF IInv, MarkFails, Fault, Down, MatchedOnce, TypeOK
<1>5. OnlyMalformedDie'
  BY <1>b
     DEF IInv, MarkFails, Fault, Down, OnlyMalformedDie, Provenance, TypeOK
<1>6. BoundedCopies'
  BY NoEventAssumption, BoundsAssumption, <1>b
     DEF IInv, MarkFails, Fault, Down, BoundedCopies, Provenance, InFlight,
         Copies, Held, Unmarked, Polling, Idle, TypeOK, Relays, Consumers
<1>. QED
  BY <1>1, <1>2, <1>3, <1>4, <1>5, <1>6 DEF IInv

LEMMA RetryFailsInv ==
  ASSUME IInv, RetryFails
  PROVE  IInv'
<1>. TypeOK
  BY DEF IInv
<1>a. consumer.event \in Events
  BY UnackedDelivery DEF RetryFails
<1>c. /\ relay' \in Relays /\ (relay'.pc = "mark") = (relay'.event # NoEvent)
      /\ consumer' \in Consumers /\ (consumer'.pc = "idle") = (consumer'.event = NoEvent)
      /\ up' \in BOOLEAN
  BY DownType DEF RetryFails
<1>d. faults' \in 0..MaxFaults
  BY BoundsAssumption DEF RetryFails, Fault, TypeOK
<1>b. /\ Requeued \in [Events -> Nat]
      /\ \A x \in Events : Requeued[x] = ready[x] + (IF consumer.event = x THEN 1 ELSE 0)
  BY RequeuedCopies
<1>1. TypeOK'
  BY <1>a, <1>b, <1>c, <1>d
     DEF IInv, RetryFails, storeVars, Add, TypeOK
<1>2. Provenance'
  BY NoEventAssumption, <1>a, <1>b
     DEF IInv, RetryFails, storeVars, Add, Fault, Down, Provenance,
         InFlight, Polling, Idle, TypeOK, Relays, Consumers
<1>3. Covered'
  BY NoEventAssumption, <1>a, <1>b
     DEF IInv, RetryFails, storeVars, Add, Fault, Down, Covered, Copies,
         Held, Polling, Idle, TypeOK, Relays, Consumers
<1>4. MatchedOnce'
  BY DEF IInv, RetryFails, storeVars, Add, Fault, Down, MatchedOnce, TypeOK
<1>5. OnlyMalformedDie'
  BY <1>a, <1>b
     DEF IInv, RetryFails, storeVars, Add, Fault, Down, OnlyMalformedDie,
         Provenance, TypeOK
<1>6. BoundedCopies'
  BY NoEventAssumption, BoundsAssumption, <1>a, <1>b
     DEF IInv, RetryFails, storeVars, Add, Fault, Down, BoundedCopies,
         Provenance, InFlight, Copies, Held, Unmarked, Polling, Idle, TypeOK,
         Relays, Consumers
<1>. QED
  BY <1>1, <1>2, <1>3, <1>4, <1>5, <1>6 DEF IInv

LEMMA RestartInv ==
  ASSUME IInv, Restart
  PROVE  IInv'
<1>. TypeOK
  BY DEF IInv
<1>1. TypeOK'
  BY NoEventAssumption
     DEF IInv, Restart, storeVars, brokerVars, TypeOK, Relays, Consumers,
         Polling, Idle
<1>2. Provenance'
  BY NoEventAssumption
     DEF IInv, Restart, storeVars, brokerVars, Provenance, InFlight,
         Polling, Idle, TypeOK, Relays, Consumers
<1>3. Covered'
  BY NoEventAssumption
     DEF IInv, Restart, storeVars, brokerVars, Covered, Copies, Held,
         Polling, Idle, TypeOK, Relays, Consumers
<1>4. MatchedOnce'
  BY DEF IInv, Restart, storeVars, brokerVars, MatchedOnce, TypeOK
<1>5. OnlyMalformedDie'
  BY DEF IInv, Restart, storeVars, brokerVars, OnlyMalformedDie,
         Provenance, TypeOK
<1>6. BoundedCopies'
  BY NoEventAssumption
     DEF IInv, Restart, storeVars, brokerVars, BoundedCopies, Provenance,
         InFlight, Copies, Held, Unmarked, Polling, Idle, TypeOK, Relays,
         Consumers
<1>. QED
  BY <1>1, <1>2, <1>3, <1>4, <1>5, <1>6 DEF IInv

-----------------------------------------------------------------------------
LEMMA NextInv == IInv /\ [Next]_vars => IInv'
<1>. SUFFICES ASSUME IInv, [Next]_vars PROVE IInv'
  OBVIOUS
<1>1. CASE Environment
  BY <1>1, StoreEventInv, BecomeDueInv, SettleInv, UnsettleInv DEF Environment
<1>2. CASE RelayStep
  BY <1>2, ClaimBatchInv, PublishConfirmedInv, MarkPublishedInv DEF RelayStep
<1>3. CASE ConsumerStep
  BY <1>3, MatchMalformedInv, MatchSucceedsInv, MatchPendingInv,
     PublishRetryInv, AckInv, RejectInv DEF ConsumerStep, Handle
<1>4. CASE \E e \in Events : Deliver(e) \/ RetryExpires(e)
  BY <1>4, DeliverInv, RetryExpiresInv
<1>5. CASE FaultStep
  BY <1>5, MatchFailsInv, CrashInv, MarkFailsInv, RetryFailsInv,
     PublishFailsInv DEF FaultStep
<1>6. CASE Restart
  BY <1>6, RestartInv
<1>7. CASE UNCHANGED vars
  BY <1>7
     DEF vars, IInv, TypeOK, Provenance, InFlight, Covered, MatchedOnce,
         OnlyMalformedDie, BoundedCopies, Copies, Held, Unmarked
<1>. QED
  BY <1>1, <1>2, <1>3, <1>4, <1>5, <1>6, <1>7 DEF Next

(* The inductive invariant holds of every behaviour.                       *)
THEOREM Inductive == Spec => []IInv
BY InitInv, NextInv, PTL DEF Spec

(* Every variable keeps its type.                                          *)
THEOREM TypeCorrect == Spec => []TypeOK
<1>1. IInv => TypeOK
  BY DEF IInv
<1>. QED
  BY <1>1, Inductive, PTL

(* No sequence of crashes, failed publications, lost confirmations and     *)
(* retries loses an event that the outbox counts as published.             *)
THEOREM Lossless == Spec => []NothingLost
<1>1. IInv => NothingLost
  BY DEF IInv, TypeOK, Covered, NothingLost
<1>. QED
  BY <1>1, Inductive, PTL

(* Redelivery never repeats the work of a match.                           *)
THEOREM AtMostOneEffect == Spec => []MatchedOnce
<1>1. IInv => MatchedOnce
  BY DEF IInv
<1>. QED
  BY <1>1, Inductive, PTL

(* The dead-letter queue receives nothing that could be matched.           *)
THEOREM DeadAreMalformed == Spec => []OnlyMalformedDie
<1>1. IInv => OnlyMalformedDie
  BY DEF IInv
<1>. QED
  BY <1>1, Inductive, PTL

(* One fault adds at most two live copies of an event.                     *)
THEOREM DuplicationBound == Spec => []DuplicatesNeedFaults
<1>1. IInv => DuplicatesNeedFaults
  <2>. SUFFICES ASSUME IInv, NEW e \in Events
                PROVE  Copies(e) <= 1 + 2 * faults
    BY DEF DuplicatesNeedFaults
  <2>1. Copies(e) + Unmarked(e) <= 1 + 2 * faults
    BY DEF IInv, BoundedCopies
  <2>2. Copies(e) \in Nat /\ Unmarked(e) \in {0, 1} /\ faults \in Nat
    BY BoundsAssumption DEF IInv, TypeOK, Copies, Held, Unmarked
  <2>. QED
    BY <2>1, <2>2
<1>. QED
  BY <1>1, Inductive, PTL

-----------------------------------------------------------------------------
(* The refinement of EventEffects.                                         *)
Fates == [e \in Events |-> Fate(e)]

(* A step that changes neither what is consumed, nor what is dead, nor     *)
(* which events are absent, is invisible.                                  *)
LEMMA QuietStep ==
  ASSUME UNCHANGED <<consumed, dead>>,
         \A e \in Events : (outbox[e] = "absent") = (outbox'[e] = "absent")
  PROVE  Fates' = Fates
BY DEF Fates, Fate

LEMMA OneFateChanges ==
  ASSUME NEW e \in Events, \A f \in Events \ {e} : Fate(f)' = Fate(f)
  PROVE  Fates' = [Fates EXCEPT ![e] = Fate(e)']
BY DEF Fates

LEMMA StoreStep ==
  ASSUME IInv, NEW e \in Events, StoreEvent(e)
  PROVE  Abstract!Store(e)
<1>1. e \notin consumed /\ dead[e] = 0
  BY DEF IInv, Provenance, InFlight, StoreEvent, TypeOK
<1>2. Fates[e] = "none"
  BY <1>1 DEF Fates, Fate, StoreEvent
<1>3. Fates' = [Fates EXCEPT ![e] = "stored"]
  <2>1. outbox'[e] = "pending" /\ UNCHANGED <<consumed, dead>>
    BY DEF StoreEvent, brokerVars, IInv, TypeOK
  <2>2. \A f \in Events \ {e} : outbox'[f] = outbox[f]
    BY DEF StoreEvent, IInv, TypeOK
  <2>. QED
    BY <1>1, <2>1, <2>2, OneFateChanges DEF Fate
<1>. QED
  BY <1>2, <1>3 DEF Abstract!Store, Fates

(* A committed match settles its event, unless the event already was.      *)
LEMMA MatchStep ==
  ASSUME IInv, consumer.pc # "idle", consumer.event \notin Malformed,
         CommitMatch, UNCHANGED <<outbox, dead>>
  PROVE  \E e \in Events : Abstract!Match(e) \/ Fates' = Fates
<1>. DEFINE e == consumer.event
<1>1. e \in Events
  BY UnackedDelivery DEF IInv
<1>2. CASE e \in consumed
  BY <1>1, <1>2, QuietStep DEF CommitMatch, IInv
<1>3. CASE e \notin consumed
  <2>1. dead[e] = 0 /\ outbox[e] # "absent"
    BY <1>1 DEF IInv, OnlyMalformedDie, Provenance, InFlight, TypeOK
  <2>2. Fates[e] = "stored"
    BY <1>1, <1>3, <2>1 DEF Fates, Fate
  <2>3. Fates' = [Fates EXCEPT ![e] = "matched"]
    BY <1>1, <1>3, OneFateChanges DEF Fate, CommitMatch
  <2>. QED
    BY <1>1, <2>2, <2>3 DEF Abstract!Match, Fates
<1>. QED
  BY <1>2, <1>3

LEMMA RejectStep ==
  ASSUME IInv, Reject
  PROVE  \E e \in Events : Abstract!Reject(e) \/ Fates' = Fates
<1>. DEFINE e == consumer.event
<1>1. /\ e \in Events /\ e \in Malformed /\ e \notin consumed
      /\ outbox[e] # "absent"
  BY UnackedDelivery DEF IInv, Reject, Provenance, InFlight
<1>2. UNCHANGED <<outbox, consumed>> /\ dead' = [dead EXCEPT ![e] = @ + 1]
  BY DEF Reject, storeVars, Add
<1>3. CASE dead[e] > 0
  BY <1>1, <1>2, <1>3 DEF Fates, Fate, IInv, TypeOK
<1>4. CASE dead[e] = 0
  <2>1. Fates[e] = "stored"
    BY <1>1, <1>4 DEF Fates, Fate
  <2>2. dead'[e] > 0 /\ \A f \in Events \ {e} : dead'[f] = dead[f]
    BY <1>1, <1>2, <1>4 DEF IInv, TypeOK
  <2>3. Fates' = [Fates EXCEPT ![e] = "rejected"]
    BY <1>1, <1>2, <2>2, OneFateChanges DEF Fate
  <2>. QED
    BY <1>1, <2>1, <2>3 DEF Abstract!Reject, Fates
<1>. QED
  BY <1>1, <1>3, <1>4 DEF IInv, TypeOK

LEMMA StepRefines ==
  ASSUME IInv, [Next]_vars
  PROVE  Abstract!Next \/ Fates' = Fates
<1>1. CASE Environment
  BY <1>1, StoreStep, QuietStep
     DEF Environment, BecomeDue, Settle, Unsettle, storeVars, brokerVars, Abstract!Next
<1>2. CASE RelayStep
  <2>1. CASE MarkPublished
    <3>1. relay.event \in Events /\ outbox[relay.event] # "absent"
      BY <2>1, NoEventAssumption
         DEF MarkPublished, IInv, TypeOK, Relays, Provenance, InFlight
    <3>. QED
      BY <2>1, <3>1, QuietStep DEF MarkPublished, brokerVars, IInv, TypeOK
  <2>. QED
    BY <1>2, <2>1, QuietStep
       DEF RelayStep, ClaimBatch, PublishConfirmed, storeVars, brokerVars
<1>3. CASE ConsumerStep
  <2>1. CASE MatchSucceeds
    BY <2>1, MatchStep DEF MatchSucceeds, Matchable, brokerVars, Abstract!Next
  <2>2. CASE Reject
    BY <2>2, RejectStep DEF Abstract!Next
  <2>. QED
    BY <1>3, <2>1, <2>2, QuietStep
       DEF ConsumerStep, Handle, MatchMalformed, MatchPending, PublishRetry,
           Ack, storeVars, brokerVars
<1>4. CASE \E e \in Events : Deliver(e) \/ RetryExpires(e)
  BY <1>4, QuietStep DEF Deliver, RetryExpires, storeVars
<1>5. CASE FaultStep
  <2>1. CASE MatchFails
    <3>1. CASE UNCHANGED <<consumed, effects>>
      BY <2>1, <3>1, QuietStep DEF MatchFails, brokerVars
    <3>2. CASE Matchable /\ CommitMatch
      BY <2>1, <3>2, MatchStep DEF MatchFails, brokerVars, Abstract!Next
    <3>. QED
      BY <2>1, <3>1, <3>2 DEF MatchFails
  <2>2. CASE MarkFails
    <3>1. relay.event \in Events /\ outbox[relay.event] # "absent"
      BY <2>2, NoEventAssumption
         DEF MarkFails, IInv, TypeOK, Relays, Provenance, InFlight
    <3>. QED
      BY <2>2, <3>1, QuietStep DEF MarkFails, IInv, TypeOK
  <2>. QED
    BY <1>5, <2>1, <2>2, QuietStep
       DEF FaultStep, Crash, RetryFails, PublishFails, storeVars
<1>6. CASE Restart
  BY <1>6, QuietStep DEF Restart, storeVars, brokerVars
<1>7. CASE UNCHANGED vars
  BY <1>7, QuietStep DEF vars
<1>. QED
  BY <1>1, <1>2, <1>3, <1>4, <1>5, <1>6, <1>7 DEF Next

(* Delivery implements its abstract promise: every committed event is      *)
(* matched once or, if malformed, rejected, and never both.                *)
THEOREM Implementation == Spec => ImplementsEventEffects
<1>1. Init => Abstract!Init
  BY DEF Init, Abstract!Init, Fate
<1>2. IInv /\ [Next]_vars => [Abstract!Next]_Fates
  BY StepRefines
<1>. QED
  BY <1>1, <1>2, Inductive, PTL
     DEF Spec, ImplementsEventEffects, Abstract!Spec, Fates
=============================================================================
