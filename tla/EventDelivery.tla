---------------------------- MODULE EventDelivery ----------------------------
(***************************************************************************)
(* The path of an event from the outbox table to the alert matcher:        *)
(*                                                                         *)
(*   outbox row --OutboxRelay--> matcher queue --Consume--> match          *)
(*                                   ^                        |            *)
(*                                   +--- retry queue <-------+--> dead    *)
(*                                                                         *)
(* internal/app/outbox.go and listing_matcher.go, the RabbitMQ adapter     *)
(* internal/broker/rabbitmq, and the outbox_events and consumed_events     *)
(* tables.  All of it runs in one process: the first goroutine that        *)
(* returns an error brings the process down and the supervisor starts it   *)
(* again.  Every fault draws on the budget MaxFaults.                      *)
(*                                                                         *)
(* A queue is the number of copies it holds of each event.  RabbitMQ keeps *)
(* a queue in order, but requeueing and the delayed retry queue reorder    *)
(* it, so a consumer may be handed any copy.                               *)
(***************************************************************************)
EXTENDS Integers, FiniteSets

CONSTANTS Events,       \* event identifiers, in order of occurred_at
          Malformed,    \* events whose payload does not decode
          Dependent,    \* events matched only once their duplicate evidence
                        \* is complete (duplicate-aware discoveries)
          BatchSize,    \* rows one PendingOutbox call claims
          MaxFaults,    \* bound on crashes and failed calls
          NoEvent

ASSUME EventsAssumption == Events \subseteq Nat
ASSUME KindsAssumption == Malformed \subseteq Events /\ Dependent \subseteq Events
ASSUME BoundsAssumption == BatchSize \in Nat \ {0} /\ MaxFaults \in Nat
ASSUME NoEventAssumption == NoEvent \notin Events

VARIABLES
  outbox,      \* outbox[e]: "absent", "pending", or "published"
  due,         \* events whose next_attempt_at has passed
  relay,       \* the relay goroutine: its place, its batch, the event in hand
  ready,       \* copies of each event in the matcher queue
  retry,       \* copies in the retry queue, waiting out its TTL
  dead,        \* copies in the dead-letter queue
  consumer,    \* the consumer goroutine: its place and the unacked delivery
  consumed,    \* consumed_events rows of the matcher
  effects,     \* effects[e]: committed matches of e that did its work
  settled,     \* dependent events whose duplicate evidence is complete
  up,          \* the process is running
  faults       \* faults so far

storeVars == <<outbox, due, consumed, effects>>
brokerVars == <<ready, retry, dead>>
vars == <<outbox, due, relay, ready, retry, dead, consumer, consumed,
          effects, settled, up, faults>>

Relays == [pc : {"poll", "publish", "mark"}, batch : SUBSET Events,
           event : Events \cup {NoEvent}]
Consumers == [pc : {"idle", "handle", "ack", "reject", "retry"},
              event : Events \cup {NoEvent}]

Polling == [pc |-> "poll", batch |-> {}, event |-> NoEvent]
Idle == [pc |-> "idle", event |-> NoEvent]

Add(queue, e) == [queue EXCEPT ![e] = @ + 1]
Remove(queue, e) == [queue EXCEPT ![e] = @ - 1]

(* The matcher queue once the broker has taken back the unacked delivery.  *)
Requeued == IF consumer.pc = "idle" THEN ready ELSE Add(ready, consumer.event)

Fault == faults < MaxFaults /\ faults' = faults + 1

Init ==
  /\ outbox = [e \in Events |-> "absent"] /\ due = {}
  /\ relay = Polling /\ consumer = Idle
  /\ ready = [e \in Events |-> 0]
  /\ retry = [e \in Events |-> 0]
  /\ dead = [e \in Events |-> 0]
  /\ consumed = {} /\ effects = [e \in Events |-> 0]
  /\ settled = {}
  /\ up = TRUE /\ faults = 0

-----------------------------------------------------------------------------
(* The store and its surroundings.                                         *)

(* ProcessDiscovered commits the outbox row with the change it announces.  *)
StoreEvent(e) ==
  /\ up /\ outbox[e] = "absent"
  /\ outbox' = [outbox EXCEPT ![e] = "pending"]
  /\ due' = due \cup {e}
  /\ UNCHANGED <<relay, brokerVars, consumer, consumed, effects, settled, up, faults>>

(* next_attempt_at passes: a lease or a backoff runs out.                  *)
BecomeDue(e) ==
  /\ outbox[e] = "pending" /\ e \notin due
  /\ due' = due \cup {e}
  /\ UNCHANGED <<outbox, relay, brokerVars, consumer, consumed, effects, settled, up, faults>>

(* The duplicate workers complete, or reopen, what a discovery waits for.  *)
Settle(e) ==
  /\ e \in Dependent \ settled
  /\ settled' = settled \cup {e}
  /\ UNCHANGED <<storeVars, relay, brokerVars, consumer, up, faults>>

Unsettle(e) ==
  /\ e \in settled
  /\ settled' = settled \ {e}
  /\ UNCHANGED <<storeVars, relay, brokerVars, consumer, up, faults>>

-----------------------------------------------------------------------------
(* OutboxRelay.Run.                                                        *)

Claimable == {e \in due : outbox[e] = "pending"}

(* PendingOutbox leases the oldest due rows for 30 seconds.                *)
ClaimBatch ==
  /\ up /\ relay.pc = "poll"
  /\ \E batch \in SUBSET Claimable :
       /\ batch # {}
       /\ batch = Claimable \/ Cardinality(batch) = BatchSize
       /\ Cardinality(batch) <= BatchSize
       /\ \A e \in batch, f \in Claimable \ batch : e < f
       /\ due' = due \ batch
       /\ relay' = [pc |-> "publish", batch |-> batch, event |-> NoEvent]
  /\ UNCHANGED <<outbox, brokerVars, consumer, consumed, effects, settled, up, faults>>

(* Publish returns once the broker has confirmed the message.  RETURNING   *)
(* hands the batch over in no particular order.                            *)
PublishConfirmed(e) ==
  /\ up /\ relay.pc = "publish" /\ e \in relay.batch
  /\ ready' = Add(ready, e)
  /\ relay' = [pc |-> "mark", batch |-> relay.batch \ {e}, event |-> e]
  /\ UNCHANGED <<storeVars, retry, dead, consumer, settled, up, faults>>

(* Mutant: the relay goes on without marking the row.                      *)
MutantUnmarked ==
  /\ up /\ relay.pc = "mark"
  /\ relay' = IF relay.batch = {} THEN Polling
              ELSE [pc |-> "publish", batch |-> relay.batch, event |-> NoEvent]
  /\ UNCHANGED <<storeVars, brokerVars, consumer, settled, up, faults>>

(* MarkOutboxPublished, then the next event of the batch or the next poll. *)
MarkPublished ==
  /\ up /\ relay.pc = "mark"
  /\ outbox' = [outbox EXCEPT ![relay.event] = "published"]
  /\ relay' = IF relay.batch = {} THEN Polling
              ELSE [pc |-> "publish", batch |-> relay.batch, event |-> NoEvent]
  /\ UNCHANGED <<due, brokerVars, consumer, consumed, effects, settled, up, faults>>

-----------------------------------------------------------------------------
(* Broker.Consume and ListingMatcher.handle.                               *)

Deliver(e) ==
  /\ up /\ consumer.pc = "idle" /\ ready[e] > 0
  /\ ready' = Remove(ready, e)
  /\ consumer' = [pc |-> "handle", event |-> e]
  /\ UNCHANGED <<storeVars, relay, retry, dead, settled, up, faults>>

Continue(step) == consumer' = [consumer EXCEPT !.pc = step]

(* A payload that does not decode is a permanent error.                    *)
MatchMalformed ==
  /\ up /\ consumer.pc = "handle" /\ consumer.event \in Malformed
  /\ Continue("reject")
  /\ UNCHANGED <<storeVars, relay, brokerVars, settled, up, faults>>

(* Mutant: the consumed_events conflict is not looked at.                  *)
MutantNoInbox ==
  /\ consumed' = consumed \cup {consumer.event}
  /\ effects' = Add(effects, consumer.event)

(* The match transaction commits: the consumed_events row decides whether  *)
(* this delivery does the work.                                            *)
CommitMatch ==
  /\ consumed' = consumed \cup {consumer.event}
  /\ effects' = IF consumer.event \in consumed THEN effects
                ELSE Add(effects, consumer.event)

(* Mutant: a payload that does not decode is matched as it stands.         *)
MutantUndecoded == consumer.event \in Dependent => consumer.event \in settled

Matchable == consumer.event \notin Malformed
             /\ (consumer.event \in Dependent => consumer.event \in settled)

MatchSucceeds ==
  /\ up /\ consumer.pc = "handle" /\ Matchable
  /\ CommitMatch
  /\ Continue("ack")
  /\ UNCHANGED <<outbox, due, relay, brokerVars, settled, up, faults>>

(* Mutants: a pending dependency treated as permanent, or as done.         *)
MutantPendingIsPermanent ==
  /\ up /\ consumer.pc = "handle"
  /\ consumer.event \in (Dependent \ Malformed) \ settled
  /\ Continue("reject")
  /\ UNCHANGED <<storeVars, relay, brokerVars, settled, up, faults>>

MutantPendingIsAcked ==
  /\ up /\ consumer.pc = "handle"
  /\ consumer.event \in (Dependent \ Malformed) \ settled
  /\ Continue("ack")
  /\ UNCHANGED <<storeVars, relay, brokerVars, settled, up, faults>>

(* MatchDuplicateAwareListingEvent reports DependencyPending before it     *)
(* reaches the consumed_events insert.                                     *)
MatchPending ==
  /\ up /\ consumer.pc = "handle"
  /\ consumer.event \in (Dependent \ Malformed) \ settled
  /\ Continue("retry")
  /\ UNCHANGED <<storeVars, relay, brokerVars, settled, up, faults>>

(* A database error: rolled back, or committed with the answer lost.       *)
MatchFails ==
  /\ up /\ consumer.pc = "handle" /\ consumer.event \notin Malformed /\ Fault
  /\ \/ UNCHANGED <<consumed, effects>>
     \/ Matchable /\ CommitMatch
  /\ Continue("retry")
  /\ UNCHANGED <<outbox, due, relay, brokerVars, settled, up>>

(* publishRetry is confirmed; only then is the delivery acked.             *)
PublishRetry ==
  /\ up /\ consumer.pc = "retry"
  /\ retry' = Add(retry, consumer.event)
  /\ Continue("ack")
  /\ UNCHANGED <<storeVars, relay, ready, dead, settled, up, faults>>

Ack ==
  /\ up /\ consumer.pc = "ack"
  /\ consumer' = Idle
  /\ UNCHANGED <<storeVars, relay, brokerVars, settled, up, faults>>

(* Reject without requeue: the queue's dead-letter exchange takes the copy.*)
Reject ==
  /\ up /\ consumer.pc = "reject"
  /\ dead' = Add(dead, consumer.event)
  /\ consumer' = Idle
  /\ UNCHANGED <<storeVars, relay, ready, retry, settled, up, faults>>

(* The retry queue's TTL dead-letters a copy back to the events exchange.  *)
RetryExpires(e) ==
  /\ retry[e] > 0
  /\ retry' = Remove(retry, e)
  /\ ready' = Add(ready, e)
  /\ UNCHANGED <<storeVars, relay, dead, consumer, settled, up, faults>>

-----------------------------------------------------------------------------
(* Faults and restarts.  Each of these takes the process down; the broker  *)
(* requeues the delivery that was not acked.                               *)

Down ==
  /\ up' = FALSE /\ relay' = Polling /\ consumer' = Idle

Crash ==
  /\ up /\ Fault /\ Down
  /\ ready' = Requeued
  /\ UNCHANGED <<storeVars, retry, dead, settled>>

(* Publish fails, though the broker may hold the message; RetryOutbox, if  *)
(* it succeeds, backs the row off, and Run returns the error.              *)
PublishFails(e) ==
  /\ up /\ relay.pc = "publish" /\ e \in relay.batch /\ Fault /\ Down
  /\ \/ ready' = Requeued
     \/ ready' = Add(Requeued, e)
  /\ due' \in {due, due \ {e}}
  /\ UNCHANGED <<outbox, consumed, effects, retry, dead, settled>>

(* MarkOutboxPublished fails after the row was or was not updated.         *)
MarkFails ==
  /\ up /\ relay.pc = "mark" /\ Fault /\ Down
  /\ \/ UNCHANGED outbox
     \/ outbox' = [outbox EXCEPT ![relay.event] = "published"]
  /\ ready' = Requeued
  /\ UNCHANGED <<due, consumed, effects, retry, dead, settled>>

(* Mutant: the delivery is acked although its retry was not published.     *)
MutantAckUnpublished ==
  /\ up /\ consumer.pc = "retry" /\ Fault /\ Down
  /\ ready' = ready
  /\ \/ UNCHANGED retry
     \/ retry' = Add(retry, consumer.event)
  /\ UNCHANGED <<storeVars, dead, settled>>

(* publishRetry fails, though the broker may hold the message: Nack with   *)
(* requeue, and Consume returns the error.                                 *)
RetryFails ==
  /\ up /\ consumer.pc = "retry" /\ Fault /\ Down
  /\ ready' = Requeued
  /\ \/ UNCHANGED retry
     \/ retry' = Add(retry, consumer.event)
  /\ UNCHANGED <<storeVars, dead, settled>>

(* The supervisor starts the process again.                                *)
Restart ==
  /\ ~up
  /\ up' = TRUE
  /\ UNCHANGED <<storeVars, relay, brokerVars, consumer, settled, faults>>

-----------------------------------------------------------------------------
RelayStep == ClaimBatch \/ MarkPublished \/ \E e \in Events : PublishConfirmed(e)

Handle == MatchMalformed \/ MatchSucceeds \/ MatchPending
ConsumerStep == Handle \/ PublishRetry \/ Ack \/ Reject

FaultStep ==
  \/ MatchFails \/ Crash \/ MarkFails \/ RetryFails
  \/ \E e \in Events : PublishFails(e)

Environment ==
  \E e \in Events : StoreEvent(e) \/ BecomeDue(e) \/ Settle(e) \/ Unsettle(e)

Next ==
  \/ Environment \/ RelayStep
  \/ ConsumerStep \/ \E e \in Events : Deliver(e) \/ RetryExpires(e)
  \/ FaultStep \/ Restart

Spec == Init /\ [][Next]_vars

(* The goroutines run, the broker's and the database's clocks advance, and *)
(* the supervisor restarts the process.  A queue hands over every copy it  *)
(* keeps holding: FIFO order is what SF on Deliver stands for.  Nothing is *)
(* assumed of Store, of Settle or of the faults, which the budget ends.    *)
Fairness ==
  /\ WF_vars(RelayStep) /\ WF_vars(ConsumerStep) /\ WF_vars(Restart)
  /\ \A e \in Events : /\ WF_vars(BecomeDue(e)) /\ WF_vars(RetryExpires(e))
                       /\ SF_vars(Deliver(e))

FairSpec == Spec /\ Fairness

-----------------------------------------------------------------------------
(* Properties.                                                             *)

TypeOK ==
  /\ outbox \in [Events -> {"absent", "pending", "published"}]
  /\ due \in SUBSET Events
  /\ relay \in Relays
  /\ (relay.pc = "mark") = (relay.event # NoEvent)
  /\ consumer \in Consumers
  /\ (consumer.pc = "idle") = (consumer.event = NoEvent)
  /\ ready \in [Events -> Nat] /\ retry \in [Events -> Nat] /\ dead \in [Events -> Nat]
  /\ consumed \in SUBSET Events /\ effects \in [Events -> Nat]
  /\ settled \in SUBSET Dependent
  /\ up \in BOOLEAN /\ faults \in 0..MaxFaults

(* The copies of an event still to be handled: a delivery whose ack is all *)
(* that remains is not one of them.                                        *)
Held(e) == IF consumer.event = e /\ consumer.pc # "ack" THEN 1 ELSE 0
Copies(e) == ready[e] + retry[e] + Held(e)

(* An event the relay has marked published is still on its way to the      *)
(* matcher until a match or the dead-letter queue has it: publishing, the  *)
(* retry hop and the two acknowledgements never drop the only copy.        *)
NothingLost ==
  \A e \in Events :
    outbox[e] = "published" /\ e \notin consumed /\ dead[e] = 0 => Copies(e) > 0

(* However often an event is delivered, its matching work is committed at  *)
(* most once, and exactly once if it was consumed.                         *)
MatchedOnce ==
  \A e \in Events : effects[e] = IF e \in consumed THEN 1 ELSE 0

(* Only an event no handler can decode is dead-lettered: neither a pending *)
(* dependency nor any number of failures gives up on an event, and no      *)
(* matched event is also rejected.                                         *)
OnlyMalformedDie ==
  \A e \in Events : dead[e] > 0 => e \in Malformed /\ e \notin consumed

(* Duplication has a cause and a bound: without faults an event has one    *)
(* copy, and one fault adds at most two, one from the relay that had not   *)
(* marked the row and one from the delivery that had not been acked.       *)
DuplicatesNeedFaults == \A e \in Events : Copies(e) <= 1 + 2 * faults

(* The inductive invariant behind these.  Nothing is in flight that the    *)
(* store has not committed, and the relay holds only unpublished rows.     *)
InFlight == {e \in Events : ready[e] > 0 \/ retry[e] > 0 \/ dead[e] > 0}
            \cup due \cup consumed \cup relay.batch \cup {relay.event, consumer.event}

Provenance ==
  /\ \A e \in Events : outbox[e] = "absent" => e \notin InFlight
  /\ \A e \in relay.batch : outbox[e] = "pending" /\ e # relay.event
  /\ consumed \cap Malformed = {}
  /\ consumer.pc = "reject" => consumer.event \in Malformed

(* NothingLost, extended to the event confirmed but not yet marked.        *)
Covered ==
  \A e \in Events :
    outbox[e] = "published" \/ relay.event = e
      => e \in consumed \/ dead[e] > 0 \/ Copies(e) > 0

(* DuplicatesNeedFaults, counting the copy a pending row will become.      *)
Unmarked(e) == IF outbox[e] = "pending" /\ relay.event # e THEN 1 ELSE 0
BoundedCopies == \A e \in Events : Copies(e) + Unmarked(e) <= 1 + 2 * faults

IInv == /\ TypeOK /\ Provenance /\ Covered /\ MatchedOnce
        /\ OnlyMalformedDie /\ BoundedCopies

(* A committed event ends matched, or rejected if it is malformed, once    *)
(* its duplicate evidence stays complete.                                  *)
Finished(e) == IF e \in Malformed THEN dead[e] > 0 ELSE e \in consumed

EveryEventFinishes ==
  \A e \in Events :
    (e \in Dependent \ Malformed => <>[](e \in settled))
      => (outbox[e] # "absent" ~> Finished(e))

(* Delivery implements its abstract promise.                               *)
Fate(e) == CASE e \in consumed -> "matched"
             [] e \notin consumed /\ dead[e] > 0 -> "rejected"
             [] e \notin consumed /\ dead[e] = 0 /\ outbox[e] # "absent" -> "stored"
             [] OTHER -> "none"

Abstract == INSTANCE EventEffects WITH fate <- [e \in Events |-> Fate(e)]

ImplementsEventEffects == Abstract!Spec
=============================================================================
