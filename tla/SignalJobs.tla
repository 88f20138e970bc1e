----------------------------- MODULE SignalJobs -----------------------------
(***************************************************************************)
(* The matching evidence of a listing, written from two sides: the feed    *)
(* transaction of the Monitor (ProcessDiscovered in                        *)
(* store/postgres/listings.go) and the workers of ListingSignalCollector   *)
(* (app/listing_signal_collector.go, store/postgres/listing_signals.go).   *)
(*                                                                         *)
(* The feed locks a listing row and then its job row, a completing worker  *)
(* the job row and then the listing row; the database breaks the deadlock  *)
(* by aborting one of them.  A change of the evidence raises the           *)
(* generation of the job, which drops the result of a worker under way.    *)
(* A listing's evidence is one value; Brief is what a silent baseline poll *)
(* stores, a listing whose details were never fetched.                     *)
(***************************************************************************)
EXTENDS Naturals, Sequences, FiniteSets, SequencesExt

CONSTANTS Listings,
          Pages,         \* what a provider may publish about a listing
          Brief,         \* a stored listing without its details
          None,          \* a listing that is not stored
          Workers,       \* workers of the collector
          MaxChanges,    \* bound on changes at the provider
          MaxFaults      \* bound on crashes and failed calls

Facts == Pages \cup {Brief}

ASSUME FactsAssumption == Brief \notin Pages /\ None \notin Facts
ASSUME SignalBoundsAssumption ==
  Workers \in Nat \ {0} /\ MaxChanges \in Nat /\ MaxFaults \in Nat

VARIABLES
  page,         \* page[l]: what the provider publishes now
  changes,      \* changes at the provider so far
  initialized,  \* source_state.initialized
  feed,         \* the feed transaction: its listings to do, in hand and done
  fact,         \* fact[l]: the evidence in the listing row, or None
  gen,          \* gen[l]: generation of the job row, 0 before it is there
  job,          \* job[l]: status of the job row
  snaps,        \* snaps[l]: snapshots, in the order of completed_at
  work,         \* work[l]: the worker on l
  faults        \* faults so far

providerVars == <<page, changes>>
storeVars == <<fact, gen, job, snaps, initialized>>
vars == <<providerVars, storeVars, feed, work, faults>>

NoFeed == [todo |-> {}, at |-> {}, done |-> {}, incoming |-> [l \in Listings |-> Brief]]
Idle == [pc |-> "idle", gen |-> 0, seen |-> None, got |-> None]

Fault == faults < MaxFaults /\ faults' = faults + 1

Init ==
  /\ page \in [Listings -> Pages] /\ changes = 0
  /\ initialized = FALSE
  /\ feed = NoFeed
  /\ fact = [l \in Listings |-> None]
  /\ gen = [l \in Listings |-> 0] /\ job = [l \in Listings |-> "none"]
  /\ snaps = [l \in Listings |-> <<>>]
  /\ work = [l \in Listings |-> Idle]
  /\ faults = 0

(* The advert is edited.                                                   *)
Edit(l) ==
  /\ changes < MaxChanges /\ changes' = changes + 1
  /\ \E p \in Pages \ {page[l]} : page' = [page EXCEPT ![l] = p]
  /\ UNCHANGED <<storeVars, feed, work, faults>>

-----------------------------------------------------------------------------
(* The feed transaction.                                                   *)

(* Poll: a baseline takes listings as the feed shows them, a later poll    *)
(* fetches the details of new and of changed listings first.  Which ones   *)
(* are in the window, or only changed in price, is open.                   *)
FeedBegins(batch) ==
  /\ feed = NoFeed /\ batch # {}
  /\ feed' = [NoFeed EXCEPT !.todo = batch,
                            !.incoming = IF initialized THEN page ELSE @]
  /\ UNCHANGED <<providerVars, storeVars, work, faults>>

(* Mutant: only listings that are new are queued.                          *)
MutantNewOnly(l) == fact[l] = None

(* matchingSignalsChanged, or the listing is new: its job is queued.       *)
Changes(l) == fact[l] # feed.incoming[l]

FeedJobs == {l \in feed.done : Changes(l)}
FeedRows == feed.done \cup feed.at

(* The row of l is inserted, or locked and compared.                       *)
FeedLocksListing(l) ==
  /\ feed.at = {} /\ l \in feed.todo
  /\ feed' = [feed EXCEPT !.todo = @ \ {l},
                          !.at = IF Changes(l) THEN {l} ELSE {},
                          !.done = IF Changes(l) THEN @ ELSE @ \cup {l}]
  /\ UNCHANGED <<providerVars, storeVars, work, faults>>

(* queueListingSignalJob waits for a worker that has locked the job row.   *)
FeedQueuesJob(l) ==
  /\ l \in feed.at /\ work[l].pc # "complete"
  /\ feed' = [feed EXCEPT !.at = {}, !.done = @ \cup {l}]
  /\ UNCHANGED <<providerVars, storeVars, work, faults>>

FeedCommits ==
  /\ feed.todo = {} /\ feed.at = {} /\ feed.done # {}
  /\ fact' = [l \in Listings |-> IF l \in feed.done THEN feed.incoming[l] ELSE fact[l]]
  /\ gen' = [l \in Listings |-> IF l \in FeedJobs THEN gen[l] + 1 ELSE gen[l]]
  /\ job' = [l \in Listings |-> IF l \in FeedJobs THEN "pending" ELSE job[l]]
  /\ initialized' = TRUE
  /\ feed' = NoFeed
  /\ UNCHANGED <<providerVars, snaps, work, faults>>

(* A statement fails: everything rolls back, and the next poll retries.    *)
FeedFails ==
  /\ feed # NoFeed /\ Fault
  /\ feed' = NoFeed
  /\ UNCHANGED <<providerVars, storeVars, work>>

-----------------------------------------------------------------------------
(* The workers.  A batch is claimed when the one before is finished.       *)

(* Mutant: only pending jobs are claimed, abandoned ones are not.          *)
MutantPendingOnly == {l \in Listings : job[l] = "pending"} \ FeedJobs

(* Pending jobs, and claims a dead process or a failed retry has left;     *)
(* SKIP LOCKED passes over those the feed holds.                           *)
Claimable == {l \in Listings : job[l] \in {"pending", "processing"}} \ FeedJobs

Claim(batch) ==
  /\ \A l \in Listings : work[l] = Idle
  /\ batch # {} /\ batch \subseteq Claimable /\ Cardinality(batch) <= Workers
  /\ job' = [l \in Listings |-> IF l \in batch THEN "processing" ELSE job[l]]
  /\ work' = [l \in Listings |->
                IF l \in batch
                THEN [pc |-> "collect", gen |-> gen[l], seen |-> fact[l], got |-> None]
                ELSE work[l]]
  /\ UNCHANGED <<providerVars, fact, gen, snaps, initialized, feed, faults>>

(* process: details that were never fetched are fetched now, unless the    *)
(* advert is gone; then what is stored is all there is.                    *)
Collect(l) ==
  /\ work[l].pc = "collect"
  /\ \E f \in {work[l].seen} \cup (IF work[l].seen = Brief THEN {page[l]} ELSE {}) :
       work' = [work EXCEPT ![l].pc = "lock", ![l].got = f]
  /\ UNCHANGED <<providerVars, storeVars, feed, faults>>

JobRowFree(l) == l \notin FeedJobs

(* Mutant: a result is taken whatever the generation.                      *)
MutantAnyGeneration(l) == TRUE

Current(l) == work[l].gen = gen[l]

(* CompleteListingSignalJob locks the job row; an outdated result ends as  *)
(* superseded.                                                             *)
CompleteLocksJob(l) ==
  /\ work[l].pc = "lock" /\ JobRowFree(l)
  /\ work' = [work EXCEPT ![l] = IF Current(l) THEN [@ EXCEPT !.pc = "complete"] ELSE Idle]
  /\ UNCHANGED <<providerVars, storeVars, feed, faults>>

(* The listing row, the snapshot and the job.  Evidence collected before   *)
(* keeps its old snapshot.                                                 *)
StoreResult(l) ==
  /\ fact' = [fact EXCEPT ![l] = work[l].got]
  /\ snaps' = [snaps EXCEPT ![l] = IF work[l].got \in ToSet(@) THEN @
                                   ELSE Append(@, work[l].got)]
  /\ job' = [job EXCEPT ![l] = "completed"]

CompleteCommits(l) ==
  /\ work[l].pc = "complete" /\ l \notin FeedRows
  /\ StoreResult(l)
  /\ work' = [work EXCEPT ![l] = Idle]
  /\ UNCHANGED <<providerVars, gen, initialized, feed, faults>>

(* The commit succeeds and its answer is lost: the worker will retry.      *)
AnswerLost(l) ==
  /\ work[l].pc = "complete" /\ l \notin FeedRows /\ Fault
  /\ StoreResult(l)
  /\ work' = [work EXCEPT ![l].pc = "retry"]
  /\ UNCHANGED <<providerVars, gen, initialized, feed>>

(* Enrichment, photos or a statement of the completion fails.              *)
WorkFails(l) ==
  /\ work[l].pc \in {"collect", "lock", "complete"} /\ Fault
  /\ work' = [work EXCEPT ![l].pc = "retry"]
  /\ UNCHANGED <<providerVars, storeVars, feed>>

(* RetryListingSignalJob, which leaves a newer generation alone too.       *)
Retry(l) ==
  /\ work[l].pc = "retry" /\ JobRowFree(l)
  /\ job' = [job EXCEPT ![l] = IF Current(l) THEN "pending" ELSE @]
  /\ work' = [work EXCEPT ![l] = Idle]
  /\ UNCHANGED <<providerVars, fact, gen, snaps, initialized, feed, faults>>

(* The claim stays until it is stale.                                      *)
RetryFails(l) ==
  /\ work[l].pc = "retry" /\ Fault
  /\ work' = [work EXCEPT ![l] = Idle]
  /\ UNCHANGED <<providerVars, storeVars, feed>>

-----------------------------------------------------------------------------
(* The feed waits for the job row of l, its worker for the listing row.    *)
Deadlocked(l) == l \in feed.at /\ work[l].pc = "complete"

(* PostgreSQL aborts one of the two; the feed gets the row it waits for.   *)
BreakDeadlock(l) ==
  /\ Deadlocked(l)
  /\ \/ feed' = NoFeed /\ UNCHANGED work
     \/ /\ work' = [work EXCEPT ![l].pc = "retry"]
        /\ feed' = [feed EXCEPT !.at = {}, !.done = @ \cup {l}]
  /\ UNCHANGED <<providerVars, storeVars, faults>>

(* The process dies and its transactions roll back.                        *)
Crash ==
  /\ Fault
  /\ feed' = NoFeed /\ work' = [l \in Listings |-> Idle]
  /\ UNCHANGED <<providerVars, storeVars>>

FeedStep ==
  \/ FeedCommits
  \/ \E l \in Listings : FeedLocksListing(l) \/ FeedQueuesJob(l)
WorkerStep(l) == Collect(l) \/ CompleteLocksJob(l) \/ CompleteCommits(l) \/ Retry(l)
FaultStep ==
  \/ FeedFails \/ Crash
  \/ \E l \in Listings : AnswerLost(l) \/ WorkFails(l) \/ RetryFails(l)

Next ==
  \/ FeedStep \/ FaultStep
  \/ \E l \in Listings : Edit(l) \/ WorkerStep(l) \/ BreakDeadlock(l)
  \/ \E batch \in SUBSET Listings : FeedBegins(batch) \/ Claim(batch)

Spec == Init /\ [][Next]_vars

(* Row locks are granted in turn, so a waiting statement proceeds once its *)
(* row keeps coming free, and claims go by next_attempt_at.  The provider  *)
(* owes nothing, and no poll has to come.                                  *)
Claims(l) == \E batch \in SUBSET Listings : l \in batch /\ Claim(batch)

FairSpec ==
  /\ Spec
  /\ WF_vars(FeedStep)
  /\ \A l \in Listings : /\ SF_vars(WorkerStep(l)) /\ SF_vars(Claims(l))
                         /\ WF_vars(BreakDeadlock(l))

-----------------------------------------------------------------------------
(* Properties.                                                             *)

TypeOK ==
  /\ page \in [Listings -> Pages] /\ changes \in 0..MaxChanges
  /\ initialized \in BOOLEAN
  /\ feed \in [todo : SUBSET Listings, at : SUBSET Listings, done : SUBSET Listings,
               incoming : [Listings -> Facts]]
  /\ fact \in [Listings -> Facts \cup {None}]
  /\ gen \in [Listings -> Nat]
  /\ job \in [Listings -> {"none", "pending", "processing", "completed"}]
  /\ snaps \in [Listings -> Seq(Facts)]
  /\ work \in [Listings -> [pc : {"idle", "collect", "lock", "complete", "retry"},
                            gen : Nat, seen : Facts \cup {None}, got : Facts \cup {None}]]
  /\ faults \in 0..MaxFaults

(* A job that says completed is right: the evidence in the listing row now *)
(* has a snapshot.                                                         *)
CompletedIsCurrent ==
  \A l \in Listings : job[l] = "completed" => fact[l] \in ToSet(snaps[l])

(* A worker never overwrites evidence the feed has stored since the claim: *)
(* at the moment a result is stored, the listing is as it was loaded.      *)
ResultsAreFresh ==
  [][\A l \in Listings :
       job'[l] = "completed" /\ job[l] # "completed" => fact[l] = work[l].seen]_vars

(* Lock order and generations leave exactly these possibilities.           *)
IInv ==
  /\ TypeOK
  /\ CompletedIsCurrent
  /\ feed.at \subseteq {l \in Listings : Changes(l)}
  /\ \A l \in Listings :
       /\ fact[l] = None <=> gen[l] = 0
       /\ gen[l] = 0 <=> job[l] = "none"
       /\ work[l].gen <= gen[l]
       /\ work[l] # Idle => work[l].gen > 0 /\ work[l].seen # None
       /\ work[l].pc \in {"collect", "lock", "complete"} /\ Current(l)
            => work[l].seen = fact[l] /\ job[l] = "processing"
       /\ work[l].pc \in {"lock", "complete"} => work[l].got # None
       /\ work[l].pc = "complete" => Current(l) /\ l \notin FeedJobs

(* Stored evidence does not stay uncollected, whatever claims are left     *)
(* behind, whichever side loses a deadlock and however the feed goes on.   *)
EvidenceCollected == \A l \in Listings : job[l] = "pending" ~> job[l] = "completed"

(* If the feed goes on handling a listing, its stored evidence follows the *)
(* provider and comes to rest.                                             *)
EvidenceCatchesUp ==
  \A l \in Listings :
    []<>(l \in feed.done /\ feed.incoming[l] # Brief)
      => <>[](fact[l] = page[l] /\ job[l] = "completed")
=============================================================================
