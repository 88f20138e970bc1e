---------------------------- MODULE Availability ----------------------------
(***************************************************************************)
(* Whether an advert is still available: written by the feed (Process-     *)
(* Discovered and RecordFeedSightings in store/postgres/listings.go), by   *)
(* the provider checks of AvailabilityTracker (app/availability_tracker.go,*)
(* store/postgres/availability.go) and by a signal worker that finds an    *)
(* advert gone (store/postgres/listing_signals.go).  A duplicate-aware     *)
(* event waits for the checks it asks for.                                 *)
(*                                                                         *)
(* Times are ages and delays in ticks: Tick makes every stamp older and    *)
(* every attempt nearer.  Nothing looks at ages beyond the caps.           *)
(***************************************************************************)
EXTENDS Naturals, FiniteSets

CONSTANTS Listings,
          Stale,         \* AVAILABILITY interval: staleness and base delay
          Weekly,        \* least time between checks that confirm an advert
          MaxDelay,      \* cap of the delay after inconclusive checks
          Workers,       \* workers of the tracker
          MaxFlips,      \* bound on adverts removed or published again
          MaxFaults      \* bound on crashes and failed calls

ASSUME DelayAssumption ==
  /\ Stale \in Nat \ {0} /\ Weekly \in Nat \ {0} /\ MaxDelay \in Nat \ {0}
ASSUME AvailabilityBounds ==
  Workers \in Nat \ {0} /\ MaxFlips \in Nat /\ MaxFaults \in Nat

VARIABLES
  published,  \* published[l]: whether the provider shows the advert
  flips,      \* changes of published so far
  row,        \* row[l]: status, and the ages of last_seen_at and changed_at
  log,        \* log[l]: what the observation rows of l come to
  job,        \* job[l]: status, time until it is due, priority, and the delay
              \*   that an inconclusive check would earn by its attempts
  open,       \* open[l]: attempts of l recorded as processing
  confirmed,  \* confirmed[l]: age of the last check, if it found l active
  early,      \* history: checks of l that were begun, unrequested, sooner
              \*   than Weekly after the one that confirmed it
  check,      \* check[l]: the worker on l, the answer it has, and whether
              \*   its attempt is still recorded as processing
  feed,       \* the poll under way
  signals,    \* adverts a signal worker has found gone
  waiting,    \* offers an event waits for, unchecked since it occurred
  faults      \* faults so far

providerVars == <<published, flips>>
listingVars == <<row, log>>
checkVars == <<job, open, confirmed, early, check>>
vars == <<providerVars, listingVars, checkVars, feed, signals, waiting, faults>>

Statuses == {"active", "inactive", "unknown"}
NoPoll == [pc |-> "idle", batch |-> {}, found |-> {}, age |-> 0]
Idle == [pc |-> "idle", got |-> "unknown", attempt |-> "closed"]

Least(a, b) == IF a < b THEN a ELSE b
Most(a, b) == IF a < b THEN b ELSE a

Fault == faults < MaxFaults /\ faults' = faults + 1

FirstDelay == Least(Stale, MaxDelay)

Doubled(delay) == Least(2 * delay, MaxDelay)

(* A listing is inserted as active, or comes from before the tracking as   *)
(* unknown; its job is due.                                                *)
Init ==
  /\ published \in [Listings -> BOOLEAN] /\ flips = 0
  /\ \E s \in [Listings -> {"active", "unknown"}] :
       /\ row = [l \in Listings |-> [status |-> s[l], seen |-> 0, changed |-> 0]]
       /\ log = [l \in Listings |-> [ends |-> s[l], sound |-> TRUE, latest |-> 0]]
  /\ job = [l \in Listings |-> [status |-> "pending", due |-> 0,
                                priority |-> FALSE, delay |-> FirstDelay]]
  /\ open = [l \in Listings |-> 0]
  /\ confirmed = [l \in Listings |-> Weekly] /\ early = [l \in Listings |-> 0]
  /\ check = [l \in Listings |-> Idle]
  /\ feed = NoPoll
  /\ signals = {} /\ waiting = {}
  /\ faults = 0

Flip(l) ==
  /\ flips < MaxFlips /\ flips' = flips + 1
  /\ published' = [published EXCEPT ![l] = ~@]
  /\ UNCHANGED <<listingVars, checkVars, feed, signals, waiting, faults>>

Tick ==
  /\ row' = [l \in Listings |-> [row[l] EXCEPT !.seen = Least(@ + 1, Stale),
                                               !.changed = Least(@ + 1, Stale)]]
  /\ log' = [l \in Listings |-> [log[l] EXCEPT !.latest = Least(@ + 1, Stale)]]
  /\ job' = [l \in Listings |-> [job[l] EXCEPT !.due = IF @ = 0 THEN 0 ELSE @ - 1]]
  /\ confirmed' = [l \in Listings |-> Least(confirmed[l] + 1, Weekly)]
  /\ feed' = [feed EXCEPT !.age = IF feed.pc \in {"discover", "sight"}
                                  THEN Least(@ + 1, Stale) ELSE 0]
  /\ UNCHANGED <<providerVars, open, early, check, signals, waiting, faults>>

-----------------------------------------------------------------------------
(* The listing row and its observation rows.                               *)

(* r after an observation of status s whose stamp has the given age.       *)
Updated(r, s, age) ==
  [status |-> s,
   seen |-> IF s = "active" THEN age ELSE r.seen,
   changed |-> IF r.status # s THEN age ELSE r.changed]

(* g with a row for the observation: what it says of the status before has *)
(* to be what the rows so far end in.                                      *)
Logged(g, r, s, age) ==
  [ends |-> s,
   sound |-> g.sound /\ g.ends = r.status,
   latest |-> IF r.status # s THEN Least(age, g.latest) ELSE g.latest]

(* A provider check is observed, by the tracker or by a signal worker.     *)
ObserveCheck(l, s) ==
  /\ row' = [row EXCEPT ![l] = Updated(@, s, 0)]
  /\ log' = [log EXCEPT ![l] = Logged(@, row[l], s, 0)]
  /\ waiting' = waiting \ {l}

-----------------------------------------------------------------------------
(* The poll: the listings that are new or changed in one transaction, then *)
(* all sightings in another.  Each takes its time when it begins, before   *)
(* it waits for rows; both hold a row from reading it until they commit.   *)

FeedFetches(batch) ==
  /\ feed.pc = "idle" /\ batch # {} /\ batch \subseteq {l \in Listings : published[l]}
  /\ feed' = [NoPoll EXCEPT !.pc = "fetched", !.batch = batch]
  /\ UNCHANGED <<providerVars, listingVars, checkVars, signals, waiting, faults>>

DiscoverBegins ==
  /\ feed.pc = "fetched"
  /\ \E found \in SUBSET feed.batch :
       feed' = [feed EXCEPT !.pc = "discover", !.found = found, !.age = 0]
  /\ UNCHANGED <<providerVars, listingVars, checkVars, signals, waiting, faults>>

(* recordFeedAvailability logs every listing, changed status or not.       *)
DiscoverCommits ==
  /\ feed.pc = "discover"
  /\ feed' = [feed EXCEPT !.pc = "found", !.found = {}, !.age = 0]
  /\ row' = [l \in Listings |->
               IF l \in feed.found THEN Updated(row[l], "active", feed.age) ELSE row[l]]
  /\ log' = [l \in Listings |->
               IF l \in feed.found THEN Logged(log[l], row[l], "active", feed.age)
               ELSE log[l]]
  /\ UNCHANGED <<providerVars, checkVars, signals, waiting, faults>>

SightingBegins ==
  /\ feed.pc = "found"
  /\ feed' = [feed EXCEPT !.pc = "sight", !.age = 0]
  /\ UNCHANGED <<providerVars, listingVars, checkVars, signals, waiting, faults>>

(* Mutant: only an inactive listing counts as a transition.                *)
MutantInactiveOnly(l) == row[l].status = "inactive"

Transitions(l) == row[l].status # "active"

SightingCommits ==
  /\ feed.pc = "sight"
  /\ feed' = NoPoll
  /\ row' = [l \in Listings |->
               IF l \in feed.batch THEN Updated(row[l], "active", feed.age) ELSE row[l]]
  /\ log' = [l \in Listings |->
               IF l \in feed.batch /\ Transitions(l)
               THEN Logged(log[l], row[l], "active", feed.age) ELSE log[l]]
  /\ UNCHANGED <<providerVars, checkVars, signals, waiting, faults>>

FeedFails ==
  /\ feed # NoPoll /\ Fault
  /\ feed' = NoPoll
  /\ UNCHANGED <<providerVars, listingVars, checkVars, signals, waiting>>

-----------------------------------------------------------------------------
(* A signal worker whose enrichment finds the advert gone.                 *)

SignalFindsGone(l) ==
  /\ ~published[l] /\ l \notin signals
  /\ signals' = signals \cup {l}
  /\ UNCHANGED <<providerVars, listingVars, checkVars, feed, waiting, faults>>

SignalCommits(l) ==
  /\ l \in signals
  /\ signals' = signals \ {l}
  /\ ObserveCheck(l, "inactive")
  /\ UNCHANGED <<providerVars, checkVars, feed, faults>>

(* The result is outdated, or the completion fails.                        *)
SignalDropped(l) ==
  /\ l \in signals
  /\ signals' = signals \ {l}
  /\ UNCHANGED <<providerVars, listingVars, checkVars, feed, waiting, faults>>

-----------------------------------------------------------------------------
(* The tracker.  It claims when its workers are done, so a job that is     *)
(* still processing has been abandoned; it is released once it is stale.   *)

(* Mutant: nobody takes abandoned jobs over.                               *)
MutantForgotten == {}

Abandoned == {l \in Listings : job[l].status = "processing"}

NeedsCheck(l) ==
  job[l].priority \/ row[l].status = "unknown" \/ row[l].seen = Stale

Claimable(stale) ==
  {l \in Listings : /\ job[l].status = "pending" \/ l \in stale
                    /\ job[l].due = 0
                    /\ row[l].status # "inactive"
                    /\ NeedsCheck(l)}

(* Mutant: the attempt of a stale claim is left open.                      *)
MutantNoExpire(l, stale) == open[l]

Expired(l, stale) == IF l \in stale THEN 0 ELSE open[l]

Begun == [Idle EXCEPT !.pc = "ask", !.attempt = "open"]

(* Requested checks go first.                                              *)
Claim(stale, batch) ==
  /\ \A l \in Listings : check[l] = Idle
  /\ stale \subseteq Abandoned /\ batch \subseteq Claimable(stale)
  /\ stale \cup batch # {} /\ Cardinality(batch) <= Workers
  /\ (\E l \in Claimable(stale) \ batch : job[l].priority)
       => Cardinality(batch) = Workers /\ \A l \in batch : job[l].priority
  /\ job' = [l \in Listings |->
               [job[l] EXCEPT !.status = IF l \in batch THEN "processing"
                                         ELSE IF l \in stale THEN "pending" ELSE @]]
  /\ open' = [l \in Listings |-> Expired(l, stale) + (IF l \in batch THEN 1 ELSE 0)]
  /\ check' = [l \in Listings |-> IF l \in batch THEN Begun ELSE check[l]]
  /\ early' = [l \in Listings |-> IF l \in batch /\ ~job[l].priority /\ confirmed[l] < Weekly
                                  THEN early[l] + 1 ELSE early[l]]
  /\ UNCHANGED <<providerVars, listingVars, confirmed, feed, signals, waiting, faults>>

(* CheckAvailability: evidence for what is, or none.                       *)
Ask(l) ==
  /\ check[l].pc = "ask"
  /\ \E s \in {IF published[l] THEN "active" ELSE "inactive", "unknown"} :
       check' = [check EXCEPT ![l] = [pc |-> "save", got |-> s, attempt |-> @.attempt]]
  /\ UNCHANGED <<providerVars, listingVars, job, open, confirmed, early, feed, signals, waiting, faults>>

(* Mutant: a confirmed advert is due when it becomes stale.                *)
MutantStaleDelay == Stale

ActiveDelay == Most(Stale, Weekly)

(* A worker closes no attempt but its own, and that only once.             *)
Closed(l) == open[l] - (IF check[l].attempt = "open" THEN 1 ELSE 0)

(* CompleteAvailabilityJob: the listing, the job and the attempt.          *)
Store(l, s) ==
  /\ ObserveCheck(l, s)
  /\ job' = [job EXCEPT ![l] =
       [status |-> "pending", priority |-> FALSE,
        due |-> IF s = "unknown" THEN @.delay ELSE ActiveDelay,
        delay |-> IF s = "unknown" THEN Doubled(@.delay) ELSE FirstDelay]]
  /\ open' = [open EXCEPT ![l] = Closed(l)]
  /\ confirmed' = [confirmed EXCEPT ![l] = IF s = "active" THEN 0 ELSE Weekly]
  /\ UNCHANGED <<providerVars, early, feed, signals>>

Complete(l) ==
  /\ check[l].pc = "save"
  /\ Store(l, check[l].got)
  /\ check' = [check EXCEPT ![l] = Idle]
  /\ UNCHANGED faults

(* The commit succeeds and its answer is lost, so that the check counts as *)
(* failed and will be retried.                                             *)
AnswerLost(l) ==
  /\ check[l].pc = "save" /\ Fault
  /\ Store(l, check[l].got)
  /\ check' = [check EXCEPT ![l] = [Idle EXCEPT !.pc = "retry"]]

CheckFails(l) ==
  /\ check[l].pc \in {"ask", "save"} /\ Fault
  /\ check' = [check EXCEPT ![l] = [pc |-> "retry", got |-> "unknown", attempt |-> @.attempt]]
  /\ UNCHANGED <<providerVars, listingVars, job, open, confirmed, early, feed, signals, waiting>>

(* RetryAvailabilityJob: its delay of at most an hour is below a tick.     *)
Retry(l) ==
  /\ check[l].pc = "retry"
  /\ job' = [job EXCEPT ![l] = [status |-> "pending", priority |-> @.priority,
                                due |-> 0, delay |-> Doubled(@.delay)]]
  /\ open' = [open EXCEPT ![l] = Closed(l)]
  /\ check' = [check EXCEPT ![l] = Idle]
  /\ UNCHANGED <<providerVars, listingVars, confirmed, early, feed, signals, waiting, faults>>

RetryFails(l) ==
  /\ check[l].pc = "retry" /\ Fault
  /\ check' = [check EXCEPT ![l] = Idle]
  /\ UNCHANGED <<providerVars, listingVars, job, open, confirmed, early, feed, signals, waiting>>

Crash ==
  /\ Fault
  /\ feed' = NoPoll /\ signals' = {}
  /\ check' = [l \in Listings |-> Idle]
  /\ UNCHANGED <<providerVars, listingVars, job, open, confirmed, early, waiting>>

-----------------------------------------------------------------------------
(* Requests.                                                               *)

Requested(S) ==
  job' = [l \in Listings |->
            IF l \in S /\ job[l].status = "pending"
            THEN [job[l] EXCEPT !.due = 0, !.priority = TRUE] ELSE job[l]]

(* The resolver has put these listings into one property.                  *)
Prioritize(S) ==
  /\ Requested({l \in S : row[l].status # "inactive"})
  /\ UNCHANGED <<providerVars, listingVars, open, confirmed, early, check, feed, signals, waiting,
                 faults>>

(* A discovery whose property has these other offers.                      *)
EventOccurs(S) ==
  /\ waiting = {} /\ S # {}
  /\ waiting' = S
  /\ UNCHANGED <<providerVars, listingVars, checkVars, feed, signals, faults>>

(* Mutant: an offer that is gone needs evidence, too.                       *)
MutantAllOffers == waiting

Missing == {l \in waiting : row[l].status # "inactive"}

(* Each delivery of the event: it waits, or every other offer is known.    *)
MatchTries ==
  /\ waiting # {}
  /\ IF Missing = {} THEN waiting' = {} /\ UNCHANGED job
     ELSE Requested(Missing) /\ UNCHANGED waiting
  /\ UNCHANGED <<providerVars, listingVars, open, confirmed, early, check, feed, signals, faults>>

FeedStep == DiscoverBegins \/ DiscoverCommits \/ SightingBegins \/ SightingCommits
CheckStep(l) == Ask(l) \/ Complete(l) \/ Retry(l)
FaultStep ==
  \/ FeedFails \/ Crash
  \/ \E l \in Listings : AnswerLost(l) \/ CheckFails(l) \/ RetryFails(l)

Next ==
  \/ Tick \/ FeedStep \/ MatchTries \/ FaultStep
  \/ \E l \in Listings : \/ Flip(l) \/ CheckStep(l)
                         \/ SignalFindsGone(l) \/ SignalCommits(l) \/ SignalDropped(l)
  \/ \E S \in SUBSET Listings : FeedFetches(S) \/ Prioritize(S) \/ EventOccurs(S)
  \/ \E stale, batch \in SUBSET Listings : Claim(stale, batch)

Spec == Init /\ [][Next]_vars

(* Time passes, a poll that has begun goes on, the tracker looks for work  *)
(* every second and its order leaves no due job out for ever, and an       *)
(* event that waits is delivered again.                                    *)
Claims(l) == \E stale, batch \in SUBSET Listings : l \in stale \cup batch /\ Claim(stale, batch)

FairSpec ==
  /\ Spec
  /\ WF_vars(Tick) /\ WF_vars(FeedStep) /\ WF_vars(MatchTries)
  /\ \A l \in Listings : /\ WF_vars(CheckStep(l)) /\ SF_vars(Claims(l))
                         /\ WF_vars(SignalCommits(l) \/ SignalDropped(l))

-----------------------------------------------------------------------------
(* Properties.                                                             *)

TypeOK ==
  /\ published \in [Listings -> BOOLEAN] /\ flips \in 0..MaxFlips
  /\ row \in [Listings -> [status : Statuses, seen : 0..Stale, changed : 0..Stale]]
  /\ log \in [Listings -> [ends : Statuses, sound : BOOLEAN, latest : 0..Stale]]
  /\ job \in [Listings -> [status : {"pending", "processing"},
                           due : 0..Most(ActiveDelay, MaxDelay),
                           priority : BOOLEAN, delay : 0..MaxDelay]]
  /\ open \in [Listings -> Nat]
  /\ confirmed \in [Listings -> 0..Weekly] /\ early \in [Listings -> Nat]
  /\ check \in [Listings -> [pc : {"idle", "ask", "save", "retry"}, got : Statuses,
                             attempt : {"open", "closed"}]]
  /\ feed \in [pc : {"idle", "fetched", "discover", "found", "sight"},
               batch : SUBSET Listings, found : SUBSET Listings, age : 0..Stale]
  /\ signals \subseteq Listings /\ waiting \subseteq Listings
  /\ faults \in 0..MaxFaults

(* The append-only history explains the current status: every row says     *)
(* what the one before it left, and the last one what the listing says.    *)
LogExplainsStatus == \A l \in Listings : log[l].sound /\ log[l].ends = row[l].status

(* The attempts tell who is at work: a job is claimed exactly while one of *)
(* its attempts is open, whatever was abandoned and repeated before.       *)
OneOpenAttempt ==
  \A l \in Listings : open[l] = IF job[l].status = "processing" THEN 1 ELSE 0

(* README: a check that confirms an advert "is not repeated sooner than    *)
(* seven days unless a duplicate decision explicitly needs fresh evidence".*)
(* A failure can void that, as a retry waits for an hour at most, also of  *)
(* a check whose answer was lost after its commit; but each such repetition*)
(* has a failure of its own.                                               *)
EarlyChecksNeedFaults == \A l \in Listings : early[l] <= faults

(* What job j owes a listing confirmed at age c, with its worker at k: a   *)
(* check may begin, unrequested, before the listing's week is over.        *)
Owes(j, c, k) ==
  /\ ~j.priority /\ c < Weekly
  /\ \/ k.pc = "retry"
     \/ k.pc = "idle" /\ (j.status = "processing" \/ j.due + c < Weekly)

IInv ==
  /\ TypeOK
  /\ LogExplainsStatus
  /\ OneOpenAttempt
  /\ EarlyChecksNeedFaults
  /\ \A l \in Listings :
       /\ Owes(job[l], confirmed[l], check[l]) => early[l] < faults
       /\ check[l].pc \in {"ask", "save"} => check[l].attempt = "open"
       /\ check[l].attempt = "open" => job[l].status = "processing"
       /\ check[l].pc = "retry" => check[l].attempt = "open" \/ job[l].status = "pending"

(* An event that waits for provider evidence gets it.                      *)
EvidenceArrives == waiting # {} ~> waiting = {}

(* A removed advert does not stay on offer.                                *)
RemovedIsNoticed ==
  \A l \in Listings : <>[](~published[l]) => <>[](row[l].status # "active")

(* What the README says of availability_changed_at: it is the time of the  *)
(* latest transition.                                                      *)
ChangedIsLatest == \A l \in Listings : row[l].changed <= log[l].latest
=============================================================================
