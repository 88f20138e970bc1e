# Latvia Home Radar: a TLA+ verification project

Latvia Home Radar polls property portals, stores each advert, recognises adverts
of one property, and sends Telegram alerts to the users whose saved filters
match. This directory models its logic in TLA+, checks the models with TLC on
small instances and proves the central results with TLAPS for every instance.

Paths below are relative to `src/internal` unless they start with `src/`.

## The system

Everything runs in one process (`src/cmd/bot/main.go`): eight goroutines share a
PostgreSQL pool and one RabbitMQ connection. The first goroutine to return an
error takes the process down, and Docker's `restart: unless-stopped` starts it
again. State lives in PostgreSQL and in durable queues; the exceptions are the
wizard sessions of the bot and the batches the workers hold.

| Component | State | Operations | Interacts with |
|---|---|---|---|
| Monitor, listing store (`app/monitor.go`, `store/postgres/listings.go`) | listings, price history, source state | FetchRecent, EnrichmentKeys, ProcessDiscovered, RecordFeedSightings | asks the providers (`provider/sslv`, `provider/city24`); inserts outbox rows, signal jobs, availability observations in its transaction |
| Outbox relay (`app/outbox.go`, `store/postgres/outbox.go`) | outbox rows, leased in batches | PendingOutbox, Publish, MarkOutboxPublished, RetryOutbox | publishes to RabbitMQ |
| RabbitMQ adapter (`broker/rabbitmq`) | matcher queue, retry queue with TTL, dead-letter queue | Publish, Consume, publishRetry | calls the matcher's handler |
| Listing matcher (`app/listing_matcher.go`, `store/postgres/listing_matcher.go`) | consumed events, notifications | match transaction | reads filters; inserts notifications |
| Duplicate-aware matching (`store/postgres/duplicate_aware_matcher.go`) | the same, plus memberships and availability | match transaction, or "dependency pending" | waits for resolver and tracker, asks the tracker for checks |
| Saved alerts (`store/postgres/users_alerts.go`) | filters and their `activated_at` | create, pause, resume, delete | pausing and deleting remove notifications |
| Notifier (`app/notifier.go`, `store/postgres/notifications.go`) | notification status, photo file ids | Pending, send, MarkSent, Retry, Fail, DisableFiltersForChat | Telegram; disables filters of a blocked chat |
| Signal collector (`app/listing_signal_collector.go`, `store/postgres/listing_signals.go`) | signal jobs with generations, snapshots | claim, complete, retry | queues resolution jobs |
| Duplicate resolver (`app/duplicate_resolver.go`, `store/postgres/duplicate_resolver.go`) | resolution jobs, decisions, properties, memberships | claim, candidates, complete, retry, override, reassign | prioritises availability checks |
| Availability tracker (`app/availability_tracker.go`, `store/postgres/availability.go`) | availability status, observations, jobs | claim, complete, retry | provider checks |
| Telegram bot (`telegram/bot.go`, `telegram/wizard.go`) | wizard sessions in memory | commands, callbacks, broadcast | saved alerts |
| Pure rules (`domain`, `identity`) | none | Matches, ClassifyPropertyDiscovery, EvaluateDuplicate, normalisation | used by the matchers and the resolver |

What is hard here, and what makes each part correct:

- *Event delivery* crosses two stores without a common transaction. Every hop
  can fail after it took effect; nothing may be lost, and what is duplicated
  must not do its work twice.
- *Alerts* are matched while users pause, restart and delete filters, at READ
  COMMITTED, and delivered to a service whose answer may be lost. A user should
  get one alert per event, and none for an event the filter had not yet seen.
- *Property identity* is decided by concurrent workers that read candidates
  before they take the commit lock. Accepted decisions have to hold, merged
  properties have to be empty, and no pair of matching adverts may slip through.
- *Discovery, availability and signals* write one listing from three sides.
  Time stamps must not run backwards, and an outdated result must not overwrite
  a newer one. The outbox has to tell the price history and nothing else,
  whatever part of a poll fails.
- *Duplicate-aware matching* joins all of these; an event must wait for its
  evidence, without waiting for ever, and classify a property once per user,
  though properties merge while it reads them.
- *The wizard* handles callbacks concurrently on one session, and its buttons
  outlive the step they belong to.

`PROJECT.json` lists under `hazards` each such place with its line and the
properties that cover it.

## Modules

| Module | Models | Runs |
|---|---|---|
| `EventEffects` | the promise: a committed event is matched once, or rejected if it cannot be decoded | as a property of `EventDelivery` |
| `EventDelivery` | outbox relay, RabbitMQ adapter, matcher handler, crash and restart | `event_delivery` |
| `AlertLife` | the promise: what an alert goes through, from its match to sent, failed or withdrawn | as a property of `AlertDelivery` |
| `AlertDelivery` | saved alerts, per-advert match transaction, notifier | `alert_delivery`, `no_replay` |
| `DuplicateRule` | the candidate query and the rule that decides on a pair of adverts, as functions | within those of `PropertyIdentity` |
| `PropertyGroups` | the promise: adverts join as groups, and what was merged away stays empty | as a property of `PropertyIdentity` and `DuplicateAwareMatching` |
| `PropertyIdentity` | duplicate resolver and operator corrections, over `DuplicateRule` | `property_identity`, `compatible_are_weighed` |
| `SignalJobs` | evidence of a listing: feed transaction and collector | `signal_jobs` |
| `Availability` | tracker, feed sightings, signal workers and requests on the status of a listing | `availability`, `changed_is_latest` |
| `DuplicateAwareMatching` | the match of a discovery whose property has other adverts | `duplicate_aware`, `relistings_are_told` |
| `Discovery` | the monitor, what it asks of the providers and the transactions of a poll | `discovery` |
| `Wizard` | the alert wizard of the bot | `wizard` |

`EventDelivery_proofs`, `AlertDelivery_proofs`, `PropertyIdentity_proofs` (and so
on, eight in all) hold the theorems about a module.

How they fit together: `Discovery` writes the outbox whose rows are the events of
`EventDelivery`; every delivery of an event runs one of the two match
transactions, `AlertDelivery` (adverts on their own, all the filters of a user)
or `DuplicateAwareMatching` (properties, one filter for each user); the evidence
the latter waits for is made by `SignalJobs` and `PropertyIdentity` and by
`Availability`, which it has reduced to their commits; and the notifications are
sent by the notifier of `AlertDelivery`. What one module takes for granted of
another is a property there: that an event comes again until it is consumed is
`EveryEventFinishes`, that it is consumed once is `MatchedOnce`, that evidence is
collected, resolved and checked is `EvidenceCollected`, `EverySnapshotResolved`
and `EvidenceArrives`.

`MC*.tla` give the constants their values. Definitions called `Mutant...` are
plausible mistakes in the definition that follows them. No behaviour of a
specification uses one: putting one in the place of the real definition shows
that the properties notice it. Unless a section says otherwise a run checks
safety and liveness together, under `FairSpec`. Type correctness is proved for
every module and is no property of a run, though some of it is more than types:
the doubled delay of `Availability` stays below its cap, the ids of
`DuplicateAwareMatching` are ones given out, and the areas of `Wizard` are keys
that exist.

### EventDelivery

The relay, the consumer and the broker are three actors. `relay` is the place of
`OutboxRelay.Run` in its loop with the leased batch; `consumer` is the place of
`Broker.Consume` with the delivery that is not acked yet; `ready`, `retry` and
`dead` count the copies of each event in the three queues. `outbox` and `due`
are the row and whether `next_attempt_at` has passed, `consumed` the inbox row,
and `effects` counts the matches that did their work. `settled` says whether a
duplicate-aware discovery finds its evidence complete; it changes at any time.

Each remote call is an action of its own, with its failures: not done, or done
with the answer lost. A failure in relay or broker takes the process down
(`Down`), and the broker requeues what was not acked. A failed match does not:
it goes through the retry queue. Not in the model: the retry counter (it is never
read), the order of a queue (requeueing and the retry TTL reorder it anyway), and
the prefetch of ten, whose deliveries the handler takes one at a time; held
deliveries count as ready.

- `NothingLost`: an event whose row is marked published is consumed,
  dead-lettered or has a copy somewhere.
- `MatchedOnce`: whatever is delivered twice is matched once.
- `OnlyMalformedDie`: no number of failures or pending dependencies
  dead-letters an event.
- `DuplicatesNeedFaults`: at most one copy without faults, at most two more
  for each fault: one from the row published but not marked, one from the
  delivery retried but not acked.
- `ImplementsEventEffects`: under the mapping `Fate`, every step is a step of
  `EventEffects` or a stutter.
- `EveryEventFinishes` under `FairSpec`.

*Fairness.* The goroutines loop without waiting on each other, clocks advance,
and the supervisor restarts the process: weak fairness. `Deliver(e)` has strong
fairness, which stands for the FIFO order of the queue. Nothing is assumed of
the arrival of events or evidence, and `EveryEventFinishes` speaks only of
discoveries whose evidence stays complete.

*Bounds.* Two events, of which one waits for evidence and one is malformed, in
batches of two with two faults: a batch is cut, shared and leased again, and a
fault can hit the recovery from the first. A discovery that does not wait is one
whose evidence is complete from the start. Queue counts need no bound:
`DuplicatesNeedFaults` is one.

### AlertDelivery

`status`, `activated` and `note` are the filter and notification rows. A handler
that creates or restarts a filter takes its `activated_at` before it begins its
transaction (`store/postgres/users_alerts.go:88`, `:173`) and commits at some later
moment: `Press` puts the time among `stamps`, `CreateFilter` or `Resume` commits
it. A poll takes the time of its events in the same way (`PollBegins`,
`PollCommits`; `store/postgres/listings.go:104`). The match
transaction is two steps, because it runs at READ COMMITTED: `MatchBegins` reads
the enabled filters and selects the lowest matching one per user,
`MatchCommits` inserts and commits, or `MatchAborts` when a selected filter was
deleted in between (foreign key).
The notifier's batch is read once and not again before each message;
`received` counts what reached the chat. `occurred`, `activated` and `clock` are
coarse time stamps, enough for before, at and after; the history variable `since`
has the time of the commit that `activated` has the stamp of. Whether a filter
matches a listing is the constant `Wanted`.

- `OneRowPerUser`: one notification per user and event however filters overlap
  and change, and only for consumed events.
- `NoBacklog`: no filter alerts to an event from before it was created.
- `InterestedUserHasRow`: if the activation of a matching filter was committed
  before the time of a consumed event (`InForce`) and the filter is enabled still,
  the user has a notification, or withdrew it by pausing or deleting the filter
  that carried it. Of `activated` in place of `since` this is false, as the code
  is: a filter stamped before the event and committed after its match has read the
  filters is enabled, older than the event by its `activated_at`, and has no row.
  The window is that between stamp and commit; no document speaks of it.
- `RepeatsNeedFaults`: an alert is repeated only after a fault.
- `ImplementsAlertLife`: under the mapping `AlertOf`, which takes the rows of a
  user for an event together, every step is a step of `AlertLife` or a stutter: an
  alert begins with the match of its event or never, is marked as sent only once
  its message has reached the chat, fails only out of pending, and does not come
  back when it was withdrawn, though a batch read before goes on with it.
- `AlertsSettle` (fair): a pending alert of an enabled filter is settled.

*Fairness.* Matcher and notifier loop; `PollsRow` has strong fairness because
the query takes due rows in the order of `next_attempt_at`, and the model leaves
the choice of the batch open.

A statement of the documentation does not hold, as a run that expects the
violation shows:

- `no_replay` (`MCNoReplay`, which adds the time of the last pause): README.md:102 says that after a restart "paused listings are not
  replayed". A match that has read its filters before the pause inserts its
  row after it; once the filter is enabled again, it is delivered.

`RepeatsNeedFaults` is the exact form of another: CHANGELOG.md:15 says that "each
user receives at most one alert per listing event", but delivery is at least
once, and a failing `MarkSent` (`app/notifier.go:93`) repeats the message.

*Bounds.* One user with two overlapping filters and one event, every answer of
Telegram and a fault; times from 0 to 2 give before, at and after, and one
handler at a time that has pressed and not committed (`MaxPresses`), beside the
poll, the match and the commits of the other filter. Events meet
only in the notifier's batch, and users only there and in the transaction;
`AlertDelivery_proofs` has the invariants for any number of both.

### PropertyIdentity

`job` is the resolution job of a snapshot, `working`, `read` and `found` what the
live workers hold, `accepted` and `rejected` the decision rows, `member` the
current membership of each advert, `merged` the properties merged away. Commits
and reassignments hold the advisory lock, so each is one step; candidate
reads are not under it. `MergeGroup` gives the result of the loop over the
decisions in closed form: all properties of the group end in the lowest id.
Which property a merged one points to is not read by any code and not modelled.
Whether the candidate query returns a pair (`Finds`) and the rule accepts it
(`Takes`) is computed by `DuplicateRule` from the evidence of the two snapshots:
property and deal type, address, area, seven facts with their tolerances, photos
with exact hashes and perceptual bits, and words. Not in the model: what a commit
does to availability jobs, attempts (audit only), and a membership's reason and
time.

- `AcceptedAreTogether`: the adverts of an accepted decision share a property,
  unless an operator overrode it or moved one of them.
- `ResolvedPairsAreDecided`: of two adverts with resolved newest evidence that
  each find the other, one of the two resolutions has weighed the pair, unless
  more adverts than the candidate limit rival one of them (`Crowded`): the cut
  list cannot contain them all, and no document promises that it does.
- `DecisionsFollowRule`: a decision is what the rule says of the pair, from
  whichever side and however often it was made. The word score divides by the
  words of both adverts, the tolerances take the larger value: the rule is
  symmetric, though it is computed from one side and stored for both.
- `DuplicatesAreMerged`: the promise from end to end. Two resolved adverts that
  find each other and that the rule takes for one property are in one, whatever
  the workers, failures and merges in between, unless an operator overrode the
  decision or moved one of them, or the limit was exceeded.
- `ImplementsPropertyGroups`: every step is a step of `PropertyGroups` or a
  stutter: a merge takes whole groups, only an operator takes an advert out of
  one, and no advert gets into a property that was merged away
  (`MergedAreEmpty`, which is proved and is no property of the run).
- `OverridesStick`: resolving evidence again never changes an overridden row.
- `EverySnapshotResolved` (fair).

The query is not symmetric as the rule is, which contradicts the documentation:

- `compatible_are_weighed`: README.md:163-169 promises that candidate generation
  excludes the *incompatible*, and calls areas compatible within "2 m² or 3%". The
  query takes 3% of the area of the advert it resolves, the rule 3% of the larger
  one. The larger flat is resolved first, the smaller one then does not find it,
  and the pair is never weighed. (If the land areas differ in the opposite
  direction, neither order finds the pair.)

*Fairness.* The resolver loops; `ClaimsJob` has strong fairness because claims
go in the order of `next_attempt_at`.

*Bounds.* Three adverts and four snapshots (the first advert is collected
twice), two workers, two faults or operator actions, and five properties: three
adverts get one each, and an operator makes two. The evidence of the instance is
a chain: the same photo links the first advert to the second at first and to the
third later, so that a merge joins existing groups; the second and third are
compatible in one direction only; the second and fourth snapshot have alike
photos and too little else, and the decision on them hangs on the word score. The
candidate limit holds all rivals of an advert; the theorems cover any limit.

### SignalJobs

The evidence of a listing (`fact`, everything `matchingSignalsChanged` compares)
is written by the feed transaction and by the workers of the collector. `feed`
is the transaction under way with its listings to do, in hand and done;
`FeedRows` and `FeedJobs` are the row locks it holds. `gen` and `job` are the
job row, `work` the workers, `snaps` the snapshots. A transaction's writes become
visible when it commits. The two sides lock the listing row and the job row in
opposite orders, so they can deadlock; PostgreSQL aborts one (`BreakDeadlock`).
Before the source is initialized the feed stores a listing without its details
(`Brief`), which the worker fetches. A batch is claimed when the one before is
finished, so a job that is `processing` at a claim was abandoned. Not in the
model: the attempt log, the photos, the observation that the advert is gone
(availability), and `RecordFeedSightings`, which locks listing rows only.

- `ResultsAreFresh`: when a worker stores its result, the listing is as it was
  when the job was claimed. The generation alone carries this.
- `CompletedIsCurrent`: a completed job has a snapshot of the evidence in the
  listing row, though snapshots are reused and completions are repeated.
- `EvidenceCollected` (fair): a pending job is completed, whichever side loses
  a deadlock, and whatever claims a dead process leaves.
- `EvidenceCatchesUp` (fair): if the feed goes on handling a listing, its
  evidence comes to rest at what the provider publishes, with a snapshot.

*Fairness.* The feed's statements go on once they can (weak). Workers and
claims have strong fairness: locks are granted in turn and claims go in the
order of `next_attempt_at`. A deadlock is detected. No poll and no edit is
assumed to come.

*Bounds.* One listing, two pages, three changes and three faults: the feed's row
locks and those of a worker meet on one listing, and a fault can hit the retry of
the first. With two listings the feed holds one while it locks the other, which
adds no cycle of locks; the theorems hold for any number.

### Availability

`row` is the status of a listing with the ages of `last_seen_at` and
`availability_changed_at`, `log` what its observation rows come to: the status
they end in, whether each starts from where the one before ended, and the age of
the latest transition. `job` is the availability job; its `delay`, doubled by
each attempt up to a cap, stands for the attempt counter (`min(attempts, 5)` and
thirty days are one cap, `MaxDelay`). `open` counts attempts recorded as
processing, `check` is the worker on a listing, and `waiting` the offers for
which an event still needs a provider check. The poll is `ProcessDiscovered` for
the listings that are new or changed and then `RecordFeedSightings` for all;
each takes its time first and gets the rows later, so the two moments are two
actions, and everything between reading a row and the commit is one, because the
row is locked. Time is discrete: stamps are ages and `Tick` makes them older.
The tracker claims again when all its workers are done, so a job still
processing at a claim was abandoned; it may or may not be stale yet. A retry's
delay, an hour at most, is below a tick. Not in the model: the texts of
evidence and errors, and providers without a checker.

- `LogExplainsStatus`: the append-only history ends in the status of the
  listing, and each row names the status before it, whoever writes in between.
- `OneOpenAttempt`: a job is claimed exactly while one attempt of it is open. A
  worker closes only its own attempt; a claim closes abandoned ones.
- `EarlyChecksNeedFaults`: after a check that confirmed an advert no other begins
  within `Weekly`, unless requested, except once for each failure. README.md:224-226
  promises more: such a check "is not repeated sooner than seven days unless a
  duplicate decision explicitly needs fresh evidence". That is true as long as
  nothing fails. When the commit of a check takes effect and its answer is lost,
  the tracker takes the check for failed, and its retry puts a delay of an hour at
  most over the week the result has set (`store/postgres/availability.go:156`,
  `app/availability_tracker.go:83`). `early` counts these repetitions.
- `EvidenceArrives` (fair): an event does not wait for a check that nobody makes,
  though its offers may be gone meanwhile, or claimed, when its request is
  dropped, or abandoned.
- `RemovedIsNoticed` (fair): an advert that is gone for good does not stay active.

One more statement of the documentation does not hold:

- `changed_is_latest`: README.md:197 says "`availability_changed_at` records the
  latest state transition". A sighting takes its time, waits for the row while a
  check commits a transition, and writes its earlier time.

The log also shows that `ProcessDiscovered` appends a row for every listing it
processes (`store/postgres/listings.go:188`), where README.md:203-205 says that
repeated sightings append no "redundant lifecycle row".

*Fairness.* Time passes, a poll that has begun ends, a waiting event is
delivered again, workers work: weak. A claim that takes a given listing has
strong fairness, for the order of `next_attempt_at`. Nothing is assumed of polls
or of the provider; failures are finitely many.

*Bounds.* One listing with all its writers, two changes by the provider and two
faults; `Stale` is below `Weekly`, and `MaxDelay` is no power of two times
`Stale`. Listings meet only in the order in which a claim takes them, on which
no property rests (with two listings, two million states and no faults of the
provider, `OneOpenAttempt` holds as well; the theorems hold for any number).

### Discovery

`page` and `listed` are what the providers have; `stored`, `status`, `history`,
`outbox` and `initialized` are the tables of one poll's transactions. `poll` is
the poll in progress (one goroutine, one poll at a time), from `Begin`
(`IsSourceInitialized`) over `Fetch`, one `Enrich` or `EnrichFails` for each advert
that needs its details, and `Store` (`ProcessDiscovered`) to `Sight`
(`RecordFeedSightings`). Any of these may fail, which ends the poll
(`PollFails`), and the process may crash. The two kinds of provider differ where
it shows: an RSS feed has the price and not the facts and skips what it cannot
parse; the API of City24 has both, fails altogether over one offer it cannot
parse, and its detail record replaces the price. Not in the model: areas
(reference data), pages beyond the window, and the columns of a listing, which
are its price and its `facts`. An advert has one source (`SourceOf`); two adverts
of different sources with one external id are not covered.

- `PriceLog`: the history has every price once per change, "no price" included,
  and the listing row has the latest.
- `EventsTellHistory`: the outbox is the history told in its order, each row
  once, with the price before it; only the first row of an advert stored before
  its source was initialized is silent, and nothing else ever is. `IsSourceInitialized`
  is read long before the transaction that depends on it.
- `ShownPriceIsStored` (fair): for an advert whose details arrive again and again
  (a premise of the property, `SF_vars(Enrich(a))`) the stored price returns to the
  one shown again and again, although an advert whose details fail is left out of
  the store.
- `ListedIsActive` (fair): an advert that is listed does not stay inactive, even
  if its details never arrive, for nothing is assumed of them: `Sight` takes all
  items, not those enriched.

Both liveness properties except a source with an offer that keeps it from being
fetched: one malformed offer stops all of City24, and an empty feed is a failure.

*Fairness.* The monitor never stops polling (weak). That fetches, stores and
sightings do not fail for ever where they can succeed is strong fairness of each,
for each source; `StoreWith(a)` says it for a store
that has the details of `a`, since a store may come without them. Nothing is
assumed of providers or of details.

*Bounds.* An advert at each of two sources of the two kinds, so that polls
alternate and a crash returns to the first; two offers, of which one has no
price; two changes at the providers, among them a malformed page; one crash.
Failures of polls are not bounded.

### DuplicateAwareMatching

A discovery is matched by a transaction at READ COMMITTED: `Prepare` reads the
property of the advert, `AskForChecks` finds the other adverts that lack a check
since the event and either queues them and gives the event back or goes on,
`ReadOffers` reads their statuses as of now and their prices as of the event,
`Classify` decides for one user with what that user was told before, and
`CommitMatch` inserts. Between these steps the feed (`Discover`, `ChangePrice`,
`See`), the tracker (`Check`), the resolver (`Resolve`, which merges) and the user
(`Pause`, `Restart`) commit. A restart has taken its time in an earlier step
(`Press`), like those of `AlertDelivery`; a poll that takes its time before it
commits is a `Discover` that nobody has read yet. `history[a]` is the price history, whose first row is
the discovery, so that event `<<a, i>>` is the `i`-th price; the match of a price
change is one step, because it reads filters and nothing shared. `regrouped` is
a history variable: a property has changed while the match was under way. Which
groups of adverts the rule may accept is the constant `Duplicates`.

- `InterestedUserKnowsProperty`: an advert is kept from a user whose filter was in
  force before it (its activation committed, and enabled still) only because the
  user has been told of its property, whatever merges, pauses and restarts commit
  meanwhile. (A pause withdraws pending alerts, but the commit of its restart is
  later than every event these were about.) As in `AlertDelivery` it says nothing
  of a restart that is stamped before the advert and committed after the match has
  read the filters, for which it would be false.
- `AlternativesAreAffirmed`: what an alert lists as a current alternative was
  seen alive since the advert was found.
- `NoSecondDiscovery`: no user is told of a property as new twice. This and the
  one before except a match whose property changed under it.
- `DiscoveriesAreMatched` (fair): a discovery does not wait for ever, though the
  property it waits for may grow and ask for more checks.

A statement of the changelog does not hold:

- `relistings_are_told`: CHANGELOG.md:51-54 says "true inactive relistings notify
  on higher or lower matching prices". The other adverts are read in the order
  in which they were found, including those found after the event; an event
  matched late compares itself with one of these, which had no price at the time,
  and says nothing to a user who knows the property.

`ImplementsPropertyGroups` shows that the commits to which this module reduces
the resolver are those of `PropertyIdentity` without its operators: both
implement the same `PropertyGroups`.

*Fairness.* The matcher goes on with its transaction, each advert is resolved
for the first time and each check that is asked for is made (weak); an event
comes round again and again (`Prepare`, strong), which is `EveryEventFinishes`.
Sightings, changes of price and merges are not assumed to come.

*Bounds.* Two adverts, one user, two prices, two moments and one change: a merge,
a check, a pause, a restart or a new price can come at every place in a match.
`Restless` are the users who pause and restart; there are none in
`relistings_are_told`, which needs none. Three adverts
are needed where two others differ, which is `relistings_are_told`; the safety
properties are proved for any number.

### Wizard

`session` is the state in memory, `message[m]` the keyboard a message shows, with
what it drew of the session, and `handler[h]` an update being handled, several at
once: the library starts a goroutine for each. `Read` takes the deep copy,
`Save` puts the changed copy over the session, `Draw` edits the message, and each
may be overtaken. A button is any button of any message as it stands, a typed
text any range that parses, and commands come at any time. No handler looks at
the stage the session is in. `Restart` forgets sessions and handlers. Sessions
are kept per user, so the model has one user. Not in the model: the wording, the
list of alerts, and the choice of a language, which saves a copy of the session
with another label (`telegram/bot.go:233`). A price button of another deal is
refused by the code (`telegram/bot.go:333`); the model takes it, and so allows more.

- `AreasAreOneGroup`: the areas of a session, of every copy and of every alert
  are of one group, however many handlers save over each other.
- `ReviewedIsSaved`: an alert has the settings the user confirmed, and
- `OneAlertPerSetup`: a setup ends in one alert at most, and one more for each
  commit whose answer was lost; both for a user who waits
  for an answer before the next update and stays on the newest message, and with
  messages that Telegram refuses to edit and restarts.

When the commit of `CreateFilter` takes effect and its answer is lost
(`store/postgres/users_alerts.go:134`), the handler keeps the session and the
review (`telegram/bot.go:364`), so the user who confirms once more has the alert
twice. `lost` counts these; no document excludes them.

`hurries` counts the updates of a user who does not. With the first such update
both may fail, which nothing in the documentation excludes: two presses of
Confirm make two alerts (`telegram/bot.go:362`), and an update handled beside the one
that draws the review changes what Confirm saves.

No liveness: nothing makes a user go on.

*Bounds.* One choice where choices are alike (property, deal, price, rooms), two
where they differ: a group that can be chosen as a whole and one that has areas; a
size that is typed or not. Two messages, two handlers, two setups and alerts, one
hurried update, and a restart or a lost answer (`MaxFaults`). The handlers are interchangeable (symmetry).

## What is proved

The proof modules prove, for every value of the constants that satisfies the
named assumptions:

- `Spec => []TypeOK` for every component,
- each safety invariant named above,
- the action properties `OverridesStick`, `ResultsAreFresh`,
  `AlternativesAreAffirmed` and `NoSecondDiscovery`,
- the four refinements: `EventDelivery` implements `EventEffects`, `AlertDelivery`
  implements `AlertLife`, and `PropertyIdentity` and `DuplicateAwareMatching`
  implement `PropertyGroups`,
- about `DuplicateRule`, which is a function of any two pieces of evidence: the
  query proposes no pair in conflict over rooms, size, floor or land
  (`ProposalsDoNotConflict`); of an accepted pair of one kind and area the advert
  that is nowhere the smaller finds the other (`LargerFindsSmaller`, the exact
  extent of `compatible_are_weighed`); without a photo in common no score is
  enough (`NothingWithoutPhotos`), and with the same photo at the same address
  any is, if nothing is in conflict (`SamePhotoDecides`).

Each property of an execution rests on an inductive invariant, `IInv`, that says
what the property is silent about.

*The invariant of EventDelivery.* `NothingLost` is not inductive: before the row
is marked, the confirmed copy may already have been consumed or crashed.
`Covered` extends it to the event in the relay's hand. `DuplicatesNeedFaults` is
not inductive either: an unmarked row is a copy to come, so `BoundedCopies`
counts it. `Provenance` says that nothing is in flight that the store has not
committed and that the relay's batch is unpublished.

*The invariant of PropertyIdentity.* Two adverts in one property stay together
until an operator moves one, because a merge takes whole groups; this carries
`AcceptedAreTogether` through other commits. `MergedAreEmpty` makes the
survivor of a merge a property that was not merged before. The least id of a
group exists by the well-foundedness of `<` on the naturals.

`ResolvedPairsAreDecided` is about two moments of two workers. Its invariant,
`SeenInv`, speaks of any two snapshots that are the newest of their adverts, find
each other and have read their candidates: one of them holds the other among its
candidates, or the pair is decided (`PairsAreSeen`). The one that reads last sees
the other, whether that is resolved or still in work. That nothing falls off the
list is a count: the matches of a snapshot are of as many adverts as its rivals,
and if these are no more than the limit the list is the matches. `DuplicatesAreMerged`
then joins it with `DecisionsFollowRule` and `AcceptedAreTogether`.

*The refinement of PropertyGroups.* The group of a commit is the advert with
those its new accepted decisions name (`Grouped`); what it brings is what the
closed form of the merge loop empties, and the survivor is one of these
(`MergeGroup`). A reassignment is `Move`, because its target is given out and not
merged. In `DuplicateAwareMatching` a merge is the same step without the loop,
and what was merged away is each id that has no advert left.

*The invariant of SignalJobs.* A worker whose generation is current holds the
evidence that is stored: every change of the evidence raises the generation.
Between the check of the generation and the commit only the lock on the job row
protects this, so the invariant says that the feed holds no job row a completing
worker has locked; in a deadlock the feed holds only the listing row.

`DecisionsFollowRule` needs no more than that what a worker holds was evaluated
(`FoundEvaluated`), and that acceptance is symmetric, which is a lemma for each
part of the score.

*The invariant of Availability.* `OneOpenAttempt` needs to know whose attempt is
open: a worker that asks or saves has an open one, and one that retries has an
open one unless its check was stored. `EarlyChecksNeedFaults` needs to know when
an early check may still come (`Owes`): while a retry is under way or claimed, or
while the time to the next attempt and the age of the last confirmation do not add
up to `Weekly`. Only a fault brings that about, each early check uses it up, and a
tick takes from one age what it gives to the other.

*The invariant of AlertDelivery.* Between its two steps the match transaction
holds one filter of every user who has one in force (`MatchIsComplete`): a pause in
between takes users out, and the commit of a restart cannot put one in, however
old its stamp, because the time of that commit is not before the event. A filter
in force was activated before the event, as stamps are not later than commits. `RepeatsNeedFaults` counts what may still be sent: a row that is
pending, or in a batch that was read before it changed, has been sent at most as
often as there were faults (`SendsAreCounted`).

*The refinement of AlertLife.* A user has one row for an event (`HandledOnce`), so
the alert is that row, and a pause that deletes it withdraws the alert for good:
no other row of the user keeps it, and the event is not matched again. Two facts
about the notifier's hands are added to the invariant: a row of the batch is
pending, or was withdrawn meanwhile (`BatchIsLive`), and the row to be marked as
sent has its message in the chat (`MarkedIsReceived`). The update of a row that is
gone is a stutter.

*The invariant of Discovery.* The poll knows whether its source was initialized
although it asked long ago, because no other poll is under way and a poll is of
one source (`PollIsOfSource`); stored adverts are of initialized sources.

*The invariant of DuplicateAwareMatching.* The property a match has read is that
of its advert, or has been merged away and then has no advert at all, for merges
keep the lowest id and new properties get new ones (`PropertyIsCurrent`); so
"the user was told about this property" can be missed after a merge but not
imagined. `EveryoneIsServed` says of each interested user that the match has it to
do, has done it, or the user knows the property. `OffersAreAffirmed` turns a check
later than the event into a sighting later than the event: an advert active now
was active at its newest check or has been seen since (`PastIsRecorded`).

*The invariant of Wizard.* A keyboard of areas carries a group, and a copy has
areas of its own group. For the user who waits one handler runs at a time, so
what it holds is the session, and a review on the session's message, or on its way
there, is of the session as it is. Pressing anything takes the review away with
the stage, and a failed edit leaves an older keyboard, never another review.

Only model-checked: liveness. It needs fairness, which is stated with ENABLED and
beyond this prover.

## Plan

The order put first what every alert depends on.

1. `EventDelivery` with `EventEffects` (done, proved).
2. `AlertDelivery` with `AlertLife` (done, proved).
3. `PropertyIdentity` with `DuplicateRule` and `PropertyGroups` (done, proved).
4. `SignalJobs` and `Availability` (done, proved).
5. `DuplicateAwareMatching`, which implements `PropertyGroups` too (done, proved).
6. `Discovery` (done, proved).
7. `Wizard` (done, proved).
8. Left: the photo cache of the notifier, operator splits within
   `DuplicateAwareMatching`, and abstract specifications of one user's view of a
   property and of an advert's price log, implemented by `DuplicateAwareMatching`
   and `Discovery`.

## Not modelled

Parsing and HTTP (the rest of `provider`, `telegram/api.go`, `media.go`), text and
image evidence (`identity/normalize.go`, `photo.go`), wording (`localization`,
`telegram/formatting.go`), configuration, connections and migrations: their
results are inputs of the models. `sqlcgen` is generated from the SQL in
`store/postgres/queries`, which the models translate. `/broadcast` sends to each
user in turn and stores nothing. Cached photo ids (`listing_photos`) are written
and cleared by the notifier alone, and a stale one costs a second request for the
same alert. Two processes at once are excluded by the documentation ("never run
two application versions against the same Telegram bot token") and by the
deployment.

Abstractions of `DuplicateRule`: the score is counted in ten-thousandths, the
rounding of floating-point sums below that is not modelled; hashes are not empty
and fingerprints are of one algorithm version, as `identity/photo.go` makes them.

Some behaviour is deliberate, or promised by nobody, and has no property: an event
that waits in the retry queue is overtaken by later events of its listing
(`broker/rabbitmq/rabbitmq.go:224`); when `DisableFiltersForChat` fails after `Fail`,
the filters of a blocked chat stay enabled until the next alert is refused
(`app/notifier.go:74`); one malformed offer of City24 stops its whole source
(`provider/city24/source.go:58`); pending rows of filters disabled for a blocked
chat stay and are sent if the filter is enabled again
(`store/postgres/notifications.go:119`); a later snapshot may undo an operator's split
(`store/postgres/duplicate_resolver.go:130`); a listing whose details fail for ever
keeps its signal job in retry (`app/listing_signal_collector.go:68`); evidence that
returns to an earlier state reuses the old snapshot
(`store/postgres/listing_signals.go:163`).

## Running

    tlc -config EventDelivery.cfg MCEventDelivery
    tlapm EventDelivery_proofs.tla

and in the same way for the other configurations and proof modules. Runs with
`CHECK_DEADLOCK FALSE` stop when the clock, the filters, the changes or the
snapshots of the instance are used up; all others are checked for deadlock.
