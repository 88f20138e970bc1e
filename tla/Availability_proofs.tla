------------------------- MODULE Availability_proofs -------------------------
(***************************************************************************)
(* Proofs about Availability, for every set of listings, every interval    *)
(* and every bound.                                                        *)
(***************************************************************************)
EXTENDS Availability, TLAPS

(* The arithmetic of ages and delays.                                      *)
LEMMA Capped ==
  ASSUME NEW a \in Nat, NEW cap \in Nat
  PROVE  Least(a, cap) \in 0..cap /\ Least(a, cap) <= a
  BY DEF Least

LEMMA Delays ==
  /\ ActiveDelay \in Nat /\ ActiveDelay >= Weekly /\ FirstDelay \in 0..MaxDelay
  /\ Most(ActiveDelay, MaxDelay) \in Nat
  /\ ActiveDelay <= Most(ActiveDelay, MaxDelay) /\ MaxDelay <= Most(ActiveDelay, MaxDelay)
  /\ \A d \in 0..MaxDelay : Doubled(d) \in 0..MaxDelay
  BY DelayAssumption DEF ActiveDelay, FirstDelay, Most, Least, Doubled

-----------------------------------------------------------------------------
(* The types of the records.                                               *)

Rows == [status : Statuses, seen : 0..Stale, changed : 0..Stale]
Logs == [ends : Statuses, sound : BOOLEAN, latest : 0..Stale]
Jobs == [status : {"pending", "processing"}, due : 0..Most(ActiveDelay, MaxDelay),
         priority : BOOLEAN, delay : 0..MaxDelay]
Checks == [pc : {"idle", "ask", "save", "retry"}, got : Statuses,
           attempt : {"open", "closed"}]

(* An observation keeps the types, and a row that starts from what the     *)
(* listing says leaves the history in agreement with it.                   *)
LEMMA Observation ==
  ASSUME NEW r \in Rows, NEW g \in Logs, NEW s \in Statuses, NEW age \in 0..Stale,
         g.sound, g.ends = r.status
  PROVE  /\ Updated(r, s, age) \in Rows /\ Updated(r, s, age).status = s
         /\ Logged(g, r, s, age) \in Logs
         /\ Logged(g, r, s, age).ends = s /\ Logged(g, r, s, age).sound
<1>1. Updated(r, s, age) \in Rows /\ Updated(r, s, age).status = s
  BY DEF Updated, Rows
<1>2. Least(age, g.latest) \in 0..Stale
  BY DelayAssumption DEF Least, Logs
<1>3. (IF r.status # s THEN Least(age, g.latest) ELSE g.latest) \in 0..Stale
  BY <1>2 DEF Logs
<1>4. (g.sound /\ g.ends = r.status) \in BOOLEAN
  OBVIOUS
<1>5. Logged(g, r, s, age) \in Logs
  BY <1>3, <1>4 DEF Logged, Logs
<1>. QED
  BY <1>1, <1>5 DEF Logged

Polls == [pc : {"idle", "fetched", "discover", "found", "sight"},
          batch : SUBSET Listings, found : SUBSET Listings, age : 0..Stale]

(* What every listing has, and what is not about one listing.              *)
Tables ==
  /\ row \in [Listings -> Rows] /\ log \in [Listings -> Logs]
  /\ job \in [Listings -> Jobs] /\ open \in [Listings -> Nat]
  /\ confirmed \in [Listings -> 0..Weekly] /\ early \in [Listings -> Nat]
  /\ check \in [Listings -> Checks]

Others ==
  /\ published \in [Listings -> BOOLEAN] /\ flips \in 0..MaxFlips
  /\ feed \in Polls /\ signals \subseteq Listings /\ waiting \subseteq Listings
  /\ faults \in 0..MaxFaults

LEMMA Types == /\ TypeOK <=> Tables /\ Others
               /\ TypeOK' <=> Tables' /\ Others'
  BY DEF TypeOK, Tables, Others, Rows, Logs, Jobs, Checks, Polls

(* What IInv says of one listing.                                          *)
Sound(l) ==
  /\ log[l].sound /\ log[l].ends = row[l].status
  /\ open[l] = IF job[l].status = "processing" THEN 1 ELSE 0
  /\ early[l] <= faults /\ (Owes(job[l], confirmed[l], check[l]) => early[l] < faults)
  /\ check[l].pc \in {"ask", "save"} => check[l].attempt = "open"
  /\ check[l].attempt = "open" => job[l].status = "processing"
  /\ check[l].pc = "retry" => check[l].attempt = "open" \/ job[l].status = "pending"

Good == Tables /\ Others /\ \A l \in Listings : Sound(l)

LEMMA IInvGood == /\ IInv <=> Good
                  /\ IInv' <=> Good'
  BY Types DEF IInv, Good, Sound, LogExplainsStatus, OneOpenAttempt, EarlyChecksNeedFaults

LEMMA InitGood == Init => Good
<1>. SUFFICES ASSUME Init PROVE Good
  OBVIOUS
<1>1. PICK s \in [Listings -> {"active", "unknown"}] :
        /\ row = [l \in Listings |-> [status |-> s[l], seen |-> 0, changed |-> 0]]
        /\ log = [l \in Listings |-> [ends |-> s[l], sound |-> TRUE, latest |-> 0]]
  BY DEF Init
<1>2. 0 \in 0..Stale /\ 0 \in 0..Weekly /\ Weekly \in 0..Weekly
      /\ 0 \in 0..Most(ActiveDelay, MaxDelay)
  BY Delays, DelayAssumption
<1>3. row \in [Listings -> Rows] /\ log \in [Listings -> Logs]
  BY <1>1, <1>2 DEF Rows, Logs, Statuses
<1>4. job \in [Listings -> Jobs] /\ check \in [Listings -> Checks]
  BY <1>2, Delays DEF Init, Jobs, Checks, Statuses, Idle
<1>5. Tables
  BY <1>2, <1>3, <1>4 DEF Init, Tables
<1>6. Others
  <2>1. feed \in Polls
    BY <1>2 DEF Init, NoPoll, Polls
  <2>2. flips \in 0..MaxFlips /\ faults \in 0..MaxFaults
    BY AvailabilityBounds DEF Init
  <2>. QED
    BY <2>1, <2>2 DEF Init, Others
<1>7. ASSUME NEW l \in Listings PROVE Sound(l)
  BY <1>1, DelayAssumption DEF Init, Sound, Idle, Owes
<1>. QED
  BY <1>5, <1>6, <1>7 DEF Good

-----------------------------------------------------------------------------
(* The steps.                                                              *)

(* What else a step has to see to; the faults are counted.                 *)
Onward == Others' /\ faults <= faults'

(* Steps that change neither listings nor jobs nor workers.                *)
LEMMA Quiet ==
  ASSUME Good, listingVars' = listingVars, checkVars' = checkVars, Onward
  PROVE  Good'
<1>1. /\ row' = row /\ log' = log /\ job' = job /\ open' = open
      /\ confirmed' = confirmed /\ early' = early /\ check' = check
  BY DEF listingVars, checkVars
<1>2. Tables'
  BY <1>1 DEF Good, Tables
<1>3. ASSUME NEW m \in Listings PROVE Sound(m)'
  <2>1. early[m] <= faults /\ early[m] \in Nat /\ faults \in Nat /\ faults' \in Nat
    BY DEF Good, Tables, Others, Onward, Sound
  <2>2. early[m] <= faults' /\ (early[m] < faults => early[m] < faults')
    BY <2>1 DEF Onward
  <2>. QED
    BY <1>1, <2>2 DEF Good, Sound
<1>. QED
  BY <1>2, <1>3 DEF Good, Onward

(* Steps that change one listing l, its job and its worker, to the values  *)
(* r, g, j, o, c and k.                                                    *)
LEMMA One ==
  ASSUME Good, Onward, NEW l \in Listings,
         NEW r \in Rows, NEW g \in Logs, NEW j \in Jobs, NEW o \in Nat,
         NEW c \in 0..Weekly, NEW k \in Checks,
         row' = [row EXCEPT ![l] = r], log' = [log EXCEPT ![l] = g],
         job' = [job EXCEPT ![l] = j], open' = [open EXCEPT ![l] = o],
         confirmed' = [confirmed EXCEPT ![l] = c], check' = [check EXCEPT ![l] = k],
         early' = early,
         g.sound /\ g.ends = r.status,
         o = IF j.status = "processing" THEN 1 ELSE 0,
         Owes(j, c, k) => early[l] < faults',
         k.pc \in {"ask", "save"} => k.attempt = "open",
         k.attempt = "open" => j.status = "processing",
         k.pc = "retry" => k.attempt = "open" \/ j.status = "pending"
  PROVE  Good'
<1>1. Tables'
  BY DEF Good, Tables
<1>2. ASSUME NEW m \in Listings PROVE Sound(m)'
  <2>0. early[m] <= faults' /\ (early[m] < faults => early[m] < faults')
    <3>1. early[m] <= faults /\ early[m] \in Nat /\ faults \in Nat /\ faults' \in Nat
      BY DEF Good, Tables, Others, Onward, Sound
    <3>. QED
      BY <3>1 DEF Onward
  <2>1. CASE m = l
    <3>1. /\ row'[m] = r /\ log'[m] = g /\ job'[m] = j /\ open'[m] = o
          /\ confirmed'[m] = c /\ check'[m] = k
      BY <2>1 DEF Good, Tables
    <3>. QED
      BY <2>0, <2>1, <3>1 DEF Sound
  <2>2. CASE m # l
    <3>1. /\ row'[m] = row[m] /\ log'[m] = log[m] /\ job'[m] = job[m]
          /\ open'[m] = open[m] /\ confirmed'[m] = confirmed[m] /\ check'[m] = check[m]
      BY <2>2 DEF Good, Tables
    <3>. QED
      BY <2>0, <3>1 DEF Good, Sound
  <2>. QED
    BY <2>1, <2>2
<1>. QED
  BY <1>1, <1>2 DEF Good, Onward

(* What a listing and its job are made of, and that they may stay so.      *)
LEMMA Parts ==
  ASSUME Good, NEW l \in Listings
  PROVE  /\ row[l] \in Rows /\ log[l] \in Logs /\ job[l] \in Jobs /\ open[l] \in Nat
         /\ confirmed[l] \in 0..Weekly /\ check[l] \in Checks /\ Sound(l)
         /\ row = [row EXCEPT ![l] = row[l]] /\ log = [log EXCEPT ![l] = log[l]]
         /\ job = [job EXCEPT ![l] = job[l]] /\ open = [open EXCEPT ![l] = open[l]]
         /\ confirmed = [confirmed EXCEPT ![l] = confirmed[l]]
  BY DEF Good, Tables

LEMMA FaultKept == ASSUME Others, Fault PROVE faults' \in 0..MaxFaults /\ faults < faults' /\ faults <= faults'
  BY AvailabilityBounds DEF Onward, Others, Fault

LEMMA QuietSteps ==
  ASSUME Good,
         \/ \E l \in Listings : Flip(l) \/ SignalFindsGone(l) \/ SignalDropped(l)
         \/ \E S \in SUBSET Listings : FeedFetches(S) \/ EventOccurs(S)
         \/ DiscoverBegins \/ SightingBegins \/ FeedFails
  PROVE  Good'
<1>1. 0 \in 0..Stale /\ Others /\ faults <= faults
  BY DelayAssumption, AvailabilityBounds DEF Good, Others
<1>2. ASSUME NEW l \in Listings, Flip(l) PROVE Good'
  <2>1. Onward
    BY <1>1, <1>2, AvailabilityBounds DEF Flip, Onward, Others
  <2>. QED
    BY <1>2, <2>1, Quiet DEF Flip
<1>3. ASSUME NEW l \in Listings, SignalFindsGone(l) PROVE Good'
  <2>1. Onward
    BY <1>1, <1>3 DEF SignalFindsGone, Onward, Others, providerVars
  <2>. QED
    BY <1>3, <2>1, Quiet DEF SignalFindsGone
<1>4. ASSUME NEW l \in Listings, SignalDropped(l) PROVE Good'
  <2>1. Onward
    BY <1>1, <1>4 DEF SignalDropped, Onward, Others, providerVars
  <2>. QED
    BY <1>4, <2>1, Quiet DEF SignalDropped
<1>5. ASSUME NEW S \in SUBSET Listings, FeedFetches(S) PROVE Good'
  <2>1. feed' \in Polls
    BY <1>1, <1>5 DEF FeedFetches, NoPoll, Polls
  <2>2. Onward
    BY <1>1, <1>5, <2>1 DEF FeedFetches, Onward, Others, providerVars
  <2>. QED
    BY <1>5, <2>2, Quiet DEF FeedFetches
<1>6. ASSUME NEW S \in SUBSET Listings, EventOccurs(S) PROVE Good'
  <2>1. Onward
    BY <1>1, <1>6 DEF EventOccurs, Onward, Others, providerVars
  <2>. QED
    BY <1>6, <2>1, Quiet DEF EventOccurs
<1>7. ASSUME DiscoverBegins PROVE Good'
  <2>1. feed' \in Polls
    BY <1>1, <1>7 DEF DiscoverBegins, Onward, Others, Polls
  <2>2. Onward
    BY <1>1, <1>7, <2>1 DEF DiscoverBegins, Onward, Others, providerVars
  <2>. QED
    BY <1>7, <2>2, Quiet DEF DiscoverBegins
<1>8. ASSUME SightingBegins PROVE Good'
  <2>1. feed' \in Polls
    BY <1>1, <1>8 DEF SightingBegins, Onward, Others, Polls
  <2>2. Onward
    BY <1>1, <1>8, <2>1 DEF SightingBegins, Onward, Others, providerVars
  <2>. QED
    BY <1>8, <2>2, Quiet DEF SightingBegins
<1>9. ASSUME FeedFails PROVE Good'
  <2>1. feed' \in Polls
    BY <1>1, <1>9 DEF FeedFails, NoPoll, Polls
  <2>2. Onward
    BY <1>1, <1>9, <2>1, FaultKept DEF FeedFails, Onward, Others, providerVars
  <2>. QED
    BY <1>9, <2>2, Quiet DEF FeedFails
<1>. QED
  BY <1>2, <1>3, <1>4, <1>5, <1>6, <1>7, <1>8, <1>9

(* Time passes: as an attempt comes nearer, the last check grows older.    *)
LEMMA Older == \A a \in 0..Stale : Least(a + 1, Stale) \in 0..Stale
  BY DelayAssumption DEF Least

LEMMA Nearer ==
  ASSUME NEW d \in 0..Most(ActiveDelay, MaxDelay), NEW c \in 0..Weekly
  PROVE  /\ (IF d = 0 THEN 0 ELSE d - 1) \in 0..Most(ActiveDelay, MaxDelay)
         /\ Least(c + 1, Weekly) \in 0..Weekly
         /\ (IF d = 0 THEN 0 ELSE d - 1) + Least(c + 1, Weekly) < Weekly => d + c < Weekly
         /\ Least(c + 1, Weekly) < Weekly => c < Weekly
  BY Delays, DelayAssumption DEF Least

LEMMA TickGood == ASSUME Good, Tick PROVE Good'
<1>1. ASSUME NEW l \in Listings
      PROVE  /\ row'[l] \in Rows /\ row'[l].status = row[l].status
             /\ log'[l] \in Logs /\ log'[l].ends = log[l].ends /\ log'[l].sound = log[l].sound
  <2>1. row'[l] = [row[l] EXCEPT !.seen = Least(@ + 1, Stale),
                                 !.changed = Least(@ + 1, Stale)]
    BY DEF Tick
  <2>2. log'[l] = [log[l] EXCEPT !.latest = Least(@ + 1, Stale)]
    BY DEF Tick
  <2>3. row[l] \in Rows /\ log[l] \in Logs
    BY Parts
  <2>4. Least(row[l].seen + 1, Stale) \in 0..Stale
        /\ Least(row[l].changed + 1, Stale) \in 0..Stale
        /\ Least(log[l].latest + 1, Stale) \in 0..Stale
    BY <2>3, Older DEF Rows, Logs
  <2>5. row'[l] \in Rows /\ row'[l].status = row[l].status
    BY <2>1, <2>3, <2>4 DEF Rows
  <2>6. log'[l] \in Logs /\ log'[l].ends = log[l].ends /\ log'[l].sound = log[l].sound
    BY <2>2, <2>3, <2>4 DEF Logs
  <2>. QED
    BY <2>5, <2>6
<1>2. ASSUME NEW l \in Listings
      PROVE  /\ job'[l] \in Jobs /\ confirmed'[l] \in 0..Weekly
             /\ job'[l].status = job[l].status /\ job'[l].priority = job[l].priority
             /\ confirmed'[l] < Weekly => confirmed[l] < Weekly
             /\ job'[l].due + confirmed'[l] < Weekly => job[l].due + confirmed[l] < Weekly
  <2>1. job'[l] = [job[l] EXCEPT !.due = IF @ = 0 THEN 0 ELSE @ - 1]
        /\ confirmed'[l] = Least(confirmed[l] + 1, Weekly)
    BY DEF Tick
  <2>2. job[l] \in Jobs /\ confirmed[l] \in 0..Weekly
    BY Parts
  <2>3. job[l].due \in 0..Most(ActiveDelay, MaxDelay)
    BY <2>2 DEF Jobs
  <2>4. job'[l].due = (IF job[l].due = 0 THEN 0 ELSE job[l].due - 1)
        /\ job'[l].status = job[l].status /\ job'[l].priority = job[l].priority
    BY <2>1, <2>2 DEF Jobs
  <2>5. job'[l] \in Jobs
    BY <2>1, <2>2, <2>3, Nearer DEF Jobs
  <2>. QED
    BY <2>1, <2>2, <2>3, <2>4, <2>5, Nearer
<1>3. /\ row' = [l \in Listings |-> row'[l]] /\ log' = [l \in Listings |-> log'[l]]
      /\ job' = [l \in Listings |-> job'[l]]
      /\ confirmed' = [l \in Listings |-> confirmed'[l]]
      /\ open' = open /\ check' = check /\ early' = early /\ faults' = faults
  BY DEF Tick
<1>4. Tables'
  BY <1>1, <1>2, <1>3 DEF Good, Tables
<1>5. feed.age \in 0..Stale /\ 0 \in 0..Stale /\ feed \in Polls
  BY DelayAssumption DEF Good, Others, Polls
<1>6. (IF feed.pc \in {"discover", "sight"} THEN Least(feed.age + 1, Stale) ELSE 0) \in 0..Stale
  BY <1>5, Older
<1>7. feed' \in Polls
  BY <1>5, <1>6 DEF Tick, Polls
<1>8. Onward
  <2>1. Others'
    BY <1>7 DEF Good, Others, Tick, providerVars
  <2>2. faults <= faults
    BY AvailabilityBounds DEF Good, Others
  <2>. QED
    BY <1>3, <2>1, <2>2 DEF Onward
<1>9. ASSUME NEW l \in Listings PROVE Sound(l)'
  <2>1. Owes(job'[l], confirmed'[l], check'[l]) => Owes(job[l], confirmed[l], check[l])
    BY <1>2, <1>3 DEF Owes
  <2>. QED
    BY <1>1, <1>2, <1>3, <2>1 DEF Good, Sound
<1>. QED
  BY <1>4, <1>8, <1>9 DEF Good, Onward

(* A step that observes some listings and leaves jobs and workers alone.   *)
LEMMA Observes ==
  ASSUME Good, Onward, checkVars' = checkVars,
         row' = [m \in Listings |-> row'[m]], log' = [m \in Listings |-> log'[m]],
         \A m \in Listings : /\ row'[m] \in Rows /\ log'[m] \in Logs
                             /\ log'[m].sound /\ log'[m].ends = row'[m].status
  PROVE  Good'
<1>1. /\ job' = job /\ open' = open /\ confirmed' = confirmed /\ early' = early
      /\ check' = check
  BY DEF checkVars
<1>2. Tables'
  BY <1>1 DEF Good, Tables
<1>3. ASSUME NEW m \in Listings PROVE Sound(m)'
  <2>1. early[m] <= faults /\ early[m] \in Nat /\ faults \in Nat /\ faults' \in Nat
    BY DEF Good, Tables, Others, Onward, Sound
  <2>2. early[m] <= faults' /\ (early[m] < faults => early[m] < faults')
    BY <2>1 DEF Onward
  <2>. QED
    BY <1>1, <2>2 DEF Good, Sound
<1>. QED
  BY <1>2, <1>3 DEF Good, Onward

LEMMA DiscoverGood == ASSUME Good, DiscoverCommits PROVE Good'
<1>1. feed \in Polls /\ feed.age \in 0..Stale /\ "active" \in Statuses /\ 0 \in 0..Stale
  BY DelayAssumption DEF Good, Onward, Others, Polls, Statuses
<1>2. ASSUME NEW m \in Listings
      PROVE  /\ row'[m] \in Rows /\ log'[m] \in Logs
             /\ log'[m].sound /\ log'[m].ends = row'[m].status
  <2>1. row[m] \in Rows /\ log[m] \in Logs /\ log[m].sound /\ log[m].ends = row[m].status
    BY Parts DEF Sound
  <2>2. CASE m \in feed.found
    <3>1. /\ row'[m] = Updated(row[m], "active", feed.age)
          /\ log'[m] = Logged(log[m], row[m], "active", feed.age)
      BY <2>2 DEF DiscoverCommits
    <3>. QED
      BY <1>1, <2>1, <3>1, Observation
  <2>3. CASE m \notin feed.found
    <3>1. row'[m] = row[m] /\ log'[m] = log[m]
      BY <2>3 DEF DiscoverCommits
    <3>. QED
      BY <2>1, <3>1
  <2>. QED
    BY <2>2, <2>3
<1>3. row' = [m \in Listings |-> row'[m]] /\ log' = [m \in Listings |-> log'[m]]
  BY DEF DiscoverCommits
<1>4. feed' \in Polls
  BY <1>1 DEF DiscoverCommits, Polls
<1>5. Onward /\ checkVars' = checkVars
  BY <1>4 DEF Good, Onward, Others, DiscoverCommits, providerVars
<1>. QED
  BY <1>2, <1>3, <1>5, Observes

LEMMA SightingGood == ASSUME Good, SightingCommits PROVE Good'
<1>1. feed \in Polls /\ feed.age \in 0..Stale /\ "active" \in Statuses /\ 0 \in 0..Stale
  BY DelayAssumption DEF Good, Onward, Others, Polls, Statuses
<1>2. ASSUME NEW m \in Listings
      PROVE  /\ row'[m] \in Rows /\ log'[m] \in Logs
             /\ log'[m].sound /\ log'[m].ends = row'[m].status
  <2>1. row[m] \in Rows /\ log[m] \in Logs /\ log[m].sound /\ log[m].ends = row[m].status
    BY Parts DEF Sound
  <2>2. Updated(row[m], "active", feed.age) \in Rows
        /\ Updated(row[m], "active", feed.age).status = "active"
    BY <1>1, <2>1, Observation
  <2>3. CASE m \in feed.batch /\ Transitions(m)
    <3>1. /\ row'[m] = Updated(row[m], "active", feed.age)
          /\ log'[m] = Logged(log[m], row[m], "active", feed.age)
      BY <2>3 DEF SightingCommits
    <3>. QED
      BY <1>1, <2>1, <3>1, Observation
  <2>4. CASE m \in feed.batch /\ ~Transitions(m)
    <3>1. row'[m] = Updated(row[m], "active", feed.age) /\ log'[m] = log[m]
      BY <2>4 DEF SightingCommits
    <3>2. row[m].status = "active"
      BY <2>4 DEF Transitions
    <3>. QED
      BY <2>1, <2>2, <3>1, <3>2
  <2>5. CASE m \notin feed.batch
    <3>1. row'[m] = row[m] /\ log'[m] = log[m]
      BY <2>5 DEF SightingCommits
    <3>. QED
      BY <2>1, <3>1
  <2>. QED
    BY <2>3, <2>4, <2>5
<1>3. row' = [m \in Listings |-> row'[m]] /\ log' = [m \in Listings |-> log'[m]]
  BY DEF SightingCommits
<1>4. feed' \in Polls
  BY <1>1 DEF SightingCommits, NoPoll, Polls
<1>5. Onward /\ checkVars' = checkVars
  BY <1>4 DEF Good, Onward, Others, SightingCommits, providerVars
<1>. QED
  BY <1>2, <1>3, <1>5, Observes

(* A provider check observed: its row, its history and the waiting offers. *)
LEMMA Observed ==
  ASSUME Good, NEW l \in Listings, NEW s \in Statuses, ObserveCheck(l, s)
  PROVE  \E r \in Rows, g \in Logs :
           /\ row' = [row EXCEPT ![l] = r] /\ log' = [log EXCEPT ![l] = g]
           /\ g.sound /\ g.ends = r.status
<1>1. 0 \in 0..Stale /\ row[l] \in Rows /\ log[l] \in Logs
      /\ log[l].sound /\ log[l].ends = row[l].status
  BY DelayAssumption, Parts DEF Sound
<1>2. /\ Updated(row[l], s, 0) \in Rows /\ Updated(row[l], s, 0).status = s
      /\ Logged(log[l], row[l], s, 0) \in Logs
      /\ Logged(log[l], row[l], s, 0).ends = s
      /\ Logged(log[l], row[l], s, 0).sound
  BY <1>1, Observation
<1>3. /\ row' = [row EXCEPT ![l] = Updated(row[l], s, 0)]
      /\ log' = [log EXCEPT ![l] = Logged(log[l], row[l], s, 0)]
  BY <1>1 DEF ObserveCheck
<1>. QED
  BY <1>2, <1>3

LEMMA SignalGood == ASSUME Good, NEW l \in Listings, SignalCommits(l) PROVE Good'
<1>1. "inactive" \in Statuses
  BY DEF Statuses
<1>2. PICK r \in Rows, g \in Logs :
        /\ row' = [row EXCEPT ![l] = r] /\ log' = [log EXCEPT ![l] = g]
        /\ g.sound /\ g.ends = r.status
  BY <1>1, Observed DEF SignalCommits
<1>3. Tables /\ \A m \in Listings : Sound(m)
  BY DEF Good
<1>4. row' \in [Listings -> Rows] /\ log' \in [Listings -> Logs]
  BY <1>2, <1>3 DEF Tables
<1>5. ASSUME NEW m \in Listings
      PROVE  /\ row'[m] \in Rows /\ log'[m] \in Logs
             /\ log'[m].sound /\ log'[m].ends = row'[m].status
  BY <1>2, <1>3, <1>4 DEF Tables, Sound
<1>6. Onward /\ checkVars' = checkVars
  BY DEF Good, Onward, Others, SignalCommits, ObserveCheck, providerVars
<1>. QED
  BY <1>4, <1>5, <1>6, Observes

(* The worker's own steps.                                                 *)
LEMMA WorkerSteps ==
  ASSUME Good, NEW l \in Listings, Ask(l) \/ CheckFails(l) \/ RetryFails(l)
  PROVE  Good'
<1>1. /\ row[l] \in Rows /\ log[l] \in Logs /\ job[l] \in Jobs /\ open[l] \in Nat
      /\ confirmed[l] \in 0..Weekly /\ check[l] \in Checks /\ Sound(l)
      /\ row = [row EXCEPT ![l] = row[l]] /\ log = [log EXCEPT ![l] = log[l]]
      /\ job = [job EXCEPT ![l] = job[l]] /\ open = [open EXCEPT ![l] = open[l]]
      /\ confirmed = [confirmed EXCEPT ![l] = confirmed[l]]
  BY Parts
<1>2. Onward
  BY FaultKept DEF Good, Onward, Others, Ask, CheckFails, RetryFails, providerVars
<1>3. /\ row' = row /\ log' = log /\ job' = job /\ open' = open /\ confirmed' = confirmed
      /\ early' = early
  BY DEF Ask, CheckFails, RetryFails, listingVars
<1>4. PICK k \in Checks :
        /\ check' = [check EXCEPT ![l] = k]
        /\ k.pc \in {"ask", "save"} => k.attempt = "open"
        /\ k.attempt = "open" => job[l].status = "processing"
        /\ k.pc = "retry" => k.attempt = "open"
        /\ k.pc = "save" \/ faults < faults'
  <2>0. check[l].pc \in {"ask", "save"} =>
          check[l].attempt = "open" /\ job[l].status = "processing"
    BY <1>1 DEF Sound
  <2>1. CASE Ask(l)
    <3>1. PICK s \in Statuses :
            check' = [check EXCEPT ![l] = [pc |-> "save", got |-> s, attempt |-> @.attempt]]
      BY <2>1 DEF Ask, Statuses
    <3>2. check[l].pc = "ask"
      BY <2>1 DEF Ask
    <3>. DEFINE k == [pc |-> "save", got |-> s, attempt |-> check[l].attempt]
    <3>3. check' = [check EXCEPT ![l] = k]
      BY <3>1
    <3>4. k \in Checks /\ k.attempt = "open" /\ k.pc = "save"
      BY <1>1, <2>0, <3>2 DEF Checks
    <3>. HIDE DEF k
    <3>. QED
      BY <2>0, <3>2, <3>3, <3>4
  <2>2. CASE CheckFails(l)
    <3>. DEFINE k == [pc |-> "retry", got |-> "unknown", attempt |-> check[l].attempt]
    <3>1. check' = [check EXCEPT ![l] = k] /\ check[l].pc \in {"ask", "save"}
      BY <2>2 DEF CheckFails
    <3>2. k \in Checks /\ k.attempt = "open" /\ k.pc = "retry"
      BY <1>1, <2>0, <3>1 DEF Checks, Statuses
    <3>3. faults < faults'
      BY <2>2, FaultKept DEF CheckFails, Good
    <3>. HIDE DEF k
    <3>. QED
      BY <2>0, <3>1, <3>2, <3>3
  <2>3. CASE RetryFails(l)
    <3>1. Idle \in Checks /\ Idle.pc = "idle" /\ Idle.attempt = "closed"
      BY DEF Checks, Idle, Statuses
    <3>2. faults < faults'
      BY <2>3, FaultKept DEF RetryFails, Good
    <3>. QED
      BY <2>3, <3>1, <3>2 DEF RetryFails
  <2>. QED
    BY <2>1, <2>2, <2>3
<1>5. /\ row' = [row EXCEPT ![l] = row[l]] /\ log' = [log EXCEPT ![l] = log[l]]
      /\ job' = [job EXCEPT ![l] = job[l]] /\ open' = [open EXCEPT ![l] = open[l]]
      /\ confirmed' = [confirmed EXCEPT ![l] = confirmed[l]]
  BY <1>1, <1>3
<1>6. Owes(job[l], confirmed[l], k) => early[l] < faults'
  <2>1. early[l] <= faults /\ early[l] \in Nat /\ faults \in Nat /\ faults' \in Nat
    BY <1>1, <1>2 DEF Good, Tables, Others, Onward, Sound
  <2>. QED
    BY <1>4, <2>1 DEF Owes
<1>7. early' = early
  BY <1>3
<1>. QED
  BY <1>1, <1>2, <1>4, <1>5, <1>6, <1>7, One DEF Sound

(* The job after a completion is pending, and due late enough.             *)
LEMMA Stored ==
  ASSUME Good, NEW l \in Listings, NEW s \in Statuses, check[l].pc = "save", Store(l, s)
  PROVE  \E r \in Rows, g \in Logs, j \in Jobs :
           /\ row' = [row EXCEPT ![l] = r] /\ log' = [log EXCEPT ![l] = g]
           /\ job' = [job EXCEPT ![l] = j] /\ open' = [open EXCEPT ![l] = 0]
           /\ waiting' = waiting \ {l} /\ early' = early
           /\ confirmed' = [confirmed EXCEPT ![l] = IF s = "active" THEN 0 ELSE Weekly]
           /\ g.sound /\ g.ends = r.status /\ j.status = "pending"
           /\ s = "active" => j.due >= Weekly
<1>1. PICK r \in Rows, g \in Logs :
        /\ row' = [row EXCEPT ![l] = r] /\ log' = [log EXCEPT ![l] = g]
        /\ g.sound /\ g.ends = r.status
  BY Observed DEF Store
<1>. DEFINE j == [status |-> "pending", priority |-> FALSE,
                  due |-> IF s = "unknown" THEN job[l].delay ELSE ActiveDelay,
                  delay |-> IF s = "unknown" THEN Doubled(job[l].delay) ELSE FirstDelay]
<1>2. job[l] \in Jobs /\ job \in [Listings -> Jobs]
  BY Parts DEF Good, Tables
<1>3. job' = [job EXCEPT ![l] = j]
  BY <1>2 DEF Store
<1>4. /\ (IF s = "unknown" THEN job[l].delay ELSE ActiveDelay) \in 0..Most(ActiveDelay, MaxDelay)
      /\ (IF s = "unknown" THEN Doubled(job[l].delay) ELSE FirstDelay) \in 0..MaxDelay
      /\ s = "active" => (IF s = "unknown" THEN job[l].delay ELSE ActiveDelay) >= Weekly
  <2>1. job[l].delay \in 0..MaxDelay
    BY <1>2 DEF Jobs
  <2>2. MaxDelay \in Nat
    BY DelayAssumption
  <2>. QED
    BY <2>1, <2>2, Delays
<1>5. j \in Jobs
  BY <1>4 DEF Jobs
<1>6. j.status = "pending" /\ (s = "active" => j.due >= Weekly)
  BY <1>4
<1>7. Closed(l) = 0
  BY Parts DEF Closed, Sound
<1>8. /\ open' = [open EXCEPT ![l] = 0] /\ waiting' = waiting \ {l} /\ early' = early
      /\ confirmed' = [confirmed EXCEPT ![l] = IF s = "active" THEN 0 ELSE Weekly]
  BY <1>7 DEF Store, ObserveCheck
<1>. HIDE DEF j
<1>. QED
  BY <1>1, <1>3, <1>5, <1>6, <1>8

LEMMA CompleteGood ==
  ASSUME Good, NEW l \in Listings, Complete(l) \/ AnswerLost(l) PROVE Good'
<1>1. check[l] \in Checks /\ check[l].got \in Statuses
  BY Parts DEF Checks
<1>. DEFINE c == IF check[l].got = "active" THEN 0 ELSE Weekly
<1>2. PICK r \in Rows, g \in Logs, j \in Jobs :
        /\ row' = [row EXCEPT ![l] = r] /\ log' = [log EXCEPT ![l] = g]
        /\ job' = [job EXCEPT ![l] = j] /\ open' = [open EXCEPT ![l] = 0]
        /\ waiting' = waiting \ {l} /\ early' = early
        /\ confirmed' = [confirmed EXCEPT ![l] = c]
        /\ g.sound /\ g.ends = r.status /\ j.status = "pending"
        /\ check[l].got = "active" => j.due >= Weekly
  BY <1>1, Stored DEF Complete, AnswerLost
<1>3. Onward
  BY <1>2, FaultKept DEF Good, Onward, Others, Complete, AnswerLost, Store, providerVars
<1>4. c \in 0..Weekly /\ 0 \in Nat /\ j.due \in Nat /\ j.due + c >= Weekly
  BY <1>2, DelayAssumption, Delays DEF Jobs
<1>. HIDE DEF c
<1>5. CASE Complete(l)
  <2>1. check' = [check EXCEPT ![l] = Idle]
    BY <1>5 DEF Complete
  <2>2. Idle \in Checks /\ Idle.pc = "idle" /\ Idle.attempt = "closed"
    BY DEF Checks, Idle, Statuses
  <2>3. ~Owes(j, c, Idle)
    BY <1>2, <1>4, <2>2, DelayAssumption DEF Owes
  <2>. QED
    BY <1>2, <1>3, <1>4, <2>1, <2>2, <2>3, One
<1>6. CASE AnswerLost(l)
  <2>. DEFINE k == [Idle EXCEPT !.pc = "retry"]
  <2>1. check' = [check EXCEPT ![l] = k]
    BY <1>6 DEF AnswerLost
  <2>2. k \in Checks /\ k.pc = "retry" /\ k.attempt = "closed"
    BY DEF Checks, Idle, Statuses
  <2>3. early[l] < faults'
    <3>1. early[l] <= faults /\ early[l] \in Nat /\ faults \in Nat /\ faults' \in Nat
      BY <1>3 DEF Good, Tables, Others, Onward, Sound
    <3>2. faults < faults'
      BY <1>6, FaultKept DEF AnswerLost, Good
    <3>. QED
      BY <3>1, <3>2
  <2>. HIDE DEF k
  <2>. QED
    BY <1>2, <1>3, <1>4, <2>1, <2>2, <2>3, One
<1>. QED
  BY <1>5, <1>6

(* A retry may bring the next check forward: that was owed since the fault *)
(* it follows.                                                             *)
LEMMA RetryGood == ASSUME Good, NEW l \in Listings, Retry(l) PROVE Good'
<1>1. /\ row[l] \in Rows /\ log[l] \in Logs /\ job[l] \in Jobs
      /\ confirmed[l] \in 0..Weekly /\ Sound(l) /\ job \in [Listings -> Jobs]
      /\ row = [row EXCEPT ![l] = row[l]] /\ log = [log EXCEPT ![l] = log[l]]
      /\ confirmed = [confirmed EXCEPT ![l] = confirmed[l]]
  BY Parts DEF Good, Tables
<1>. DEFINE j == [status |-> "pending", priority |-> job[l].priority,
                  due |-> 0, delay |-> Doubled(job[l].delay)]
<1>2. /\ job' = [job EXCEPT ![l] = j] /\ open' = [open EXCEPT ![l] = 0]
      /\ check' = [check EXCEPT ![l] = Idle]
      /\ row' = row /\ log' = log /\ confirmed' = confirmed /\ early' = early
  <2>1. check[l].pc = "retry"
    BY DEF Retry
  <2>2. Closed(l) = 0
    BY <1>1, <2>1 DEF Closed, Sound
  <2>. QED
    BY <1>1, <2>2 DEF Retry, listingVars
<1>3. Doubled(job[l].delay) \in 0..MaxDelay /\ 0 \in 0..Most(ActiveDelay, MaxDelay)
  BY <1>1, Delays DEF Jobs
<1>4. j \in Jobs /\ j.status = "pending" /\ j.due = 0 /\ j.priority = job[l].priority
  BY <1>1, <1>3 DEF Jobs
<1>5. Owes(j, confirmed[l], Idle) => early[l] < faults'
  <2>1. check[l].pc = "retry" /\ faults' = faults
    BY DEF Retry
  <2>2. Owes(j, confirmed[l], Idle) => Owes(job[l], confirmed[l], check[l])
    BY <2>1, <1>4 DEF Owes
  <2>. QED
    BY <1>1, <2>1, <2>2 DEF Sound
<1>6. Idle \in Checks /\ Idle.pc = "idle" /\ Idle.attempt = "closed" /\ 0 \in Nat
  BY DEF Checks, Idle, Statuses
<1>7. Onward
  BY DEF Good, Onward, Others, Retry, providerVars
<1>8. log[l].sound /\ log[l].ends = row[l].status
  BY <1>1 DEF Sound
<1>. HIDE DEF j
<1>. QED
  BY <1>1, <1>2, <1>4, <1>5, <1>6, <1>7, <1>8, One

(* What a step that changes neither listings nor the last checks has to    *)
(* leave of the job and the worker of l.                                   *)
Scheduled(l) ==
  /\ job'[l] \in Jobs /\ open'[l] \in Nat /\ check'[l] \in Checks /\ early'[l] \in Nat
  /\ open'[l] = IF job'[l].status = "processing" THEN 1 ELSE 0
  /\ early'[l] <= faults' /\ (Owes(job'[l], confirmed[l], check'[l]) => early'[l] < faults')
  /\ check'[l].pc \in {"ask", "save"} => check'[l].attempt = "open"
  /\ check'[l].attempt = "open" => job'[l].status = "processing"
  /\ check'[l].pc = "retry" => check'[l].attempt = "open" \/ job'[l].status = "pending"

LEMMA JobSteps ==
  ASSUME Good, Onward, row' = row, log' = log, confirmed' = confirmed,
         job' = [l \in Listings |-> job'[l]], open' = [l \in Listings |-> open'[l]],
         check' = [l \in Listings |-> check'[l]], early' = [l \in Listings |-> early'[l]],
         \A l \in Listings : Scheduled(l)
  PROVE  Good'
<1>1. Tables'
  BY DEF Good, Tables, Scheduled
<1>2. ASSUME NEW l \in Listings PROVE Sound(l)'
  <2>1. Sound(l)
    BY DEF Good
  <2>. QED
    BY <2>1 DEF Scheduled, Sound
<1>. QED
  BY <1>1, <1>2 DEF Good, Onward

(* The faults a listing can count on, with one to spare if its job owes.   *)
LEMMA Counted ==
  ASSUME Good, Onward, NEW l \in Listings
  PROVE  /\ early[l] \in Nat /\ faults \in Nat /\ faults' \in Nat
         /\ early[l] <= faults /\ early[l] <= faults'
         /\ Owes(job[l], confirmed[l], check[l]) => early[l] < faults /\ early[l] < faults'
         /\ faults < faults' => early[l] < faults'
<1>1. early[l] \in Nat /\ faults \in Nat /\ faults' \in Nat /\ Sound(l) /\ faults <= faults'
  BY DEF Good, Tables, Others, Onward
<1>. QED
  BY <1>1 DEF Sound

(* A claim takes over what was abandoned and opens one attempt each.       *)
LEMMA ClaimGood ==
  ASSUME Good, NEW stale \in SUBSET Listings, NEW batch \in SUBSET Listings,
         Claim(stale, batch)
  PROVE  Good'
<1>1. Onward /\ row' = row /\ log' = log /\ confirmed' = confirmed
  BY DEF Good, Onward, Others, Claim, providerVars, listingVars
<1>2. /\ job' = [l \in Listings |-> job'[l]] /\ open' = [l \in Listings |-> open'[l]]
      /\ check' = [l \in Listings |-> check'[l]] /\ early' = [l \in Listings |-> early'[l]]
  BY DEF Claim
<1>3. ASSUME NEW l \in Listings PROVE Scheduled(l)
  <2>1. /\ job[l] \in Jobs /\ open[l] \in Nat /\ confirmed[l] \in 0..Weekly
        /\ open[l] = IF job[l].status = "processing" THEN 1 ELSE 0
    BY Parts DEF Sound
  <2>. DEFINE st == IF l \in batch THEN "processing"
                    ELSE IF l \in stale THEN "pending" ELSE job[l].status
  <2>2. job'[l] = [job[l] EXCEPT !.status = st]
    BY DEF Claim
  <2>3. st \in {"pending", "processing"}
    BY <2>1 DEF Jobs
  <2>4. /\ job'[l] \in Jobs /\ job'[l].status = st /\ job'[l].due = job[l].due
        /\ job'[l].priority = job[l].priority
    <3>. HIDE DEF st
    <3>. QED
      BY <2>1, <2>2, <2>3 DEF Jobs
  <2>5. l \in batch => (job[l].status = "pending" \/ l \in stale) /\ job[l].due = 0
    BY DEF Claim, Claimable
  <2>6. open'[l] = (IF l \in stale THEN 0 ELSE open[l]) + (IF l \in batch THEN 1 ELSE 0)
    BY DEF Claim, Expired
  <2>7. open'[l] \in Nat /\ open'[l] = IF job'[l].status = "processing" THEN 1 ELSE 0
    BY <2>1, <2>4, <2>5, <2>6
  <2>8. /\ Begun \in Checks /\ Begun.pc = "ask" /\ Begun.attempt = "open"
        /\ Idle \in Checks /\ Idle.pc = "idle" /\ Idle.attempt = "closed"
    BY DEF Checks, Begun, Idle, Statuses
  <2>9. check'[l] = IF l \in batch THEN Begun ELSE Idle
    BY DEF Claim
  <2>10. /\ early'[l] \in Nat /\ early'[l] <= faults'
         /\ Owes(job'[l], confirmed[l], check'[l]) => early'[l] < faults'
    <3>1. early'[l] = IF l \in batch /\ ~job[l].priority /\ confirmed[l] < Weekly
                      THEN early[l] + 1 ELSE early[l]
      BY DEF Claim
    <3>2. check[l] = Idle /\ (l \in stale => job[l].status = "processing")
      BY DEF Claim, Abandoned
    <3>3. CASE l \in batch
      <4>1. ~job[l].priority /\ confirmed[l] < Weekly => Owes(job[l], confirmed[l], check[l])
        <5>1. job[l].status \in {"pending", "processing"}
          BY <2>1 DEF Jobs
        <5>2. 0 + confirmed[l] = confirmed[l]
          BY <2>1, DelayAssumption
        <5>. QED
          BY <2>5, <2>8, <3>2, <3>3, <5>1, <5>2 DEF Owes
      <4>2. ~Owes(job'[l], confirmed[l], check'[l])
        BY <2>8, <2>9, <3>3 DEF Owes
      <4>. QED
        BY <1>1, <3>1, <4>1, <4>2, Counted
    <3>4. CASE l \notin batch
      <4>1. Owes(job'[l], confirmed[l], check'[l]) => Owes(job[l], confirmed[l], check[l])
        BY <2>4, <2>8, <2>9, <3>2, <3>4 DEF Owes
      <4>. QED
        BY <1>1, <3>1, <3>4, <4>1, Counted
    <3>. QED
      BY <3>3, <3>4
  <2>11. /\ check'[l] \in Checks /\ check'[l].pc \notin {"save", "retry"}
         /\ check'[l].pc = "ask" => check'[l].attempt = "open"
         /\ check'[l].attempt = "open" => job'[l].status = "processing"
    BY <2>4, <2>8, <2>9
  <2>. QED
    BY <2>4, <2>7, <2>10, <2>11 DEF Scheduled
<1>. QED
  BY <1>1, <1>2, <1>3, JobSteps

(* A crash forgets the workers and leaves the jobs as they are.            *)
LEMMA CrashGood == ASSUME Good, Crash PROVE Good'
<1>1. feed' \in Polls
  BY DelayAssumption DEF Crash, NoPoll, Polls
<1>2. Onward /\ row' = row /\ log' = log /\ confirmed' = confirmed
      /\ job' = job /\ open' = open /\ early' = early /\ faults < faults'
  BY <1>1, FaultKept DEF Good, Onward, Others, Crash, providerVars, listingVars
<1>3. Idle \in Checks /\ Idle.pc = "idle" /\ Idle.attempt = "closed"
  BY DEF Checks, Idle, Statuses
<1>4. check' = [l \in Listings |-> Idle]
  BY DEF Crash
<1>5. /\ job' = [l \in Listings |-> job'[l]] /\ open' = [l \in Listings |-> open'[l]]
      /\ check' = [l \in Listings |-> check'[l]] /\ early' = [l \in Listings |-> early'[l]]
  BY <1>2, <1>4 DEF Good, Tables
<1>6. ASSUME NEW l \in Listings
      PROVE  /\ job'[l] \in Jobs /\ open'[l] \in Nat /\ check'[l] = Idle
             /\ open'[l] = IF job'[l].status = "processing" THEN 1 ELSE 0
             /\ early'[l] \in Nat /\ early'[l] < faults' /\ early'[l] <= faults'
  <2>1. job[l] \in Jobs /\ open[l] \in Nat /\ Sound(l)
    BY Parts
  <2>. QED
    BY <1>2, <1>4, <2>1, Counted DEF Sound, Jobs
<1>. QED
  BY <1>2, <1>3, <1>5, <1>6, JobSteps DEF Scheduled

(* A request brings pending jobs forward and marks them.                   *)
LEMMA RequestGood ==
  ASSUME Good, Onward, NEW S \in SUBSET Listings, Requested(S), row' = row, log' = log,
         open' = open, confirmed' = confirmed, early' = early, check' = check
  PROVE  Good'
<1>1. /\ job' = [l \in Listings |-> job'[l]] /\ open' = [l \in Listings |-> open'[l]]
      /\ check' = [l \in Listings |-> check'[l]] /\ early' = [l \in Listings |-> early'[l]]
  BY DEF Requested, Good, Tables
<1>2. ASSUME NEW l \in Listings PROVE Scheduled(l)
  <2>1. job[l] \in Jobs /\ open[l] \in Nat /\ check[l] \in Checks /\ Sound(l)
    BY Parts
  <2>2. job'[l] = IF l \in S /\ job[l].status = "pending"
                  THEN [job[l] EXCEPT !.due = 0, !.priority = TRUE] ELSE job[l]
    BY DEF Requested
  <2>3. CASE l \in S /\ job[l].status = "pending"
    <3>1. 0 \in 0..Most(ActiveDelay, MaxDelay)
      BY Delays
    <3>2. job'[l] \in Jobs /\ job'[l].priority /\ job'[l].due = 0 /\ job'[l].status = "pending"
      BY <2>1, <2>2, <2>3, <3>1 DEF Jobs
    <3>3. open'[l] = open[l] /\ check'[l] = check[l]
      OBVIOUS
    <3>4. open[l] = 0 /\ check[l].pc \notin {"ask", "save"} /\ check[l].attempt # "open"
      BY <2>1, <2>3 DEF Sound
    <3>5. open'[l] \in Nat /\ open'[l] = IF job'[l].status = "processing" THEN 1 ELSE 0
      BY <3>2, <3>3, <3>4
    <3>6. /\ check'[l] \in Checks /\ check'[l].pc \notin {"ask", "save"}
          /\ check'[l].attempt # "open"
      BY <2>1, <3>3, <3>4
    <3>7. ~Owes(job'[l], confirmed[l], check'[l])
      BY <3>2 DEF Owes
    <3>. QED
      BY <3>2, <3>5, <3>6, <3>7, Counted DEF Scheduled
  <2>4. CASE ~(l \in S /\ job[l].status = "pending")
    <3>1. job'[l] = job[l]
      BY <2>2, <2>4
    <3>2. open'[l] = open[l] /\ check'[l] = check[l]
      OBVIOUS
    <3>. QED
      BY <2>1, <3>1, <3>2, Counted DEF Sound, Scheduled
  <2>. QED
    BY <2>3, <2>4
<1>. QED
  BY <1>1, <1>2, JobSteps

LEMMA RequestSteps ==
  ASSUME Good, MatchTries \/ \E S \in SUBSET Listings : Prioritize(S)
  PROVE  Good'
<1>1. ASSUME NEW S \in SUBSET Listings, Prioritize(S) PROVE Good'
  <2>1. Onward /\ row' = row /\ log' = log /\ open' = open /\ confirmed' = confirmed
        /\ early' = early /\ check' = check
    BY <1>1 DEF Good, Onward, Others, Prioritize, providerVars, listingVars
  <2>2. {l \in S : row[l].status # "inactive"} \in SUBSET Listings
        /\ Requested({l \in S : row[l].status # "inactive"})
    BY <1>1 DEF Prioritize
  <2>. QED
    BY <2>1, <2>2, RequestGood
<1>2. CASE MatchTries
  <2>1. Onward /\ row' = row /\ log' = log /\ open' = open /\ confirmed' = confirmed
        /\ early' = early /\ check' = check
    BY <1>2 DEF Good, Onward, Others, MatchTries, providerVars, listingVars
  <2>2. CASE Missing = {}
    <3>1. job' = job
      BY <1>2, <2>2 DEF MatchTries
    <3>. QED
      BY <2>1, <3>1, Quiet DEF listingVars, checkVars
  <2>3. CASE Missing # {}
    <3>1. Requested(Missing) /\ Missing \in SUBSET Listings
      BY <1>2, <2>3 DEF MatchTries, Missing, Good, Onward, Others
    <3>. QED
      BY <2>1, <3>1, RequestGood
  <2>. QED
    BY <2>2, <2>3
<1>. QED
  BY <1>1, <1>2

-----------------------------------------------------------------------------
(* The theorems.                                                           *)

LEMMA StepGood == Good /\ [Next]_vars => Good'
<1>. SUFFICES ASSUME Good, [Next]_vars PROVE Good'
  OBVIOUS
<1>1. ASSUME Next PROVE Good'
  <2>1. CASE \/ Tick \/ FeedStep \/ MatchTries \/ FeedFails \/ Crash
    BY <2>1, TickGood, DiscoverGood, SightingGood, QuietSteps, RequestSteps, CrashGood
       DEF FeedStep
  <2>2. ASSUME NEW l \in Listings,
               \/ Flip(l) \/ CheckStep(l) \/ AnswerLost(l) \/ CheckFails(l) \/ RetryFails(l)
               \/ SignalFindsGone(l) \/ SignalCommits(l) \/ SignalDropped(l)
        PROVE  Good'
    BY <2>2, QuietSteps, WorkerSteps, CompleteGood, RetryGood, SignalGood DEF CheckStep
  <2>3. ASSUME NEW S \in SUBSET Listings, FeedFetches(S) \/ Prioritize(S) \/ EventOccurs(S)
        PROVE  Good'
    BY <2>3, QuietSteps, RequestSteps
  <2>4. ASSUME NEW stale \in SUBSET Listings, NEW batch \in SUBSET Listings,
               Claim(stale, batch)
        PROVE  Good'
    BY <2>4, ClaimGood
  <2>. QED
    BY <1>1, <2>1, <2>2, <2>3, <2>4 DEF Next, FaultStep
<1>2. CASE UNCHANGED vars
  <2>1. Onward
    BY <1>2 DEF Good, Onward, Others, vars, providerVars
  <2>. QED
    BY <1>2, <2>1, Quiet DEF vars
<1>. QED
  BY <1>1, <1>2

(* Everything IInv says holds in every state: the types, the history, the  *)
(* attempts, and what the schedule of checks relies on.                    *)
THEOREM Inductive == Spec => []IInv
<1>1. Init => IInv
  BY InitGood, IInvGood
<1>2. IInv /\ [Next]_vars => IInv'
  BY StepGood, IInvGood
<1>. QED
  BY <1>1, <1>2, PTL DEF Spec

(* Every variable keeps its type; delays stay within their cap however     *)
(* often the checks of a listing are inconclusive.                         *)
THEOREM TypeCorrect == Spec => []TypeOK
<1>1. IInv => TypeOK
  BY DEF IInv
<1>. QED
  BY <1>1, Inductive, PTL

(* The observation rows of every listing explain its status, whatever the  *)
(* order in which feed, tracker and signal workers write.                  *)
THEOREM HistoryHolds == Spec => []LogExplainsStatus
<1>1. IInv => LogExplainsStatus
  BY DEF IInv
<1>. QED
  BY <1>1, Inductive, PTL

(* A job is claimed exactly while one of its attempts is open, through     *)
(* crashes, lost answers and take-overs.                                   *)
THEOREM OneAttempt == Spec => []OneOpenAttempt
<1>1. IInv => OneOpenAttempt
  BY DEF IInv
<1>. QED
  BY <1>1, Inductive, PTL

(* Every check of a confirmed advert that begins within a week of the last *)
(* and that nobody asked for is paid for by a fault.                       *)
THEOREM Sparing == Spec => []EarlyChecksNeedFaults
<1>1. IInv => EarlyChecksNeedFaults
  BY DEF IInv
<1>. QED
  BY <1>1, Inductive, PTL
=============================================================================
