-------------------------- MODULE SignalJobs_proofs --------------------------
(***************************************************************************)
(* Proofs about SignalJobs, for every set of listings, every set of facts  *)
(* and every bound.                                                        *)
(***************************************************************************)
EXTENDS SignalJobs, TLAPS

(* What a new snapshot adds to a sequence of snapshots.                    *)
LEMMA AppendToSet ==
  ASSUME NEW S, NEW s \in Seq(S), NEW x \in S
  PROVE  /\ x \in ToSet(Append(s, x))
         /\ Append(s, x) \in Seq(S)
<1>1. Append(s, x)[Len(s) + 1] = x /\ Len(s) + 1 \in DOMAIN Append(s, x)
  OBVIOUS
<1>. QED
  BY <1>1 DEF ToSet

(* Storing a result gives its listing a snapshot of just that evidence.    *)
LEMMA StoreFacts ==
  ASSUME TypeOK, NEW l \in Listings, work[l].got \in Facts, StoreResult(l)
  PROVE  /\ fact' \in [Listings -> Facts \cup {None}]
         /\ snaps' \in [Listings -> Seq(Facts)]
         /\ job' \in [Listings -> {"none", "pending", "processing", "completed"}]
         /\ fact'[l] = work[l].got /\ fact'[l] \in ToSet(snaps'[l])
         /\ job'[l] = "completed"
         /\ \A m \in Listings \ {l} :
              fact'[m] = fact[m] /\ snaps'[m] = snaps[m] /\ job'[m] = job[m]
<1>1. snaps'[l] = (IF work[l].got \in ToSet(snaps[l]) THEN snaps[l]
                   ELSE Append(snaps[l], work[l].got))
  BY DEF StoreResult, TypeOK
<1>2. snaps[l] \in Seq(Facts)
  BY DEF TypeOK
<1>3. work[l].got \in ToSet(snaps'[l]) /\ snaps'[l] \in Seq(Facts)
  BY <1>1, <1>2, AppendToSet
<1>4. snaps' \in [Listings -> Seq(Facts)]
  BY <1>3 DEF StoreResult, TypeOK
<1>. QED
  BY <1>3, <1>4 DEF StoreResult, TypeOK

(* What IInv says of one listing.                                          *)
Sound(l) ==
  /\ fact[l] = None <=> gen[l] = 0
  /\ gen[l] = 0 <=> job[l] = "none"
  /\ work[l].gen <= gen[l]
  /\ work[l] # Idle => work[l].gen > 0 /\ work[l].seen # None
  /\ work[l].pc \in {"collect", "lock", "complete"} /\ Current(l)
       => work[l].seen = fact[l] /\ job[l] = "processing"
  /\ work[l].pc \in {"lock", "complete"} => work[l].got # None
  /\ work[l].pc = "complete" => Current(l) /\ l \notin FeedJobs
  /\ job[l] = "completed" => fact[l] \in ToSet(snaps[l])
  /\ l \in feed.at => Changes(l)

LEMMA IInvSound == TypeOK => (IInv <=> \A l \in Listings : Sound(l))
<1>. SUFFICES ASSUME TypeOK PROVE IInv <=> \A l \in Listings : Sound(l)
  OBVIOUS
<1>1. feed.at \subseteq Listings
  BY DEF TypeOK
<1>. QED
  BY <1>1 DEF IInv, Sound, CompletedIsCurrent

LEMMA InitSound == Init => TypeOK /\ IInv
<1>. SUFFICES ASSUME Init PROVE TypeOK /\ IInv
  OBVIOUS
<1>1. TypeOK
  <2>1. feed \in [todo : SUBSET Listings, at : SUBSET Listings, done : SUBSET Listings,
                 incoming : [Listings -> Facts]]
    BY DEF Init, NoFeed, Facts
  <2>2. work \in [Listings -> [pc : {"idle", "collect", "lock", "complete", "retry"},
                   gen : Nat, seen : Facts \cup {None}, got : Facts \cup {None}]]
    BY DEF Init, Idle
  <2>3. snaps \in [Listings -> Seq(Facts)]
    BY DEF Init
  <2>4. changes \in 0..MaxChanges /\ faults \in 0..MaxFaults
    BY SignalBoundsAssumption DEF Init
  <2>. QED
    BY <2>1, <2>2, <2>3, <2>4 DEF Init, TypeOK
<1>2. \A l \in Listings : Sound(l)
  BY DEF Init, Sound, NoFeed, Idle, Current, FeedJobs, Changes
<1>. QED
  BY <1>1, <1>2, IInvSound

-----------------------------------------------------------------------------
(* The steps.  Sound is shown of a listing at a time.                      *)

(* A listing whose row, job and worker stay, and that the feed does not    *)
(* take in hand or in its jobs, stays sound.                               *)
LEMMA SoundKept ==
  ASSUME NEW m, Sound(m),
         fact'[m] = fact[m], gen'[m] = gen[m], job'[m] = job[m],
         snaps'[m] = snaps[m], work'[m] = work[m],
         m \in feed'.at => m \in feed.at,
         m \in feed'.done => m \in feed.done,
         feed'.incoming = feed.incoming \/ (m \notin feed'.at /\ m \notin feed'.done)
  PROVE  Sound(m)'
  BY DEF Sound, Current, FeedJobs, Changes

(* The feed begins, or ends without effect.                                *)
LEMMA FeedBeginsSound ==
  ASSUME TypeOK, \A m \in Listings : Sound(m), NEW batch \in SUBSET Listings,
         FeedBegins(batch)
  PROVE  TypeOK' /\ \A m \in Listings : Sound(m)'
<1>. USE DEF FeedBegins, providerVars, storeVars
<1>1. feed'.at = {} /\ feed'.done = {}
  BY DEF NoFeed
<1>2. feed' \in [todo : SUBSET Listings, at : SUBSET Listings, done : SUBSET Listings,
                 incoming : [Listings -> Facts]]
  BY DEF NoFeed, TypeOK, Facts
<1>. QED
  BY <1>1, <1>2, SoundKept DEF TypeOK

LEMMA FeedGone ==
  ASSUME TypeOK, \A m \in Listings : Sound(m), feed' = NoFeed,
         UNCHANGED <<providerVars, storeVars, work>>, faults' \in 0..MaxFaults
  PROVE  TypeOK' /\ \A m \in Listings : Sound(m)'
<1>. USE DEF providerVars, storeVars
<1>1. feed'.at = {} /\ feed'.done = {}
  BY DEF NoFeed
<1>2. feed' \in [todo : SUBSET Listings, at : SUBSET Listings, done : SUBSET Listings,
                 incoming : [Listings -> Facts]]
  BY DEF NoFeed, Facts
<1>. QED
  BY <1>1, <1>2, SoundKept DEF TypeOK

LEMMA FeedLocksSound ==
  ASSUME TypeOK, \A m \in Listings : Sound(m), NEW l \in Listings, FeedLocksListing(l)
  PROVE  TypeOK' /\ \A m \in Listings : Sound(m)'
<1>. USE DEF FeedLocksListing, providerVars, storeVars
<1>1. TypeOK'
  BY DEF TypeOK
<1>2. feed'.at = (IF Changes(l) THEN {l} ELSE {}) /\ feed'.incoming = feed.incoming
      /\ feed'.done = (IF Changes(l) THEN feed.done ELSE feed.done \cup {l})
  BY DEF TypeOK
<1>3. ASSUME NEW m \in Listings PROVE Sound(m)'
  BY <1>2, <1>3 DEF Sound, Current, FeedJobs, Changes
<1>. QED
  BY <1>1, <1>3

(* The feed takes the job row of l, whose worker has been aborted.         *)
LEMMA FeedTakesJob ==
  ASSUME TypeOK, \A m \in Listings : Sound(m), NEW l \in Listings,
         feed' = [feed EXCEPT !.at = {}, !.done = @ \cup {l}],
         UNCHANGED <<providerVars, storeVars, faults>>,
         work' \in [Listings -> [pc : {"idle", "collect", "lock", "complete", "retry"},
                       gen : Nat, seen : Facts \cup {None}, got : Facts \cup {None}]],
         \A m \in Listings \ {l} : work'[m] = work[m],
         work[l] # Idle, work'[l] = [work[l] EXCEPT !.pc = "retry"]
  PROVE  TypeOK' /\ \A m \in Listings : Sound(m)'
<1>. USE DEF providerVars, storeVars
<1>1. TypeOK'
  BY DEF TypeOK
<1>2. feed'.at = {} /\ feed'.incoming = feed.incoming /\ feed'.done = feed.done \cup {l}
  BY DEF TypeOK
<1>3. work[l] \in [pc : {"idle", "collect", "lock", "complete", "retry"},
                   gen : Nat, seen : Facts \cup {None}, got : Facts \cup {None}]
  BY DEF TypeOK
<1>4. /\ work'[l].pc # "complete"
      /\ work'[l].gen = work[l].gen /\ work'[l].seen = work[l].seen
      /\ work'[l] # Idle => work[l] # Idle
      /\ work'[l].pc \in {"collect", "lock", "complete"} => work'[l] = work[l]
  BY <1>3
<1>5. Sound(l)'
  BY <1>2, <1>4 DEF Sound, Current, FeedJobs, Changes
<1>6. ASSUME NEW m \in Listings \ {l} PROVE Sound(m)'
  BY <1>2, SoundKept
<1>. QED
  BY <1>1, <1>5, <1>6

LEMMA FeedCommitsSound ==
  ASSUME TypeOK, \A m \in Listings : Sound(m), FeedCommits
  PROVE  TypeOK' /\ \A m \in Listings : Sound(m)'
<1>. USE DEF FeedCommits, providerVars
<1>1. feed'.at = {} /\ feed'.done = {}
  BY DEF NoFeed
<1>2. feed' \in [todo : SUBSET Listings, at : SUBSET Listings, done : SUBSET Listings,
                 incoming : [Listings -> Facts]]
  BY DEF NoFeed, Facts
<1>3. TypeOK'
  BY <1>2 DEF TypeOK
<1>4. ASSUME NEW m \in Listings PROVE Sound(m)'
  <2>1. CASE m \in FeedJobs
    <3>1. fact'[m] = feed.incoming[m] /\ fact'[m] # None
      BY <2>1, FactsAssumption DEF FeedJobs, TypeOK
    <3>2. gen'[m] = gen[m] + 1 /\ job'[m] = "pending" /\ gen[m] \in Nat /\ work[m].gen \in Nat
      BY <2>1 DEF TypeOK
    <3>3. work[m].gen < gen'[m] /\ work[m].pc # "complete"
      BY <2>1, <3>2 DEF Sound
    <3>. QED
      BY <1>1, <3>1, <3>2, <3>3 DEF Sound, Current
  <2>2. CASE m \notin FeedJobs
    <3>1. fact'[m] = fact[m] /\ gen'[m] = gen[m] /\ job'[m] = job[m]
      BY <2>2 DEF FeedJobs, Changes, TypeOK
    <3>. QED
      BY <1>1, <3>1, SoundKept
  <2>. QED
    BY <2>1, <2>2
<1>. QED
  BY <1>3, <1>4

-----------------------------------------------------------------------------
(* The workers.                                                            *)

WorkStates == [pc : {"idle", "collect", "lock", "complete", "retry"},
               gen : Nat, seen : Facts \cup {None}, got : Facts \cup {None}]

(* Only the worker on l moves, to w, and nothing else changes.             *)
LEMMA WorkMoves ==
  ASSUME TypeOK, \A m \in Listings : Sound(m), NEW l \in Listings, NEW w \in WorkStates,
         UNCHANGED <<providerVars, storeVars, feed>>, faults' \in 0..MaxFaults,
         work' = [work EXCEPT ![l] = w],
         w.gen <= gen[l],
         w # Idle => w.gen > 0 /\ w.seen # None,
         w.pc \in {"collect", "lock", "complete"} /\ w.gen = gen[l]
           => w.seen = fact[l] /\ job[l] = "processing",
         w.pc \in {"lock", "complete"} => w.got # None,
         w.pc = "complete" => w.gen = gen[l] /\ l \notin FeedJobs
  PROVE  TypeOK' /\ \A m \in Listings : Sound(m)'
<1>. USE DEF providerVars, storeVars
<1>1. TypeOK'
  BY DEF TypeOK, WorkStates
<1>2. work'[l] = w /\ \A m \in Listings \ {l} : work'[m] = work[m]
  BY DEF TypeOK
<1>3. Sound(l)'
  BY <1>2 DEF Sound, Current, FeedJobs, Changes
<1>4. ASSUME NEW m \in Listings \ {l} PROVE Sound(m)'
  BY <1>2, SoundKept
<1>. QED
  BY <1>1, <1>3, <1>4

(* A worker that gives its job up for now, keeping what it knows of it.    *)
LEMMA WorkToRetry ==
  ASSUME TypeOK, \A m \in Listings : Sound(m), NEW l \in Listings, work[l] # Idle,
         UNCHANGED <<providerVars, storeVars, feed>>, faults' \in 0..MaxFaults,
         work' = [work EXCEPT ![l].pc = "retry"]
  PROVE  TypeOK' /\ \A m \in Listings : Sound(m)'
<1>. DEFINE w == [work[l] EXCEPT !.pc = "retry"]
<1>1. work[l] \in WorkStates
  BY DEF TypeOK, WorkStates
<1>2. w \in WorkStates /\ w.pc = "retry" /\ w.gen = work[l].gen /\ w.seen = work[l].seen
  BY <1>1 DEF WorkStates
<1>3. work' = [work EXCEPT ![l] = w]
  OBVIOUS
<1>4. w.gen <= gen[l] /\ w.gen > 0 /\ w.seen # None
  BY <1>2 DEF Sound
<1>. HIDE DEF w
<1>. QED
  BY <1>2, <1>3, <1>4, WorkMoves

LEMMA WorkToIdle ==
  ASSUME TypeOK, \A m \in Listings : Sound(m), NEW l \in Listings,
         UNCHANGED <<providerVars, storeVars, feed>>, faults' \in 0..MaxFaults,
         work' = [work EXCEPT ![l] = Idle]
  PROVE  TypeOK' /\ \A m \in Listings : Sound(m)'
<1>1. Idle \in WorkStates /\ Idle.pc = "idle" /\ Idle.gen = 0
  BY DEF Idle, WorkStates
<1>2. Idle.gen <= gen[l]
  BY <1>1 DEF TypeOK
<1>. QED
  BY <1>1, <1>2, WorkMoves

LEMMA CollectSound ==
  ASSUME TypeOK, \A m \in Listings : Sound(m), NEW l \in Listings, Collect(l)
  PROVE  TypeOK' /\ \A m \in Listings : Sound(m)'
<1>. USE DEF Collect
<1>1. work[l] \in WorkStates /\ work[l] # Idle
  BY DEF TypeOK, WorkStates, Idle
<1>2. work[l].seen \in Facts /\ page[l] \in Facts
  BY <1>1 DEF Sound, WorkStates, TypeOK, Facts
<1>3. PICK f \in Facts : work' = [work EXCEPT ![l].pc = "lock", ![l].got = f]
  BY <1>2
<1>. DEFINE w == [work[l] EXCEPT !.pc = "lock", !.got = f]
<1>4. /\ w \in WorkStates /\ w.pc = "lock" /\ w.got # None
      /\ w.gen = work[l].gen /\ w.seen = work[l].seen
  BY <1>1, FactsAssumption DEF WorkStates
<1>5. work' = [work EXCEPT ![l] = w]
  BY <1>3 DEF TypeOK
<1>6. /\ w.gen <= gen[l] /\ w.gen > 0 /\ w.seen # None
      /\ w.gen = gen[l] => w.seen = fact[l] /\ job[l] = "processing"
  BY <1>1, <1>4 DEF Sound, Current
<1>7. UNCHANGED <<providerVars, storeVars, feed>> /\ faults' \in 0..MaxFaults
  BY DEF TypeOK
<1>. HIDE DEF w, Collect
<1>. QED
  BY <1>4, <1>5, <1>6, <1>7, WorkMoves

LEMMA CompleteLocksSound ==
  ASSUME TypeOK, \A m \in Listings : Sound(m), NEW l \in Listings, CompleteLocksJob(l)
  PROVE  TypeOK' /\ \A m \in Listings : Sound(m)'
<1>. USE DEF CompleteLocksJob
<1>1. UNCHANGED <<providerVars, storeVars, feed>> /\ faults' \in 0..MaxFaults
  BY DEF TypeOK
<1>2. CASE ~Current(l)
  BY <1>1, <1>2, WorkToIdle
<1>3. CASE Current(l)
  <2>. DEFINE w == [work[l] EXCEPT !.pc = "complete"]
  <2>1. work[l] \in WorkStates /\ work[l] # Idle
    BY DEF TypeOK, WorkStates, Idle
  <2>2. /\ w \in WorkStates /\ w.pc = "complete" /\ w.got = work[l].got
        /\ w.gen = work[l].gen /\ w.seen = work[l].seen
    BY <2>1 DEF WorkStates
  <2>3. work' = [work EXCEPT ![l] = w]
    BY <1>3
  <2>4. /\ w.gen = gen[l] /\ w.gen <= gen[l] /\ w.gen > 0 /\ w.seen # None
        /\ w.got # None /\ w.seen = fact[l] /\ job[l] = "processing"
    BY <1>3, <2>1, <2>2 DEF Sound, Current
  <2>5. l \notin FeedJobs
    BY DEF JobRowFree
  <2>. HIDE DEF w, CompleteLocksJob
  <2>. QED
    BY <1>1, <2>2, <2>3, <2>4, <2>5, WorkMoves
<1>. QED
  BY <1>2, <1>3

(* Storing the result, with the worker then idle or unsure of it.          *)
LEMMA StoreSound ==
  ASSUME TypeOK, \A m \in Listings : Sound(m), NEW l \in Listings,
         work[l].pc = "complete", l \notin FeedRows, StoreResult(l),
         UNCHANGED <<providerVars, gen, initialized, feed>>, faults' \in 0..MaxFaults,
         NEW w \in WorkStates, work' = [work EXCEPT ![l] = w],
         w.pc \in {"idle", "retry"}, w.gen <= work[l].gen,
         w # Idle => w.gen > 0 /\ w.seen # None
  PROVE  TypeOK' /\ \A m \in Listings : Sound(m)'
<1>. USE DEF providerVars
<1>1. work[l].got \in Facts
  BY DEF Sound, TypeOK
<1>2. /\ fact' \in [Listings -> Facts \cup {None}]
      /\ snaps' \in [Listings -> Seq(Facts)]
      /\ job' \in [Listings -> {"none", "pending", "processing", "completed"}]
      /\ fact'[l] = work[l].got /\ fact'[l] \in ToSet(snaps'[l])
      /\ job'[l] = "completed"
      /\ \A m \in Listings \ {l} :
           fact'[m] = fact[m] /\ snaps'[m] = snaps[m] /\ job'[m] = job[m]
  BY <1>1, StoreFacts
<1>3. work'[l] = w /\ \A m \in Listings \ {l} : work'[m] = work[m]
  BY DEF TypeOK
<1>4. TypeOK'
  BY <1>2 DEF TypeOK, WorkStates
<1>5. Sound(l)'
  <2>1. gen'[l] = gen[l] /\ gen[l] # 0 /\ w.gen <= gen[l]
    <3>1. gen[l] \in Nat /\ work[l].gen \in Nat /\ w.gen \in Nat /\ work[l] # Idle
      BY DEF TypeOK, Idle, WorkStates
    <3>. QED
      BY <3>1 DEF Sound
  <2>2. fact'[l] # None
    BY <1>1, <1>2, FactsAssumption
  <2>3. l \notin feed'.at
    BY DEF FeedRows
  <2>. QED
    BY <1>2, <1>3, <2>1, <2>2, <2>3 DEF Sound
<1>6. ASSUME NEW m \in Listings \ {l} PROVE Sound(m)'
  BY <1>2, <1>3, SoundKept
<1>. QED
  BY <1>4, <1>5, <1>6

LEMMA CompleteCommitsSound ==
  ASSUME TypeOK, \A m \in Listings : Sound(m), NEW l \in Listings, CompleteCommits(l)
  PROVE  TypeOK' /\ \A m \in Listings : Sound(m)'
<1>1. Idle \in WorkStates /\ Idle.pc = "idle" /\ Idle.gen = 0
  BY DEF Idle, WorkStates
<1>2. Idle.gen <= work[l].gen
  BY <1>1 DEF TypeOK
<1>3. faults' \in 0..MaxFaults
  BY DEF TypeOK, CompleteCommits
<1>. QED
  BY <1>1, <1>2, <1>3, StoreSound DEF CompleteCommits

LEMMA AnswerLostSound ==
  ASSUME TypeOK, \A m \in Listings : Sound(m), NEW l \in Listings, AnswerLost(l)
  PROVE  TypeOK' /\ \A m \in Listings : Sound(m)'
<1>. DEFINE w == [work[l] EXCEPT !.pc = "retry"]
<1>1. work[l] \in WorkStates /\ work[l] # Idle
  BY DEF TypeOK, WorkStates, Idle, AnswerLost
<1>2. w \in WorkStates /\ w.pc = "retry" /\ w.gen = work[l].gen /\ w.seen = work[l].seen
  BY <1>1 DEF WorkStates
<1>3. work' = [work EXCEPT ![l] = w]
  BY DEF AnswerLost
<1>4. w.gen <= work[l].gen /\ w.gen > 0 /\ w.seen # None
  BY <1>1, <1>2 DEF Sound, WorkStates
<1>5. faults' \in 0..MaxFaults
  BY SignalBoundsAssumption DEF TypeOK, AnswerLost, Fault
<1>. HIDE DEF w
<1>. QED
  BY <1>2, <1>3, <1>4, <1>5, StoreSound DEF AnswerLost

LEMMA WorkFailsSound ==
  ASSUME TypeOK, \A m \in Listings : Sound(m), NEW l \in Listings, WorkFails(l)
  PROVE  TypeOK' /\ \A m \in Listings : Sound(m)'
<1>1. work[l] # Idle
  BY DEF WorkFails, Idle
<1>2. faults' \in 0..MaxFaults
  BY SignalBoundsAssumption DEF TypeOK, WorkFails, Fault
<1>. QED
  BY <1>1, <1>2, WorkToRetry DEF WorkFails

LEMMA RetryFailsSound ==
  ASSUME TypeOK, \A m \in Listings : Sound(m), NEW l \in Listings, RetryFails(l)
  PROVE  TypeOK' /\ \A m \in Listings : Sound(m)'
<1>1. faults' \in 0..MaxFaults
  BY SignalBoundsAssumption DEF TypeOK, RetryFails, Fault
<1>. QED
  BY <1>1, WorkToIdle DEF RetryFails

LEMMA RetrySound ==
  ASSUME TypeOK, \A m \in Listings : Sound(m), NEW l \in Listings, Retry(l)
  PROVE  TypeOK' /\ \A m \in Listings : Sound(m)'
<1>. USE DEF Retry, providerVars
<1>1. Idle.pc = "idle" /\ Idle.gen = 0 /\ Idle \in WorkStates
  BY DEF Idle, WorkStates
<1>2. TypeOK'
  BY <1>1 DEF TypeOK, WorkStates
<1>3. work'[l] = Idle /\ job'[l] = (IF Current(l) THEN "pending" ELSE job[l])
  BY DEF TypeOK
<1>4. \A m \in Listings \ {l} : work'[m] = work[m] /\ job'[m] = job[m]
  BY DEF TypeOK
<1>5. Sound(l)'
  <2>1. Current(l) => gen[l] # 0
    <3>1. work[l] # Idle /\ work[l].gen \in Nat /\ gen[l] \in Nat
      BY DEF TypeOK, Idle
    <3>. QED
      BY <3>1 DEF Sound, Current
  <2>2. gen'[l] = gen[l] /\ Idle.gen <= gen[l]
    BY <1>1 DEF TypeOK
  <2>. QED
    BY <1>1, <1>3, <2>1, <2>2 DEF Sound, Changes
<1>6. ASSUME NEW m \in Listings \ {l} PROVE Sound(m)'
  BY <1>4, SoundKept
<1>. QED
  BY <1>2, <1>5, <1>6

(* Whoever is aborted, the other one's lock was taken in good order.       *)
LEMMA BreakDeadlockSound ==
  ASSUME TypeOK, \A m \in Listings : Sound(m), NEW l \in Listings, BreakDeadlock(l)
  PROVE  TypeOK' /\ \A m \in Listings : Sound(m)'
<1>1. CASE feed' = NoFeed /\ UNCHANGED work
  <2>1. UNCHANGED <<providerVars, storeVars, work>> /\ faults' \in 0..MaxFaults
    BY <1>1 DEF BreakDeadlock, TypeOK
  <2>. QED
    BY <1>1, <2>1, FeedGone
<1>2. CASE /\ work' = [work EXCEPT ![l].pc = "retry"]
           /\ feed' = [feed EXCEPT !.at = {}, !.done = @ \cup {l}]
  <2>1. work[l] # Idle
    BY DEF BreakDeadlock, Deadlocked, Idle
  <2>2. work' \in [Listings -> [pc : {"idle", "collect", "lock", "complete", "retry"},
                   gen : Nat, seen : Facts \cup {None}, got : Facts \cup {None}]]
    BY <1>2 DEF TypeOK
  <2>3. /\ \A m \in Listings \ {l} : work'[m] = work[m]
        /\ work'[l] = [work[l] EXCEPT !.pc = "retry"]
    BY <1>2 DEF TypeOK
  <2>4. UNCHANGED <<providerVars, storeVars, faults>>
    BY DEF BreakDeadlock
  <2>. QED
    BY <1>2, <2>1, <2>2, <2>3, <2>4, FeedTakesJob
<1>. QED
  BY <1>1, <1>2 DEF BreakDeadlock

LEMMA FeedQueuesSound ==
  ASSUME TypeOK, \A m \in Listings : Sound(m), NEW l \in Listings, FeedQueuesJob(l)
  PROVE  TypeOK' /\ \A m \in Listings : Sound(m)'
<1>. USE DEF FeedQueuesJob, providerVars, storeVars
<1>1. TypeOK'
  BY DEF TypeOK
<1>2. feed'.at = {} /\ feed'.incoming = feed.incoming /\ feed'.done = feed.done \cup {l}
  BY DEF TypeOK
<1>3. ASSUME NEW m \in Listings PROVE Sound(m)'
  BY <1>2 DEF Sound, Current, FeedJobs, Changes
<1>. QED
  BY <1>1, <1>3

LEMMA CrashSound ==
  ASSUME TypeOK, \A m \in Listings : Sound(m), Crash
  PROVE  TypeOK' /\ \A m \in Listings : Sound(m)'
<1>. USE DEF Crash, providerVars, storeVars
<1>1. feed'.at = {} /\ feed'.done = {}
  BY DEF NoFeed
<1>2. feed' \in [todo : SUBSET Listings, at : SUBSET Listings, done : SUBSET Listings,
                 incoming : [Listings -> Facts]]
  BY DEF NoFeed, Facts
<1>3. Idle \in WorkStates /\ Idle.pc = "idle" /\ Idle.gen = 0
  BY DEF Idle, WorkStates
<1>4. faults' \in 0..MaxFaults
  BY SignalBoundsAssumption DEF TypeOK, Fault
<1>5. TypeOK'
  BY <1>2, <1>3, <1>4 DEF TypeOK, WorkStates
<1>6. ASSUME NEW m \in Listings PROVE Sound(m)'
  <2>1. work'[m] = Idle /\ Idle.gen <= gen[m]
    BY <1>3 DEF TypeOK
  <2>. QED
    BY <1>1, <1>3, <2>1 DEF Sound
<1>. QED
  BY <1>5, <1>6

(* A claim takes jobs that are queued or abandoned, so the row is there.   *)
LEMMA ClaimSound ==
  ASSUME TypeOK, \A m \in Listings : Sound(m), NEW batch \in SUBSET Listings, Claim(batch)
  PROVE  TypeOK' /\ \A m \in Listings : Sound(m)'
<1>. USE DEF Claim, providerVars
<1>. DEFINE w(m) == [pc |-> "collect", gen |-> gen[m], seen |-> fact[m], got |-> None]
<1>1. \A m \in Listings : w(m) \in WorkStates
  BY DEF TypeOK, WorkStates
<1>2. work' \in [Listings -> WorkStates]
  BY <1>1 DEF TypeOK, WorkStates
<1>3. job' \in [Listings -> {"none", "pending", "processing", "completed"}]
  BY DEF TypeOK
<1>4. TypeOK'
  BY <1>2, <1>3 DEF TypeOK, WorkStates
<1>5. ASSUME NEW m \in Listings PROVE Sound(m)'
  <2>1. CASE m \notin batch
    <3>1. job'[m] = job[m] /\ work'[m] = work[m]
      BY <2>1 DEF TypeOK
    <3>. QED
      BY <3>1, SoundKept
  <2>2. CASE m \in batch
    <3>1. job'[m] = "processing" /\ work'[m] = w(m)
      BY <2>2
    <3>2. job[m] # "none" /\ gen[m] \in Nat
      BY <2>2 DEF Claimable, TypeOK
    <3>3. gen[m] > 0 /\ gen[m] # 0 /\ fact[m] # None
      BY <3>2 DEF Sound
    <3>4. gen[m] <= gen[m]
      BY <3>2
    <3>. QED
      BY <3>1, <3>3, <3>4 DEF Sound, Current, Changes
  <2>. QED
    BY <2>1, <2>2
<1>. QED
  BY <1>4, <1>5

LEMMA EditSound ==
  ASSUME TypeOK, \A m \in Listings : Sound(m), NEW l \in Listings, Edit(l)
  PROVE  TypeOK' /\ \A m \in Listings : Sound(m)'
<1>. USE DEF Edit, storeVars
<1>1. TypeOK'
  BY SignalBoundsAssumption DEF TypeOK
<1>2. \A m \in Listings : Sound(m)'
  BY SoundKept
<1>. QED
  BY <1>1, <1>2

-----------------------------------------------------------------------------
(* The theorems.                                                           *)

LEMMA StepSound == IInv /\ [Next]_vars => IInv'
<1>. SUFFICES ASSUME IInv, [Next]_vars PROVE IInv'
  OBVIOUS
<1>1. TypeOK /\ \A m \in Listings : Sound(m)
  BY IInvSound DEF IInv
<1>2. TypeOK' /\ \A m \in Listings : Sound(m)'
  <2>1. CASE FeedCommits
    BY <1>1, <2>1, FeedCommitsSound
  <2>2. CASE FeedFails
    <3>1. faults' \in 0..MaxFaults
      BY <1>1, <2>2, SignalBoundsAssumption DEF TypeOK, FeedFails, Fault
    <3>. QED
      BY <1>1, <2>2, <3>1, FeedGone DEF FeedFails
  <2>3. CASE Crash
    BY <1>1, <2>3, CrashSound
  <2>4. ASSUME NEW l \in Listings, FeedLocksListing(l) \/ FeedQueuesJob(l)
        PROVE TypeOK' /\ \A m \in Listings : Sound(m)'
    BY <1>1, <2>4, FeedLocksSound, FeedQueuesSound
  <2>5. ASSUME NEW l \in Listings, WorkerStep(l)
        PROVE TypeOK' /\ \A m \in Listings : Sound(m)'
    BY <1>1, <2>5, CollectSound, CompleteLocksSound, CompleteCommitsSound, RetrySound
       DEF WorkerStep
  <2>6. ASSUME NEW l \in Listings, AnswerLost(l) \/ WorkFails(l) \/ RetryFails(l)
        PROVE TypeOK' /\ \A m \in Listings : Sound(m)'
    BY <1>1, <2>6, AnswerLostSound, WorkFailsSound, RetryFailsSound
  <2>7. ASSUME NEW l \in Listings, Edit(l) \/ BreakDeadlock(l)
        PROVE TypeOK' /\ \A m \in Listings : Sound(m)'
    BY <1>1, <2>7, EditSound, BreakDeadlockSound
  <2>8. ASSUME NEW batch \in SUBSET Listings, FeedBegins(batch) \/ Claim(batch)
        PROVE TypeOK' /\ \A m \in Listings : Sound(m)'
    BY <1>1, <2>8, FeedBeginsSound, ClaimSound
  <2>9. CASE UNCHANGED vars
    <3>1. \A m \in Listings : Sound(m)'
      BY <1>1, <2>9, SoundKept DEF vars, storeVars
    <3>. QED
      BY <1>1, <2>9, <3>1 DEF vars, storeVars, providerVars, TypeOK
  <2>. QED
    BY <2>1, <2>2, <2>3, <2>4, <2>5, <2>6, <2>7, <2>8, <2>9
       DEF Next, FeedStep, FaultStep
<1>3. feed'.at \subseteq Listings
  BY <1>2 DEF TypeOK
<1>. QED
  BY <1>2, <1>3 DEF IInv, Sound, CompletedIsCurrent

(* Every reachable state has the lock order and the generations in order,  *)
(* and no more of them than IInv says.                                     *)
THEOREM Inductive == Spec => []IInv
<1>1. Init => IInv
  BY InitSound
<1>. QED
  BY <1>1, StepSound, PTL DEF Spec

THEOREM TypeCorrect == Spec => []TypeOK
<1>1. IInv => TypeOK
  BY DEF IInv
<1>. QED
  BY <1>1, Inductive, PTL

(* Whatever crashes, fails, is retried or loses a deadlock, a completed    *)
(* job means the stored evidence has its snapshot.                         *)
THEOREM CompletedHolds == Spec => []CompletedIsCurrent
<1>1. IInv => CompletedIsCurrent
  BY DEF IInv
<1>. QED
  BY <1>1, Inductive, PTL

(* No result is stored over evidence that changed since the claim.         *)
THEOREM NoLostUpdate == Spec => ResultsAreFresh
<1>1. IInv /\ [Next]_vars
        => [\A l \in Listings :
              job'[l] = "completed" /\ job[l] # "completed" => fact[l] = work[l].seen]_vars
  <2>. SUFFICES ASSUME IInv, Next, NEW l \in Listings,
                       job'[l] = "completed", job[l] # "completed"
                PROVE  fact[l] = work[l].seen
    OBVIOUS
  <2>1. TypeOK
    BY DEF IInv
  <2>2. CASE FeedCommits
    BY <2>1, <2>2 DEF FeedCommits, TypeOK
  <2>3. ASSUME NEW m \in Listings, Retry(m)
        PROVE FALSE
    BY <2>1, <2>3 DEF Retry, TypeOK
  <2>4. ASSUME NEW batch \in SUBSET Listings, Claim(batch)
        PROVE FALSE
    BY <2>1, <2>4 DEF Claim, TypeOK
  <2>5. ASSUME NEW m \in Listings, CompleteCommits(m) \/ AnswerLost(m)
        PROVE fact[l] = work[l].seen
    <3>1. l = m /\ work[l].pc = "complete"
      BY <2>1, <2>5 DEF CompleteCommits, AnswerLost, StoreResult, TypeOK
    <3>. QED
      BY <3>1 DEF IInv
  <2>6. ASSUME job' = job
        PROVE FALSE
    BY <2>6
  <2>. QED
    BY <2>2, <2>3, <2>4, <2>5, <2>6
       DEF Next, FeedStep, FaultStep, WorkerStep, FeedLocksListing, FeedQueuesJob, FeedFails,
           Crash, WorkFails, RetryFails, Edit, Collect, CompleteLocksJob, BreakDeadlock,
           FeedBegins, storeVars
<1>. QED
  BY <1>1, Inductive, PTL DEF Spec, ResultsAreFresh
=============================================================================
