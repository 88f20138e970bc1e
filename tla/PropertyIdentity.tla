-------------------------- MODULE PropertyIdentity --------------------------
(***************************************************************************)
(* The duplicate resolver: app/duplicate_resolver.go and                   *)
(* store/postgres/duplicate_resolver.go.  Each evidence snapshot of a      *)
(* listing gets one resolution job.  A worker reads the job's candidates   *)
(* outside any lock, evaluates them (DuplicateRule), and commits its       *)
(* decisions and the property memberships they imply in one transaction    *)
(* under the advisory lock, so commits and operator reassignments are      *)
(* single steps here.                                                      *)
(*                                                                         *)
(* What the commit does to availability jobs is left to the availability   *)
(* part.  Properties are numbered from 1; 0 stands for none.               *)
(***************************************************************************)
EXTENDS DuplicateRule

CONSTANTS Listings,
          Snapshots,      \* snapshot ids, given out in order
          ListingOf,      \* ListingOf[s]: the advert the evidence is of
          EvidenceOf,     \* EvidenceOf[s]: that evidence
          CandidateLimit, \* DuplicateResolver.candidateLimit
          Workers,        \* DuplicateResolver.workers, jobs per claim
          MaxProperties,  \* bound on properties
          MaxChanges      \* bound on faults and operator actions

ASSUME SnapshotsAssumption ==
  Snapshots \subseteq Nat /\ ListingOf \in [Snapshots -> Listings]
ASSUME ListingsAssumption == IsFiniteSet(Listings)
ASSUME EvidenceAssumption == EvidenceOf \in [Snapshots -> Evidence]
ASSUME ResolverBoundsAssumption ==
  /\ CandidateLimit \in Nat \ {0} /\ Workers \in Nat \ {0}
  /\ MaxProperties \in Nat /\ MaxChanges \in Nat

VARIABLES
  job,          \* job[s]: "none", "pending", "processing" or "completed"
  latest,       \* latest[l]: the newest snapshot of l, as a set of at most one
  working,      \* jobs in the hands of live workers
  read,         \* jobs of working whose candidates have been read
  found,        \* found[s]: those candidates
  taken,        \* taken[s]: those of them the rule accepts
  accepted,     \* decision rows whose status is accepted
  rejected,     \* decision rows with any other status
  member,       \* member[l]: the current property of l, or 0
  merged,       \* properties whose merged_into_property_id is set
  lastProperty, \* the highest property id given out
  reassigned,   \* history: listings an operator has moved
  overridden,   \* history: decisions an operator has overridden
  changes       \* faults and operator actions so far

workers == <<working, read, found, taken>>
decisions == <<accepted, rejected>>
identity == <<member, merged, lastProperty>>
operator == <<reassigned, overridden>>
vars == <<job, latest, workers, decisions, identity, operator, changes>>

\* Mutant: ReassignListingProperty without its merged_into check.
MutantAnyTarget == 1..lastProperty

Live == (1..lastProperty) \ merged
Change == changes < MaxChanges /\ changes' = changes + 1
LeastOf(S) == CHOOSE x \in S : \A y \in S : x <= y

(* s finds t: t meets the candidate query of s.  s takes t: the rule, when *)
(* s is being resolved, accepts the pair.                                  *)
Finds(s, t) == Meets(EvidenceOf[s], EvidenceOf[t])
Takes(s, t) == Accepted(EvidenceOf[s], EvidenceOf[t])

Init ==
  /\ job = [s \in Snapshots |-> "none"]
  /\ latest = [l \in Listings |-> {}]
  /\ working = {} /\ read = {}
  /\ found = [s \in Snapshots |-> {}] /\ taken = [s \in Snapshots |-> {}]
  /\ accepted = {} /\ rejected = {}
  /\ member = [l \in Listings |-> 0]
  /\ merged = {}
  /\ lastProperty = 0
  /\ reassigned = {} /\ overridden = {}
  /\ changes = 0

(* CompleteListingSignalJob stores a new snapshot and queues its job.      *)
AddSnapshot(s) ==
  /\ job[s] = "none" /\ \A t \in Snapshots : t < s => job[t] # "none"
  /\ job' = [job EXCEPT ![s] = "pending"]
  /\ latest' = [latest EXCEPT ![ListingOf[s]] = {s}]
  /\ UNCHANGED <<workers, decisions, identity, operator, changes>>

-----------------------------------------------------------------------------
(* DuplicateResolver.Run: the next claim waits for every worker, so a job  *)
(* still "processing" then was left by a process that died or a retry that *)
(* failed.                                                                 *)
\* Mutant: stale claims are never taken over.
MutantPendingOnly ==
  /\ working = {}
  /\ \E batch \in SUBSET {s \in Snapshots : job[s] = "pending"} :
       /\ batch # {} /\ Cardinality(batch) <= Workers
       /\ job' = [s \in Snapshots |-> IF s \in batch THEN "processing" ELSE job[s]]
       /\ working' = batch
  /\ UNCHANGED <<latest, read, found, taken, decisions, identity, operator, changes>>

Claim ==
  /\ working = {}
  /\ \E batch \in SUBSET {s \in Snapshots : job[s] \in {"pending", "processing"}} :
       /\ batch # {} /\ Cardinality(batch) <= Workers
       /\ job' = [s \in Snapshots |-> IF s \in batch THEN "processing" ELSE job[s]]
       /\ working' = batch
  /\ UNCHANGED <<latest, read, found, taken, decisions, identity, operator, changes>>

(* DuplicateCandidates: the newest of the matching latest snapshots of the *)
(* other listings.                                                         *)
\* Mutant: only evidence that is itself resolved is a candidate.
MutantResolvedOnly(s) ==
  {t \in UNION {latest[l] : l \in Listings \ {ListingOf[s]}} :
     Finds(s, t) /\ job[t] = "completed"}

Candidates(s) ==
  LET matching == {t \in UNION {latest[l] : l \in Listings \ {ListingOf[s]}} : Finds(s, t)}
  IN {t \in matching : Cardinality({u \in matching : u > t}) < CandidateLimit}

ReadCandidates(s) ==
  /\ s \in working \ read
  /\ read' = read \cup {s}
  /\ \E C \in {Candidates(s)} :
       /\ found' = [found EXCEPT ![s] = C]
       /\ taken' = [taken EXCEPT ![s] = {t \in C : Takes(s, t)}]
  /\ UNCHANGED <<job, latest, working, decisions, identity, operator, changes>>

(* insertDuplicateDecision keeps the row and the status of a pair it has   *)
(* seen, overridden or not.                                                *)
Pairs(s) == {{s, t} : t \in found[s]}
Evaluated(s) == {{s, t} : t \in taken[s]}
AcceptedNow(s) == {d \in Pairs(s) : d \in accepted \/ (d \in Evaluated(s) /\ d \notin rejected)}

(* The adverts that end up together: the resolved one, and the candidates  *)
(* of the accepted pairs.                                                  *)
Grouped(s) == {ListingOf[t] : t \in {s} \cup UNION AcceptedNow(s)}

(* ensureListingProperty and mergeProperties, over all decisions: adverts  *)
(* without a property get new ones, then every property of the group       *)
(* merges into the lowest id, taking all its adverts along.                *)
NewOnes(G) == {l \in G : member[l] = 0}
LastAfter(G) == lastProperty + Cardinality(NewOnes(G))
GroupOf(G) == {member[l] : l \in G \ NewOnes(G)} \cup (lastProperty + 1 .. LastAfter(G))
Survivor(G) == LeastOf(GroupOf(G))

\* Mutant: the adverts of the decisions move, the rest of their group stays.
MutantOnlyPairs(G) ==
  /\ LastAfter(G) <= MaxProperties
  /\ lastProperty' = LastAfter(G)
  /\ member' = [l \in Listings |-> IF l \in G THEN Survivor(G) ELSE member[l]]
  /\ UNCHANGED merged

MergeGroup(G) ==
  /\ LastAfter(G) <= MaxProperties
  /\ lastProperty' = LastAfter(G)
  /\ member' = [l \in Listings |->
                  IF l \in NewOnes(G) \/ member[l] \in GroupOf(G) THEN Survivor(G) ELSE member[l]]
  /\ merged' = merged \cup (GroupOf(G) \ {Survivor(G)})

\* Mutant: ON CONFLICT sets the status to the new evaluation's.
MutantReevaluate(s) ==
  /\ MergeGroup({ListingOf[t] : t \in {s} \cup UNION Evaluated(s)})
  /\ accepted' = (accepted \ Pairs(s)) \cup Evaluated(s)
  /\ rejected' = (rejected \ Pairs(s)) \cup (Pairs(s) \ Evaluated(s))

Commit(s) ==
  /\ MergeGroup(Grouped(s))
  /\ accepted' = accepted \cup AcceptedNow(s)
  /\ rejected' = rejected \cup (Pairs(s) \ AcceptedNow(s))

Release(S) ==
  /\ working' = working \ S /\ read' = read \ S
  /\ found' = [s \in Snapshots |-> IF s \in S THEN {} ELSE found[s]]
  /\ taken' = [s \in Snapshots |-> IF s \in S THEN {} ELSE taken[s]]

(* CompleteDuplicateResolutionJob.  Its early return for a completed job   *)
(* is out of reach while one process runs: nobody else commits the job.    *)
CommitJob(s) ==
  /\ s \in read
  /\ Commit(s)
  /\ job' = [job EXCEPT ![s] = "completed"]
  /\ Release({s})
  /\ UNCHANGED <<latest, operator, changes>>

(* A query or the commit fails, the commit perhaps only in its answer; the *)
(* retry makes the job pending whatever it was, or fails as well and       *)
(* leaves the claim to go stale.                                           *)
FailJob(s) ==
  /\ s \in working /\ Change
  /\ \/ UNCHANGED <<job, decisions, identity>>
     \/ /\ job' = [job EXCEPT ![s] = "pending"]
        /\ UNCHANGED <<decisions, identity>>
     \/ /\ job' = [job EXCEPT ![s] = "pending"]
        /\ s \in read /\ Commit(s)
  /\ Release({s})
  /\ UNCHANGED <<latest, operator>>

(* The process dies with its workers; their claims go stale.               *)
Crash ==
  /\ working # {} /\ Change
  /\ Release(working)
  /\ UNCHANGED <<job, latest, decisions, identity, operator>>

-----------------------------------------------------------------------------
(* Operator corrections.                                                   *)

(* OverrideDuplicateDecision, to ambiguous or rejected and back.           *)
Override(d) ==
  /\ Change
  /\ \/ d \in accepted /\ accepted' = accepted \ {d} /\ rejected' = rejected \cup {d}
     \/ d \in rejected /\ accepted' = accepted \cup {d} /\ rejected' = rejected \ {d}
  /\ overridden' = overridden \cup {d}
  /\ UNCHANGED <<job, latest, workers, identity, reassigned>>

(* ReassignListingProperty: to a new property, or to one not merged away.  *)
Reassign(l) ==
  /\ Change
  /\ \/ /\ lastProperty < MaxProperties
        /\ lastProperty' = lastProperty + 1
        /\ member' = [member EXCEPT ![l] = lastProperty + 1]
     \/ /\ \E p \in Live \ {member[l]} : member' = [member EXCEPT ![l] = p]
        /\ UNCHANGED lastProperty
  /\ reassigned' = reassigned \cup {l}
  /\ UNCHANGED <<job, latest, workers, decisions, merged, overridden>>

-----------------------------------------------------------------------------
WorkerStep ==
  Claim \/ \E s \in Snapshots : ReadCandidates(s) \/ CommitJob(s)

OperatorStep ==
  (\E d \in accepted \cup rejected : Override(d)) \/ \E l \in Listings : Reassign(l)

Next ==
  \/ WorkerStep \/ OperatorStep \/ Crash
  \/ \E s \in Snapshots : AddSnapshot(s) \/ FailJob(s)

Spec == Init /\ [][Next]_vars

(* The workers run on, and a queued job is claimed in its turn.            *)
ClaimsJob(s) == Claim /\ s \in working'

FairSpec ==
  /\ Spec /\ WF_vars(WorkerStep)
  /\ \A s \in Snapshots : SF_vars(ClaimsJob(s))

-----------------------------------------------------------------------------
(* Properties.                                                             *)

TypeOK ==
  /\ job \in [Snapshots -> {"none", "pending", "processing", "completed"}]
  /\ latest \in [Listings -> SUBSET Snapshots]
  /\ working \in SUBSET Snapshots /\ read \in SUBSET working
  /\ found \in [Snapshots -> SUBSET Snapshots] /\ taken \in [Snapshots -> SUBSET Snapshots]
  /\ accepted \in SUBSET (SUBSET Snapshots) /\ rejected \in SUBSET (SUBSET Snapshots)
  /\ lastProperty \in 0..MaxProperties
  /\ member \in [Listings -> 0..lastProperty]
  /\ merged \in SUBSET (1..lastProperty)
  /\ changes \in 0..MaxChanges

(* No advert is currently in a property that was merged into another: the  *)
(* survivor takes them all, and an operator cannot move one back.          *)
MergedAreEmpty == \A l \in Listings : member[l] \notin merged

(* An accepted decision holds: both adverts are in one property unless an  *)
(* operator overrode the decision or moved an advert of it.  Merging takes *)
(* the whole group along, whoever else commits in between.                 *)
AcceptedAreTogether ==
  \A d \in accepted \ overridden : \A s, t \in d :
    {ListingOf[s], ListingOf[t]} \cap reassigned = {}
      => member[ListingOf[s]] = member[ListingOf[t]] /\ member[ListingOf[s]] # 0

(* Only decided pairs are overridden.                                      *)
OverriddenAreDecided == overridden \subseteq accepted \cup rejected

(* The inductive invariant: a property is merged away only together with   *)
(* the memberships of all its adverts, so two adverts once together stay   *)
(* together until an operator moves one.                                   *)
IInv == TypeOK /\ MergedAreEmpty /\ AcceptedAreTogether /\ OverriddenAreDecided

(* More adverts than the candidate limit ever had evidence in the way: the *)
(* newest matches may then hide an older one.                              *)
Rivals(s) ==
  {l \in Listings \ {ListingOf[s]} : \E t \in Snapshots : ListingOf[t] = l /\ Finds(s, t)}
Crowded(s) == Cardinality(Rivals(s)) > CandidateLimit

(* Of two adverts whose newest evidence is resolved, at least one of the   *)
(* two resolutions has weighed the pair, if each meets the query of the    *)
(* other: no order of claims, candidate reads and commits leaves it unseen.*)
(* Only the candidate limit can, and only past as many adverts as it has.  *)
ResolvedPairsAreDecided ==
  \A l, m \in Listings : \A s \in latest[l], t \in latest[m] :
    /\ l # m /\ job[s] = "completed" /\ job[t] = "completed"
    /\ Finds(s, t) /\ Finds(t, s)
    => {s, t} \in accepted \cup rejected \/ Crowded(s) \/ Crowded(t)

(* Its inductive form: from its read on, a resolution holds or has decided *)
(* every such pair the other one's does not.                               *)
WorkingAreProcessing == \A s \in working : job[s] = "processing"
LatestAreTheirs ==
  \A l \in Listings : \A s, t \in latest[l] : ListingOf[s] = l /\ s = t
Past(s) == job[s] = "completed" \/ s \in read
PairsAreSeen ==
  \A l, m \in Listings : \A s \in latest[l], t \in latest[m] :
    l # m /\ Past(s) /\ Past(t) /\ Finds(s, t) /\ Finds(t, s)
    => \/ {s, t} \in accepted \cup rejected \/ t \in found[s] \/ s \in found[t]
       \/ Crowded(s) \/ Crowded(t)
FoundAreRead == \A s \in Snapshots \ read : found[s] = {}
SeenInv == WorkingAreProcessing /\ LatestAreTheirs /\ FoundAreRead /\ PairsAreSeen

(* A decision nobody overrode is what the rule says of the pair, whichever *)
(* of its two sides was resolved first, last or again.                     *)
DecisionsFollowRule ==
  \A s, t \in Snapshots :
    {s, t} \in (accepted \cup rejected) \ overridden
      => ({s, t} \in accepted <=> Takes(s, t))

(* From the evidence to the membership: two resolved adverts that find each*)
(* other and that the rule takes for one property are in one, whatever the *)
(* workers, failures and merges in between, unless an operator overrode    *)
(* the decision or moved one of them, or the candidate limit was exceeded. *)
DuplicatesAreMerged ==
  \A l, m \in Listings : \A s \in latest[l], t \in latest[m] :
    /\ l # m /\ job[s] = "completed" /\ job[t] = "completed"
    /\ Finds(s, t) /\ Finds(t, s) /\ Takes(s, t)
    /\ {s, t} \notin overridden /\ {l, m} \cap reassigned = {}
    => (member[l] = member[m] /\ member[l] # 0) \/ Crowded(s) \/ Crowded(t)

(* README: candidate generation "excludes known-incompatible rooms, size,  *)
(* floor, and land area", and floor areas are compatible within "2 m2 or   *)
(* 3%": two resolved adverts of one kind and address, compatible by these  *)
(* measures, have been weighed against each other.                         *)
CompatibleAreWeighed ==
  \A l, m \in Listings : \A s \in latest[l], t \in latest[m] :
    LET this == EvidenceOf[s]
        that == EvidenceOf[t]
    IN /\ l # m /\ job[s] = "completed" /\ job[t] = "completed"
       /\ this.property = that.property /\ this.deal = that.deal
       /\ BothKnown(this.address, that.address)
       /\ Unknown \in {this.area, that.area} \/ this.area = that.area
       /\ Conflicting(this, that) = {}
       => {s, t} \in accepted \cup rejected

(* Resolving the same evidence again never undoes an operator's override   *)
(* (insertDuplicateDecision keeps the row it finds).                       *)
OverridesStick ==
  [][working' # working => accepted' \cap overridden = accepted \cap overridden]_vars

(* Jobs, decisions, faults and corrections implement the promise about     *)
(* properties: groups join as a whole, and what was merged stays empty.    *)
Groups == INSTANCE PropertyGroups
            WITH Adverts <- Listings, Movable <- Listings,
                 known <- 1..lastProperty, retired <- merged
ImplementsPropertyGroups == Groups!Spec

(* Nothing stays queued: the workers catch up with all the evidence again  *)
(* and again, so every snapshot is resolved, and resolved again if a lost  *)
(* answer made its job pending once more.                                  *)
EverySnapshotResolved == []<>(\A s \in Snapshots : job[s] \in {"none", "completed"})
=============================================================================
