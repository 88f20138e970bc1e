----------------------- MODULE PropertyIdentity_proofs -----------------------
(***************************************************************************)
(* Proofs about PropertyIdentity, for every finite set of listings, every  *)
(* set of snapshots, all their evidence, and every bound.                  *)
(***************************************************************************)
EXTENDS PropertyIdentity, FiniteSetTheorems, WellFoundedInduction, TLAPS

(* A set of numbers that is not empty has a least element.                 *)
LEMMA LeastOfNat ==
  ASSUME NEW S, S \subseteq Nat, S # {}
  PROVE  LeastOf(S) \in S
<1>1. PICK x \in S : \A y \in S : ~(<<y, x>> \in OpToRel(<, Nat))
  BY NatLessThanWellFounded, WFMin
<1>2. \A y \in S : ~(y < x)
  BY <1>1, Zenon DEF OpToRel
<1>3. \A y \in S : x <= y
  BY <1>2
<1>. QED
  BY <1>3 DEF LeastOf

(* The group a merge brings together has a survivor, which is one of the   *)
(* group's present properties or one the merge creates.                    *)
LEMMA GroupFacts ==
  ASSUME TypeOK, NEW G \in SUBSET Listings, G # {}
  PROVE  /\ LastAfter(G) \in Nat /\ lastProperty <= LastAfter(G)
         /\ GroupOf(G) \subseteq 1..LastAfter(G)
         /\ Survivor(G) \in GroupOf(G)
<1>. lastProperty \in Nat /\ member \in [Listings -> 0..lastProperty]
  BY ResolverBoundsAssumption DEF TypeOK
<1>1. IsFiniteSet(NewOnes(G))
  BY ListingsAssumption, FS_Subset DEF NewOnes
<1>2. Cardinality(NewOnes(G)) \in Nat /\ (NewOnes(G) # {} => Cardinality(NewOnes(G)) > 0)
  BY <1>1, FS_CardinalityType, FS_EmptySet
<1>3. LastAfter(G) \in Nat /\ lastProperty <= LastAfter(G)
  BY <1>2 DEF LastAfter
<1>4. GroupOf(G) \subseteq 1..LastAfter(G)
  BY <1>3 DEF GroupOf, NewOnes
<1>5. GroupOf(G) # {}
  <2>1. CASE NewOnes(G) = {}
    BY <2>1 DEF GroupOf
  <2>2. CASE NewOnes(G) # {}
    <3>1. LastAfter(G) \in lastProperty + 1 .. LastAfter(G)
      BY <1>2, <2>2 DEF LastAfter
    <3>. QED
      BY <3>1 DEF GroupOf
  <2>. QED
    BY <2>1, <2>2
<1>6. Survivor(G) \in GroupOf(G)
  BY <1>4, <1>5, LeastOfNat DEF Survivor
<1>. QED
  BY <1>3, <1>4, <1>6

(* A merge brings its group together, keeps together what was, and leaves  *)
(* no advert in a property it merges away.                                 *)
LEMMA MergeFacts ==
  ASSUME TypeOK, MergedAreEmpty, NEW G \in SUBSET Listings, G # {}, MergeGroup(G)
  PROVE  /\ lastProperty' \in 0..MaxProperties
         /\ member' \in [Listings -> 0..lastProperty']
         /\ merged' \in SUBSET (1..lastProperty')
         /\ MergedAreEmpty'
         /\ \A l, m \in G : member'[l] = member'[m] /\ member'[l] # 0
         /\ \A l, m \in Listings :
              member[l] = member[m] /\ member[l] # 0
                => member'[l] = member'[m] /\ member'[l] # 0
<1>. lastProperty \in Nat /\ member \in [Listings -> 0..lastProperty] /\ merged \subseteq 1..lastProperty
  BY ResolverBoundsAssumption DEF TypeOK
<1>1. /\ LastAfter(G) \in Nat /\ lastProperty <= LastAfter(G)
      /\ GroupOf(G) \subseteq 1..LastAfter(G)
      /\ Survivor(G) \in GroupOf(G)
  BY GroupFacts
<1>2. lastProperty' = LastAfter(G) /\ lastProperty' \in 0..MaxProperties
  BY <1>1, ResolverBoundsAssumption DEF MergeGroup
<1>3. \A l \in Listings :
        \/ member'[l] = Survivor(G)
        \/ member'[l] = member[l] /\ member[l] \notin GroupOf(G)
  BY DEF MergeGroup
<1>4. member' \in [Listings -> 0..lastProperty']
  <2>1. member' = [l \in Listings |-> member'[l]]
    BY DEF MergeGroup
  <2>2. \A l \in Listings : member'[l] \in 0..lastProperty'
    BY <1>1, <1>2, <1>3
  <2>. QED
    BY <2>1, <2>2
<1>5. merged' = merged \cup (GroupOf(G) \ {Survivor(G)})
  BY DEF MergeGroup
<1>6. merged' \in SUBSET (1..lastProperty')
  <2>1. 1..lastProperty \subseteq 1..lastProperty' /\ GroupOf(G) \subseteq 1..lastProperty'
    BY <1>1, <1>2
  <2>. QED
    BY <1>5, <2>1
<1>7. GroupOf(G) \cap merged = {}
  BY DEF GroupOf, NewOnes, MergedAreEmpty
<1>8. MergedAreEmpty'
  BY <1>1, <1>3, <1>5, <1>7 DEF MergedAreEmpty
<1>9. \A l \in G : member'[l] = Survivor(G)
  BY DEF MergeGroup, GroupOf
<1>10. Survivor(G) # 0
  BY <1>1
<1>11. \A l, m \in Listings :
         member[l] = member[m] /\ member[l] # 0
           => member'[l] = member'[m] /\ member'[l] # 0
  <2>. SUFFICES ASSUME NEW l \in Listings, NEW m \in Listings,
                       member[l] = member[m], member[l] # 0
                PROVE  member'[l] = member'[m] /\ member'[l] # 0
    OBVIOUS
  <2>1. l \notin NewOnes(G) /\ m \notin NewOnes(G)
    BY DEF NewOnes
  <2>2. /\ member'[l] = IF member[l] \in GroupOf(G) THEN Survivor(G) ELSE member[l]
        /\ member'[m] = IF member[m] \in GroupOf(G) THEN Survivor(G) ELSE member[m]
    BY <2>1 DEF MergeGroup
  <2>. QED
    BY <1>10, <2>2
<1>. QED
  BY <1>2, <1>4, <1>6, <1>8, <1>9, <1>10, <1>11

-----------------------------------------------------------------------------
LEMMA InitInv == Init => IInv
<1>. SUFFICES ASSUME Init PROVE IInv
  OBVIOUS
<1>1. TypeOK
  BY ResolverBoundsAssumption DEF Init, TypeOK
<1>. QED
  BY <1>1 DEF Init, IInv, MergedAreEmpty, AcceptedAreTogether, OverriddenAreDecided

(* What a worker's commit does to the decisions and the memberships.       *)
LEMMA CommitFacts ==
  ASSUME IInv, NEW s \in working, Commit(s), UNCHANGED operator
  PROVE  /\ lastProperty' \in 0..MaxProperties
         /\ member' \in [Listings -> 0..lastProperty']
         /\ merged' \in SUBSET (1..lastProperty')
         /\ accepted' \in SUBSET (SUBSET Snapshots)
         /\ rejected' \in SUBSET (SUBSET Snapshots)
         /\ MergedAreEmpty' /\ AcceptedAreTogether' /\ OverriddenAreDecided'
         /\ accepted' \cap overridden = accepted \cap overridden
<1>. s \in Snapshots /\ found \in [Snapshots -> SUBSET Snapshots]
     /\ accepted \in SUBSET (SUBSET Snapshots) /\ rejected \in SUBSET (SUBSET Snapshots)
  BY DEF IInv, TypeOK
<1>1. AcceptedNow(s) \subseteq Pairs(s) /\ Pairs(s) \subseteq SUBSET Snapshots
  BY DEF AcceptedNow, Pairs
<1>2. Grouped(s) \in SUBSET Listings /\ Grouped(s) # {}
  BY <1>1, SnapshotsAssumption DEF Grouped
<1>3. /\ lastProperty' \in 0..MaxProperties
      /\ member' \in [Listings -> 0..lastProperty']
      /\ merged' \in SUBSET (1..lastProperty')
      /\ MergedAreEmpty'
      /\ \A l, m \in Grouped(s) : member'[l] = member'[m] /\ member'[l] # 0
      /\ \A l, m \in Listings :
           member[l] = member[m] /\ member[l] # 0
             => member'[l] = member'[m] /\ member'[l] # 0
  BY <1>2, MergeFacts DEF Commit, IInv
<1>4. accepted' = accepted \cup AcceptedNow(s)
      /\ rejected' = rejected \cup (Pairs(s) \ AcceptedNow(s))
  BY DEF Commit
<1>5. OverriddenAreDecided'
  BY <1>4 DEF IInv, OverriddenAreDecided, operator
<1>6. accepted' \cap overridden = accepted \cap overridden
  BY <1>4 DEF IInv, OverriddenAreDecided, AcceptedNow
<1>7. AcceptedAreTogether'
  <2>. SUFFICES ASSUME NEW d \in accepted' \ overridden, NEW t \in d, NEW u \in d,
                       {ListingOf[t], ListingOf[u]} \cap reassigned = {}
                PROVE  member'[ListingOf[t]] = member'[ListingOf[u]] /\ member'[ListingOf[t]] # 0
    BY DEF AcceptedAreTogether, operator
  <2>1. CASE d \in AcceptedNow(s)
    <3>1. ListingOf[t] \in Grouped(s) /\ ListingOf[u] \in Grouped(s)
      BY <2>1 DEF Grouped
    <3>. QED
      BY <3>1, <1>3
  <2>2. CASE d \in accepted
    <3>1. member[ListingOf[t]] = member[ListingOf[u]] /\ member[ListingOf[t]] # 0
      BY <2>2 DEF IInv, AcceptedAreTogether
    <3>2. ListingOf[t] \in Listings /\ ListingOf[u] \in Listings
      BY <2>2, SnapshotsAssumption
    <3>. QED
      BY <3>1, <3>2, <1>3
  <2>. QED
    BY <1>4, <2>1, <2>2
<1>8. accepted' \in SUBSET (SUBSET Snapshots) /\ rejected' \in SUBSET (SUBSET Snapshots)
  BY <1>1, <1>4
<1>. QED
  BY <1>3, <1>5, <1>6, <1>7, <1>8

(* The steps that touch neither decisions nor memberships need only keep   *)
(* their own variables' types.                                             *)
LEMMA QuietStep ==
  ASSUME IInv, UNCHANGED <<decisions, identity, operator>>, TypeOK'
  PROVE  IInv'
BY DEF IInv, MergedAreEmpty, AcceptedAreTogether, OverriddenAreDecided,
       decisions, identity, operator

LEMMA AddSnapshotInv ==
  ASSUME IInv, NEW s \in Snapshots, AddSnapshot(s)
  PROVE  IInv'
<1>1. TypeOK'
  BY DEF IInv, TypeOK, AddSnapshot, workers, decisions, identity, operator
<1>. QED
  BY <1>1, QuietStep DEF AddSnapshot

LEMMA ClaimInv ==
  ASSUME IInv, Claim
  PROVE  IInv'
<1>1. TypeOK'
  BY DEF IInv, TypeOK, Claim, decisions, identity, operator
<1>. QED
  BY <1>1, QuietStep DEF Claim

LEMMA ReadCandidatesInv ==
  ASSUME IInv, NEW s \in Snapshots, ReadCandidates(s)
  PROVE  IInv'
<1>1. Candidates(s) \in SUBSET Snapshots
  BY DEF IInv, TypeOK, Candidates
<1>2. TypeOK'
  BY <1>1 DEF IInv, TypeOK, ReadCandidates, decisions, identity, operator
<1>. QED
  BY <1>2, QuietStep DEF ReadCandidates

(* A released worker's variables keep their types.                         *)
LEMMA ReleaseType ==
  ASSUME TypeOK, NEW S, Release(S)
  PROVE  /\ working' \in SUBSET Snapshots /\ read' \in SUBSET working'
         /\ found' \in [Snapshots -> SUBSET Snapshots]
         /\ taken' \in [Snapshots -> SUBSET Snapshots]
BY DEF TypeOK, Release

LEMMA CommitJobInv ==
  ASSUME IInv, NEW s \in Snapshots, CommitJob(s)
  PROVE  IInv'
<1>1. /\ lastProperty' \in 0..MaxProperties
      /\ member' \in [Listings -> 0..lastProperty']
      /\ merged' \in SUBSET (1..lastProperty')
      /\ accepted' \in SUBSET (SUBSET Snapshots)
      /\ rejected' \in SUBSET (SUBSET Snapshots)
      /\ MergedAreEmpty' /\ AcceptedAreTogether' /\ OverriddenAreDecided'
  BY CommitFacts DEF CommitJob, IInv, TypeOK
<1>2. TypeOK'
  BY <1>1, ReleaseType DEF IInv, TypeOK, CommitJob
<1>. QED
  BY <1>1, <1>2 DEF IInv

LEMMA FailJobInv ==
  ASSUME IInv, NEW s \in Snapshots, FailJob(s)
  PROVE  IInv'
<1>1. /\ job' \in [Snapshots -> {"none", "pending", "processing", "completed"}]
      /\ latest' \in [Listings -> SUBSET Snapshots]
      /\ changes' \in 0..MaxChanges
  BY ResolverBoundsAssumption DEF IInv, TypeOK, FailJob, Change
<1>2. CASE UNCHANGED <<decisions, identity>>
  <2>1. TypeOK'
    BY <1>1, <1>2, ReleaseType DEF IInv, TypeOK, FailJob, decisions, identity
  <2>. QED
    BY <1>2, <2>1, QuietStep DEF FailJob
<1>3. CASE s \in read /\ Commit(s)
  <2>1. /\ lastProperty' \in 0..MaxProperties
        /\ member' \in [Listings -> 0..lastProperty']
        /\ merged' \in SUBSET (1..lastProperty')
        /\ accepted' \in SUBSET (SUBSET Snapshots)
        /\ rejected' \in SUBSET (SUBSET Snapshots)
        /\ MergedAreEmpty' /\ AcceptedAreTogether' /\ OverriddenAreDecided'
    BY <1>3, CommitFacts DEF FailJob
  <2>2. TypeOK'
    BY <1>1, <2>1, ReleaseType DEF IInv, TypeOK, FailJob
  <2>. QED
    BY <2>1, <2>2 DEF IInv
<1>. QED
  BY <1>2, <1>3 DEF FailJob, decisions, identity

LEMMA CrashInv ==
  ASSUME IInv, Crash
  PROVE  IInv'
<1>1. TypeOK'
  BY ReleaseType, ResolverBoundsAssumption
     DEF IInv, TypeOK, Crash, Change, decisions, identity
<1>. QED
  BY <1>1, QuietStep DEF Crash

(* An overridden decision is no longer owed anything.                      *)
LEMMA OverrideInv ==
  ASSUME IInv, NEW d \in accepted \cup rejected, Override(d)
  PROVE  IInv'
<1>1. TypeOK'
  BY ResolverBoundsAssumption DEF IInv, TypeOK, Override, Change, workers, identity
<1>2. MergedAreEmpty'
  BY DEF IInv, MergedAreEmpty, Override, identity
<1>3. OverriddenAreDecided'
  BY DEF IInv, OverriddenAreDecided, Override
<1>4. AcceptedAreTogether'
  <2>1. accepted' \ overridden' \subseteq accepted \ overridden
    BY DEF Override
  <2>2. UNCHANGED <<member, reassigned>>
    BY DEF Override, identity
  <2>. QED
    BY <2>1, <2>2 DEF IInv, AcceptedAreTogether
<1>. QED
  BY <1>1, <1>2, <1>3, <1>4 DEF IInv

(* Only the moved advert changes its property, to one not merged away.     *)
LEMMA ReassignInv ==
  ASSUME IInv, NEW l \in Listings, Reassign(l)
  PROVE  IInv'
<1>. /\ lastProperty \in 0..MaxProperties /\ member \in [Listings -> 0..lastProperty]
     /\ merged \in SUBSET (1..lastProperty)
  BY DEF IInv, TypeOK
<1>1. PICK p \in 1..lastProperty' :
        /\ member' = [member EXCEPT ![l] = p] /\ p \notin merged
        /\ lastProperty <= lastProperty' /\ lastProperty' \in 0..MaxProperties
  <2>1. CASE lastProperty < MaxProperties /\ lastProperty' = lastProperty + 1
             /\ member' = [member EXCEPT ![l] = lastProperty + 1]
    <3>. DEFINE p == lastProperty + 1
    <3>1. p \in 1..lastProperty' /\ p \notin merged
      BY <2>1
    <3>2. lastProperty <= lastProperty' /\ lastProperty' \in 0..MaxProperties
      BY <2>1, ResolverBoundsAssumption
    <3>. QED
      BY <2>1, <3>1, <3>2
  <2>2. CASE UNCHANGED lastProperty
             /\ \E p \in Live \ {member[l]} : member' = [member EXCEPT ![l] = p]
    <3>1. PICK p \in Live : member' = [member EXCEPT ![l] = p]
      BY <2>2
    <3>2. p \in 1..lastProperty' /\ p \notin merged
      BY <2>2 DEF Live
    <3>3. lastProperty <= lastProperty' /\ lastProperty' \in 0..MaxProperties
      BY <2>2, ResolverBoundsAssumption
    <3>. QED
      BY <3>1, <3>2, <3>3
  <2>. QED
    BY <2>1, <2>2 DEF Reassign
<1>2. TypeOK'
  <2>1. member' \in [Listings -> 0..lastProperty'] /\ merged' \in SUBSET (1..lastProperty')
    BY <1>1 DEF Reassign
  <2>. QED
    BY <1>1, <2>1, ResolverBoundsAssumption
       DEF IInv, TypeOK, Reassign, Change, workers, decisions
<1>3. MergedAreEmpty'
  BY <1>1 DEF IInv, MergedAreEmpty, Reassign
<1>4. OverriddenAreDecided'
  BY DEF IInv, OverriddenAreDecided, Reassign, decisions
<1>5. AcceptedAreTogether'
  <2>1. UNCHANGED <<accepted, overridden>> /\ reassigned' = reassigned \cup {l}
    BY DEF Reassign, decisions
  <2>2. \A m \in Listings : m \notin reassigned' => member'[m] = member[m] /\ m \notin reassigned
    BY <1>1, <2>1
  <2>3. \A d \in accepted : \A s \in d : ListingOf[s] \in Listings
    BY SnapshotsAssumption DEF IInv, TypeOK
  <2>. QED
    BY <2>1, <2>2, <2>3 DEF IInv, AcceptedAreTogether
<1>. QED
  BY <1>2, <1>3, <1>4, <1>5 DEF IInv

LEMMA NextInv == IInv /\ [Next]_vars => IInv'
<1>. SUFFICES ASSUME IInv, [Next]_vars PROVE IInv'
  OBVIOUS
<1>1. CASE UNCHANGED vars
  <2>1. TypeOK'
    BY <1>1 DEF IInv, TypeOK, vars, workers, decisions, identity, operator
  <2>. QED
    BY <1>1, <2>1, QuietStep DEF vars
<1>2. ASSUME NEW s \in Snapshots, AddSnapshot(s) PROVE IInv'
  BY <1>2, AddSnapshotInv
<1>3. CASE Claim
  BY <1>3, ClaimInv
<1>4. ASSUME NEW s \in Snapshots, ReadCandidates(s) PROVE IInv'
  BY <1>4, ReadCandidatesInv
<1>5. ASSUME NEW s \in Snapshots, CommitJob(s) PROVE IInv'
  BY <1>5, CommitJobInv
<1>6. ASSUME NEW s \in Snapshots, FailJob(s) PROVE IInv'
  BY <1>6, FailJobInv
<1>7. CASE Crash
  BY <1>7, CrashInv
<1>8. ASSUME NEW d \in accepted \cup rejected, Override(d) PROVE IInv'
  BY <1>8, OverrideInv
<1>9. ASSUME NEW l \in Listings, Reassign(l) PROVE IInv'
  BY <1>9, ReassignInv
<1>. QED
  BY <1>1, <1>2, <1>3, <1>4, <1>5, <1>6, <1>7, <1>8, <1>9 DEF Next, WorkerStep, OperatorStep

-----------------------------------------------------------------------------
(* The memberships, decisions and operator moves agree in every state.     *)
THEOREM Inductive == Spec => []IInv
BY InitInv, NextInv, PTL DEF Spec

(* Every variable of the resolver keeps its type.                          *)
THEOREM TypeCorrect == Spec => []TypeOK
<1>1. IInv => TypeOK
  BY DEF IInv
<1>. QED
  BY <1>1, Inductive, PTL

(* mergeProperties and ReassignListingProperty leave no advert in a        *)
(* property that was merged away.                                          *)
THEOREM NoOrphans == Spec => []MergedAreEmpty
<1>1. IInv => MergedAreEmpty
  BY DEF IInv
<1>. QED
  BY <1>1, Inductive, PTL

(* The adverts of an accepted decision are in one property, unless an      *)
(* operator overrode the decision or moved one of them.                    *)
THEOREM DecisionsHold == Spec => []AcceptedAreTogether
<1>1. IInv => AcceptedAreTogether
  BY DEF IInv
<1>. QED
  BY <1>1, Inductive, PTL

(* No resolution changes a decision an operator has overridden.            *)
THEOREM OperatorsPrevail == Spec => OverridesStick
<1>1. IInv /\ [Next]_vars
        => [working' # working => accepted' \cap overridden = accepted \cap overridden]_vars
  <2>. SUFFICES ASSUME IInv, [Next]_vars, working' # working
                PROVE  accepted' \cap overridden = accepted \cap overridden
    OBVIOUS
  <2>1. ASSUME NEW s \in Snapshots, CommitJob(s)
        PROVE  accepted' \cap overridden = accepted \cap overridden
    BY <2>1, CommitFacts DEF CommitJob, IInv, TypeOK
  <2>2. ASSUME NEW s \in Snapshots, FailJob(s)
        PROVE  accepted' \cap overridden = accepted \cap overridden
    <3>1. CASE s \in read /\ Commit(s)
      BY <2>2, <3>1, CommitFacts DEF FailJob
    <3>2. CASE UNCHANGED <<decisions, identity>>
      BY <3>2 DEF decisions
    <3>. QED
      BY <2>2, <3>1, <3>2 DEF FailJob, decisions, identity
  <2>3. CASE Claim
    BY <2>3 DEF Claim, decisions
  <2>4. CASE Crash
    BY <2>4 DEF Crash, decisions
  <2>5. ASSUME NEW s \in Snapshots, AddSnapshot(s) PROVE FALSE
    BY <2>5 DEF AddSnapshot, workers
  <2>6. ASSUME NEW s \in Snapshots, ReadCandidates(s) PROVE FALSE
    BY <2>6 DEF ReadCandidates
  <2>7. ASSUME NEW d \in accepted \cup rejected, Override(d) PROVE FALSE
    BY <2>7 DEF Override, workers
  <2>8. ASSUME NEW l \in Listings, Reassign(l) PROVE FALSE
    BY <2>8 DEF Reassign, workers
  <2>9. CASE UNCHANGED vars
    BY <2>9 DEF vars, workers
  <2>. QED
    BY <2>1, <2>2, <2>3, <2>4, <2>5, <2>6, <2>7, <2>8, <2>9 DEF Next, WorkerStep, OperatorStep
<1>. QED
  BY <1>1, Inductive, PTL DEF Spec, OverridesStick

-----------------------------------------------------------------------------
(* The rule is the same from both sides.                                   *)

LEMMA SameSymmetric == \A l, r : Same(l, r) <=> Same(r, l)
BY DEF Same

LEMMA AlikeSymmetric == \A l, r : Alike(l, r) <=> Alike(r, l)
<1>1. \A p, q : Differing(p, q) = Differing(q, p)
  BY DEF Differing
<1>. QED
  BY <1>1 DEF Alike

(* A fact is compatible, or in conflict, from either side.                 *)
LEMMA FactsSymmetric ==
  ASSUME NEW l \in Evidence, NEW r \in Evidence
  PROVE  Compatible(l, r) = Compatible(r, l) /\ Conflicting(l, r) = Conflicting(r, l)
<1>1. \A f \in Facts : Agree(l, r, f) <=> Agree(r, l, f)
  <2>. SUFFICES ASSUME NEW f \in Facts PROVE Agree(l, r, f) <=> Agree(r, l, f)
    OBVIOUS
  <2>1. l.facts[f] \in Int /\ r.facts[f] \in Int
    BY DEF Evidence, Value, Unknown
  <2>2. /\ MaxOf(l.facts[f], r.facts[f]) = MaxOf(r.facts[f], l.facts[f])
        /\ Distance(l.facts[f], r.facts[f]) = Distance(r.facts[f], l.facts[f])
    BY <2>1 DEF MaxOf, Distance
  <2>. QED
    BY <2>2, Zenon DEF Agree, Within
<1>2. \A f \in Facts : Known(l, r, f) <=> Known(r, l, f)
  BY DEF Known
<1>. QED
  BY <1>1, <1>2 DEF Compatible, Conflicting

(* EvaluateDuplicate gives a pair the same verdict whichever of the two is *)
(* being resolved.                                                         *)
LEMMA AcceptedSymmetric ==
  ASSUME NEW l \in Evidence, NEW r \in Evidence
  PROVE  Accepted(l, r) <=> Accepted(r, l)
<1>1. PhotoScore(l, r) = PhotoScore(r, l)
  <2>1. (Same(l, r) <=> Same(r, l)) /\ (Alike(l, r) <=> Alike(r, l))
    BY SameSymmetric, AlikeSymmetric
  <2>. QED
    BY <2>1 DEF PhotoScore
<1>2. WordScore(l, r) = WordScore(r, l)
  <2>1. l.words \cup r.words = r.words \cup l.words /\ l.words \cap r.words = r.words \cap l.words
    OBVIOUS
  <2>2. l.words = {} \/ r.words = {} <=> r.words = {} \/ l.words = {}
    OBVIOUS
  <2>. QED
    BY <2>1, <2>2 DEF WordScore
<1>3. Compatible(l, r) = Compatible(r, l) /\ Conflicting(l, r) = Conflicting(r, l)
  BY FactsSymmetric
<1>4. /\ BothKnown(l.address, r.address) <=> BothKnown(r.address, l.address)
      /\ BothKnown(l.area, r.area) <=> BothKnown(r.area, l.area)
  BY DEF BothKnown
<1>5. Score(l, r) = Score(r, l)
  BY <1>1, <1>2, <1>3, <1>4 DEF Score
<1>. QED
  BY <1>3, <1>4, <1>5, SameSymmetric, AlikeSymmetric DEF Accepted

LEMMA TakesSymmetric == \A s, t \in Snapshots : Takes(s, t) <=> Takes(t, s)
BY AcceptedSymmetric, EvidenceAssumption DEF Takes

(* What a worker holds between its read and its commit is the rule's own   *)
(* verdict on each candidate.                                              *)
FoundEvaluated ==
  \A s \in Snapshots : taken[s] \subseteq found[s] /\ \A t \in found[s] : t \in taken[s] <=> Takes(s, t)

RuleInv == FoundEvaluated /\ DecisionsFollowRule

LEMMA CommitRule ==
  ASSUME IInv, RuleInv, NEW s \in Snapshots, Commit(s), UNCHANGED overridden
  PROVE  DecisionsFollowRule'
<1>. USE DEF IInv, TypeOK
<1>1. \A t \in Snapshots : {s, t} \in Evaluated(s) => Takes(s, t)
  BY DEF Evaluated, RuleInv, FoundEvaluated
<1>2. \A t \in Snapshots : {s, t} \in Pairs(s) \ Evaluated(s) => ~Takes(s, t)
  BY DEF Evaluated, Pairs, RuleInv, FoundEvaluated
<1>3. \A d \in Pairs(s) \cup Evaluated(s) : \A t, u \in Snapshots :
        d = {t, u} => (d = {s, t} /\ u = s) \/ (d = {s, u} /\ t = s)
  BY DEF Pairs, Evaluated
<1>4. \A t, u \in Snapshots :
        {t, u} \in Pairs(s) \cup Evaluated(s) => ({t, u} \in Evaluated(s) <=> Takes(t, u))
  BY <1>1, <1>2, <1>3, TakesSymmetric
<1>5. /\ accepted' = accepted \cup AcceptedNow(s)
      /\ rejected' = rejected \cup (Pairs(s) \ AcceptedNow(s))
  BY DEF Commit
<1>6. \A d : d \in AcceptedNow(s) <=> d \in Pairs(s) /\ (d \in accepted \/ (d \in Evaluated(s) /\ d \notin rejected))
  BY DEF AcceptedNow
<1>7. \A t, u \in Snapshots : {t, u} \in (accepted \cup rejected) \ overridden
        => ({t, u} \in accepted <=> Takes(t, u))
  BY DEF RuleInv, DecisionsFollowRule
<1>. SUFFICES ASSUME NEW t \in Snapshots, NEW u \in Snapshots,
                     {t, u} \in (accepted' \cup rejected') \ overridden
              PROVE  {t, u} \in accepted' <=> Takes(t, u)
  BY DEF DecisionsFollowRule, Takes
<1>8. CASE {t, u} \in accepted \cup rejected
  BY <1>4, <1>5, <1>6, <1>7, <1>8
<1>9. CASE {t, u} \notin accepted \cup rejected
  BY <1>4, <1>5, <1>6, <1>9
<1>. QED
  BY <1>8, <1>9

(* A released worker holds nothing any more.                               *)
LEMMA ReleaseEvaluated ==
  ASSUME FoundEvaluated, NEW S, Release(S)
  PROVE  FoundEvaluated'
BY DEF FoundEvaluated, Release, Takes

LEMMA RuleNext == IInv /\ RuleInv /\ [Next]_vars => RuleInv'
<1>. SUFFICES ASSUME IInv, RuleInv, [Next]_vars PROVE RuleInv'
  OBVIOUS
<1>1. ASSUME UNCHANGED <<found, taken>> PROVE FoundEvaluated'
  BY <1>1 DEF RuleInv, FoundEvaluated, Takes
<1>2. ASSUME UNCHANGED <<decisions, overridden>> PROVE DecisionsFollowRule'
  BY <1>2 DEF RuleInv, DecisionsFollowRule, Takes, decisions
<1>3. CASE UNCHANGED vars
  BY <1>1, <1>2, <1>3 DEF vars, workers, operator, RuleInv
<1>4. ASSUME NEW s \in Snapshots, AddSnapshot(s) PROVE RuleInv'
  BY <1>1, <1>2, <1>4 DEF AddSnapshot, workers, operator, RuleInv
<1>5. CASE Claim
  BY <1>1, <1>2, <1>5 DEF Claim, operator, RuleInv
<1>6. ASSUME NEW s \in Snapshots, ReadCandidates(s) PROVE RuleInv'
  <2>1. /\ found' = [found EXCEPT ![s] = Candidates(s)]
        /\ taken' = [taken EXCEPT ![s] = {t \in Candidates(s) : Takes(s, t)}]
    BY <1>6 DEF ReadCandidates
  <2>2. \A t \in Snapshots : Takes(s, t)' <=> Takes(s, t)
    BY DEF Takes
  <2>3. FoundEvaluated'
    BY <2>1, <2>2 DEF RuleInv, FoundEvaluated, IInv, TypeOK, Takes
  <2>. QED
    BY <1>2, <1>6, <2>3 DEF ReadCandidates, operator, RuleInv
<1>7. ASSUME NEW s \in Snapshots, CommitJob(s) PROVE RuleInv'
  BY <1>7, CommitRule, ReleaseEvaluated DEF CommitJob, operator, RuleInv
<1>8. ASSUME NEW s \in Snapshots, FailJob(s) PROVE RuleInv'
  <2>1. FoundEvaluated'
    BY <1>8, ReleaseEvaluated DEF FailJob, RuleInv
  <2>2. CASE Commit(s)
    BY <1>8, <2>1, <2>2, CommitRule DEF FailJob, operator, RuleInv
  <2>3. CASE UNCHANGED decisions
    BY <1>2, <1>8, <2>1, <2>3 DEF FailJob, operator, RuleInv
  <2>. QED
    BY <1>8, <2>2, <2>3 DEF FailJob
<1>9. CASE Crash
  BY <1>2, <1>9, ReleaseEvaluated DEF Crash, operator, RuleInv
<1>10. ASSUME NEW d \in accepted \cup rejected, Override(d) PROVE RuleInv'
  <2>1. \A e : e # d => (e \in accepted' <=> e \in accepted) /\ (e \in rejected' <=> e \in rejected)
    BY <1>10 DEF Override
  <2>2. overridden' = overridden \cup {d}
    BY <1>10 DEF Override
  <2>3. DecisionsFollowRule'
    BY <2>1, <2>2 DEF RuleInv, DecisionsFollowRule, Takes
  <2>. QED
    BY <1>1, <1>10, <2>3 DEF Override, workers, RuleInv
<1>11. ASSUME NEW l \in Listings, Reassign(l) PROVE RuleInv'
  BY <1>1, <1>2, <1>11 DEF Reassign, workers, RuleInv
<1>. QED
  BY <1>3, <1>4, <1>5, <1>6, <1>7, <1>8, <1>9, <1>10, <1>11 DEF Next, WorkerStep, OperatorStep

(* Whoever resolves a pair, and however often, the decision nobody         *)
(* overrode is the one the rule makes of it from either side.              *)
THEOREM RuleDecides == Spec => []DecisionsFollowRule
<1>1. Init => RuleInv
  BY DEF Init, RuleInv, FoundEvaluated, DecisionsFollowRule
<1>2. RuleInv => DecisionsFollowRule
  BY DEF RuleInv
<1>. QED
  BY <1>1, <1>2, RuleNext, Inductive, PTL DEF Spec

-----------------------------------------------------------------------------
(* No resolved pair is overlooked.                                         *)

(* A read below the candidate limit sees every newest snapshot that meets  *)
(* the query: each is of an advert of its own, and these are the rivals.   *)
LEMMA NothingCutOff ==
  ASSUME TypeOK, LatestAreTheirs, NEW s \in Snapshots, ~Crowded(s),
         NEW m \in Listings \ {ListingOf[s]}, NEW t \in latest[m], Finds(s, t)
  PROVE  t \in Candidates(s)
<1>. DEFINE matching == {u \in UNION {latest[l] : l \in Listings \ {ListingOf[s]}} : Finds(s, u)}
            newer == {u \in matching : u > t}
            advert == [u \in matching |-> ListingOf[u]]
<1>1. matching \subseteq Snapshots /\ t \in matching
  BY DEF TypeOK
<1>2. \A u \in matching : ListingOf[u] # ListingOf[s] /\ u \in latest[ListingOf[u]]
                          /\ ListingOf[u] \in Rivals(s)
  <2>. SUFFICES ASSUME NEW u \in matching
                PROVE  /\ ListingOf[u] # ListingOf[s] /\ u \in latest[ListingOf[u]]
                       /\ ListingOf[u] \in Rivals(s)
    OBVIOUS
  <2>1. PICK l \in Listings \ {ListingOf[s]} : u \in latest[l]
    OBVIOUS
  <2>2. ListingOf[u] = l
    BY <2>1 DEF LatestAreTheirs
  <2>. QED
    BY <1>1, <2>1, <2>2 DEF Rivals
<1>3. \A u, v \in matching : ListingOf[u] = ListingOf[v] => u = v
  BY <1>1, <1>2, SnapshotsAssumption DEF LatestAreTheirs
<1>4. advert \in Injection(matching, Rivals(s))
  BY <1>2, <1>3 DEF Injection, IsInjective
<1>5. IsFiniteSet(Rivals(s)) /\ Cardinality(Rivals(s)) \in Nat
  <2>1. Rivals(s) \in SUBSET Listings
    BY DEF Rivals
  <2>. QED
    BY <2>1, ListingsAssumption, FS_Subset, FS_CardinalityType
<1>6. IsFiniteSet(matching) /\ Cardinality(matching) <= Cardinality(Rivals(s))
  BY <1>4, <1>5, FS_Injection
<1>7. Cardinality(matching) <= CandidateLimit
  <2>1. Cardinality(matching) \in Nat
    BY <1>6, FS_CardinalityType
  <2>. QED
    BY <1>5, <1>6, <2>1, ResolverBoundsAssumption DEF Crowded
<1>8. Cardinality(newer) < Cardinality(matching)
  <2>1. newer \in SUBSET matching /\ t \notin newer
    BY <1>1, SnapshotsAssumption
  <2>2. /\ IsFiniteSet(newer) /\ Cardinality(newer) <= Cardinality(matching)
        /\ Cardinality(newer) # Cardinality(matching)
    BY <1>1, <1>6, <2>1, FS_Subset
  <2>3. Cardinality(newer) \in Nat /\ Cardinality(matching) \in Nat
    BY <1>6, <2>2, FS_CardinalityType
  <2>. QED
    BY <2>2, <2>3
<1>9. Cardinality(newer) < CandidateLimit
  <2>1. IsFiniteSet(newer)
    BY <1>6, FS_Subset
  <2>2. Cardinality(newer) \in Nat /\ Cardinality(matching) \in Nat
    BY <1>6, <2>1, FS_CardinalityType
  <2>. QED
    BY <1>7, <1>8, <2>2, ResolverBoundsAssumption
<1>. QED
  BY <1>1, <1>9 DEF Candidates

(* Two pasts are enough to relate: a pair is seen when the two newest      *)
(* snapshots that make it up have been.                                    *)
Seen(s, t) ==
  \/ {s, t} \in accepted \cup rejected \/ t \in found[s] \/ s \in found[t]
  \/ Crowded(s) \/ Crowded(t)

(* A step that makes nothing past, no snapshot the newest and forgets none *)
(* of the pairs seen keeps all of them seen.                               *)
LEMMA StillSeen ==
  ASSUME TypeOK, PairsAreSeen, latest' = latest,
         NEW P, \A s \in Snapshots : Past(s)' => Past(s) /\ s \in P,
         \A s, t \in P : Seen(s, t) => Seen(s, t)'
  PROVE  PairsAreSeen'
<1>1. \A s, t : (Finds(s, t)' <=> Finds(s, t))
  BY DEF Finds
<1>. SUFFICES ASSUME NEW l \in Listings, NEW m \in Listings,
                     NEW s \in latest[l], NEW t \in latest[m],
                     l # m, Past(s)', Past(t)', Finds(s, t), Finds(t, s)
              PROVE  Seen(s, t)'
  BY <1>1 DEF PairsAreSeen, Seen
<1>2. s \in Snapshots /\ t \in Snapshots
  BY DEF TypeOK
<1>3. Seen(s, t)
  BY <1>2 DEF PairsAreSeen, Seen
<1>. QED
  BY <1>2, <1>3

LEMMA CommitDecides ==
  ASSUME NEW s, Commit(s)
  PROVE  /\ accepted \cup rejected \subseteq accepted' \cup rejected'
         /\ \A t \in found[s] : {s, t} \in accepted' \cup rejected'
BY DEF Commit, Pairs, AcceptedNow

LEMMA SeenNext == IInv /\ SeenInv /\ [Next]_vars => SeenInv'
<1>. SUFFICES ASSUME IInv, SeenInv, [Next]_vars PROVE SeenInv'
  OBVIOUS
<1>. USE DEF IInv, TypeOK
<1>0. \A s : (Crowded(s)' <=> Crowded(s))
  BY DEF Crowded, Rivals, Finds
<1>1. ASSUME latest' = latest PROVE LatestAreTheirs'
  BY <1>1 DEF SeenInv, LatestAreTheirs
<1>2. CASE UNCHANGED vars
  BY <1>0, <1>2 DEF SeenInv, vars, workers, decisions, WorkingAreProcessing, LatestAreTheirs,
                    FoundAreRead, PairsAreSeen, Past, Finds
<1>3. ASSUME NEW s \in Snapshots, AddSnapshot(s) PROVE SeenInv'
  <2>1. /\ job[s] = "none" /\ s \notin working /\ s \notin read
        /\ job' = [job EXCEPT ![s] = "pending"]
        /\ latest' = [latest EXCEPT ![ListingOf[s]] = {s}]
        /\ UNCHANGED <<working, read, found, accepted, rejected>>
    BY <1>3 DEF AddSnapshot, workers, decisions, SeenInv, WorkingAreProcessing
  <2>2. WorkingAreProcessing' /\ FoundAreRead'
    BY <2>1 DEF SeenInv, WorkingAreProcessing, FoundAreRead
  <2>3. LatestAreTheirs'
    BY <2>1, SnapshotsAssumption DEF SeenInv, LatestAreTheirs
  <2>4. PairsAreSeen'
    <3>1. ~Past(s)'
      BY <2>1 DEF Past
    <3>2. \A t \in Snapshots : t # s => (Past(t)' <=> Past(t))
      BY <2>1 DEF Past
    <3>3. \A l \in Listings : \A t \in latest'[l] : t # s => t \in latest[l]
      BY <2>1
    <3>4. \A t, u : (Finds(t, u)' <=> Finds(t, u)) /\ (Seen(t, u)' <=> Seen(t, u))
      BY <2>1, <1>0 DEF Finds, Seen
    <3>. SUFFICES ASSUME NEW l \in Listings, NEW m \in Listings,
                         NEW t \in latest'[l], NEW u \in latest'[m],
                         l # m, Past(t)', Past(u)', Finds(t, u), Finds(u, t)
                  PROVE  Seen(t, u)
      BY <3>4 DEF PairsAreSeen, Seen
    <3>. QED
      BY <3>1, <3>2, <3>3 DEF SeenInv, PairsAreSeen, Seen
  <2>. QED
    BY <2>2, <2>3, <2>4 DEF SeenInv
<1>4. CASE Claim
  <2>1. PICK batch \in SUBSET {s \in Snapshots : job[s] \in {"pending", "processing"}} :
          /\ job' = [s \in Snapshots |-> IF s \in batch THEN "processing" ELSE job[s]]
          /\ working' = batch /\ working = {}
          /\ UNCHANGED <<latest, read, found, accepted, rejected>>
    BY <1>4 DEF Claim, decisions
  <2>2. WorkingAreProcessing' /\ FoundAreRead'
    BY <2>1 DEF SeenInv, WorkingAreProcessing, FoundAreRead
  <2>3. PairsAreSeen'
    <3>1. \A s \in Snapshots : Past(s)' => Past(s)
      BY <2>1 DEF Past
    <3>2. \A s, t : (Seen(s, t)' <=> Seen(s, t)) /\ (Finds(s, t)' <=> Finds(s, t))
      BY <2>1, <1>0 DEF Seen, Finds
    <3>. SUFFICES ASSUME NEW l \in Listings, NEW m \in Listings,
                         NEW s \in latest[l], NEW t \in latest[m],
                         l # m, Past(s)', Past(t)', Finds(s, t), Finds(t, s)
                  PROVE  Seen(s, t)
      BY <2>1, <3>2 DEF PairsAreSeen, Seen
    <3>. QED
      BY <3>1 DEF SeenInv, PairsAreSeen, Seen
  <2>. QED
    BY <1>1, <2>1, <2>2, <2>3 DEF SeenInv
<1>5. ASSUME NEW s \in Snapshots, ReadCandidates(s) PROVE SeenInv'
  <2>1. /\ s \in working \ read /\ read' = read \cup {s}
        /\ found' = [found EXCEPT ![s] = Candidates(s)]
        /\ UNCHANGED <<job, latest, working, accepted, rejected>>
    BY <1>5 DEF ReadCandidates, decisions
  <2>2. WorkingAreProcessing' /\ FoundAreRead'
    BY <2>1 DEF SeenInv, WorkingAreProcessing, FoundAreRead
  <2>3. PairsAreSeen'
    <3>1. ~Past(s) /\ \A t : Past(t)' => Past(t) \/ t = s
      BY <2>1 DEF Past, SeenInv, WorkingAreProcessing
    <3>2. \A t, u \in Snapshots : t # s /\ u # s /\ Seen(t, u) => Seen(t, u)'
      BY <2>1, <1>0 DEF Seen
    <3>3. \A m \in Listings \ {ListingOf[s]} : \A t \in latest[m] : Finds(s, t) => Seen(s, t)'
      BY <2>1, <1>0, NothingCutOff DEF Seen, SeenInv
    <3>4. \A t, u : Seen(t, u)' => Seen(u, t)'
      <4>1. \A t, u : {t, u} = {u, t}
        OBVIOUS
      <4>. QED
        BY <4>1 DEF Seen
    <3>5. \A t, u : Finds(t, u)' <=> Finds(t, u)
      BY DEF Finds
    <3>. SUFFICES ASSUME NEW l \in Listings, NEW m \in Listings,
                         NEW t \in latest[l], NEW u \in latest[m],
                         l # m, Past(t)', Past(u)', Finds(t, u), Finds(u, t)
                  PROVE  Seen(t, u)'
      BY <2>1, <3>5 DEF PairsAreSeen, Seen
    <3>6. ListingOf[t] = l /\ ListingOf[u] = m /\ t \in Snapshots /\ u \in Snapshots
      BY DEF SeenInv, LatestAreTheirs
    <3>7. CASE t = s
      BY <3>3, <3>6, <3>7
    <3>8. CASE u = s
      BY <3>3, <3>4, <3>6, <3>8
    <3>9. CASE t # s /\ u # s
      <4>1. Seen(t, u)
        BY <3>1, <3>9 DEF SeenInv, PairsAreSeen, Seen
      <4>. QED
        BY <3>2, <3>6, <3>9, <4>1
    <3>. QED
      BY <3>7, <3>8, <3>9
  <2>. QED
    BY <1>1, <2>1, <2>2, <2>3 DEF SeenInv
<1>6. ASSUME NEW s \in Snapshots, CommitJob(s) PROVE SeenInv'
  <2>1. /\ s \in read /\ Commit(s) /\ Release({s})
        /\ job' = [job EXCEPT ![s] = "completed"] /\ latest' = latest
    BY <1>6 DEF CommitJob
  <2>2. WorkingAreProcessing' /\ FoundAreRead'
    BY <2>1 DEF SeenInv, WorkingAreProcessing, FoundAreRead, Release
  <2>3. \A t \in Snapshots : Past(t)' => Past(t)
    BY <2>1 DEF Past, Release
  <2>4. \A t, u \in Snapshots : Seen(t, u) => Seen(t, u)'
    <3>1. \A t \in found[s] : {s, t} \in accepted' \cup rejected' /\ {t, s} \in accepted' \cup rejected'
      <4>1. \A t : {s, t} = {t, s}
        OBVIOUS
      <4>. QED
        BY <2>1, <4>1, CommitDecides
    <3>2. accepted \cup rejected \subseteq accepted' \cup rejected'
      BY <2>1, CommitDecides
    <3>3. \A t \in Snapshots : t # s => found'[t] = found[t]
      BY <2>1 DEF Release
    <3>. QED
      BY <1>0, <3>1, <3>2, <3>3 DEF Seen
  <2>5. PairsAreSeen'
    BY <2>1, <2>3, <2>4, StillSeen DEF SeenInv
  <2>. QED
    BY <1>1, <2>1, <2>2, <2>5 DEF SeenInv
<1>7. ASSUME NEW S \in SUBSET working, Release(S), latest' = latest,
             \A s \in Snapshots \ S : job'[s] = job[s],
             \A s \in S : job'[s] # "completed",
             accepted \cup rejected \subseteq accepted' \cup rejected',
             DOMAIN job' = Snapshots
      PROVE  SeenInv'
  <2>1. WorkingAreProcessing' /\ FoundAreRead'
    BY <1>7 DEF SeenInv, WorkingAreProcessing, FoundAreRead, Release
  <2>2. \A s \in Snapshots : Past(s)' => Past(s) /\ s \notin S
    BY <1>7 DEF Past, Release
  <2>3. \A s, t \in Snapshots \ S : Seen(s, t) => Seen(s, t)'
    BY <1>7, <1>0 DEF Seen, Release
  <2>4. PairsAreSeen'
    <3>. DEFINE P == Snapshots \ S
    <3>1. \A s \in Snapshots : Past(s)' => Past(s) /\ s \in P
      BY <2>2
    <3>. QED
      BY <1>7, <2>3, <3>1, StillSeen DEF SeenInv
  <2>. QED
    BY <1>1, <1>7, <2>1, <2>4 DEF SeenInv
<1>8. ASSUME NEW s \in Snapshots, FailJob(s) PROVE SeenInv'
  <2>1. s \in working /\ Release({s}) /\ latest' = latest
    BY <1>8 DEF FailJob
  <2>2. job[s] = "processing"
    BY <2>1 DEF SeenInv, WorkingAreProcessing
  <2>3. /\ DOMAIN job' = Snapshots /\ job'[s] # "completed"
        /\ \A t \in Snapshots \ {s} : job'[t] = job[t]
    BY <1>8, <2>2 DEF FailJob
  <2>4. accepted \cup rejected \subseteq accepted' \cup rejected'
    BY <1>8, CommitDecides DEF FailJob, decisions
  <2>. QED
    BY <1>7, <2>1, <2>3, <2>4
<1>9. CASE Crash
  <2>1. /\ Release(working) /\ UNCHANGED <<job, latest, accepted, rejected>>
    BY <1>9 DEF Crash, decisions
  <2>2. \A s \in working : job'[s] # "completed"
    BY <2>1 DEF SeenInv, WorkingAreProcessing
  <2>. QED
    BY <1>7, <2>1, <2>2
<1>10. ASSUME NEW d \in accepted \cup rejected, Override(d) PROVE SeenInv'
  <2>1. /\ accepted' \cup rejected' = accepted \cup rejected
        /\ UNCHANGED <<job, latest, working, read, found>>
    BY <1>10 DEF Override, workers
  <2>. QED
    BY <1>0, <1>1, <2>1 DEF SeenInv, WorkingAreProcessing, FoundAreRead, PairsAreSeen, Past, Finds
<1>11. ASSUME NEW l \in Listings, Reassign(l) PROVE SeenInv'
  <2>1. UNCHANGED <<job, latest, working, read, found, accepted, rejected>>
    BY <1>11 DEF Reassign, workers, decisions
  <2>. QED
    BY <1>0, <1>1, <2>1 DEF SeenInv, WorkingAreProcessing, FoundAreRead, PairsAreSeen, Past, Finds
<1>. QED
  BY <1>2, <1>3, <1>4, <1>5, <1>6, <1>8, <1>9, <1>10, <1>11 DEF Next, WorkerStep, OperatorStep

LEMMA SeenHolds == Spec => []SeenInv
<1>1. Init => SeenInv
  BY DEF Init, SeenInv, WorkingAreProcessing, LatestAreTheirs, FoundAreRead, PairsAreSeen
<1>. QED
  BY <1>1, SeenNext, Inductive, PTL DEF Spec

(* Whatever the order of claims, candidate reads, commits, failures and    *)
(* crashes: two resolved adverts that find each other have been weighed,   *)
(* unless more adverts than the candidate limit rival one of them.         *)
THEOREM NoPairOverlooked == Spec => []ResolvedPairsAreDecided
<1>1. IInv /\ SeenInv => ResolvedPairsAreDecided
  <2>. SUFFICES ASSUME IInv, SeenInv PROVE ResolvedPairsAreDecided
    OBVIOUS
  <2>1. \A l \in Listings : \A s \in latest[l] : job[s] = "completed" => Past(s) /\ found[s] = {}
    BY DEF IInv, TypeOK, SeenInv, WorkingAreProcessing, FoundAreRead, Past
  <2>. QED
    BY <2>1 DEF SeenInv, PairsAreSeen, ResolvedPairsAreDecided
<1>. QED
  BY <1>1, Inductive, SeenHolds, PTL

-----------------------------------------------------------------------------
(* The jobs and their commits implement the promise of PropertyGroups.     *)

(* A merge is a join of its group: it brings the properties of its adverts *)
(* and those it creates.                                                   *)
LEMMA MergeJoins ==
  ASSUME TypeOK, NEW G \in SUBSET Listings, G # {}, MergeGroup(G)
  PROVE  Groups!Join(G)
<1>. /\ lastProperty \in Nat /\ member \in [Listings -> 0..lastProperty]
     /\ LastAfter(G) \in Nat /\ lastProperty <= LastAfter(G)
     /\ lastProperty' = LastAfter(G)
  BY GroupFacts, ResolverBoundsAssumption DEF TypeOK, MergeGroup
<1>1. 1..lastProperty \subseteq 1..lastProperty'
  OBVIOUS
<1>2. (1..lastProperty') \ (1..lastProperty) = lastProperty + 1 .. LastAfter(G)
  OBVIOUS
<1>3. {member[l] : l \in G} \ {0} = {member[l] : l \in G \ NewOnes(G)}
  BY DEF NewOnes
<1>4. Groups!Brought(G) = GroupOf(G)
  BY <1>2, <1>3 DEF Groups!Brought, GroupOf
<1>5. \A l \in Listings :
        l \in G \/ member[l] \in GroupOf(G) <=> l \in NewOnes(G) \/ member[l] \in GroupOf(G)
  BY DEF NewOnes, GroupOf
<1>6. member' = [l \in Listings |-> IF l \in G \/ member[l] \in GroupOf(G) THEN Survivor(G) ELSE member[l]]
  BY <1>5 DEF MergeGroup
<1>7. merged' = merged \cup (GroupOf(G) \ {Survivor(G)}) /\ Survivor(G) \in GroupOf(G)
  BY GroupFacts DEF MergeGroup
<1>. QED
  BY <1>1, <1>4, <1>6, <1>7 DEF Groups!Join

LEMMA CommitJoins ==
  ASSUME IInv, NEW s \in working, Commit(s)
  PROVE  Groups!Next
<1>1. Grouped(s) \in SUBSET Listings /\ Grouped(s) # {}
  <2>1. AcceptedNow(s) \subseteq Pairs(s) /\ Pairs(s) \subseteq SUBSET Snapshots
    BY DEF IInv, TypeOK, AcceptedNow, Pairs
  <2>. QED
    BY <2>1, SnapshotsAssumption DEF IInv, TypeOK, Grouped
<1>2. Groups!Join(Grouped(s))
  BY <1>1, MergeJoins DEF Commit, IInv
<1>3. Grouped(s) \in (SUBSET Listings) \ {{}}
  BY <1>1
<1>. QED
  BY <1>2, <1>3, Zenon DEF Groups!Next

LEMMA ReassignMoves ==
  ASSUME IInv, NEW l \in Listings, Reassign(l)
  PROVE  Groups!Move(l)
<1>. /\ lastProperty \in Nat /\ merged \subseteq 1..lastProperty /\ merged' = merged
  BY ResolverBoundsAssumption DEF IInv, TypeOK, Reassign
<1>1. CASE /\ lastProperty' = lastProperty + 1
           /\ member' = [member EXCEPT ![l] = lastProperty + 1]
  <2>. DEFINE p == lastProperty + 1
  <2>1. p \in 1..lastProperty' /\ p \notin merged /\ 1..lastProperty' = 1..lastProperty \cup {p}
    BY <1>1
  <2>. QED
    BY <1>1, <2>1 DEF Groups!Move
<1>2. CASE lastProperty' = lastProperty /\ \E p \in Live \ {member[l]} : member' = [member EXCEPT ![l] = p]
  <2>1. PICK p \in Live : member' = [member EXCEPT ![l] = p]
    BY <1>2
  <2>2. p \in 1..lastProperty' /\ p \notin merged /\ 1..lastProperty' = 1..lastProperty \cup {p}
    BY <1>2 DEF Live
  <2>. QED
    BY <2>1, <2>2 DEF Groups!Move
<1>. QED
  BY <1>1, <1>2 DEF Reassign

LEMMA StepRefines ==
  ASSUME IInv, [Next]_vars
  PROVE  Groups!Next \/ UNCHANGED identity
<1>1. ASSUME NEW s \in Snapshots, CommitJob(s) PROVE Groups!Next
  BY <1>1, CommitJoins DEF CommitJob, IInv, TypeOK
<1>2. ASSUME NEW s \in Snapshots, FailJob(s) PROVE Groups!Next \/ UNCHANGED identity
  BY <1>2, CommitJoins DEF FailJob
<1>3. ASSUME NEW l \in Listings, Reassign(l) PROVE Groups!Next
  BY <1>3, ReassignMoves DEF Groups!Next
<1>. QED
  BY <1>1, <1>2, <1>3
     DEF Next, WorkerStep, OperatorStep, AddSnapshot, Claim, ReadCandidates, Crash, Override, vars

(* Whatever the workers, the faults and the operators do: an advert keeps  *)
(* a property once it has one, a group joins as a whole, and what has been *)
(* merged away stays empty.                                                *)
THEOREM Implementation == Spec => ImplementsPropertyGroups
<1>1. Init => Groups!Init
  BY DEF Init, Groups!Init
<1>2. IInv /\ [Next]_vars => [Groups!Next]_Groups!vars
  <2>1. UNCHANGED identity => UNCHANGED Groups!vars
    BY DEF identity, Groups!vars
  <2>. QED
    BY <2>1, StepRefines
<1>. QED
  BY <1>1, <1>2, Inductive, PTL DEF Spec, ImplementsPropertyGroups, Groups!Spec

-----------------------------------------------------------------------------
(* From the evidence to the membership.                                    *)

(* Adverts the rule takes for one property are in one property once both   *)
(* are resolved: the pair is weighed, the decision is the rule's, and the  *)
(* memberships follow the decision.                                        *)
THEOREM DuplicatesMerge == Spec => []DuplicatesAreMerged
<1>1. IInv /\ SeenInv /\ ResolvedPairsAreDecided /\ DecisionsFollowRule => DuplicatesAreMerged
  <2>. SUFFICES ASSUME IInv, SeenInv, ResolvedPairsAreDecided, DecisionsFollowRule,
                       NEW l \in Listings, NEW m \in Listings,
                       NEW s \in latest[l], NEW t \in latest[m],
                       l # m, job[s] = "completed", job[t] = "completed",
                       Finds(s, t), Finds(t, s), Takes(s, t),
                       {s, t} \notin overridden, {l, m} \cap reassigned = {},
                       ~Crowded(s), ~Crowded(t)
                PROVE  member[l] = member[m] /\ member[l] # 0
    BY DEF DuplicatesAreMerged
  <2>1. {s, t} \in accepted \cup rejected
    BY DEF ResolvedPairsAreDecided
  <2>2. s \in Snapshots /\ t \in Snapshots /\ ListingOf[s] = l /\ ListingOf[t] = m
    BY DEF IInv, TypeOK, SeenInv, LatestAreTheirs
  <2>3. {s, t} \in accepted \ overridden
    BY <2>1, <2>2 DEF DecisionsFollowRule
  <2>. QED
    BY <2>2, <2>3 DEF IInv, AcceptedAreTogether
<1>. QED
  BY <1>1, Inductive, SeenHolds, NoPairOverlooked, RuleDecides, PTL

-----------------------------------------------------------------------------
(* The rule and the query that serves it.                                  *)

(* A tolerance grows with what it is a share of.                           *)
LEMMA ToleranceGrows ==
  ASSUME NEW f \in Facts, NEW x \in Nat, NEW y \in Nat, x <= y
  PROVE  Tolerance(f, x) \in Nat /\ Tolerance(f, y) \in Nat /\ Tolerance(f, x) <= Tolerance(f, y)
<1>1. CASE f = "size"
  BY <1>1 DEF Tolerance, MaxOf
<1>2. CASE f = "land"
  BY <1>2 DEF Tolerance, MaxOf
<1>3. CASE f \notin {"size", "land"}
  BY <1>3 DEF Tolerance
<1>. QED
  BY <1>1, <1>2, <1>3

(* The candidate query proposes no advert the rule would find in conflict  *)
(* over rooms, size, floor or land: its tolerance is never the wider one.  *)
THEOREM ProposalsDoNotConflict ==
  ASSUME NEW l \in Evidence, NEW r \in Evidence, Meets(l, r)
  PROVE  Conflicting(l, r) \cap Blocking = {}
<1>. SUFFICES ASSUME NEW f \in Blocking, Known(l, r, f) PROVE Agree(l, r, f)
  BY DEF Conflicting
<1>. DEFINE x == l.facts[f]
            y == r.facts[f]
<1>1. f \in Facts /\ x \in Nat /\ y \in Nat
  BY DEF Blocking, Facts, Evidence, Value, Known
<1>2. Within(f, x, y, x)
  BY DEF Meets
<1>3. MaxOf(x, y) \in Nat /\ x <= MaxOf(x, y) /\ Distance(x, y) \in Nat
  BY <1>1 DEF MaxOf, Distance
<1>4. Tolerance(f, x) <= Tolerance(f, MaxOf(x, y)) /\ Tolerance(f, x) \in Nat
      /\ Tolerance(f, MaxOf(x, y)) \in Nat
  BY <1>1, <1>3, ToleranceGrows
<1>. HIDE DEF x, y
<1>5. Within(f, x, y, MaxOf(x, y))
  BY <1>2, <1>3, <1>4 DEF Within
<1>. QED
  BY <1>5 DEF Agree, x, y

(* Nor does it miss one from the larger side: of two adverts the rule      *)
(* accepts, in one area and of one kind, the one that is not the smaller   *)
(* in size or land finds the other.                                        *)
THEOREM LargerFindsSmaller ==
  ASSUME NEW l \in Evidence, NEW r \in Evidence, Accepted(l, r),
         l.property = r.property, l.deal = r.deal,
         Unknown \in {l.area, r.area} \/ l.area = r.area,
         \A f \in {"size", "land"} : Known(l, r, f) => r.facts[f] <= l.facts[f]
  PROVE  Meets(l, r)
<1>1. l.address # Unknown /\ l.address = r.address
  BY DEF Accepted, BothKnown
<1>2. ASSUME NEW f \in Blocking, Known(l, r, f)
      PROVE  Within(f, l.facts[f], r.facts[f], l.facts[f])
  <2>. DEFINE x == l.facts[f]
              y == r.facts[f]
  <2>1. f \in Facts /\ x \in Nat /\ y \in Nat
    BY <1>2 DEF Blocking, Facts, Evidence, Value, Known
  <2>2. Within(f, x, y, MaxOf(x, y))
    BY <1>2, <2>1 DEF Accepted, Conflicting, Agree
  <2>3. CASE f \in {"size", "land"}
    <3>1. MaxOf(x, y) = x
      BY <1>2, <2>1, <2>3 DEF MaxOf
    <3>. QED
      BY <2>2, <3>1
  <2>4. CASE f \notin {"size", "land"}
    BY <2>2, <2>4 DEF Within, Tolerance
  <2>. QED
    BY <2>3, <2>4
<1>. QED
  BY <1>1, <1>2 DEF Meets

(* The share of the words in common is at most the whole of their tenth.   *)
LEMMA WordsAreTenth ==
  ASSUME NEW l \in Evidence, NEW r \in Evidence, IsFiniteSet(l.words), IsFiniteSet(r.words)
  PROVE  WordScore(l, r) \in 0..1000
<1>. DEFINE all == Cardinality(l.words \cup r.words)
            common == Cardinality(l.words \cap r.words)
<1>1. CASE l.words = {} \/ r.words = {}
  BY <1>1 DEF WordScore
<1>2. CASE l.words # {} /\ r.words # {}
  <2>1. IsFiniteSet(l.words \cup r.words) /\ l.words \cap r.words \in SUBSET (l.words \cup r.words)
    BY FS_Union
  <2>2. all \in Nat /\ common \in Nat /\ common <= all /\ all # 0
    BY <1>2, <2>1, FS_Subset, FS_CardinalityType, FS_EmptySet
  <2>3. WordScore(l, r) = (2000 * common + all) \div (2 * all)
    BY <1>2 DEF WordScore
  <2>. HIDE DEF all, common
  <2>. DEFINE q == (2000 * common + all) \div (2 * all)
  <2>4. 2000 * common + all \in Nat /\ 2 * all \in Nat /\ 2 * all > 0
    BY <2>2
  <2>5. q \in Nat /\ q * (2 * all) <= 2000 * common + all
    BY <2>4
  <2>6. q <= 1000
    BY <2>2, <2>5
  <2>. QED
    BY <2>3, <2>5, <2>6
<1>. QED
  BY <1>1, <1>2

LEMMA FactsAreQuarter == \A F : FactScore(F) \in 0..2500
BY DEF FactScore, Weight

LEMMA PenaltyType == ASSUME NEW F \in SUBSET Facts PROVE Penalty(F) \in Nat
<1>1. IsFiniteSet(Facts)
  <2>1. IsFiniteSet({"rooms"}) /\ IsFiniteSet({"size"}) /\ IsFiniteSet({"floor"}) /\ IsFiniteSet({"floors"})
        /\ IsFiniteSet({"series"}) /\ IsFiniteSet({"type"}) /\ IsFiniteSet({"land"})
    BY FS_Singleton
  <2>2. IsFiniteSet({"rooms"} \cup {"size"}) /\ IsFiniteSet({"floor"} \cup {"floors"})
        /\ IsFiniteSet({"series"} \cup {"type"})
    BY <2>1, FS_Union
  <2>3. IsFiniteSet(({"rooms"} \cup {"size"}) \cup ({"floor"} \cup {"floors"}))
        /\ IsFiniteSet(({"series"} \cup {"type"}) \cup {"land"})
    BY <2>1, <2>2, FS_Union
  <2>4. IsFiniteSet((({"rooms"} \cup {"size"}) \cup ({"floor"} \cup {"floors"}))
                      \cup (({"series"} \cup {"type"}) \cup {"land"}))
    BY <2>3, FS_Union
  <2>5. Facts = (({"rooms"} \cup {"size"}) \cup ({"floor"} \cup {"floors"}))
                  \cup (({"series"} \cup {"type"}) \cup {"land"})
    BY DEF Facts
  <2>. QED
    BY <2>4, <2>5
<1>2. Cardinality(F) \in Nat
  BY <1>1, FS_Subset, FS_CardinalityType
<1>. QED
  BY <1>2 DEF Penalty

(* The terms of the score, each within its bounds.                         *)
Place(l, r) == IF BothKnown(l.address, r.address) THEN 1500 ELSE 0
Area(l, r) == IF BothKnown(l.area, r.area) THEN 800 ELSE 0
Sum(l, r) ==
  PhotoScore(l, r) + Place(l, r) + Area(l, r)
    + FactScore(Compatible(l, r)) + WordScore(l, r) - Penalty(Conflicting(l, r))

LEMMA ScoreTerms ==
  ASSUME NEW l \in Evidence, NEW r \in Evidence, IsFiniteSet(l.words), IsFiniteSet(r.words)
  PROVE  /\ Sum(l, r) \in Int /\ Sum(l, r) <= PhotoScore(l, r) + 5800
         /\ Penalty(Conflicting(l, r)) = 0 => Sum(l, r) >= PhotoScore(l, r) + Place(l, r)
         /\ Score(l, r) = IF Sum(l, r) < 0 THEN 0 ELSE IF Sum(l, r) > 10000 THEN 10000 ELSE Sum(l, r)
<1>. DEFINE photos == PhotoScore(l, r)
            place == Place(l, r)
            area == Area(l, r)
            facts == FactScore(Compatible(l, r))
            words == WordScore(l, r)
            penalty == Penalty(Conflicting(l, r))
<1>1. photos \in Nat /\ place \in {0, 1500} /\ area \in {0, 800}
  BY DEF PhotoScore, Place, Area
<1>2. facts \in 0..2500 /\ words \in 0..1000 /\ penalty \in Nat
  BY FactsAreQuarter, WordsAreTenth, PenaltyType DEF Conflicting
<1>3. Score(l, r) = IF Sum(l, r) < 0 THEN 0 ELSE IF Sum(l, r) > 10000 THEN 10000 ELSE Sum(l, r)
  BY Zenon DEF Score, Sum, Place, Area
<1>4. Sum(l, r) = photos + place + area + facts + words - penalty
  BY DEF Sum
<1>. HIDE DEF photos, place, area, facts, words, penalty
<1>5. /\ Sum(l, r) \in Int /\ Sum(l, r) <= photos + 5800
      /\ penalty = 0 => Sum(l, r) >= photos + place
  BY <1>1, <1>2, <1>4
<1>. QED
  BY <1>3, <1>5 DEF photos, place, penalty

(* README: "address or prose alone can never cause an automatic merge".    *)
(* Whatever address, area, facts and words agree on, the score stays below *)
(* the threshold without a photo in common.                                *)
THEOREM NothingWithoutPhotos ==
  ASSUME NEW l \in Evidence, NEW r \in Evidence, IsFiniteSet(l.words), IsFiniteSet(r.words),
         ~Same(l, r), ~Alike(l, r)
  PROVE  Score(l, r) < 7200
<1>1. PhotoScore(l, r) = 0
  BY DEF PhotoScore
<1>. QED
  BY <1>1, ScoreTerms

(* One shot in common at one known address is enough, as long as no known  *)
(* fact speaks against it.                                                 *)
THEOREM SamePhotoDecides ==
  ASSUME NEW l \in Evidence, NEW r \in Evidence, IsFiniteSet(l.words), IsFiniteSet(r.words),
         Same(l, r), BothKnown(l.address, r.address), Conflicting(l, r) = {}
  PROVE  Accepted(l, r)
<1>1. PhotoScore(l, r) = 6000 /\ Place(l, r) = 1500
  BY DEF PhotoScore, Place
<1>2. Penalty(Conflicting(l, r)) = 0
  <2>1. Cardinality(Conflicting(l, r)) = 0
    BY FS_EmptySet
  <2>. QED
    BY <2>1 DEF Penalty
<1>3. Score(l, r) >= 7200
  BY <1>1, <1>2, ScoreTerms
<1>. QED
  BY <1>3 DEF Accepted
=============================================================================
