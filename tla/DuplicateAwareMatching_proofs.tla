-------------------- MODULE DuplicateAwareMatching_proofs --------------------
(***************************************************************************)
(* Proofs about DuplicateAwareMatching, for every set of adverts, users    *)
(* and prices, every duplicate rule, and every bound.                      *)
(***************************************************************************)
EXTENDS DuplicateAwareMatching, FiniteSetTheorems, WellFoundedInduction, TLAPS

(* The parts of the inductive invariant.  What is recorded is of the past; *)
(* an active advert has been seen alive at its newest check or later, and  *)
(* a filter is stamped no later than it is committed.                      *)
PastIsRecorded ==
  /\ \A a \in Adverts :
       /\ \A i \in DOMAIN history[a] : history[a][i].at <= clock
       /\ checked[a] <= clock
       /\ status[a] = "active" => checked[a] <= lastSeen[a]
  /\ \A u \in Users :
       /\ activated[u] <= since[u] /\ since[u] <= clock
       /\ \A t \in stamps[u] : t <= clock

(* Properties are of adverts that are found, and what is resolved has one; *)
(* discoveries are consumed of resolved adverts only.                      *)
ResolvedHaveProperty ==
  \A a \in Adverts :
    /\ a \in resolved => member[a] # 0
    /\ member[a] # 0 => a \in Found
    /\ <<a, 1>> \in consumed => a \in resolved

(* The property a match has read is that of its advert, or has become part *)
(* of another and is nobody's.                                             *)
PropertyIsCurrent ==
  matcher.pc # "idle" =>
    /\ matcher.advert \in Found \cap resolved
    /\ matcher.property \in 1..lastProperty
    /\ \/ member[matcher.advert] = matcher.property
       \/ regrouped /\ \A b \in Adverts : member[b] # matcher.property

(* What the match is going to say has been affirmed.                       *)
Affirmed(b) == lastSeen[b] >= SeenAt(matcher.advert)
OffersAreAffirmed ==
  /\ matcher.pc = "confirmed" /\ ~regrouped =>
       \A b \in Others(matcher.advert, matcher.property) : status[b] = "active" => Affirmed(b)
  /\ matcher.pc = "classify" /\ ~regrouped => \A o \in matcher.active : Affirmed(o.advert)

RowsAreOfAdvert ==
  /\ matcher.pc \in {"prepared", "confirmed"} => matcher.rows = {}
  /\ matcher.pc = "classify" =>
       \A n \in matcher.rows :
         /\ n.advert = matcher.advert
         /\ \A b \in n.alternatives : \E o \in matcher.active : o.advert = b

DiscoveriesAreNew ==
  matcher.pc = "classify" /\ ~regrouped =>
    \A n \in matcher.rows : n.kind = "listing_discovered" =>
      \A m \in notes : m.user = n.user => member[m.advert] # member[matcher.advert]

(* Whom the match concerns is still to be classified, is told by it, or    *)
(* knows the property.                                                     *)
Knows(u, a) == \E n \in notes : n.user = u /\ member[n.advert] = member[a]
EveryoneIsServed ==
  matcher.pc = "classify" =>
    \A u \in InForce(matcher.advert) :
      \/ u \in matcher.left
      \/ \E n \in matcher.rows : n.user = u
      \/ Knows(u, matcher.advert)

IInv == /\ PastIsRecorded /\ ResolvedHaveProperty /\ PropertyIsCurrent /\ OffersAreAffirmed
        /\ RowsAreOfAdvert /\ DiscoveriesAreNew /\ EveryoneIsServed
        /\ InterestedUserKnowsProperty

-----------------------------------------------------------------------------
(* Numbers.                                                                *)
LEMMA LeastOfNat ==
  ASSUME NEW S, S \subseteq Nat, S # {}
  PROVE  LeastOf(S) \in S /\ \A x \in S : LeastOf(S) <= x
<1>1. PICK x \in S : \A y \in S : ~(<<y, x>> \in OpToRel(<, Nat))
  BY NatLessThanWellFounded, WFMin
<1>2. \A y \in S : ~(y < x)
  BY <1>1, Zenon DEF OpToRel
<1>3. \A y \in S : x <= y
  BY <1>2
<1>. QED
  BY <1>3 DEF LeastOf

LEMMA Greatest ==
  ASSUME NEW n \in Nat, NEW S \in SUBSET (1..n), S # {}
  PROVE  \E i \in S : \A j \in S : j <= i
<1>. DEFINE T == {n - i : i \in S}
<1>0. \A i \in S : i \in Nat /\ n - i \in Nat
  OBVIOUS
<1>1. T \subseteq Nat /\ T # {}
  BY <1>0
<1>2. LeastOf(T) \in T /\ \A x \in T : LeastOf(T) <= x
  BY <1>1, LeastOfNat
<1>3. PICK i \in S : LeastOf(T) = n - i
  BY <1>2
<1>4. \A j \in S : n - i <= n - j
  BY <1>2, <1>3
<1>. QED
  BY <1>4

LEMMA AppendFacts ==
  ASSUME NEW S, NEW s \in Seq(S), NEW e \in S
  PROVE  /\ Append(s, e) \in Seq(S) /\ Append(s, e) # <<>>
         /\ \A i \in DOMAIN Append(s, e) : i \in DOMAIN s \/ Append(s, e)[i] = e
         /\ \A i \in DOMAIN s : Append(s, e)[i] = s[i]
<1>1. Append(s, e) \in Seq(S) /\ Len(Append(s, e)) = Len(s) + 1 /\ Len(s) \in Nat
  OBVIOUS
<1>2. DOMAIN Append(s, e) = 1..(Len(s) + 1) /\ DOMAIN s = 1..Len(s)
  BY <1>1
<1>3. \A i \in 1..Len(s) : Append(s, e)[i] = s[i]
  OBVIOUS
<1>4. Append(s, e)[Len(s) + 1] = e
  OBVIOUS
<1>5. \A i \in 1..(Len(s) + 1) : i \in 1..Len(s) \/ i = Len(s) + 1
  BY <1>1
<1>6. Append(s, e) # <<>>
  BY <1>1
<1>. QED
  BY <1>1, <1>2, <1>3, <1>4, <1>5, <1>6

Price == [price : Prices, at : 1..MaxClock]
LEMMA HistoryFacts ==
  ASSUME TypeOK, NEW a \in Adverts
  PROVE  /\ history[a] \in Seq(Price) /\ Len(history[a]) \in Nat
         /\ DOMAIN history[a] = 1..Len(history[a])
         /\ \A i \in DOMAIN history[a] :
              history[a][i] \in Price /\ history[a][i].price \in Prices /\ history[a][i].at \in 1..MaxClock
         /\ history[a] # <<>> => 1 \in DOMAIN history[a]
<1>1. history[a] \in Seq(Price)
  BY DEF TypeOK, Price
<1>2. /\ Len(history[a]) \in Nat /\ DOMAIN history[a] = 1..Len(history[a])
      /\ \A i \in DOMAIN history[a] : history[a][i] \in Price
      /\ history[a] # <<>> => 1 \in DOMAIN history[a]
  BY <1>1
<1>3. \A e \in Price : e.price \in Prices /\ e.at \in 1..MaxClock
  BY DEF Price
<1>. QED
  BY <1>1, <1>2, <1>3

LEMMA LatestIsPrice ==
  ASSUME TypeOK, NEW b \in Adverts, NEW rows \in SUBSET (DOMAIN history[b])
  PROVE  Latest(b, rows) \in Prices \cup {None}
<1>2. CASE rows = {}
  BY <1>2 DEF Latest
<1>3. CASE rows # {}
  <2>1. \E i \in rows : \A j \in rows : j <= i
    BY <1>3, HistoryFacts, Greatest
  <2>2. PICK i \in rows : i = CHOOSE k \in rows : \A j \in rows : j <= k
    BY <2>1
  <2>3. history[b][i].price \in Prices
    BY HistoryFacts
  <2>. QED
    BY <1>3, <2>2, <2>3 DEF Latest
<1>. QED
  BY <1>2, <1>3

(* The first price of a found advert.                                      *)
LEMMA FoundFacts ==
  ASSUME TypeOK, NEW a \in Found
  PROVE  /\ a \in Adverts /\ 1 \in DOMAIN history[a]
         /\ SeenAt(a) \in Nat /\ InitialPrice(a) \in Prices
  BY HistoryFacts DEF Found, SeenAt, InitialPrice

LEMMA IdleFacts ==
  /\ Idle \in [pc : {"idle", "prepared", "confirmed", "classify"},
               advert : Adverts \cup {NoAdvert}, property : Nat,
               active : SUBSET Offer, prior : SUBSET Offer,
               left : SUBSET Users, rows : SUBSET Note]
  /\ Idle.pc = "idle"
  BY DEF Idle

(* Without a match there is nothing to say of it.                          *)
LEMMA IdleKeeps ==
  ASSUME PastIsRecorded', ResolvedHaveProperty', InterestedUserKnowsProperty', matcher'.pc = "idle"
  PROVE  IInv'
  BY DEF IInv, PropertyIsCurrent, OffersAreAffirmed, RowsAreOfAdvert, DiscoveriesAreNew, EveryoneIsServed

LEMMA InitIInv == Init => TypeOK /\ IInv
<1>. SUFFICES ASSUME Init PROVE TypeOK /\ IInv
  OBVIOUS
<1>1. TypeOK
  <2>1. clock \in 1..MaxClock /\ changes \in 0..MaxChanges
    BY MatchingBoundsAssumption DEF Init
  <2>2. history \in [Adverts -> Seq([price : Prices, at : 1..MaxClock])]
    BY DEF Init
  <2>3. /\ lastSeen \in [Adverts -> 0..MaxClock] /\ checked \in [Adverts -> 0..MaxClock]
        /\ activated \in [Users -> 0..MaxClock] /\ since \in [Users -> 0..MaxClock]
        /\ enabled \in [Users -> BOOLEAN] /\ stamps \in [Users -> SUBSET (1..MaxClock)]
    BY MatchingBoundsAssumption DEF Init
  <2>4. member \in [Adverts -> 0..lastProperty] /\ lastProperty \in Nat
    BY DEF Init
  <2>5. status \in [Adverts -> Statuses]
    BY DEF Init, Statuses
  <2>. QED
    BY <2>1, <2>2, <2>3, <2>4, <2>5, IdleFacts DEF Init, TypeOK
<1>2. PastIsRecorded
  BY DEF Init, PastIsRecorded
<1>3. ResolvedHaveProperty
  BY DEF Init, ResolvedHaveProperty
<1>4. InterestedUserKnowsProperty
  BY DEF Init, InterestedUserKnowsProperty
<1>. QED
  BY <1>1, <1>2, <1>3, <1>4, IdleFacts
     DEF Init, IInv, PropertyIsCurrent, OffersAreAffirmed, RowsAreOfAdvert, DiscoveriesAreNew, EveryoneIsServed

-----------------------------------------------------------------------------
(* What the feed and the availability workers see of an advert.            *)
Observation(a) ==
  (\E p \in Prices : Discover(a, p) \/ ChangePrice(a, p)) \/ See(a) \/ \E s \in Statuses : Check(a, s)

LEMMA ObservationType ==
  ASSUME TypeOK, PastIsRecorded, NEW a \in Adverts, Observation(a)
  PROVE  TypeOK' /\ PastIsRecorded'
<1>1. UNCHANGED <<clock, identity, filters, consumed, notes, matcher, regrouped>>
  BY DEF Observation, Discover, ChangePrice, See, Check, Sighted
<1>2. clock \in 1..MaxClock /\ clock \in 0..MaxClock /\ clock \in Nat
  BY MatchingBoundsAssumption DEF TypeOK
<1>3. changes' \in 0..MaxChanges
  BY MatchingBoundsAssumption DEF Observation, Discover, ChangePrice, See, Check, Change, TypeOK
<1>4. /\ status' \in [Adverts -> Statuses] /\ lastSeen' \in [Adverts -> 0..MaxClock]
      /\ checked' \in [Adverts -> 0..MaxClock] /\ asked' \in SUBSET Adverts
  <2>1. CASE Sighted(a) /\ UNCHANGED asked
    BY <1>2, <2>1 DEF Sighted, TypeOK, Statuses
  <2>2. ASSUME NEW s \in Statuses, Check(a, s) PROVE <1>4
    <3>1. IF s = "active" THEN clock \in 0..MaxClock ELSE lastSeen[a] \in 0..MaxClock
      BY <1>2 DEF TypeOK
    <3>. QED
      BY <1>2, <2>2, <3>1 DEF Check, TypeOK
  <2>. QED
    BY <2>1, <2>2 DEF Observation, Discover, ChangePrice, See, Sighted, TypeOK
<1>5. history' = history \/ \E p \in Prices : history' =
        [history EXCEPT ![a] = Append(@, [price |-> p, at |-> clock])]
  BY DEF Observation, Discover, ChangePrice, See, Check, Observe
<1>6. /\ history' \in [Adverts -> Seq([price : Prices, at : 1..MaxClock])]
      /\ \A b \in Adverts : \A i \in DOMAIN history'[b] : history'[b][i].at <= clock
  <2>1. CASE history' = history
    BY <2>1 DEF TypeOK, PastIsRecorded
  <2>2. ASSUME NEW p \in Prices,
               history' = [history EXCEPT ![a] = Append(@, [price |-> p, at |-> clock])]
        PROVE  <1>6!1 /\ <1>6!2
    <3>. DEFINE e == [price |-> p, at |-> clock]
    <3>1. e \in Price /\ e.at = clock
      BY <1>2 DEF Price
    <3>. HIDE DEF e
    <3>2. history'[a] = Append(history[a], e)
      BY <2>2 DEF TypeOK, e
    <3>3. \A b \in Adverts \ {a} : history'[b] = history[b]
      BY <2>2 DEF TypeOK
    <3>4. history'[a] \in Seq(Price)
      BY <3>1, <3>2, HistoryFacts, AppendFacts
    <3>5. history' \in [Adverts -> Seq([price : Prices, at : 1..MaxClock])]
      BY <2>2, <3>2, <3>4 DEF TypeOK, Price, e
    <3>6. \A i \in DOMAIN history'[a] : i \in DOMAIN history[a] \/ history'[a][i] = e
      BY <3>1, <3>2, HistoryFacts, AppendFacts
    <3>7. \A i \in DOMAIN history[a] : history'[a][i] = history[a][i]
      BY <3>1, <3>2, HistoryFacts, AppendFacts
    <3>8. \A i \in DOMAIN history'[a] : history'[a][i].at <= clock
      BY <1>2, <3>1, <3>6, <3>7 DEF PastIsRecorded
    <3>. QED
      BY <3>3, <3>5, <3>8 DEF PastIsRecorded
  <2>. QED
    BY <1>5, <2>1, <2>2
<1>7. \A b \in Adverts : checked'[b] <= clock /\ (status'[b] = "active" => checked'[b] <= lastSeen'[b])
  <2>1. \A b \in Adverts : /\ checked[b] \in Nat /\ lastSeen[b] \in Nat /\ checked[b] <= clock
                           /\ status[b] = "active" => checked[b] <= lastSeen[b]
    BY DEF TypeOK, PastIsRecorded
  <2>2. ASSUME Sighted(a) PROVE <1>7
    BY <1>2, <2>1, <2>2 DEF Sighted, TypeOK
  <2>3. ASSUME NEW s \in Statuses, Check(a, s) PROVE <1>7
    BY <1>2, <2>1, <2>3 DEF Check, TypeOK
  <2>. QED
    BY <2>2, <2>3 DEF Observation, Discover, ChangePrice, See
<1>8. TypeOK'
  BY <1>1, <1>3, <1>4, <1>6 DEF TypeOK, identity, filters
<1>9. PastIsRecorded'
  BY <1>1, <1>6, <1>7 DEF PastIsRecorded, filters
<1>. QED
  BY <1>8, <1>9

(* The events of adverts stay what they are.                               *)
LEMMA EventsStay ==
  ASSUME TypeOK, NEW a \in Adverts, Observation(a), NEW b \in Found
  PROVE  b \in Found' /\ SeenAt(b)' = SeenAt(b) /\ InitialPrice(b)' = InitialPrice(b)
<1>1. history' = history \/ \E p \in Prices : history' =
        [history EXCEPT ![a] = Append(@, [price |-> p, at |-> clock])]
  BY DEF Observation, Discover, ChangePrice, See, Check, Observe
<1>2. b \in Adverts /\ history[b] # <<>> /\ 1 \in DOMAIN history[b]
  BY HistoryFacts DEF Found
<1>3. ASSUME NEW p \in Prices, history' = [history EXCEPT ![a] = Append(@, [price |-> p, at |-> clock])]
      PROVE  history'[b] # <<>> /\ history'[b][1] = history[b][1]
  <2>1. CASE b # a
    BY <1>2, <1>3, <2>1 DEF TypeOK
  <2>2. CASE b = a
    <3>. DEFINE e == [price |-> p, at |-> clock]
    <3>1. e \in Price
      BY DEF Price, TypeOK
    <3>. HIDE DEF e
    <3>2. history'[b] = Append(history[b], e)
      BY <1>2, <1>3, <2>2 DEF TypeOK, e
    <3>. QED
      BY <1>2, <3>1, <3>2, HistoryFacts, AppendFacts
  <2>. QED
    BY <2>1, <2>2
<1>4. history'[b] # <<>> /\ history'[b][1] = history[b][1]
  BY <1>1, <1>2, <1>3
<1>. QED
  BY <1>2, <1>4 DEF Found, SeenAt, InitialPrice

LEMMA ObservationInv ==
  ASSUME TypeOK, IInv, NEW a \in Adverts, Observation(a)
  PROVE  TypeOK' /\ IInv'
<1>1. UNCHANGED <<clock, member, lastProperty, resolved, enabled, activated, since, stamps, consumed, notes, matcher, regrouped>>
  BY DEF Observation, Discover, ChangePrice, See, Check, Sighted, identity, filters
<1>2. TypeOK' /\ PastIsRecorded'
  BY ObservationType DEF IInv
<1>3. \A b \in Found : b \in Found' /\ SeenAt(b)' = SeenAt(b) /\ InitialPrice(b)' = InitialPrice(b)
  BY EventsStay
<1>4. \A b \in Found : SeenAt(b) \in Nat /\ SeenAt(b) <= clock
  BY FoundFacts DEF IInv, PastIsRecorded, SeenAt, Found
<1>5. \A b \in Adverts : \/ lastSeen'[b] = lastSeen[b] /\ (status'[b] = "active" => status[b] = "active")
                         \/ lastSeen'[b] = clock
  <2>1. CASE Sighted(a)
    BY <2>1 DEF Sighted, TypeOK
  <2>2. ASSUME NEW s \in Statuses, Check(a, s) PROVE <1>5
    BY <2>2 DEF Check, TypeOK
  <2>. QED
    BY <2>1, <2>2 DEF Observation, Discover, ChangePrice, See
<1>6. ResolvedHaveProperty'
  BY <1>1, <1>3 DEF IInv, ResolvedHaveProperty
<1>7. PropertyIsCurrent'
  BY <1>1, <1>3 DEF IInv, PropertyIsCurrent
<1>8. RowsAreOfAdvert' /\ DiscoveriesAreNew'
  BY <1>1 DEF IInv, RowsAreOfAdvert, DiscoveriesAreNew
<1>9. matcher.pc # "idle" => matcher.advert \in Found
  BY DEF IInv, PropertyIsCurrent
<1>10. OffersAreAffirmed'
  <2>1. ASSUME NEW b \in Adverts, matcher.pc # "idle", lastSeen[b] >= SeenAt(matcher.advert)
        PROVE  lastSeen'[b] >= SeenAt(matcher.advert)
    BY <1>4, <1>5, <1>9, <2>1
  <2>2. ASSUME matcher.pc = "confirmed", ~regrouped, NEW b \in Others(matcher.advert, matcher.property)',
               status'[b] = "active"
        PROVE  lastSeen'[b] >= SeenAt(matcher.advert)
    <3>1. b \in Adverts /\ member[b] = matcher.property /\ b # matcher.advert
      BY <1>1, <2>2 DEF Others, Found
    <3>2. b \in Found
      BY <2>2, <3>1 DEF IInv, ResolvedHaveProperty, PropertyIsCurrent, TypeOK
    <3>3. b \in Others(matcher.advert, matcher.property)
      BY <3>1, <3>2 DEF Others
    <3>4. status[b] = "active" => lastSeen[b] >= SeenAt(matcher.advert)
      BY <2>2, <3>3 DEF IInv, OffersAreAffirmed, Affirmed
    <3>. QED
      BY <1>4, <1>5, <1>9, <2>1, <2>2, <3>1, <3>4
  <2>3. \A o \in matcher.active : o.advert \in Adverts
    BY DEF TypeOK, Offer
  <2>. QED
    BY <1>1, <1>3, <1>9, <2>1, <2>2, <2>3 DEF IInv, OffersAreAffirmed, Affirmed
<1>11. EveryoneIsServed'
  BY <1>1, <1>3, <1>9 DEF IInv, EveryoneIsServed, Knows, InForce
<1>12. InterestedUserKnowsProperty'
  <2>1. \A b \in Adverts : <<b, 1>> \in consumed => b \in Found
    BY DEF IInv, ResolvedHaveProperty
  <2>. QED
    BY <1>1, <1>3, <2>1 DEF IInv, InterestedUserKnowsProperty, InForce, Found
<1>. QED
  BY <1>2, <1>6, <1>7, <1>8, <1>10, <1>11, <1>12 DEF IInv

LEMMA TickInv ==
  ASSUME TypeOK, IInv, Tick
  PROVE  TypeOK' /\ IInv'
<1>1. UNCHANGED <<adverts, identity, filters, consumed, notes, matcher, regrouped, changes>>
      /\ clock' = clock + 1 /\ clock' \in 1..MaxClock /\ clock \in Nat
  BY MatchingBoundsAssumption DEF Tick, TypeOK
<1>2. TypeOK'
  BY <1>1 DEF TypeOK, adverts, identity, filters
<1>3. PastIsRecorded'
  <2>1. \A a \in Adverts : checked[a] \in Nat
    BY DEF TypeOK
  <2>2. \A a \in Adverts : \A i \in DOMAIN history[a] : history[a][i].at \in Nat
    BY HistoryFacts
  <2>3. \A u \in Users : since[u] \in Nat /\ \A t \in stamps[u] : t \in Nat
    BY DEF TypeOK
  <2>. QED
    BY <1>1, <2>1, <2>2, <2>3 DEF IInv, PastIsRecorded, adverts, filters
<1>4. ResolvedHaveProperty' /\ PropertyIsCurrent' /\ RowsAreOfAdvert' /\ DiscoveriesAreNew'
  BY <1>1 DEF IInv, ResolvedHaveProperty, PropertyIsCurrent, RowsAreOfAdvert, DiscoveriesAreNew, adverts,
              identity, Found
<1>5. OffersAreAffirmed'
  BY <1>1 DEF IInv, OffersAreAffirmed, Affirmed, Others, Found, SeenAt, adverts, identity, filters
<1>6. EveryoneIsServed' /\ InterestedUserKnowsProperty'
  BY <1>1 DEF IInv, EveryoneIsServed, InterestedUserKnowsProperty, Knows, InForce, Found, SeenAt,
              InitialPrice, adverts, identity, filters
<1>. QED
  BY <1>2, <1>3, <1>4, <1>5, <1>6 DEF IInv

-----------------------------------------------------------------------------
(* A group has properties, among them a lowest: those of its adverts and   *)
(* the new ones of those that have none.                                   *)
LEMMA GroupFacts ==
  ASSUME TypeOK, NEW G \in SUBSET Adverts, G # {}
  PROVE  /\ LastAfter(G) \in Nat /\ lastProperty <= LastAfter(G)
         /\ GroupOf(G) \subseteq 1..LastAfter(G)
         /\ LeastOf(GroupOf(G)) \in GroupOf(G)
<1>. DEFINE new == Cardinality(NewOnes(G))
            group == GroupOf(G)
<1>1. IsFiniteSet(NewOnes(G)) /\ new \in Nat /\ (new = 0 <=> NewOnes(G) = {})
  <2>1. IsFiniteSet(NewOnes(G))
    BY AdvertsAssumption, FS_Subset DEF NewOnes
  <2>. QED
    BY <2>1, FS_CardinalityType, FS_EmptySet
<1>. HIDE DEF new
<1>2. LastAfter(G) = lastProperty + new /\ lastProperty \in Nat
  BY DEF LastAfter, TypeOK, new
<1>3. \A b \in Adverts : member[b] \in 0..lastProperty /\ (b \in NewOnes(G) <=> b \in G /\ member[b] = 0)
  BY DEF TypeOK, NewOnes
<1>4. \A P : P \in group <=> (\E b \in G : b \notin NewOnes(G) /\ member[b] = P) \/ P \in (lastProperty + 1)..LastAfter(G)
  BY DEF GroupOf
<1>5. group \subseteq 1..LastAfter(G)
  BY <1>1, <1>2, <1>3, <1>4
<1>6. group # {}
  <2>1. CASE NewOnes(G) = {}
    BY <1>4, <2>1
  <2>2. CASE NewOnes(G) # {}
    <3>1. new \in Nat /\ new # 0
      BY <1>1, <2>2
    <3>2. lastProperty + 1 \in (lastProperty + 1)..LastAfter(G)
      BY <1>2, <3>1
    <3>. QED
      BY <1>4, <3>2
  <2>. QED
    BY <2>1, <2>2
<1>7. LeastOf(group) \in group
  <2>1. group \subseteq Nat
    BY <1>5
  <2>. QED
    BY <1>6, <2>1, LeastOfNat
<1>. QED
  BY <1>1, <1>2, <1>5, <1>7

(* A merge keeps adverts of one property together, gives a property to     *)
(* those that have none, and takes all adverts out of a property it ends.  *)
LEMMA MergeFacts ==
  ASSUME TypeOK, NEW G \in SUBSET Adverts, G # {}, Merge(G)
  PROVE  /\ LastAfter(G) \in Nat /\ lastProperty <= LastAfter(G)
         /\ member' \in [Adverts -> 0..LastAfter(G)]
         /\ \A b \in Adverts : member'[b] # 0 <=> member[b] # 0 \/ b \in G
         /\ \A b, c \in Adverts : member[b] # 0 /\ member[b] = member[c] => member'[b] = member'[c]
         /\ \A P \in 1..lastProperty, b, c \in Adverts :
              (\A x \in Adverts : member[x] # P) \/ (member[b] = P /\ member'[b] # P) => member'[c] # P
<1>. DEFINE group == GroupOf(G)
            least == LeastOf(group)
<1>2. LastAfter(G) \in Nat /\ lastProperty <= LastAfter(G) /\ lastProperty \in Nat
  BY GroupFacts DEF TypeOK
<1>3. \A b \in Adverts : member[b] \in 0..lastProperty /\ (b \in NewOnes(G) <=> b \in G /\ member[b] = 0)
  BY DEF TypeOK, NewOnes
<1>4. \A P : P \in group <=> (\E b \in G : b \notin NewOnes(G) /\ member[b] = P) \/ P \in (lastProperty + 1)..LastAfter(G)
  BY DEF GroupOf
<1>5. group \subseteq 1..LastAfter(G)
  BY GroupFacts
<1>7. least \in group /\ least \in 1..LastAfter(G)
  BY <1>5, GroupFacts
<1>8. member' = [b \in Adverts |-> IF b \in NewOnes(G) \/ member[b] \in group THEN least ELSE member[b]]
  BY DEF Merge
<1>. HIDE DEF group, least
<1>9. \A b \in Adverts : b \in G => b \in NewOnes(G) \/ member[b] \in group
  BY <1>4
<1>10. 0 \notin group /\ least # 0
  BY <1>2, <1>5, <1>7
<1>11. \A b \in Adverts : member'[b] = IF b \in NewOnes(G) \/ member[b] \in group THEN least ELSE member[b]
  BY <1>8
<1>13. member' \in [Adverts -> 0..LastAfter(G)]
  <2>1. \A b \in Adverts : member'[b] \in 0..LastAfter(G)
    BY <1>2, <1>3, <1>7, <1>11
  <2>. QED
    BY <1>8, <2>1
<1>14. \A b \in Adverts : member'[b] # 0 <=> member[b] # 0 \/ b \in G
  BY <1>3, <1>9, <1>10, <1>11
<1>15. \A b, c \in Adverts : member[b] # 0 /\ member[b] = member[c] => member'[b] = member'[c]
  BY <1>3, <1>11
<1>16. ASSUME NEW P \in 1..lastProperty, NEW b \in Adverts, NEW c \in Adverts,
              (\A x \in Adverts : member[x] # P) \/ (member[b] = P /\ member'[b] # P)
       PROVE  member'[c] # P
  <2>1. P \notin (lastProperty + 1)..LastAfter(G) /\ P # 0
    BY <1>2
  <2>2. CASE \A x \in Adverts : member[x] # P
    <3>1. least # P
      BY <1>4, <1>7, <2>1, <2>2
    <3>. QED
      BY <1>11, <2>2, <3>1
  <2>3. CASE member[b] = P /\ member'[b] # P
    <3>1. P \in group /\ least # P
      BY <1>3, <1>11, <2>1, <2>3
    <3>. QED
      BY <1>11, <3>1
  <2>. QED
    BY <1>16, <2>2, <2>3
<1>. QED
  BY <1>2, <1>13, <1>14, <1>15, <1>16

LEMMA ResolveInv ==
  ASSUME TypeOK, IInv, NEW a \in Adverts, NEW G, Resolve(a, G)
  PROVE  TypeOK' /\ IInv'
<1>1. /\ UNCHANGED <<clock, history, status, lastSeen, checked, asked, enabled, activated, since, stamps,
                      consumed, notes, matcher>>
      /\ G \subseteq Found /\ a \in G /\ G \in SUBSET Adverts /\ G # {} /\ Merge(G)
      /\ lastProperty' = LastAfter(G) /\ resolved' = resolved \cup {a}
      /\ regrouped' = (regrouped \/ (matcher.pc # "idle" /\ member' # member))
  BY DEF Resolve, Found, adverts, filters
<1>2. /\ LastAfter(G) \in Nat /\ lastProperty <= LastAfter(G)
      /\ member' \in [Adverts -> 0..LastAfter(G)]
      /\ \A b \in Adverts : member'[b] # 0 <=> member[b] # 0 \/ b \in G
      /\ \A b, c \in Adverts : member[b] # 0 /\ member[b] = member[c] => member'[b] = member'[c]
  BY <1>1, MergeFacts
<1>3. \A P \in 1..lastProperty, b, c \in Adverts :
        (\A x \in Adverts : member[x] # P) \/ (member[b] = P /\ member'[b] # P) => member'[c] # P
  BY <1>1, MergeFacts
<1>4. Found' = Found /\ (\A b : SeenAt(b)' = SeenAt(b) /\ InitialPrice(b)' = InitialPrice(b))
      /\ lastProperty \in Nat
  BY <1>1 DEF Found, SeenAt, InitialPrice, TypeOK
<1>5. TypeOK'
  <2>1. changes' \in 0..MaxChanges
    BY MatchingBoundsAssumption DEF Resolve, Change, TypeOK
  <2>2. resolved' \in SUBSET Adverts /\ regrouped' \in BOOLEAN
    BY <1>1 DEF TypeOK
  <2>. QED
    BY <1>1, <1>2, <2>1, <2>2 DEF TypeOK
<1>6. PastIsRecorded'
  BY <1>1 DEF IInv, PastIsRecorded
<1>7. ResolvedHaveProperty'
  BY <1>1, <1>2, <1>4 DEF IInv, ResolvedHaveProperty
<1>8. InterestedUserKnowsProperty'
  <2>1. \A n \in notes : n.advert \in Adverts
    BY DEF TypeOK, Note
  <2>2. \A b \in Adverts : <<b, 1>> \in consumed => member[b] # 0
    BY DEF IInv, ResolvedHaveProperty
  <2>. QED
    BY <1>1, <1>2, <1>4, <2>1, <2>2 DEF IInv, InterestedUserKnowsProperty, InForce, Found
<1>9. CASE matcher.pc = "idle"
  BY <1>1, <1>5, <1>6, <1>7, <1>8, <1>9, IdleKeeps
<1>10. CASE matcher.pc # "idle"
  <2>. DEFINE m == matcher.advert
              P == matcher.property
  <2>1. /\ m \in Found \cap resolved /\ m \in Adverts /\ P \in 1..lastProperty
        /\ member[m] = P \/ (regrouped /\ \A b \in Adverts : member[b] # P)
    BY <1>10 DEF IInv, PropertyIsCurrent, Found
  <2>2. PropertyIsCurrent'
    <3>1. P \in 1..lastProperty'
      BY <1>1, <1>2, <1>4, <2>1
    <3>2. member'[m] = P \/ (regrouped' /\ \A b \in Adverts : member'[b] # P)
      BY <1>1, <1>3, <1>10, <2>1
    <3>. QED
      BY <1>1, <1>4, <2>1, <3>1, <3>2 DEF PropertyIsCurrent
  <2>3. ~regrouped' => member' = member /\ ~regrouped
    BY <1>1, <1>10
  <2>4. OffersAreAffirmed'
    BY <1>1, <1>4, <2>3 DEF IInv, OffersAreAffirmed, Affirmed, Others
  <2>5. RowsAreOfAdvert' /\ DiscoveriesAreNew'
    BY <1>1, <2>3 DEF IInv, RowsAreOfAdvert, DiscoveriesAreNew
  <2>6. EveryoneIsServed'
    <3>1. \A n \in notes : n.advert \in Adverts
      BY DEF TypeOK, Note
    <3>2. member[m] # 0
      BY <2>1 DEF IInv, ResolvedHaveProperty
    <3>3. \A u : Knows(u, m) => Knows(u, m)'
      BY <1>1, <1>2, <2>1, <3>1, <3>2 DEF Knows
    <3>. QED
      BY <1>1, <1>4, <3>3 DEF IInv, EveryoneIsServed, InForce
  <2>. QED
    BY <1>5, <1>6, <1>7, <1>8, <2>2, <2>4, <2>5, <2>6 DEF IInv
<1>. QED
  BY <1>9, <1>10

-----------------------------------------------------------------------------
(* The user takes alerts away, of his own only, and whoever has a filter in*)
(* force afterwards is another, who had it before.                         *)
UserFrame == UNCHANGED <<clock, history, status, lastSeen, checked, asked, member, lastProperty,
                         resolved, consumed, matcher, regrouped>>

LEMMA UserInv ==
  ASSUME TypeOK, IInv, NEW u \in Users, UserFrame, TypeOK', PastIsRecorded', notes' \subseteq notes,
         \A n \in notes : n.user # u => n \in notes',
         notes' = notes \/ \A b \in Found : u \notin InForce(b)',
         \A b \in Found : InForce(b)' \subseteq InForce(b)
  PROVE  IInv'
<1>1. ResolvedHaveProperty' /\ PropertyIsCurrent' /\ OffersAreAffirmed' /\ RowsAreOfAdvert'
  BY DEF UserFrame, IInv, ResolvedHaveProperty, PropertyIsCurrent, OffersAreAffirmed,
         RowsAreOfAdvert, Found, Others, Affirmed, SeenAt
<1>2. DiscoveriesAreNew'
  BY DEF UserFrame, IInv, DiscoveriesAreNew
<1>3. ASSUME NEW b \in Found, NEW v \in InForce(b)', Knows(v, b)
      PROVE  Knows(v, b)'
  BY <1>3 DEF Knows, UserFrame
<1>4. EveryoneIsServed'
  BY <1>3 DEF UserFrame, IInv, EveryoneIsServed, PropertyIsCurrent
<1>5. InterestedUserKnowsProperty'
  <2>. SUFFICES ASSUME NEW b \in Found, <<b, 1>> \in consumed, NEW v \in InForce(b)'
                PROVE  Knows(v, b)'
    BY DEF UserFrame, InterestedUserKnowsProperty, Knows, Found
  <2>1. Knows(v, b)
    BY DEF IInv, InterestedUserKnowsProperty, Knows
  <2>. QED
    BY <1>3, <2>1
<1>. QED
  BY <1>1, <1>2, <1>4, <1>5 DEF IInv

LEMMA PauseInv ==
  ASSUME TypeOK, IInv, NEW u \in Users, Pause(u)
  PROVE  TypeOK' /\ IInv'
<1>1. /\ UserFrame /\ UNCHANGED <<activated, since, stamps, changes>>
      /\ notes' \subseteq notes /\ \A n \in notes : n.user # u => n \in notes'
      /\ enabled' = [enabled EXCEPT ![u] = FALSE]
  BY DEF Pause, UserFrame, adverts, identity
<1>2. TypeOK'
  <2>1. notes' \in SUBSET Note /\ enabled' \in [Users -> BOOLEAN]
    BY <1>1 DEF TypeOK
  <2>. QED
    BY <1>1, <2>1 DEF TypeOK, UserFrame
<1>3. PastIsRecorded'
  BY <1>1 DEF UserFrame, IInv, PastIsRecorded
<1>4. \A b \in Found : InForce(b)' \subseteq InForce(b) /\ u \notin InForce(b)'
  BY <1>1 DEF UserFrame, InForce, SeenAt, InitialPrice, TypeOK
<1>. QED
  BY <1>1, <1>2, <1>3, <1>4, UserInv

LEMMA PressInv ==
  ASSUME TypeOK, IInv, NEW u \in Users, Press(u)
  PROVE  TypeOK' /\ IInv'
<1>1. /\ UserFrame /\ UNCHANGED <<enabled, activated, since, notes>>
      /\ stamps' = [stamps EXCEPT ![u] = @ \cup {clock}]
  BY DEF Press, UserFrame, adverts, identity
<1>2. clock \in 1..MaxClock /\ clock <= clock
  BY DEF TypeOK
<1>3. TypeOK'
  <2>1. changes' \in 0..MaxChanges
    BY MatchingBoundsAssumption DEF Press, Change, TypeOK
  <2>2. stamps' \in [Users -> SUBSET (1..MaxClock)]
    BY <1>1, <1>2 DEF TypeOK
  <2>. QED
    BY <1>1, <2>1, <2>2 DEF TypeOK, UserFrame
<1>4. PastIsRecorded'
  <2>1. \A v \in Users : stamps'[v] \subseteq stamps[v] \cup {clock}
    BY <1>1 DEF TypeOK
  <2>. QED
    BY <1>1, <1>2, <2>1 DEF UserFrame, IInv, PastIsRecorded
<1>5. \A b \in Found : InForce(b)' = InForce(b)
  BY <1>1 DEF UserFrame, InForce, SeenAt, InitialPrice
<1>. QED
  BY <1>1, <1>3, <1>4, <1>5, UserInv

(* A restart puts nothing in force that was found before its commit.       *)
LEMMA RestartInv ==
  ASSUME TypeOK, IInv, NEW u \in Users, NEW t \in stamps[u], Restart(u, t)
  PROVE  TypeOK' /\ IInv'
<1>1. /\ UserFrame /\ UNCHANGED <<notes, changes>>
      /\ stamps' = [stamps EXCEPT ![u] = @ \ {t}]
      /\ enabled' = [enabled EXCEPT ![u] = TRUE]
      /\ activated' = [activated EXCEPT ![u] = t]
      /\ since' = [since EXCEPT ![u] = clock]
  BY DEF Restart, UserFrame, adverts, identity
<1>2. /\ clock \in 1..MaxClock /\ clock \in 0..MaxClock /\ clock \in Nat /\ clock <= clock
      /\ t \in 1..MaxClock /\ t \in 0..MaxClock /\ t <= clock
  BY MatchingBoundsAssumption DEF TypeOK, IInv, PastIsRecorded
<1>3. TypeOK'
  <2>1. /\ stamps' \in [Users -> SUBSET (1..MaxClock)] /\ enabled' \in [Users -> BOOLEAN]
        /\ activated' \in [Users -> 0..MaxClock] /\ since' \in [Users -> 0..MaxClock]
    BY <1>1, <1>2 DEF TypeOK
  <2>. QED
    BY <1>1, <2>1 DEF TypeOK, UserFrame
<1>4. PastIsRecorded'
  <2>1. \A v \in Users : /\ stamps'[v] \subseteq stamps[v]
                         /\ v # u => activated'[v] = activated[v] /\ since'[v] = since[v]
                         /\ v = u => activated'[v] = t /\ since'[v] = clock
    BY <1>1 DEF TypeOK
  <2>. QED
    BY <1>1, <1>2, <2>1 DEF UserFrame, IInv, PastIsRecorded
<1>5. ASSUME NEW b \in Found PROVE InForce(b)' \subseteq InForce(b)
  <2>1. SeenAt(b) \in Nat /\ SeenAt(b) <= clock
    BY FoundFacts DEF IInv, PastIsRecorded, SeenAt
  <2>2. \A v \in Users : /\ v # u => since'[v] = since[v] /\ enabled'[v] = enabled[v]
                         /\ v = u => since'[v] = clock
    BY <1>1 DEF TypeOK
  <2>3. SeenAt(b)' = SeenAt(b) /\ InitialPrice(b)' = InitialPrice(b)
    BY <1>1 DEF UserFrame, SeenAt, InitialPrice
  <2>4. ~(clock < SeenAt(b))
    BY <1>2, <2>1
  <2>. QED
    BY <2>2, <2>3, <2>4 DEF InForce
<1>. QED
  BY <1>1, <1>3, <1>4, <1>5, UserInv

LEMMA PriceMatchInv ==
  ASSUME TypeOK, IInv, NEW a \in Adverts, NEW i \in 2..Len(history[a]), MatchPriceChanged(a, i)
  PROVE  TypeOK' /\ IInv'
<1>1. /\ UNCHANGED <<clock, history, status, lastSeen, checked, asked, member, lastProperty, resolved,
                     enabled, activated, since, stamps, matcher, regrouped, changes>>
      /\ consumed' = consumed \cup {<<a, i>>} /\ matcher = Idle
  BY DEF MatchPriceChanged, adverts, identity, filters
<1>2. /\ Len(history[a]) \in Nat /\ i \in DOMAIN history[a] /\ i - 1 \in DOMAIN history[a] /\ i \in Nat /\ i # 1
  BY HistoryFacts
<1>3. notes \subseteq notes' /\ notes' \in SUBSET Note
  <2>. DEFINE before == history[a][i - 1].price
              now == history[a][i].price
              who == IF None \in {before, now} THEN {} ELSE Matched(history[a][i].at, now)
              row(u) == [user |-> u, advert |-> a, kind |-> "price_changed", previous |-> before,
                         alternatives |-> {}]
  <2>1. notes' = notes \cup {row(u) : u \in who}
    BY DEF MatchPriceChanged
  <2>2. who \subseteq Users
    BY DEF Matched
  <2>3. before \in Prices
    BY <1>2, HistoryFacts
  <2>4. \A u \in Users : row(u) \in Note
    BY <2>3 DEF Note, Kinds
  <2>. QED
    BY <2>1, <2>2, <2>4 DEF TypeOK
<1>4. TypeOK'
  <2>1. consumed' \in SUBSET (Adverts \X Nat)
    BY <1>1, <1>2 DEF TypeOK
  <2>. QED
    BY <1>1, <1>3, <2>1 DEF TypeOK
<1>5. PastIsRecorded'
  BY <1>1 DEF IInv, PastIsRecorded
<1>6. \A b : <<b, 1>> \in consumed' <=> <<b, 1>> \in consumed
  BY <1>1, <1>2
<1>7. ResolvedHaveProperty'
  BY <1>1, <1>6 DEF IInv, ResolvedHaveProperty, Found
<1>8. InterestedUserKnowsProperty'
  BY <1>1, <1>3, <1>6 DEF IInv, InterestedUserKnowsProperty, Found, InForce, SeenAt, InitialPrice
<1>. QED
  BY <1>1, <1>4, <1>5, <1>7, <1>8, IdleFacts, IdleKeeps

-----------------------------------------------------------------------------
(* The match transaction.                                                  *)
MatchFrame == /\ UNCHANGED <<clock, history, status, lastSeen, checked, member, lastProperty, resolved, enabled,
                          activated, since, notes>>
              /\ stamps' \in {stamps, [u \in Users |-> {}]}
MatcherType ==
  matcher' \in [pc : {"idle", "prepared", "confirmed", "classify"},
                advert : Adverts \cup {NoAdvert}, property : Nat,
                active : SUBSET Offer, prior : SUBSET Offer,
                left : SUBSET Users, rows : SUBSET Note]

LEMMA MatchKeeps ==
  ASSUME TypeOK, IInv, MatchFrame, consumed' = consumed, MatcherType, asked' \in SUBSET Adverts,
         changes' \in 0..MaxChanges, regrouped' \in BOOLEAN
  PROVE  /\ TypeOK' /\ PastIsRecorded' /\ ResolvedHaveProperty' /\ InterestedUserKnowsProperty'
         /\ matcher'.pc = "idle" => IInv'
<1>0. stamps' \in [Users -> SUBSET (1..MaxClock)] /\ \A u \in Users : stamps'[u] \subseteq stamps[u]
  BY DEF TypeOK, MatchFrame
<1>1. TypeOK'
  BY <1>0 DEF TypeOK, MatchFrame, MatcherType
<1>2. PastIsRecorded' /\ ResolvedHaveProperty'
  BY <1>0 DEF MatchFrame, IInv, PastIsRecorded, ResolvedHaveProperty, Found
<1>3. InterestedUserKnowsProperty'
  BY DEF MatchFrame, IInv, InterestedUserKnowsProperty, Found, InForce, SeenAt, InitialPrice
<1>. QED
  BY <1>1, <1>2, <1>3, IdleKeeps

LEMMA PrepareInv ==
  ASSUME TypeOK, IInv, NEW a \in Adverts, Prepare(a)
  PROVE  TypeOK' /\ IInv'
<1>1. /\ MatchFrame /\ UNCHANGED <<consumed, asked, changes>> /\ regrouped' = FALSE
      /\ a \in Found \cap resolved
      /\ matcher' = [pc |-> "prepared", advert |-> a, property |-> member[a], active |-> {}, prior |-> {},
                     left |-> {}, rows |-> {}]
  BY DEF Prepare, MatchFrame, adverts, identity, filters, Idle
<1>2. member[a] \in 1..lastProperty /\ member[a] \in Nat
  <2>1. member[a] # 0
    BY <1>1 DEF IInv, ResolvedHaveProperty
  <2>2. member[a] \in 0..lastProperty /\ lastProperty \in Nat
    BY DEF TypeOK
  <2>. QED
    BY <2>1, <2>2
<1>3. MatcherType
  BY <1>1, <1>2 DEF MatcherType
<1>4. TypeOK' /\ PastIsRecorded' /\ ResolvedHaveProperty' /\ InterestedUserKnowsProperty'
  BY <1>1, <1>3, MatchKeeps DEF TypeOK
<1>5. PropertyIsCurrent'
  BY <1>1, <1>2 DEF PropertyIsCurrent, MatchFrame, Found
<1>6. OffersAreAffirmed' /\ RowsAreOfAdvert' /\ DiscoveriesAreNew' /\ EveryoneIsServed'
  BY <1>1 DEF OffersAreAffirmed, RowsAreOfAdvert, DiscoveriesAreNew, EveryoneIsServed
<1>. QED
  BY <1>4, <1>5, <1>6 DEF IInv

LEMMA AbortInv ==
  ASSUME TypeOK, IInv, AbortMatch
  PROVE  TypeOK' /\ IInv'
<1>1. MatchFrame /\ UNCHANGED <<consumed, asked, regrouped>> /\ matcher' = Idle
  BY DEF AbortMatch, MatchFrame, adverts, identity, filters
<1>2. MatcherType /\ changes' \in 0..MaxChanges
  BY <1>1, IdleFacts, MatchingBoundsAssumption DEF MatcherType, AbortMatch, Change, TypeOK
<1>. QED
  BY <1>1, <1>2, IdleFacts, MatchKeeps DEF TypeOK

LEMMA AskInv ==
  ASSUME TypeOK, IInv, AskForChecks
  PROVE  TypeOK' /\ IInv'
<1>. DEFINE missing == Missing(matcher.advert, matcher.property)
<1>1. /\ MatchFrame /\ UNCHANGED <<consumed, regrouped, changes>> /\ asked' = asked \cup missing
      /\ matcher.pc = "prepared"
      /\ matcher' = IF missing = {} THEN [matcher EXCEPT !.pc = "confirmed"] ELSE Idle
  BY DEF AskForChecks, MatchFrame, identity, filters
<1>2. asked' \in SUBSET Adverts
  BY <1>1 DEF TypeOK, Missing, Others, Found
<1>3. MatcherType
  BY <1>1, IdleFacts DEF MatcherType, TypeOK
<1>4. /\ TypeOK' /\ PastIsRecorded' /\ ResolvedHaveProperty' /\ InterestedUserKnowsProperty'
      /\ matcher'.pc = "idle" => IInv'
  BY <1>1, <1>2, <1>3, MatchKeeps DEF TypeOK
<1>5. CASE missing # {}
  BY <1>1, <1>4, <1>5, IdleFacts
<1>6. CASE missing = {}
  <2>1. /\ matcher'.pc = "confirmed" /\ matcher'.advert = matcher.advert
        /\ matcher'.property = matcher.property /\ matcher'.rows = matcher.rows
    BY <1>1, <1>6 DEF TypeOK
  <2>2. PropertyIsCurrent'
    BY <1>1, <2>1 DEF IInv, PropertyIsCurrent, MatchFrame, Found
  <2>3. ASSUME NEW b \in Others(matcher.advert, matcher.property), status[b] = "active"
        PROVE  lastSeen[b] >= SeenAt(matcher.advert)
    <3>1. b \in Adverts /\ ~(checked[b] < SeenAt(matcher.advert))
      BY <1>6, <2>3 DEF Missing, Others, Found
    <3>2. checked[b] <= lastSeen[b]
      BY <2>3, <3>1 DEF IInv, PastIsRecorded
    <3>3. checked[b] \in Nat /\ lastSeen[b] \in Nat
      BY <3>1 DEF TypeOK
    <3>4. SeenAt(matcher.advert) \in Nat
      BY <1>1, FoundFacts DEF IInv, PropertyIsCurrent
    <3>. QED
      BY <3>1, <3>2, <3>3, <3>4
  <2>4. OffersAreAffirmed'
    BY <1>1, <2>1, <2>3 DEF OffersAreAffirmed, Affirmed, MatchFrame, Others, Found, SeenAt
  <2>5. RowsAreOfAdvert' /\ DiscoveriesAreNew' /\ EveryoneIsServed'
    BY <1>1, <2>1 DEF IInv, RowsAreOfAdvert, DiscoveriesAreNew, EveryoneIsServed
  <2>. QED
    BY <1>4, <2>2, <2>4, <2>5 DEF IInv
<1>. QED
  BY <1>5, <1>6

LEMMA ReadInv ==
  ASSUME TypeOK, IInv, ReadOffers
  PROVE  TypeOK' /\ IInv'
<1>. DEFINE a == matcher.advert
            t == SeenAt(a)
            others == Others(a, matcher.property)
            active == {b \in others : status[b] = "active"}
            gone == {b \in others : status[b] = "inactive"}
            offers == {[advert |-> b, price |-> PriceAt(b, t)] : b \in active}
            prior == {[advert |-> b, price |-> LastKnownAt(b, t)] : b \in Newest(gone)}
<1>1. /\ MatchFrame /\ UNCHANGED <<consumed, asked, regrouped, changes>> /\ matcher.pc = "confirmed"
      /\ matcher' = [matcher EXCEPT !.pc = "classify", !.active = offers, !.prior = prior,
                                    !.left = Matched(t, InitialPrice(a))]
  BY DEF ReadOffers, MatchFrame, adverts, identity, filters
<1>2. others \subseteq Adverts /\ active \subseteq Adverts /\ Newest(gone) \subseteq Adverts
  BY DEF Others, Found, Newest
<1>3. \A b \in Adverts : PriceAt(b, t) \in Prices \cup {None} /\ LastKnownAt(b, t) \in Prices \cup {None}
  BY LatestIsPrice DEF PriceAt, LastKnownAt, PricesBy
<1>4. offers \in SUBSET Offer /\ prior \in SUBSET Offer
  <2>1. \A b \in Adverts : /\ [advert |-> b, price |-> PriceAt(b, t)] \in Offer
                           /\ [advert |-> b, price |-> LastKnownAt(b, t)] \in Offer
    BY <1>3 DEF Offer
  <2>. HIDE DEF active, gone, others, a, t
  <2>. QED
    BY <1>2, <2>1
<1>5. Matched(t, InitialPrice(a)) \in SUBSET Users
  BY DEF Matched
<1>. HIDE DEF offers, prior
<1>6. MatcherType
  BY <1>1, <1>4, <1>5 DEF MatcherType, TypeOK
<1>7. TypeOK' /\ PastIsRecorded' /\ ResolvedHaveProperty' /\ InterestedUserKnowsProperty'
  BY <1>1, <1>6, MatchKeeps DEF TypeOK
<1>8. /\ matcher'.pc = "classify" /\ matcher'.advert = a /\ matcher'.property = matcher.property
      /\ matcher'.active = offers /\ matcher'.rows = {} /\ matcher'.left = Matched(t, InitialPrice(a))
  BY <1>1 DEF TypeOK, IInv, RowsAreOfAdvert
<1>9. PropertyIsCurrent'
  BY <1>1, <1>8 DEF IInv, PropertyIsCurrent, MatchFrame, Found
<1>10. OffersAreAffirmed'
  <2>1. ASSUME ~regrouped, NEW o \in offers PROVE lastSeen[o.advert] >= SeenAt(a)
    <3>1. o.advert \in active
      BY <2>1 DEF offers
    <3>. QED
      BY <1>1, <2>1, <3>1 DEF IInv, OffersAreAffirmed, Affirmed
  <2>. QED
    BY <1>1, <1>8, <2>1 DEF OffersAreAffirmed, Affirmed, MatchFrame, SeenAt
<1>11. RowsAreOfAdvert' /\ DiscoveriesAreNew'
  BY <1>8 DEF RowsAreOfAdvert, DiscoveriesAreNew
<1>12. EveryoneIsServed'
  <2>1. t \in Nat
    BY <1>1, FoundFacts DEF IInv, PropertyIsCurrent
  <2>2. InForce(a) \subseteq Matched(t, InitialPrice(a))
    <3>1. \A u \in Users : activated[u] <= since[u] /\ activated[u] \in Nat /\ since[u] \in Nat
      BY DEF IInv, PastIsRecorded, TypeOK
    <3>. QED
      BY <2>1, <3>1 DEF InForce, Matched
  <2>. QED
    BY <1>1, <1>8, <2>2 DEF EveryoneIsServed, MatchFrame, InForce, SeenAt, InitialPrice
<1>. QED
  BY <1>7, <1>9, <1>10, <1>11, <1>12 DEF IInv

(* Without an alert the user has one already, and who has one is not told  *)
(* of a discovery.                                                         *)
LEMMA DecisionFacts ==
  ASSUME TypeOK, NEW u, NEW P, NEW price
  PROVE  /\ \A d \in Decision(price, WasNotified(u, P)) :
              /\ d.kind \in Kinds /\ d.previous \in Prices \cup {None}
              /\ d.kind = "listing_discovered" => ~WasNotified(u, P)
         /\ Decision(price, WasNotified(u, P)) = {} => WasNotified(u, P)
<1>1. \A o \in Known(matcher.active) \cup Known(matcher.prior) : o.price \in Prices
  BY DEF Known, TypeOK, Offer
<1>2. Known(matcher.active) # {} => BestPrice(matcher.active) \in Prices
  <2>. SUFFICES ASSUME Known(matcher.active) # {} PROVE BestPrice(matcher.active) \in Prices
    OBVIOUS
  <2>. DEFINE S == {o.price : o \in Known(matcher.active)}
  <2>1. S \subseteq Prices /\ S # {} /\ S \subseteq Nat
    BY <1>1, PricesAssumption
  <2>. HIDE DEF S
  <2>2. LeastOf(S) \in S
    BY <2>1, LeastOfNat
  <2>. QED
    BY <2>1, <2>2 DEF BestPrice, S
<1>3. \A d \in Cheaper(price) : d.kind = "cheaper_offer" /\ d.previous \in Prices
  BY <1>2 DEF Cheaper
<1>4. \A d \in Relisting(price) : d.kind = "relisting_price_changed" /\ d.previous \in Prices
  BY <1>1 DEF Relisting
<1>5. Discovery # {} /\ \A d \in Discovery : d.kind = "listing_discovered" /\ d.previous = None
  BY DEF Discovery
<1>6. \/ Decision(price, WasNotified(u, P)) = Cheaper(price) /\ WasNotified(u, P)
      \/ Decision(price, WasNotified(u, P)) = Discovery /\ ~WasNotified(u, P)
      \/ Decision(price, WasNotified(u, P)) = Relisting(price) /\ Relisting(price) # {}
      \/ Decision(price, WasNotified(u, P)) = {} /\ WasNotified(u, P)
  BY Zenon DEF Decision
<1>. QED
  BY <1>3, <1>4, <1>5, <1>6 DEF Kinds

LEMMA ClassifyInv ==
  ASSUME TypeOK, IInv, NEW u \in Users, Classify(u)
  PROVE  TypeOK' /\ IInv'
<1>. DEFINE a == matcher.advert
            told == WasNotified(u, matcher.property)
            decided == Decision(InitialPrice(a), told)
            row(d) == [user |-> u, advert |-> a, kind |-> d.kind, previous |-> d.previous,
                       alternatives |-> {o.advert : o \in matcher.active}]
            rows == {row(d) : d \in decided}
<1>1. /\ MatchFrame /\ UNCHANGED <<consumed, asked, regrouped, changes>> /\ matcher.pc = "classify"
      /\ matcher' = [matcher EXCEPT !.left = @ \ {u}, !.rows = @ \cup rows]
  BY DEF Classify, MatchFrame, adverts, identity, filters
<1>2. /\ \A d \in decided : /\ d.kind \in Kinds /\ d.previous \in Prices \cup {None}
                            /\ d.kind = "listing_discovered" => ~told
      /\ decided = {} => told
  BY DecisionFacts
<1>3. a \in Adverts
  BY <1>1 DEF IInv, PropertyIsCurrent, Found
<1>4. {o.advert : o \in matcher.active} \subseteq Adverts
  BY DEF TypeOK, Offer
<1>5. \A d \in decided : /\ row(d) \in Note /\ row(d).user = u /\ row(d).advert = a /\ row(d).kind = d.kind
                         /\ \A b \in row(d).alternatives : \E o \in matcher.active : o.advert = b
  BY <1>2, <1>3, <1>4 DEF Note
<1>6. /\ \A n \in rows : /\ n \in Note /\ n.user = u /\ n.advert = a
                         /\ n.kind = "listing_discovered" => ~told
                         /\ \A b \in n.alternatives : \E o \in matcher.active : o.advert = b
      /\ rows = {} => told
  <2>. HIDE DEF decided, row, told, a
  <2>. QED
    BY <1>2, <1>5
<1>. HIDE DEF rows
<1>7. MatcherType
  BY <1>1, <1>6 DEF MatcherType, TypeOK
<1>8. TypeOK' /\ PastIsRecorded' /\ ResolvedHaveProperty' /\ InterestedUserKnowsProperty'
  BY <1>1, <1>7, MatchKeeps DEF TypeOK
<1>9. /\ matcher'.pc = "classify" /\ matcher'.advert = a /\ matcher'.property = matcher.property
      /\ matcher'.active = matcher.active /\ matcher'.rows = matcher.rows \cup rows
      /\ matcher'.left = matcher.left \ {u}
  BY <1>1 DEF TypeOK
<1>10. PropertyIsCurrent'
  BY <1>1, <1>9 DEF IInv, PropertyIsCurrent, MatchFrame, Found
<1>11. OffersAreAffirmed'
  BY <1>1, <1>9 DEF IInv, OffersAreAffirmed, Affirmed, MatchFrame, SeenAt
<1>12. RowsAreOfAdvert'
  BY <1>1, <1>6, <1>9 DEF IInv, RowsAreOfAdvert
<1>13. \A n \in notes : n.advert \in Adverts
  BY DEF TypeOK, Note
<1>14. DiscoveriesAreNew'
  <2>1. ASSUME ~regrouped, NEW n \in rows, n.kind = "listing_discovered", NEW m \in notes, m.user = n.user
        PROVE  member[m.advert] # member[a]
    <3>1. ~told /\ m.user = u
      BY <1>6, <2>1
    <3>2. member[a] = matcher.property
      BY <1>1, <2>1 DEF IInv, PropertyIsCurrent
    <3>. QED
      BY <2>1, <3>1, <3>2 DEF WasNotified
  <2>. QED
    BY <1>1, <1>9, <2>1 DEF IInv, DiscoveriesAreNew, MatchFrame
<1>15. told => Knows(u, a)
  BY <1>1, <1>3, <1>13 DEF IInv, PropertyIsCurrent, WasNotified, Knows
<1>16. rows # {} => \E n \in rows : n.user = u
  BY <1>6
<1>17. EveryoneIsServed'
  <2>. SUFFICES ASSUME NEW v \in InForce(a)
                PROVE  v \in matcher.left \ {u} \/ (\E n \in matcher.rows \cup rows : n.user = v) \/ Knows(v, a)
    BY <1>1, <1>9 DEF EveryoneIsServed, MatchFrame, Knows, InForce, SeenAt, InitialPrice
  <2>1. CASE v = u
    BY <1>6, <1>15, <1>16, <2>1
  <2>2. CASE v # u
    BY <1>1, <2>2 DEF IInv, EveryoneIsServed
  <2>. QED
    BY <2>1, <2>2
<1>. QED
  BY <1>8, <1>10, <1>11, <1>12, <1>14, <1>17 DEF IInv

LEMMA CommitInv ==
  ASSUME TypeOK, IInv, CommitMatch
  PROVE  TypeOK' /\ IInv'
<1>a. PICK a : a = matcher.advert
  OBVIOUS
<1>1. /\ UNCHANGED <<clock, history, status, lastSeen, checked, asked, member, lastProperty, resolved,
                     enabled, activated, since, stamps, regrouped, changes>>
      /\ consumed' = consumed \cup {<<a, 1>>} /\ notes' = notes \cup matcher.rows
      /\ matcher.pc = "classify" /\ matcher.left = {} /\ matcher' = Idle
  BY <1>a DEF CommitMatch, adverts, identity, filters
<1>2. a \in Adverts /\ a \in resolved
  BY <1>a, <1>1 DEF IInv, PropertyIsCurrent, Found
<1>3. TypeOK'
  <2>1. consumed' \in SUBSET (Adverts \X Nat) /\ notes' \in SUBSET Note
    BY <1>1, <1>2 DEF TypeOK
  <2>. QED
    BY <1>1, <2>1, IdleFacts DEF TypeOK
<1>4. PastIsRecorded'
  BY <1>1 DEF IInv, PastIsRecorded
<1>5. ResolvedHaveProperty'
  BY <1>1, <1>2 DEF IInv, ResolvedHaveProperty, Found
<1>6. \A u, b : Knows(u, b) => Knows(u, b)'
  BY <1>1 DEF Knows
<1>7. \A u \in InForce(a) : Knows(u, a)'
  <2>1. \A n \in matcher.rows : n \in notes' /\ n.advert = a
    BY <1>a, <1>1 DEF IInv, RowsAreOfAdvert
  <2>. QED
    BY <1>a, <1>1, <1>6, <2>1 DEF IInv, EveryoneIsServed, Knows
<1>8. InterestedUserKnowsProperty'
  <2>. SUFFICES ASSUME NEW b \in Found, <<b, 1>> \in consumed', NEW u \in InForce(b)
                PROVE  Knows(u, b)'
    BY <1>1 DEF InterestedUserKnowsProperty, Knows, Found, InForce, SeenAt, InitialPrice
  <2>1. CASE b = a
    BY <1>7, <2>1, Zenon
  <2>2. CASE b # a
    <3>1. <<b, 1>> \in consumed
      BY <1>1, <2>2
    <3>2. Knows(u, b)
      BY <3>1 DEF IInv, InterestedUserKnowsProperty, Knows, InForce
    <3>. QED
      BY <1>6, <3>2
  <2>. QED
    BY <2>1, <2>2
<1>. QED
  BY <1>1, <1>3, <1>4, <1>5, <1>8, IdleFacts, IdleKeeps

-----------------------------------------------------------------------------
LEMMA StutterInv ==
  ASSUME TypeOK, IInv, UNCHANGED vars
  PROVE  TypeOK' /\ IInv'
<1>1. MatchFrame /\ UNCHANGED <<consumed, asked, regrouped, changes, matcher>>
  BY DEF vars, MatchFrame, adverts, identity, filters
<1>2. MatcherType
  BY <1>1 DEF MatcherType, TypeOK
<1>3. TypeOK' /\ PastIsRecorded' /\ ResolvedHaveProperty' /\ InterestedUserKnowsProperty'
  BY <1>1, <1>2, MatchKeeps DEF TypeOK
<1>4. PropertyIsCurrent' /\ RowsAreOfAdvert' /\ DiscoveriesAreNew'
  BY <1>1 DEF IInv, PropertyIsCurrent, RowsAreOfAdvert, DiscoveriesAreNew, MatchFrame, Found
<1>5. OffersAreAffirmed'
  BY <1>1 DEF IInv, OffersAreAffirmed, Affirmed, Others, MatchFrame, Found, SeenAt
<1>6. EveryoneIsServed'
  BY <1>1 DEF IInv, EveryoneIsServed, Knows, MatchFrame, InForce, SeenAt, InitialPrice
<1>. QED
  BY <1>3, <1>4, <1>5, <1>6 DEF IInv

LEMMA StepIInv == TypeOK /\ IInv /\ [Next]_vars => TypeOK' /\ IInv'
<1>. SUFFICES ASSUME TypeOK, IInv, [Next]_vars PROVE TypeOK' /\ IInv'
  OBVIOUS
<1>1. CASE Tick
  BY <1>1, TickInv
<1>2. CASE FeedStep
  BY <1>2, ObservationInv DEF FeedStep, Observation
<1>3. CASE EvidenceStep
  <2>1. \E a \in Adverts : Observation(a) \/ \E G : Resolve(a, G)
    BY <1>3 DEF EvidenceStep, Observation
  <2>. QED
    BY <2>1, ObservationInv, ResolveInv
<1>4. CASE MatchStep
  <2>1. \/ AskForChecks \/ ReadOffers \/ CommitMatch \/ (\E u \in Users : Classify(u))
        \/ \E a \in Adverts : Prepare(a) \/ \E i \in 2..Len(history[a]) : MatchPriceChanged(a, i)
    BY <1>4 DEF MatchStep
  <2>. QED
    BY <2>1, AskInv, ReadInv, CommitInv, ClassifyInv, PrepareInv, PriceMatchInv
<1>5. CASE AbortMatch
  BY <1>5, AbortInv
<1>6. CASE UserStep
  BY <1>6, PauseInv, PressInv, RestartInv DEF UserStep
<1>7. CASE UNCHANGED vars
  BY <1>7, StutterInv
<1>. QED
  BY <1>1, <1>2, <1>3, <1>4, <1>5, <1>6, <1>7 DEF Next

(* Notifications are added by the matches of prices and by the commit.     *)
LEMMA NewNotes ==
  ASSUME TypeOK, [Next]_vars
  PROVE  \/ \A n \in notes' \ notes : n.kind = "price_changed" /\ n.alternatives = {}
         \/ matcher.pc = "classify" /\ notes' = notes \cup matcher.rows
<1>1. CASE Tick \/ AbortMatch \/ UNCHANGED vars
  BY <1>1 DEF Tick, AbortMatch, vars
<1>2. CASE FeedStep
  <2>1. notes' = notes
    BY <1>2 DEF FeedStep, See, Discover, ChangePrice, Sighted
  <2>. QED
    BY <2>1
<1>3. CASE EvidenceStep
  <2>1. notes' = notes
    BY <1>3 DEF EvidenceStep, Check, Resolve
  <2>. QED
    BY <2>1
<1>4. CASE UserStep
  <2>1. notes' \subseteq notes
    BY <1>4 DEF UserStep, Pause, Press, Restart
  <2>. QED
    BY <2>1
<1>5. CASE MatchStep
  <2>1. CASE AskForChecks \/ ReadOffers \/ (\E u \in Users : Classify(u)) \/ \E a \in Adverts : Prepare(a)
    BY <2>1 DEF AskForChecks, ReadOffers, Classify, Prepare
  <2>2. CASE CommitMatch
    BY <2>2 DEF CommitMatch
  <2>3. ASSUME NEW a \in Adverts, NEW i \in 2..Len(history[a]), MatchPriceChanged(a, i)
        PROVE  \A n \in notes' \ notes : n.kind = "price_changed" /\ n.alternatives = {}
    BY <2>3 DEF MatchPriceChanged
  <2>. QED
    BY <1>5, <2>1, <2>2, <2>3 DEF MatchStep
<1>. QED
  BY <1>1, <1>2, <1>3, <1>4, <1>5 DEF Next

-----------------------------------------------------------------------------
(* Every reachable state has the types and the inductive invariant.        *)
THEOREM Inductive == Spec => [](TypeOK /\ IInv)
  BY InitIInv, StepIInv, PTL DEF Spec

(* Type correctness of the matcher and of all it reads.                    *)
THEOREM TypeCorrect == Spec => []TypeOK
  BY Inductive, PTL

(* Once the discovery of an advert is consumed, every user it concerns has *)
(* an alert about its property, whatever merged or was paused meanwhile,   *)
(* provided the activation of his filter was committed before the advert   *)
(* was found.                                                              *)
THEOREM NobodyMissesProperty == Spec => []InterestedUserKnowsProperty
<1>1. TypeOK /\ IInv => InterestedUserKnowsProperty
  BY DEF IInv
<1>. QED
  BY <1>1, Inductive, PTL

(* An offer is listed as current only if it was seen alive since the event.*)
THEOREM AlternativesAffirmed == Spec => AlternativesAreAffirmed
<1>. DEFINE A == \A n \in notes' \ notes, b \in Adverts :
                   b \in n.alternatives /\ ~regrouped => lastSeen[b] >= SeenAt(n.advert)
<1>1. ASSUME TypeOK, IInv, [Next]_vars PROVE A
  <2>1. CASE \A n \in notes' \ notes : n.alternatives = {}
    BY <2>1
  <2>2. CASE matcher.pc = "classify" /\ notes' = notes \cup matcher.rows
    BY <1>1, <2>2 DEF IInv, RowsAreOfAdvert, OffersAreAffirmed, Affirmed
  <2>. QED
    BY <1>1, <2>1, <2>2, NewNotes
<1>2. TypeOK /\ IInv /\ [Next]_vars => [A]_vars
  BY <1>1
<1>. QED
  BY <1>2, Inductive, PTL DEF Spec, AlternativesAreAffirmed

(* A user who has an alert about a property is told of no other advert of  *)
(* it as a discovery.                                                      *)
THEOREM DiscoveryIsFirst == Spec => NoSecondDiscovery
<1>. DEFINE A == \A n \in notes' \ notes :
                   n.kind = "listing_discovered" /\ ~regrouped
                     => \A m \in notes : m.user = n.user => member[m.advert] # member[n.advert]
<1>1. ASSUME TypeOK, IInv, [Next]_vars PROVE A
  <2>1. CASE \A n \in notes' \ notes : n.kind = "price_changed"
    BY <2>1
  <2>2. CASE matcher.pc = "classify" /\ notes' = notes \cup matcher.rows
    BY <1>1, <2>2 DEF IInv, RowsAreOfAdvert, DiscoveriesAreNew
  <2>. QED
    BY <1>1, <2>1, <2>2, NewNotes
<1>2. TypeOK /\ IInv /\ [Next]_vars => [A]_vars
  BY <1>1
<1>. QED
  BY <1>2, Inductive, PTL DEF Spec, NoSecondDiscovery

-----------------------------------------------------------------------------
(* The resolver as the matcher sees it implements PropertyGroups, as the   *)
(* one of PropertyIdentity does.                                           *)

Empty == (1..lastProperty) \ {member[a] : a \in Adverts}

LEMMA ResolveJoins ==
  ASSUME TypeOK, NEW a \in Adverts, NEW G, Resolve(a, G)
  PROVE  Groups!Join(G) /\ G \in (SUBSET Adverts) \ {{}}
<1>1. /\ G \in SUBSET Adverts /\ G # {} /\ Merge(G) /\ lastProperty' = LastAfter(G)
  BY DEF Resolve, Found
<1>. /\ LastAfter(G) \in Nat /\ lastProperty <= LastAfter(G)
     /\ lastProperty \in Nat /\ member \in [Adverts -> 0..lastProperty]
  BY <1>1, MergeFacts DEF TypeOK
<1>. DEFINE group == GroupOf(G)
            least == LeastOf(group)
            brought == Groups!Brought(G)
<1>2. 1..lastProperty \subseteq 1..lastProperty'
  BY <1>1
<1>3. brought = group
  <2>1. (1..lastProperty') \ (1..lastProperty) = lastProperty + 1 .. LastAfter(G)
    BY <1>1
  <2>2. {member[b] : b \in G} \ {0} = {member[b] : b \in G \ NewOnes(G)}
    BY <1>1 DEF NewOnes
  <2>. QED
    BY <2>1, <2>2 DEF Groups!Brought, GroupOf
<1>4. group \subseteq 1..LastAfter(G) /\ least \in group
  BY <1>1, GroupFacts
<1>5. member' = [b \in Adverts |-> IF b \in G \/ member[b] \in group THEN least ELSE member[b]]
  <2>1. \A b \in Adverts : b \in G \/ member[b] \in group <=> b \in NewOnes(G) \/ member[b] \in group
    BY DEF NewOnes, GroupOf
  <2>. QED
    BY <1>1, <2>1 DEF Merge
<1>6. \A P \in (lastProperty + 1)..LastAfter(G) : P \in group
  BY DEF GroupOf
<1>. HIDE DEF group, least, brought
<1>7. Empty' = Empty \cup (group \ {least})
  <2>1. \A P \in 1..lastProperty' : P \in 1..lastProperty \/ P \in group
    BY <1>1, <1>6
  <2>2. \A P \in Empty : P \in Empty'
    <3>1. \A P \in 1..lastProperty : P \in group => \E b \in Adverts : member[b] = P
      BY <1>1 DEF group, GroupOf
    <3>. QED
      BY <1>2, <1>4, <1>5, <3>1 DEF Empty
  <2>3. \A P \in group \ {least} : P \in Empty'
    BY <1>1, <1>4, <1>5 DEF Empty
  <2>4. \A P \in Empty' : P \in Empty \cup (group \ {least})
    <3>. SUFFICES ASSUME NEW P \in Empty', P \notin group PROVE P \in Empty
      <4>1. least \notin Empty'
        <5>1. PICK b \in G : TRUE
          BY <1>1
        <5>2. member'[b] = least
          BY <1>1, <1>5, <5>1
        <5>. QED
          BY <1>1, <5>2 DEF Empty
      <4>. QED
        BY <4>1
    <3>1. P \in 1..lastProperty
      BY <2>1 DEF Empty
    <3>2. \A b \in Adverts : member[b] # P
      <4>. SUFFICES ASSUME NEW b \in Adverts, member[b] = P PROVE FALSE
        OBVIOUS
      <4>1. b \notin G
        <5>1. b \in G => b \in G \ NewOnes(G)
          BY <3>1 DEF NewOnes
        <5>2. \A c \in G \ NewOnes(G) : member[c] \in group
          BY DEF group, GroupOf
        <5>. QED
          BY <5>1, <5>2
      <4>2. member'[b] = P
        BY <1>5, <4>1
      <4>. QED
        BY <4>2 DEF Empty
    <3>. QED
      BY <3>1, <3>2 DEF Empty
  <2>. QED
    BY <2>2, <2>3, <2>4
<1>. QED
  BY <1>1, <1>2, <1>3, <1>4, <1>5, <1>7 DEF Groups!Join, Empty, brought

LEMMA StepRefines ==
  ASSUME TypeOK, [Next]_vars
  PROVE  Groups!Next \/ UNCHANGED <<member, lastProperty>>
<1>1. ASSUME NEW a \in Adverts, NEW G, Resolve(a, G) PROVE Groups!Next
  BY <1>1, ResolveJoins, Zenon DEF Groups!Next
<1>2. CASE Tick
  BY <1>2 DEF Tick, identity
<1>3. CASE FeedStep
  BY <1>3 DEF FeedStep, See, Discover, ChangePrice, Sighted, identity
<1>4. CASE EvidenceStep
  BY <1>1, <1>4 DEF EvidenceStep, Check, identity
<1>5. CASE MatchStep
  BY <1>5 DEF MatchStep, AskForChecks, ReadOffers, CommitMatch, Classify, Prepare, MatchPriceChanged, identity
<1>6. CASE AbortMatch
  BY <1>6 DEF AbortMatch, identity
<1>7. CASE UserStep
  BY <1>7 DEF UserStep, Pause, Press, Restart, identity
<1>. QED
  BY <1>2, <1>3, <1>4, <1>5, <1>6, <1>7 DEF Next, vars, identity

(* The commits the matcher runs beside are those of the resolver: groups   *)
(* join as a whole, and a property that is left without adverts stays so.  *)
THEOREM Implementation == Spec => ImplementsPropertyGroups
<1>1. Init => Groups!Init
  BY DEF Init, Groups!Init
<1>2. TypeOK /\ IInv /\ [Next]_vars => [Groups!Next]_Groups!vars
  <2>1. UNCHANGED <<member, lastProperty>> => UNCHANGED Groups!vars
    BY DEF Groups!vars
  <2>. QED
    BY <2>1, StepRefines
<1>. QED
  BY <1>1, <1>2, Inductive, PTL DEF Spec, ImplementsPropertyGroups, Groups!Spec
=============================================================================
