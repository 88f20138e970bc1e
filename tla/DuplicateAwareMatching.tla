----------------------- MODULE DuplicateAwareMatching -----------------------
(***************************************************************************)
(* Duplicate-aware delivery: what the matcher makes of a discovered advert *)
(* whose property other adverts may offer, or have offered                 *)
(* (store/postgres/duplicate_aware_matcher.go, domain/listing.go), and of  *)
(* the price changes of single adverts that run beside it                  *)
(* (store/postgres/listing_matcher.go).                                    *)
(*                                                                         *)
(* The match transaction runs at READ COMMITTED, one event at a time: the  *)
(* property of the advert, the availability of its other adverts, their    *)
(* offers and, per user, the earlier notifications are read in statements  *)
(* between which the resolver, the availability workers and the feed       *)
(* commit.  Those three are reduced to their commits; PropertyIdentity,    *)
(* Availability and Discovery have them in full, and AlertDelivery has the *)
(* filters, of which each user has one here.  The time that a restart of a *)
(* filter writes is taken in a step before its commit.  That of the feed   *)
(* is taken in the same one: its polls follow one another, and what is     *)
(* compared with it here may only be newer for the delay of a poll.        *)
(***************************************************************************)
EXTENDS Integers, Sequences, FiniteSets

CONSTANTS Adverts,     \* listing ids
          Users,
          Prices,      \* prices in euros; 0 stands for "no price"
          Duplicates,  \* groups of adverts the duplicate rule may accept
          Wanted,      \* Wanted[u]: the prices within the range of u's filter
          Restless,    \* bound on the users who pause and restart their filter
          MaxClock,    \* bound on time stamps
          MaxChanges   \* bound on price changes, sightings, unasked checks,
                       \* repeated resolutions, restarts and crashes

None == 0

ASSUME AdvertsAssumption == Adverts \subseteq Nat \ {0} /\ IsFiniteSet(Adverts)
ASSUME PricesAssumption == Prices \subseteq Nat
ASSUME DuplicatesAssumption == Duplicates \subseteq SUBSET Adverts
ASSUME WantedAssumption == Wanted \in [Users -> SUBSET Prices]
ASSUME MatchingBoundsAssumption == MaxClock \in Nat \ {0} /\ MaxChanges \in Nat

VARIABLES
  clock,
  history,       \* history[a]: listing_price_history, <<>> before discovery
  status,        \* status[a]: availability_status
  lastSeen,      \* lastSeen[a]: last_seen_at
  checked,       \* checked[a]: the newest provider_check observation, or 0
  asked,         \* adverts whose availability job has priority_requested
  member,        \* member[a]: the current property of a, or 0
  lastProperty,  \* the highest property id given out
  resolved,      \* adverts with a completed resolution job
  enabled,       \* enabled[u]: whether u's filter is enabled
  activated,     \* activated[u]: its activated_at
  since,         \* history: when that activation was committed
  stamps,        \* stamps[u]: times that restarts have taken and not committed
  consumed,      \* consumed events: <<a, i>> for the i-th price of a
  notes,         \* notification rows
  matcher,       \* the match transaction in progress
  regrouped,     \* history: a property has changed since it began
  changes        \* changes so far

adverts == <<history, status, lastSeen, checked, asked>>
identity == <<member, lastProperty, resolved>>
filters == <<enabled, activated, since, stamps>>
vars == <<clock, adverts, identity, filters, consumed, notes, matcher, regrouped, changes>>

Kinds == {"listing_discovered", "price_changed", "relisting_price_changed", "cheaper_offer"}
Statuses == {"active", "inactive", "unknown"}
Offer == [advert : Adverts, price : Prices \cup {None}]

(* A notification of u about a: its kind, the price it compares with and   *)
(* the adverts it lists as current alternatives.                           *)
Note == [user : Users, advert : Adverts, kind : Kinds, previous : Prices \cup {None},
         alternatives : SUBSET Adverts]

NoAdvert == 0
Idle == [pc |-> "idle", advert |-> NoAdvert, property |-> 0, active |-> {}, prior |-> {},
         left |-> {}, rows |-> {}]

Change == changes < MaxChanges /\ changes' = changes + 1
Found == {a \in Adverts : history[a] # <<>>}
SeenAt(a) == history[a][1].at
InitialPrice(a) == history[a][1].price
LeastOf(S) == CHOOSE x \in S : \A y \in S : x <= y

Init ==
  /\ clock = 1
  /\ history = [a \in Adverts |-> <<>>]
  /\ status = [a \in Adverts |-> "active"]
  /\ lastSeen = [a \in Adverts |-> 0] /\ checked = [a \in Adverts |-> 0]
  /\ asked = {}
  /\ member = [a \in Adverts |-> 0] /\ lastProperty = 0 /\ resolved = {}
  /\ enabled = [u \in Users |-> TRUE] /\ activated = [u \in Users |-> 0]
  /\ since = [u \in Users |-> 0] /\ stamps = [u \in Users |-> {}]
  /\ consumed = {} /\ notes = {}
  /\ matcher = Idle /\ regrouped = FALSE
  /\ changes = 0

Tick ==
  /\ clock < MaxClock
  /\ clock' = clock + 1
  /\ UNCHANGED <<adverts, identity, filters, consumed, notes, matcher, regrouped, changes>>

-----------------------------------------------------------------------------
(* The feed: ProcessDiscovered and RecordFeedSightings.                    *)

Sighted(a) ==
  /\ status' = [status EXCEPT ![a] = "active"]
  /\ lastSeen' = [lastSeen EXCEPT ![a] = clock]
  /\ UNCHANGED <<clock, checked, asked, identity, filters, consumed, notes, matcher, regrouped>>

Observe(a, p) == history' = [history EXCEPT ![a] = Append(@, [price |-> p, at |-> clock])]

(* Listing ids are given out in order.                                     *)
Discover(a, p) ==
  /\ a \notin Found /\ \A b \in Adverts : b < a => b \in Found
  /\ Observe(a, p) /\ Sighted(a)
  /\ UNCHANGED changes

ChangePrice(a, p) ==
  /\ a \in Found /\ p # history[a][Len(history[a])].price /\ Change
  /\ Observe(a, p) /\ Sighted(a)

See(a) ==
  /\ a \in Found /\ Change
  /\ Sighted(a)
  /\ UNCHANGED history

-----------------------------------------------------------------------------
(* The availability tracker, and the signal worker that finds a page gone. *)

Check(a, s) ==
  /\ a \in Found /\ status[a] # "inactive"
  /\ IF a \in asked THEN UNCHANGED changes ELSE Change
  /\ status' = [status EXCEPT ![a] = s]
  /\ lastSeen' = [lastSeen EXCEPT ![a] = IF s = "active" THEN clock ELSE @]
  /\ checked' = [checked EXCEPT ![a] = clock]
  /\ asked' = asked \ {a}
  /\ UNCHANGED <<clock, history, identity, filters, consumed, notes, matcher, regrouped>>

-----------------------------------------------------------------------------
(* The resolver: the adverts of a group without a property get new ones,   *)
(* and the properties of the group merge into the one with the lowest id.  *)
(* Of an advert's later resolutions the model leaves out those that change *)
(* nothing, and it leaves out the operator's splits.                       *)

NewOnes(G) == {a \in G : member[a] = 0}
LastAfter(G) == lastProperty + Cardinality(NewOnes(G))
GroupOf(G) == {member[a] : a \in G \ NewOnes(G)} \cup (lastProperty + 1 .. LastAfter(G))

(* Mutant: a merged property gets an id of its own, which is not counted.  *)
MutantUncountedId(G) ==
  member' = [a \in Adverts |-> IF a \in NewOnes(G) \/ member[a] \in GroupOf(G)
                               THEN lastProperty + 1 ELSE member[a]]

Merge(G) ==
  member' = [a \in Adverts |-> IF a \in NewOnes(G) \/ member[a] \in GroupOf(G)
                               THEN LeastOf(GroupOf(G)) ELSE member[a]]

Resolve(a, G) ==
  /\ G \subseteq Found /\ a \in G
  /\ Merge(G)
  /\ IF a \in resolved THEN member' # member /\ Change ELSE UNCHANGED changes
  /\ lastProperty' = LastAfter(G)
  /\ resolved' = resolved \cup {a}
  /\ regrouped' = (regrouped \/ (matcher.pc # "idle" /\ member' # member))
  /\ UNCHANGED <<clock, adverts, filters, consumed, notes, matcher>>

-----------------------------------------------------------------------------
(* The user.  A pause withdraws what is still pending, which may be all or *)
(* nothing; of a restart, also of an enabled filter, the handler first     *)
(* takes time.Now() and then commits.                                      *)

Pause(u) ==
  /\ \E kept \in SUBSET {n \in notes : n.user = u} :
       notes' = {n \in notes : n.user # u} \cup kept
  /\ enabled' = [enabled EXCEPT ![u] = FALSE]
  /\ UNCHANGED <<clock, adverts, identity, activated, since, stamps, consumed, matcher, regrouped,
                 changes>>

Press(u) ==
  /\ Change
  /\ stamps' = [stamps EXCEPT ![u] = @ \cup {clock}]
  /\ UNCHANGED <<clock, adverts, identity, enabled, activated, since, consumed, notes, matcher,
                 regrouped>>

Restart(u, t) ==
  /\ t \in stamps[u]
  /\ stamps' = [stamps EXCEPT ![u] = @ \ {t}]
  /\ enabled' = [enabled EXCEPT ![u] = TRUE]
  /\ activated' = [activated EXCEPT ![u] = t]
  /\ since' = [since EXCEPT ![u] = clock]
  /\ UNCHANGED <<clock, adverts, identity, consumed, notes, matcher, regrouped, changes>>

-----------------------------------------------------------------------------
(* MatchPriceChangedEvent: a change between known prices goes to every     *)
(* user who wants the new one, whatever the property has seen.             *)

Matched(at, price) == {u \in Users : enabled[u] /\ activated[u] < at /\ price \in Wanted[u]}

MatchPriceChanged(a, i) ==
  /\ matcher = Idle
  /\ a \in Found /\ i \in 2..Len(history[a]) /\ <<a, i>> \notin consumed
  /\ consumed' = consumed \cup {<<a, i>>}
  /\ LET before == history[a][i - 1].price
         now == history[a][i].price
     IN notes' = notes \cup
          {[user |-> u, advert |-> a, kind |-> "price_changed", previous |-> before,
            alternatives |-> {}] :
             u \in IF None \in {before, now} THEN {} ELSE Matched(history[a][i].at, now)}
  /\ UNCHANGED <<clock, adverts, identity, filters, matcher, regrouped, changes>>

-----------------------------------------------------------------------------
(* MatchDuplicateAwareListingEvent.                                        *)

Others(a, P) == {b \in Found \ {a} : member[b] = P}

(* ResolvedPropertyIDForListing.  Without a row the event stays pending.   *)
Prepare(a) ==
  /\ matcher = Idle
  /\ a \in Found \cap resolved /\ <<a, 1>> \notin consumed
  /\ matcher' = [Idle EXCEPT !.pc = "prepared", !.advert = a, !.property = member[a]]
  /\ regrouped' = FALSE
  /\ UNCHANGED <<clock, adverts, identity, filters, consumed, notes, changes>>

(* Mutant: a check from before the event is good enough.                   *)
MutantAnyCheck(a, P) == {b \in Others(a, P) : status[b] # "inactive" /\ checked[b] = 0}

(* The adverts without a provider check since the event.                   *)
Missing(a, P) ==
  {b \in Others(a, P) : status[b] # "inactive" /\ checked[b] < SeenAt(a)}

(* Mutant: the event waits, and nobody is asked for the evidence.          *)
MutantNobodyAsked ==
  /\ matcher.pc = "prepared"
  /\ matcher' = IF Missing(matcher.advert, matcher.property) = {}
                THEN [matcher EXCEPT !.pc = "confirmed"] ELSE Idle
  /\ UNCHANGED <<clock, adverts, identity, filters, consumed, notes, regrouped, changes>>

(* ScheduleMissingPropertyAvailabilityChecks: with checks missing they are *)
(* asked for, and the event goes back to the queue.                        *)
AskForChecks ==
  /\ matcher.pc = "prepared"
  /\ LET missing == Missing(matcher.advert, matcher.property)
     IN /\ asked' = asked \cup missing
        /\ matcher' = IF missing = {} THEN [matcher EXCEPT !.pc = "confirmed"] ELSE Idle
  /\ UNCHANGED <<clock, history, status, lastSeen, checked, identity, filters, consumed,
                 notes, regrouped, changes>>

(* ListOtherPropertyOffers: prices as of the event, statuses as of now.    *)
PricesBy(b, t) == {i \in DOMAIN history[b] : history[b][i].at <= t}
Latest(b, rows) ==
  IF rows = {} THEN None
  ELSE history[b][CHOOSE i \in rows : \A j \in rows : j <= i].price
PriceAt(b, t) == Latest(b, PricesBy(b, t))
LastKnownAt(b, t) == Latest(b, {i \in PricesBy(b, t) : history[b][i].price # None})

(* The order of the offers: first_seen_at DESC, id DESC.                   *)
Newer(b, c) == SeenAt(c) < SeenAt(b) \/ (SeenAt(c) = SeenAt(b) /\ c <= b)
Newest(S) == {b \in S : \A c \in S : Newer(b, c)}

ReadOffers ==
  /\ matcher.pc = "confirmed"
  /\ LET a == matcher.advert
         t == SeenAt(a)
         others == Others(a, matcher.property)
         active == {b \in others : status[b] = "active"}
         gone == {b \in others : status[b] = "inactive"}
     IN matcher' = [matcher EXCEPT
          !.pc = "classify",
          !.active = {[advert |-> b, price |-> PriceAt(b, t)] : b \in active},
          !.prior = {[advert |-> b, price |-> LastKnownAt(b, t)] : b \in Newest(gone)},
          !.left = Matched(t, InitialPrice(a))]
  /\ UNCHANGED <<clock, adverts, identity, filters, consumed, notes, regrouped, changes>>

(* UserWasNotifiedAboutProperty: of any kind, about any advert of it.      *)
WasNotified(u, P) == \E n \in notes : n.user = u /\ member[n.advert] = P

Known(offers) == {o \in offers : o.price # None}
BestPrice(offers) == LeastOf({o.price : o \in Known(offers)})

(* ClassifyPropertyDiscovery: the kind of alert and the price to compare   *)
(* with; no element where the code answers Notify: false.                  *)
Cheaper(price) ==
  {[kind |-> "cheaper_offer", previous |-> p] :
     p \in IF /\ price # None /\ Known(matcher.active) # {}
              /\ price < BestPrice(matcher.active)
           THEN {BestPrice(matcher.active)} ELSE {}}
Relisting(price) ==
  {[kind |-> "relisting_price_changed", previous |-> o.price] :
     o \in {o \in Known(matcher.prior) : price # None /\ price # o.price}}
Discovery == {[kind |-> "listing_discovered", previous |-> None]}

(* Mutant: a user who knows the property is told of the advert as new.     *)
MutantAlwaysNew(price, notified) ==
  CASE matcher.active # {} -> Discovery
    [] matcher.active = {} /\ Relisting(price) # {} -> Relisting(price)
    [] OTHER -> IF notified THEN {} ELSE Discovery

(* Mutant: only offers that beat a current one are worth an alert.         *)
MutantOnlyCheaper(price, notified) ==
  CASE matcher.active # {} -> Cheaper(price)
    [] matcher.active = {} /\ Relisting(price) # {} -> Relisting(price)
    [] OTHER -> IF notified THEN {} ELSE Discovery

Decision(price, notified) ==
  CASE matcher.active # {} -> IF notified THEN Cheaper(price) ELSE Discovery
    [] matcher.active = {} /\ Relisting(price) # {} -> Relisting(price)
    [] OTHER -> IF notified THEN {} ELSE Discovery

Classify(u) ==
  /\ matcher.pc = "classify" /\ u \in matcher.left
  /\ LET a == matcher.advert
         decided == Decision(InitialPrice(a), WasNotified(u, matcher.property))
     IN matcher' = [matcher EXCEPT
          !.left = @ \ {u},
          !.rows = @ \cup {[user |-> u, advert |-> a, kind |-> d.kind, previous |-> d.previous,
                            alternatives |-> {o.advert : o \in matcher.active}] : d \in decided}]
  /\ UNCHANGED <<clock, adverts, identity, filters, consumed, notes, regrouped, changes>>

CommitMatch ==
  /\ matcher.pc = "classify" /\ matcher.left = {}
  /\ notes' = notes \cup matcher.rows
  /\ consumed' = consumed \cup {<<matcher.advert, 1>>}
  /\ matcher' = Idle
  /\ UNCHANGED <<clock, adverts, identity, filters, regrouped, changes>>

(* A statement fails, or the process dies, with the handlers at work: the  *)
(* transaction rolls back, and the event comes again.                      *)
AbortMatch ==
  /\ matcher # Idle /\ Change
  /\ matcher' = Idle
  /\ stamps' \in {stamps, [u \in Users |-> {}]}
  /\ UNCHANGED <<clock, adverts, identity, enabled, activated, since, consumed, notes, regrouped>>

-----------------------------------------------------------------------------
FeedStep == \E a \in Adverts :
  See(a) \/ \E p \in Prices : Discover(a, p) \/ ChangePrice(a, p)
EvidenceStep == \E a \in Adverts :
  (\E s \in Statuses : Check(a, s)) \/ \E G \in Duplicates \cup {{a}} : Resolve(a, G)
MatchStep ==
  \/ AskForChecks \/ ReadOffers \/ CommitMatch
  \/ \E u \in Users : Classify(u)
  \/ \E a \in Adverts :
       Prepare(a) \/ \E i \in 2..Len(history[a]) : MatchPriceChanged(a, i)

UserStep == \E u \in Users \cap Restless : Pause(u) \/ Press(u) \/ \E t \in stamps[u] : Restart(u, t)

Next == Tick \/ FeedStep \/ EvidenceStep \/ MatchStep \/ AbortMatch \/ UserStep

Spec == Init /\ [][Next]_vars

(* The workers resolve every advert and make every check they are asked    *)
(* for (SignalJobs, PropertyIdentity, Availability), the matcher goes on   *)
(* with the transaction it has, and an event whose property is resolved    *)
(* comes round again and again (EventDelivery).                            *)
FirstResolution(a) == a \notin resolved /\ \E G \in Duplicates \cup {{a}} : Resolve(a, G)
AskedCheck(a) == a \in asked /\ \E s \in Statuses : Check(a, s)
Transaction == AskForChecks \/ ReadOffers \/ CommitMatch \/ \E u \in Users : Classify(u)

FairSpec ==
  /\ Spec
  /\ WF_vars(Transaction)
  /\ \A a \in Adverts : WF_vars(FirstResolution(a)) /\ WF_vars(AskedCheck(a)) /\ SF_vars(Prepare(a))

-----------------------------------------------------------------------------
(* Properties.                                                             *)

TypeOK ==
  /\ clock \in 1..MaxClock
  /\ history \in [Adverts -> Seq([price : Prices, at : 1..MaxClock])]
  /\ status \in [Adverts -> Statuses]
  /\ lastSeen \in [Adverts -> 0..MaxClock] /\ checked \in [Adverts -> 0..MaxClock]
  /\ asked \in SUBSET Adverts
  /\ lastProperty \in Nat /\ member \in [Adverts -> 0..lastProperty] /\ resolved \in SUBSET Adverts
  /\ enabled \in [Users -> BOOLEAN] /\ activated \in [Users -> 0..MaxClock]
  /\ since \in [Users -> 0..MaxClock] /\ stamps \in [Users -> SUBSET (1..MaxClock)]
  /\ consumed \in SUBSET (Adverts \X Nat)
  /\ notes \in SUBSET Note
  /\ matcher \in [pc : {"idle", "prepared", "confirmed", "classify"},
                  advert : Adverts \cup {NoAdvert}, property : Nat,
                  active : SUBSET Offer, prior : SUBSET Offer,
                  left : SUBSET Users, rows : SUBSET Note]
  /\ regrouped \in BOOLEAN
  /\ changes \in 0..MaxChanges

(* The users who want an advert, with a filter whose activation was        *)
(* committed before the advert was found.                                  *)
InForce(a) ==
  {u \in Users : enabled[u] /\ since[u] < SeenAt(a) /\ InitialPrice(a) \in Wanted[u]}

(* README "Duplicate-aware saved alerts": an advert is kept from a user    *)
(* only because the user has been told of the property.  Whatever merges,  *)
(* pauses and restarts there are meanwhile, once the discovery of an       *)
(* advert is consumed, every user whose filter is in force since before it *)
(* has an alert about some advert of the same property.  (Of a restart     *)
(* that is stamped before the advert and committed after the match has     *)
(* read the filters this is not true, as AlertDelivery says.)              *)
InterestedUserKnowsProperty ==
  \A a \in Found : <<a, 1>> \in consumed =>
    \A u \in InForce(a) : \E n \in notes : n.user = u /\ member[n.advert] = member[a]

(* README: inactive offers "are never shown as current alternatives, and   *)
(* unknown availability is not presented as active": an offer listed as an *)
(* alternative has been seen alive no earlier than the advert was found,   *)
(* unless a property changed while the match was under way.                *)
AlternativesAreAffirmed ==
  [][\A n \in notes' \ notes, b \in Adverts :
       b \in n.alternatives /\ ~regrouped => lastSeen[b] >= SeenAt(n.advert)]_vars

(* A user with an alert about a property is not told of another advert of  *)
(* it as a new listing, unless a property changed while the match was      *)
(* under way.                                                              *)
NoSecondDiscovery ==
  [][\A n \in notes' \ notes :
       n.kind = "listing_discovered" /\ ~regrouped
         => \A m \in notes : m.user = n.user => member[m.advert] # member[n.advert]]_vars

(* The resolver, reduced to its commits, keeps the promise PropertyIdentity*)
(* keeps with its jobs: a property without adverts stays without any.      *)
Groups == INSTANCE PropertyGroups
            WITH Movable <- {}, known <- 1..lastProperty,
                 retired <- (1..lastProperty) \ {member[a] : a \in Adverts}
ImplementsPropertyGroups == Groups!Spec

(* Every advert that is found has its discovery consumed in the end: the   *)
(* evidence it waits for has been asked for, and a property that changes   *)
(* meanwhile asks again.                                                   *)
DiscoveriesAreMatched ==
  \A a \in Adverts : a \in Found ~> <<a, 1>> \in consumed

(* CHANGELOG: "true inactive relistings notify on higher or lower matching *)
(* prices": with no offer active and the newest of the earlier adverts     *)
(* inactive at another known price, the users who want the price are told. *)
RelistingsAreTold ==
  [][\A a \in Adverts :
       /\ <<a, 1>> \in consumed' \ consumed /\ ~regrouped
       /\ InitialPrice(a) # None
       /\ \A b \in Others(a, member[a]) : status[b] = "inactive"
       /\ \E b \in Newest({b \in Others(a, member[a]) : SeenAt(b) < SeenAt(a)}) :
            LastKnownAt(b, SeenAt(a)) \notin {None, InitialPrice(a)}
       => \A u \in Matched(SeenAt(a), InitialPrice(a)) :
            \E n \in notes' : n.user = u /\ n.advert = a]_vars
=============================================================================
