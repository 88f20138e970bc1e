-------------------------- MODULE Discovery_proofs --------------------------
(***************************************************************************)
(* Proofs about Discovery, for every set of adverts, sources and offers,   *)
(* and every bound.                                                        *)
(***************************************************************************)
EXTENDS Discovery, TLAPS

(* The parts of the inductive invariant: what is stored is of initialized  *)
(* sources, and the poll in progress knows of its own source, and of that  *)
(* alone, whether this is the first time.                                  *)
StoredAreKnown == \A a \in Stored : SourceOf[a] \in initialized

PollIsOfSource ==
  /\ poll.pc \in {"fetch", "enrich", "store"} =>
       (poll.baseline = "yes" <=> Polled \notin initialized)
  /\ \A a \in poll.todo : SourceOf[a] = Polled /\ poll.items[a] # Absent
  /\ \A a \in Adverts : poll.got[a] # Absent => SourceOf[a] = Polled

IInv == PriceLog /\ EventsTellHistory /\ StoredAreKnown /\ PollIsOfSource

-----------------------------------------------------------------------------
(* What the feed and the details show are listings, and no listing is      *)
(* Absent.                                                                 *)
LEMMA ListingFacts ==
  /\ Absent \notin Listing /\ None \in Nat /\ Prices \subseteq Nat
  /\ \A o \in Listing : o.price \in Prices /\ o.facts \in {x.facts : x \in Offers} \cup {Missing}
<1>1. \A o \in Offers : o.facts # Absent.facts /\ o.price \in Nat
  BY OffersAssumption
<1>2. Absent.facts = "absent"
  BY DEF Absent
<1>3. \A o \in Listing : o.facts # "absent"
  BY <1>1, <1>2 DEF Listing, Missing
<1>. QED
  BY <1>1, <1>2, <1>3 DEF Listing, Prices, None

LEMMA FeedItemIsListing ==
  ASSUME TypeOK, NEW a \in Adverts, page[a] # Malformed
  PROVE  /\ FeedItem(a) \in Listing
         /\ \A o \in Listing : Detailed(a, o) \in Listing
<1>1. page[a] \in Offers
  BY DEF TypeOK
<1>2. page[a] = [price |-> page[a].price, facts |-> page[a].facts]
  BY <1>1, OffersAssumption
<1>3. page[a].price \in Prices /\ page[a].facts \in {x.facts : x \in Offers}
  BY <1>1 DEF Prices
<1>4. page[a] \in Listing /\ [price |-> page[a].price, facts |-> Missing] \in Listing
  BY <1>2, <1>3 DEF Listing
<1>5. ASSUME NEW o \in Listing PROVE Detailed(a, o) \in Listing
  BY <1>3, ListingFacts DEF Listing, Detailed
<1>. QED
  BY <1>4, <1>5 DEF FeedItem

LEMMA NoPollFacts ==
  /\ NoPoll \in [pc : {"idle", "fetch", "enrich", "store", "sight"}, baseline : {"yes", "no"},
                 items : [Adverts -> Listing \cup {Absent}], todo : SUBSET Adverts,
                 got : [Adverts -> Listing \cup {Absent}]]
  /\ NoPoll.pc = "idle" /\ NoPoll.todo = {} /\ \A a \in Adverts : NoPoll.got[a] = Absent
  BY DEF NoPoll, NoItems

LEMMA TurnFacts ==
  /\ Len(Order) \in Nat \ {0} /\ (Polled \in Sources \/ turn \notin 1..Len(Order))
  /\ turn \in 1..Len(Order) => (turn % Len(Order)) + 1 \in 1..Len(Order)
  /\ 1 \in 1..Len(Order)
<1>1. Len(Order) \in Nat \ {0} /\ DOMAIN Order = 1..Len(Order)
  BY OrderAssumption
<1>2. ASSUME turn \in 1..Len(Order) PROVE (turn % Len(Order)) \in 0..(Len(Order) - 1)
  BY <1>1, <1>2
<1>. QED
  BY <1>1, <1>2 DEF Polled, Sources

LEMMA InitIInv == Init => TypeOK /\ IInv
<1>. SUFFICES ASSUME Init PROVE TypeOK /\ IInv
  OBVIOUS
<1>1. \A a \in Adverts : stored[a] = Absent /\ history[a] = <<>> /\ outbox[a] = <<>>
  BY DEF Init, NoItems
<1>2. Stored = {} /\ silent = {}
  BY <1>1 DEF Init, Stored
<1>3. TypeOK
  <2>1. stored \in [Adverts -> Listing \cup {Absent}]
    BY DEF Init, NoItems
  <2>2. history \in [Adverts -> Seq(Prices)] /\ outbox \in [Adverts -> Seq(EventRecord)]
    BY DEF Init
  <2>3. changes \in 0..MaxChanges /\ crashes \in 0..MaxCrashes
    BY DiscoveryBoundsAssumption DEF Init
  <2>4. page \in [Adverts -> Offers \cup {Malformed}]
    BY DEF Init
  <2>5. turn \in 1..Len(Order)
    BY TurnFacts DEF Init
  <2>. QED
    BY <1>2, <2>1, <2>2, <2>3, <2>4, <2>5, NoPollFacts DEF Init, TypeOK
<1>4. PriceLog
  BY <1>1, <1>2 DEF PriceLog
<1>5. EventsTellHistory
  BY <1>1, <1>2 DEF EventsTellHistory, Told
<1>6. StoredAreKnown /\ PollIsOfSource
  BY <1>2, NoPollFacts DEF Init, StoredAreKnown, PollIsOfSource
<1>. QED
  BY <1>3, <1>4, <1>5, <1>6 DEF IInv

-----------------------------------------------------------------------------
(* Steps that leave rows, history and events alone.                        *)
LEMMA RowsKept ==
  ASSUME IInv, UNCHANGED <<stored, history, outbox, initialized, silent>>
  PROVE  PriceLog' /\ EventsTellHistory' /\ StoredAreKnown'
  BY DEF IInv, PriceLog, EventsTellHistory, StoredAreKnown, Stored, Told, Last

LEMMA ProviderInv ==
  ASSUME TypeOK, IInv, ProviderStep
  PROVE  TypeOK' /\ IInv'
<1>1. UNCHANGED <<stored, history, outbox, initialized, silent, poll, turn, crashes>>
  BY DEF ProviderStep, List, Unlist, FoundGone, Edit, storeVars
<1>2. /\ page' \in [Adverts -> Offers \cup {Malformed}] /\ listed' \in SUBSET Adverts
      /\ status' \in [Adverts -> {"active", "inactive"}]
  BY DEF ProviderStep, List, Unlist, FoundGone, Edit, storeVars, TypeOK
<1>3. changes' \in 0..MaxChanges
  <2>1. Change
    BY DEF ProviderStep, List, Unlist, FoundGone, Edit
  <2>. QED
    BY <2>1, DiscoveryBoundsAssumption DEF Change, TypeOK
<1>4. TypeOK'
  BY <1>1, <1>2, <1>3 DEF TypeOK, Stored
<1>5. PollIsOfSource'
  BY <1>1 DEF IInv, PollIsOfSource, Polled
<1>. QED
  BY <1>1, <1>4, <1>5, RowsKept DEF IInv

(* The poll goes on: what it says of its source it says still.             *)
PollFrame == UNCHANGED <<page, listed, changes, stored, status, history, outbox, initialized, silent,
                         turn, crashes>>
PollType ==
  poll' \in [pc : {"idle", "fetch", "enrich", "store", "sight"}, baseline : {"yes", "no"},
             items : [Adverts -> Listing \cup {Absent}], todo : SUBSET Adverts,
             got : [Adverts -> Listing \cup {Absent}]]

LEMMA PollKeeps ==
  ASSUME TypeOK, IInv, PollFrame, PollType, PollIsOfSource'
  PROVE  TypeOK' /\ IInv'
<1>1. TypeOK'
  BY DEF TypeOK, PollFrame, PollType, Stored
<1>. QED
  BY <1>1, RowsKept DEF PollFrame, IInv

LEMMA BeginInv ==
  ASSUME TypeOK, IInv, Begin
  PROVE  TypeOK' /\ IInv'
<1>1. PollFrame
  BY DEF Begin, PollFrame, providerVars, storeVars
<1>2. PollType
  BY NoPollFacts DEF Begin, PollType
<1>3. /\ poll'.baseline = "yes" <=> Polled \notin initialized
      /\ poll'.todo = {} /\ \A a \in Adverts : poll'.got[a] = Absent
  BY NoPollFacts DEF Begin, NoPoll
<1>4. PollIsOfSource'
  BY <1>1, <1>3 DEF PollIsOfSource, PollFrame, Polled
<1>. QED
  BY <1>1, <1>2, <1>4, PollKeeps

LEMMA FetchInv ==
  ASSUME TypeOK, IInv, Fetch
  PROVE  TypeOK' /\ IInv'
<1>. DEFINE items == [a \in Adverts |-> IF a \in Parsed(Polled) THEN FeedItem(a) ELSE Absent]
<1>1. PollFrame
  BY DEF Fetch, PollFrame, providerVars, storeVars
<1>2. items \in [Adverts -> Listing \cup {Absent}]
  BY FeedItemIsListing DEF Parsed, Of
<1>3. \A a \in Adverts : items[a] # Absent => SourceOf[a] = Polled
  BY DEF Parsed, Of
<1>4. NoItems \in [Adverts -> Listing \cup {Absent}] /\ \A a \in Adverts : NoItems[a] = Absent
  BY DEF NoItems
<1>5. /\ poll'.pc \in {"store", "enrich"} /\ poll'.baseline = poll.baseline
      /\ poll'.items = items /\ poll'.todo \subseteq Items(items)
      /\ poll'.got \in {items, NoItems}
  BY DEF Fetch, TypeOK
<1>6. PollType
  <2>1. poll' = [pc |-> poll'.pc, baseline |-> poll'.baseline, items |-> poll'.items,
                 todo |-> poll'.todo, got |-> poll'.got]
    BY DEF Fetch, TypeOK
  <2>2. poll.baseline \in {"yes", "no"} /\ Items(items) \subseteq Adverts
    BY DEF TypeOK, Items
  <2>. QED
    BY <1>2, <1>4, <1>5, <2>1, <2>2 DEF PollType
<1>7. poll.pc = "fetch"
  BY DEF Fetch
<1>8. PollIsOfSource'
  <2>1. Polled' = Polled
    BY <1>1 DEF PollFrame, Polled
  <2>2. poll'.baseline = "yes" <=> Polled \notin initialized
    BY <1>5, <1>7 DEF IInv, PollIsOfSource
  <2>3. \A a \in poll'.todo : SourceOf[a] = Polled /\ poll'.items[a] # Absent
    BY <1>3, <1>5 DEF Items
  <2>4. \A a \in Adverts : poll'.got[a] # Absent => SourceOf[a] = Polled
    BY <1>3, <1>4, <1>5
  <2>. QED
    BY <1>1, <2>1, <2>2, <2>3, <2>4 DEF PollIsOfSource, PollFrame
<1>. QED
  BY <1>1, <1>6, <1>8, PollKeeps

LEMMA EnrichInv ==
  ASSUME TypeOK, IInv, NEW a \in Adverts, Enrich(a) \/ EnrichFails(a)
  PROVE  TypeOK' /\ IInv'
<1>1. PollFrame
  BY DEF Enrich, EnrichFails, PollFrame, providerVars, storeVars
<1>2. a \in poll.todo /\ poll.pc = "enrich"
  BY DEF Enrich, EnrichFails
<1>3. SourceOf[a] = Polled /\ poll.items[a] \in Listing
  BY <1>2 DEF IInv, PollIsOfSource, TypeOK
<1>4. PollType
  <2>1. CASE EnrichFails(a)
    BY <2>1 DEF EnrichFails, PollType, TypeOK
  <2>2. CASE Enrich(a)
    <3>1. Detailed(a, poll.items[a]) \in Listing
      BY <1>3, <2>2, FeedItemIsListing DEF Enrich
    <3>. QED
      BY <2>2, <3>1 DEF Enrich, PollType, TypeOK
  <2>. QED
    BY <2>1, <2>2
<1>5. /\ poll'.pc = poll.pc /\ poll'.baseline = poll.baseline /\ poll'.items = poll.items
      /\ poll'.todo = poll.todo \ {a}
      /\ \A b \in Adverts : b # a => poll'.got[b] = poll.got[b]
  BY DEF Enrich, EnrichFails, TypeOK
<1>6. PollIsOfSource'
  <2>1. Polled' = Polled
    BY <1>1 DEF PollFrame, Polled
  <2>. QED
    BY <1>1, <1>2, <1>3, <1>5, <2>1 DEF IInv, PollIsOfSource, PollFrame
<1>. QED
  BY <1>1, <1>4, <1>6, PollKeeps

LEMMA EnrichedInv ==
  ASSUME TypeOK, IInv, Enriched
  PROVE  TypeOK' /\ IInv'
<1>1. PollFrame
  BY DEF Enriched, PollFrame, providerVars, storeVars
<1>2. PollType
  BY DEF Enriched, PollType, TypeOK
<1>3. /\ poll.pc = "enrich" /\ poll'.pc = "store" /\ poll'.baseline = poll.baseline
      /\ poll'.items = poll.items /\ poll'.todo = poll.todo /\ poll'.got = poll.got
  BY DEF Enriched, TypeOK
<1>4. PollIsOfSource'
  BY <1>1, <1>3 DEF IInv, PollIsOfSource, PollFrame, Polled
<1>. QED
  BY <1>1, <1>2, <1>4, PollKeeps

(* The poll is over: Sight, a failure, or a crash.                         *)
LEMMA OverInv ==
  ASSUME TypeOK, IInv, Sight \/ PollFails \/ Crash
  PROVE  TypeOK' /\ IInv'
<1>1. /\ UNCHANGED <<page, listed, changes, stored, history, outbox, initialized, silent>>
      /\ poll' = NoPoll
  BY DEF Sight, PollFails, Crash, Ends, providerVars, storeVars
<1>2. status' \in [Adverts -> {"active", "inactive"}]
  BY DEF Sight, PollFails, Crash, storeVars, TypeOK
<1>3. turn' \in 1..Len(Order)
  BY TurnFacts DEF Sight, PollFails, Crash, Ends, TypeOK
<1>4. crashes' \in 0..MaxCrashes
  BY DiscoveryBoundsAssumption DEF Sight, PollFails, Crash, TypeOK
<1>5. TypeOK'
  BY <1>1, <1>2, <1>3, <1>4, NoPollFacts DEF TypeOK, Stored
<1>6. PollIsOfSource'
  BY <1>1, NoPollFacts DEF PollIsOfSource
<1>. QED
  BY <1>1, <1>5, <1>6, RowsKept DEF IInv

-----------------------------------------------------------------------------
(* The transaction that stores a poll.  What a new row adds to the history *)
(* of an advert, and the event to its outbox.                              *)
LEMMA StoreOne ==
  ASSUME TypeOK, IInv, Store, NEW a \in Adverts
  PROVE  /\ poll.got[a] = Absent => /\ stored'[a] = stored[a]
                                    /\ history'[a] = history[a] /\ outbox'[a] = outbox[a]
         /\ poll.got[a] # Absent => /\ stored'[a] \in Listing /\ stored'[a].price = poll.got[a].price
                                    /\ poll.got[a] \in Listing
         /\ PriceMoves(a) => history'[a] = Append(history[a], poll.got[a].price)
         /\ ~PriceMoves(a) => history'[a] = history[a] /\ outbox'[a] = outbox[a]
         /\ PriceMoves(a) /\ Notify => outbox'[a] = Append(outbox[a], Event(a))
         /\ ~Notify => outbox'[a] = outbox[a]
<1>1. poll.got[a] = Absent \/ poll.got[a] \in Listing
  BY DEF TypeOK
<1>2. stored'[a] = CASE poll.got[a] = Absent -> stored[a]
                     [] poll.got[a] # Absent /\ a \in Stored -> Updated(a, poll.got[a])
                     [] OTHER -> Inserted(poll.got[a])
  BY DEF Store
<1>3. a \in Stored => stored[a] \in Listing
  BY DEF TypeOK, Stored
<1>4. ASSUME poll.got[a] \in Listing, a \in Stored
      PROVE  Updated(a, poll.got[a]) \in Listing /\ Updated(a, poll.got[a]).price = poll.got[a].price
  BY <1>3, <1>4, ListingFacts DEF Updated, Listing
<1>5. poll.got[a] # Absent => stored'[a] \in Listing /\ stored'[a].price = poll.got[a].price
  BY <1>1, <1>2, <1>4 DEF Inserted
<1>. QED
  BY <1>1, <1>2, <1>5 DEF Store, PriceMoves

(* What the i-th event of an advert is to say.                             *)
Telling(a, i) ==
  LET r == i + Told(a)
  IN [kind |-> IF r = 1 THEN "listing_discovered" ELSE "price_changed",
      row |-> r,
      previous |-> IF r = 1 THEN None ELSE history[a][r - 1],
      price |-> history[a][r]]

LEMMA StoreInv ==
  ASSUME TypeOK, IInv, Store
  PROVE  TypeOK' /\ IInv'
<1>. USE StoreOne
<1>1. /\ UNCHANGED <<page, listed, changes, turn, crashes>>
      /\ initialized' = initialized \cup {Polled}
      /\ silent' = silent \cup {a \in Items(poll.got) \ Stored : Polled \notin initialized}
      /\ status' \in [Adverts -> {"active", "inactive"}]
  BY DEF Store, providerVars, TypeOK
<1>2. Stored' = Stored \cup Items(poll.got)
  BY ListingFacts DEF Stored, Items
<1>3. \A a \in Adverts : history[a] \in Seq(Prices) /\ outbox[a] \in Seq(EventRecord)
  BY DEF TypeOK
<1>4. \A a \in Adverts : PriceMoves(a) => poll.got[a].price \in Prices
  BY ListingFacts DEF PriceMoves
<1>5. ASSUME NEW a \in Adverts, PriceMoves(a) PROVE Event(a) \in EventRecord
  <2>1. Len(history[a]) + 1 \in Nat \ {0} /\ poll.got[a].price \in Prices
    BY <1>3, <1>4, <1>5
  <2>2. a \in Stored => stored[a].price \in Prices
    BY ListingFacts DEF TypeOK, Stored
  <2>. QED
    BY <2>1, <2>2 DEF Event, EventRecord
<1>6. TypeOK'
  <2>1. stored' \in [Adverts -> Listing \cup {Absent}]
    BY DEF Store, TypeOK
  <2>2. history' \in [Adverts -> Seq(Prices)]
    BY <1>3, <1>4 DEF Store
  <2>3. outbox' \in [Adverts -> Seq(EventRecord)]
    BY <1>3, <1>5 DEF Store
  <2>4. silent' \in SUBSET Stored'
    BY <1>1, <1>2 DEF TypeOK
  <2>5. initialized' \in SUBSET Sources
    BY <1>1, TurnFacts DEF TypeOK
  <2>6. PollType
    BY DEF Store, PollType, TypeOK
  <2>. QED
    BY <1>1, <2>1, <2>2, <2>3, <2>4, <2>5, <2>6 DEF PollType, TypeOK
<1>7. PriceLog'
  <2>. SUFFICES ASSUME NEW a \in Adverts
                PROVE  /\ a \in Stored' <=> history'[a] # <<>>
                       /\ a \in Stored' => stored'[a].price = Last(a)'
                       /\ \A i \in 1..Len(history'[a]) - 1 : history'[a][i] # history'[a][i + 1]
    BY DEF PriceLog
  <2>1. /\ a \in Stored <=> history[a] # <<>>
        /\ a \in Stored => stored[a].price = history[a][Len(history[a])]
        /\ \A i \in 1..Len(history[a]) - 1 : history[a][i] # history[a][i + 1]
    BY DEF IInv, PriceLog, Last
  <2>2. CASE PriceMoves(a)
    <3>1. a \in Items(poll.got) /\ stored'[a].price = poll.got[a].price
      BY <2>2 DEF Items, PriceMoves
    <3>2. history'[a] = Append(history[a], poll.got[a].price)
      BY <2>2
    <3>3. history[a] = <<>> \/ history[a][Len(history[a])] # poll.got[a].price
      BY <2>1, <2>2 DEF PriceMoves
    <3>. QED
      BY <1>2, <1>3, <1>4, <2>1, <2>2, <3>1, <3>2, <3>3 DEF Last
  <2>3. CASE ~PriceMoves(a)
    <3>1. a \in Stored' <=> a \in Stored
      BY <1>2, <2>3 DEF PriceMoves, Items
    <3>2. a \in Stored => stored'[a].price = stored[a].price
      BY <2>3 DEF PriceMoves
    <3>. QED
      BY <2>1, <2>3, <3>1, <3>2 DEF Last
  <2>. QED
    BY <2>2, <2>3
<1>8. StoredAreKnown' /\ PollIsOfSource'
  <2>1. \A a \in Items(poll.got) : SourceOf[a] = Polled
    BY DEF IInv, PollIsOfSource, Items
  <2>2. StoredAreKnown'
    BY <1>1, <1>2, <2>1 DEF IInv, StoredAreKnown
  <2>3. poll'.pc = "sight" /\ poll'.todo = poll.todo /\ poll'.items = poll.items /\ poll'.got = poll.got
    BY DEF Store, TypeOK
  <2>. QED
    BY <1>1, <2>2, <2>3 DEF IInv, PollIsOfSource, Polled
<1>9. EventsTellHistory'
  <2>. SUFFICES ASSUME NEW a \in Adverts
                PROVE  /\ Len(outbox'[a]) + Told(a)' = Len(history'[a])
                       /\ \A i \in DOMAIN outbox'[a] : outbox'[a][i] = Telling(a, i)'
    BY DEF EventsTellHistory, Telling
  <2>1. /\ Len(outbox[a]) + Told(a) = Len(history[a])
        /\ \A i \in DOMAIN outbox[a] : outbox[a][i] = Telling(a, i)
    BY DEF IInv, EventsTellHistory, Telling
  <2>2. /\ a \in Stored <=> history[a] # <<>>
        /\ a \in Stored => stored[a].price = history[a][Len(history[a])]
    BY DEF IInv, PriceLog, Last
  <2>3. Notify <=> Polled \in initialized
    BY DEF Store, IInv, PollIsOfSource, TypeOK, Notify
  <2>4. a \in silent => a \in Stored
    BY DEF TypeOK
  <2>5. a \in silent' <=> a \in silent \/ (a \in Items(poll.got) /\ a \notin Stored /\ ~Notify)
    BY <1>1, <2>3
  <2>6. CASE ~PriceMoves(a)
    <3>1. a \in silent' <=> a \in silent
      BY <2>5, <2>6 DEF PriceMoves, Items
    <3>. QED
      BY <2>1, <2>6, <3>1 DEF Told, Telling
  <2>7. CASE PriceMoves(a) /\ ~Notify
    <3>1. a \in Items(poll.got) /\ SourceOf[a] = Polled
      BY <2>7 DEF PriceMoves, Items, IInv, PollIsOfSource
    <3>2. a \notin Stored
      BY <2>3, <2>7, <3>1 DEF IInv, StoredAreKnown
    <3>3. history[a] = <<>> /\ Told(a) = 0 /\ Told(a)' = 1
      BY <2>2, <2>4, <2>5, <2>7, <3>1, <3>2 DEF Told
    <3>4. outbox[a] = <<>>
      BY <1>3, <2>1, <3>3
    <3>5. outbox'[a] = <<>>
      BY <2>7, <3>4
    <3>6. history'[a] = Append(<<>>, poll.got[a].price) /\ poll.got[a].price \in Prices
      BY <1>4, <2>7, <3>3
    <3>7. Len(history'[a]) = 1
      BY <3>6
    <3>. QED
      BY <3>3, <3>5, <3>7
  <2>8. CASE PriceMoves(a) /\ Notify
    <3>1. Told(a)' = Told(a) /\ Told(a) \in {0, 1}
      BY <2>5, <2>8 DEF Told
    <3>a. PICK n \in Nat : n = Len(history[a])
      BY <1>3
    <3>b. PICK m \in Nat : m = Len(outbox[a])
      BY <1>3
    <3>2. /\ outbox'[a] = Append(outbox[a], Event(a))
          /\ history'[a] = Append(history[a], poll.got[a].price)
      BY <2>8
    <3>3. n \in Nat /\ m \in Nat /\ m + Told(a) = n
      BY <2>1, <3>a, <3>b
    <3>4. /\ Len(history'[a]) = n + 1 /\ history'[a][n + 1] = poll.got[a].price
          /\ \A j \in 1..n : history'[a][j] = history[a][j]
      BY <1>3, <1>4, <2>8, <3>2, <3>a
    <3>5. /\ Len(outbox'[a]) = m + 1 /\ outbox'[a][m + 1] = Event(a)
          /\ \A j \in 1..m : outbox'[a][j] = outbox[a][j]
          /\ DOMAIN outbox'[a] = 1..(m + 1) /\ DOMAIN outbox[a] = 1..m
      BY <1>3, <1>5, <2>8, <3>2, <3>b
    <3>6. Telling(a, m + 1)' = Event(a)
      <4>1. a \in Stored <=> n # 0
        BY <1>3, <2>2, <3>a
      <4>2. a \in Stored => stored[a].price = history'[a][n]
        BY <2>2, <3>3, <3>4, <3>a, <4>1
      <4>3. Telling(a, m + 1)' =
              [kind |-> IF n + 1 = 1 THEN "listing_discovered" ELSE "price_changed",
               row |-> n + 1,
               previous |-> IF n + 1 = 1 THEN None ELSE history'[a][n],
               price |-> history'[a][n + 1]]
        <5>1. (m + 1) + Told(a)' = n + 1 /\ (n + 1) - 1 = n
          BY <3>1, <3>3
        <5>. QED
          BY <5>1 DEF Telling
      <4>. QED
        BY <3>3, <3>4, <3>a, <4>1, <4>2, <4>3 DEF Event
    <3>7. ASSUME NEW j \in 1..m PROVE Telling(a, j)' = Telling(a, j)
      <4>1. /\ j + Told(a)' = j + Told(a) /\ j + Told(a) \in 1..n
            /\ j + Told(a) # 1 => (j + Told(a)) - 1 \in 1..n
        BY <3>1, <3>3
      <4>. QED
        BY <3>4, <4>1 DEF Telling
    <3>8. ASSUME NEW i \in DOMAIN outbox'[a] PROVE outbox'[a][i] = Telling(a, i)'
      <4>1. i \in 1..m \/ i = m + 1
        BY <3>3, <3>5
      <4>. QED
        BY <2>1, <3>5, <3>6, <3>7, <4>1
    <3>9. Len(outbox'[a]) + Told(a)' = Len(history'[a])
      BY <3>1, <3>3, <3>4, <3>5
    <3>. QED
      BY <3>8, <3>9
  <2>. QED
    BY <2>6, <2>7, <2>8
<1>. QED
  BY <1>6, <1>7, <1>8, <1>9 DEF IInv

-----------------------------------------------------------------------------
LEMMA StepIInv == TypeOK /\ IInv /\ [Next]_vars => TypeOK' /\ IInv'
<1>. SUFFICES ASSUME TypeOK, IInv, [Next]_vars PROVE TypeOK' /\ IInv'
  OBVIOUS
<1>1. CASE ProviderStep
  BY <1>1, ProviderInv
<1>2. CASE PollStep
  <2>1. Begin \/ Fetch \/ Enriched \/ Store \/ Sight \/ \E a \in Adverts : Enrich(a) \/ EnrichFails(a)
    BY <1>2 DEF PollStep
  <2>. QED
    BY <2>1, BeginInv, FetchInv, EnrichedInv, StoreInv, OverInv, EnrichInv
<1>3. CASE PollFails \/ Crash
  BY <1>3, OverInv
<1>4. CASE UNCHANGED vars
  <2>1. PollFrame /\ poll' = poll
    BY <1>4 DEF vars, providerVars, storeVars, PollFrame
  <2>2. PollType /\ PollIsOfSource'
    BY <2>1 DEF PollFrame, PollType, TypeOK, IInv, PollIsOfSource, Polled
  <2>. QED
    BY <2>1, <2>2, PollKeeps
<1>. QED
  BY <1>1, <1>2, <1>3, <1>4 DEF Next

(* Every reachable state has the types and the inductive invariant.        *)
THEOREM Inductive == Spec => [](TypeOK /\ IInv)
  BY InitIInv, StepIInv, PTL DEF Spec

(* Type correctness of the monitor and of the rows it writes.              *)
THEOREM TypeCorrect == Spec => []TypeOK
  BY Inductive, PTL

(* The price history starts with the first price, has a row for each       *)
(* change and no other, and ends with the price of the listing, whatever   *)
(* polls fail and wherever the monitor crashes.                            *)
THEOREM PricesLogged == Spec => []PriceLog
<1>1. TypeOK /\ IInv => PriceLog
  BY DEF IInv
<1>. QED
  BY <1>1, Inductive, PTL

(* The outbox of an advert tells its price history row by row, and only    *)
(* the first row of an advert the first poll stored is left untold.        *)
THEOREM HistoryTold == Spec => []EventsTellHistory
<1>1. TypeOK /\ IInv => EventsTellHistory
  BY DEF IInv
<1>. QED
  BY <1>1, Inductive, PTL
=============================================================================
