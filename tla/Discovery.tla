------------------------------ MODULE Discovery ------------------------------
(***************************************************************************)
(* The source monitor (app/monitor.go), the two transactions it writes a   *)
(* poll with (store/postgres/listings.go) and what it asks of the          *)
(* providers (provider/sslv, provider/city24).                             *)
(*                                                                         *)
(* One goroutine polls the sources in turn.  The first poll that succeeds  *)
(* stores what the feed shows without a word; a later one fetches the      *)
(* details of the new and the changed adverts, stores those whose details  *)
(* arrived with their events, and then records that every advert of the    *)
(* feed was seen.  Any step may fail: the poll ends there, and the source  *)
(* has its next chance a round later.                                      *)
(*                                                                         *)
(* An advert is a price and its facts (text, photos, measurements).  The   *)
(* signal job that changed facts queue is the subject of SignalJobs, and   *)
(* what becomes of the outbox that of EventDelivery.                       *)
(***************************************************************************)
EXTENDS Integers, Sequences, FiniteSets

CONSTANTS Adverts,
          Order,       \* the sources, in the order they are polled in
          SourceOf,    \* SourceOf[a]: the source that lists a
          Rss,         \* the sources with an RSS feed (SS.lv)
          Offers,      \* what a provider may publish about an advert
          MaxChanges,  \* bound on edits, listings and withdrawals
          MaxCrashes   \* bound on crashes

Sources == {Order[i] : i \in DOMAIN Order}
None == 0              \* no price
Missing == "missing"   \* facts the feed does not show
Malformed == [price |-> None, facts |-> "malformed"]
Absent == [price |-> None, facts |-> "absent"]

ASSUME OrderAssumption == Order \in Seq(Sources) /\ Order # <<>>
ASSUME SourcesAssumption == SourceOf \in [Adverts -> Sources] /\ Rss \subseteq Sources
ASSUME OffersAssumption ==
  /\ \A o \in Offers : o = [price |-> o.price, facts |-> o.facts] /\ o.price \in Nat
  /\ \A o \in Offers : o.facts \notin {Missing, Malformed.facts, Absent.facts}
ASSUME DiscoveryBoundsAssumption == MaxChanges \in Nat /\ MaxCrashes \in Nat

VARIABLES
  page,         \* page[a]: the advert as the provider has it, or Malformed
  listed,       \* the adverts within the window of their feed
  changes,      \* changes at the providers so far
  stored,       \* stored[a]: the listing row, or Absent
  status,       \* status[a]: its availability_status
  history,      \* history[a]: its listing_price_history
  outbox,       \* outbox[a]: its events, in order
  initialized,  \* sources with source_state.initialized
  silent,       \* history: adverts stored before their source was initialized
  poll,         \* the poll in progress
  turn,         \* the source whose turn it is
  crashes

providerVars == <<page, listed, changes>>
storeVars == <<stored, status, history, outbox, initialized, silent>>
vars == <<providerVars, storeVars, poll, turn, crashes>>

Prices == {o.price : o \in Offers}
Listing == [price : Prices, facts : {o.facts : o \in Offers} \cup {Missing}]
NoItems == [a \in Adverts |-> Absent]
NoPoll == [pc |-> "idle", baseline |-> "no", items |-> NoItems, todo |-> {}, got |-> NoItems]

Polled == Order[turn]
Of(s) == {a \in Adverts : SourceOf[a] = s}
Stored == {a \in Adverts : stored[a] # Absent}
Items(f) == {a \in Adverts : f[a] # Absent}
Last(a) == history[a][Len(history[a])]

Init ==
  /\ page \in [Adverts -> Offers] /\ listed \in SUBSET Adverts /\ changes = 0
  /\ stored = NoItems /\ status = [a \in Adverts |-> "active"]
  /\ history = [a \in Adverts |-> <<>>] /\ outbox = [a \in Adverts |-> <<>>]
  /\ initialized = {} /\ silent = {}
  /\ poll = NoPoll /\ turn = 1
  /\ crashes = 0

-----------------------------------------------------------------------------
(* The providers: an advert is edited, enters the window of its feed or    *)
(* leaves it.                                                              *)

Change == changes < MaxChanges /\ changes' = changes + 1

Edit(a, o) ==
  /\ Change /\ o # page[a]
  /\ page' = [page EXCEPT ![a] = o]
  /\ UNCHANGED <<listed, storeVars, poll, turn, crashes>>

List(a) ==
  /\ a \notin listed /\ Change
  /\ listed' = listed \cup {a}
  /\ UNCHANGED <<page, storeVars, poll, turn, crashes>>

Unlist(a) ==
  /\ a \in listed /\ Change
  /\ listed' = listed \ {a}
  /\ UNCHANGED <<page, storeVars, poll, turn, crashes>>

(* The availability tracker, or a signal worker, finds the advert gone.    *)
FoundGone(a) ==
  /\ a \in Stored /\ status[a] = "active" /\ Change
  /\ status' = [status EXCEPT ![a] = "inactive"]
  /\ UNCHANGED <<page, listed, stored, history, outbox, initialized, silent, poll, turn, crashes>>

-----------------------------------------------------------------------------
(* The poll.                                                               *)

Ends == poll' = NoPoll /\ turn' = (turn % Len(Order)) + 1

(* IsSourceInitialized is asked once, before the feed is fetched.          *)
Begin ==
  /\ poll = NoPoll
  /\ poll' = [NoPoll EXCEPT !.pc = "fetch",
                            !.baseline = IF Polled \in initialized THEN "no" ELSE "yes"]
  /\ UNCHANGED <<providerVars, storeVars, turn, crashes>>

(* FetchRecent: RSS items that cannot be parsed are skipped, one offer of  *)
(* the City24 API that cannot fails the fetch, and so does an empty feed.  *)
Parsed(s) == {a \in Of(s) \cap listed : page[a] # Malformed}
Fetchable(s) == Parsed(s) # {} /\ (s \in Rss \/ Parsed(s) = Of(s) \cap listed)

(* The RSS feed shows the price and few of the facts.                      *)
FeedItem(a) ==
  IF SourceOf[a] \in Rss THEN [price |-> page[a].price, facts |-> Missing] ELSE page[a]

(* Mutant: details are fetched for new adverts only.                       *)
MutantNewOnly(a, o) == stored[a] = Absent

(* EnrichmentKeys: the advert is new, or the item differs from the row.    *)
EnrichmentRequired(a, o) ==
  \/ stored[a] = Absent
  \/ stored[a].price # o.price
  \/ o.facts # Missing /\ o.facts # stored[a].facts

(* A baseline takes the items as they are; later the details are fetched   *)
(* of those that need it.                                                  *)
Fetch ==
  /\ poll.pc = "fetch" /\ Fetchable(Polled)
  /\ LET items == [a \in Adverts |-> IF a \in Parsed(Polled) THEN FeedItem(a) ELSE Absent]
     IN poll' = [poll EXCEPT
          !.pc = IF poll.baseline = "yes" THEN "store" ELSE "enrich",
          !.items = items,
          !.todo = IF poll.baseline = "yes" THEN {}
                   ELSE {a \in Items(items) : EnrichmentRequired(a, items[a])},
          !.got = IF poll.baseline = "yes" THEN items ELSE NoItems]
  /\ UNCHANGED <<providerVars, storeVars, turn, crashes>>

(* Enrich: the page of SS.lv adds its facts to the item; the detail record *)
(* of City24 takes the place of the item, price and all.                   *)
Detailed(a, o) ==
  [price |-> IF SourceOf[a] \in Rss THEN o.price ELSE page[a].price, facts |-> page[a].facts]

Enrich(a) ==
  /\ poll.pc = "enrich" /\ a \in poll.todo /\ page[a] # Malformed
  /\ poll' = [poll EXCEPT !.todo = @ \ {a}, !.got[a] = Detailed(a, poll.items[a])]
  /\ UNCHANGED <<providerVars, storeVars, turn, crashes>>

(* The details do not arrive, or are none: the advert waits for a poll.    *)
EnrichFails(a) ==
  /\ poll.pc = "enrich" /\ a \in poll.todo
  /\ poll' = [poll EXCEPT !.todo = @ \ {a}]
  /\ UNCHANGED <<providerVars, storeVars, turn, crashes>>

Enriched ==
  /\ poll.pc = "enrich" /\ poll.todo = {}
  /\ poll' = [poll EXCEPT !.pc = "store"]
  /\ UNCHANGED <<providerVars, storeVars, turn, crashes>>

(* InsertListing, and UpdateExistingListing: the price is replaced, even   *)
(* by none, the facts only by facts.                                       *)
Inserted(o) == o
Updated(a, o) ==
  [price |-> o.price, facts |-> IF o.facts = Missing THEN stored[a].facts ELSE o.facts]

(* Mutant: an advert that loses its price keeps its last observation.      *)
MutantKnownOnly(a) ==
  poll.got[a] # Absent /\ (a \in Stored => poll.got[a].price \notin {None, stored[a].price})

(* The adverts whose price goes to the history: new or at another price.   *)
PriceMoves(a) == poll.got[a] # Absent /\ (a \in Stored => poll.got[a].price # stored[a].price)

Event(a) ==
  [kind |-> IF a \in Stored THEN "price_changed" ELSE "listing_discovered",
   row |-> Len(history[a]) + 1,
   previous |-> IF a \in Stored THEN stored[a].price ELSE None,
   price |-> poll.got[a].price]

(* Mutant: what the baseline stores is told as well.                       *)
MutantLoudBaseline == TRUE
Notify == poll.baseline = "no"

(* ProcessDiscovered, one transaction.                                     *)
Store ==
  /\ poll.pc = "store"
  /\ stored' = [a \in Adverts |->
       CASE poll.got[a] = Absent -> stored[a]
         [] poll.got[a] # Absent /\ a \in Stored -> Updated(a, poll.got[a])
         [] OTHER -> Inserted(poll.got[a])]
  /\ status' = [a \in Adverts |-> IF poll.got[a] # Absent THEN "active" ELSE status[a]]
  /\ history' = [a \in Adverts |->
       IF PriceMoves(a) THEN Append(history[a], poll.got[a].price) ELSE history[a]]
  /\ outbox' = [a \in Adverts |->
       IF PriceMoves(a) /\ Notify THEN Append(outbox[a], Event(a)) ELSE outbox[a]]
  /\ initialized' = initialized \cup {Polled}
  /\ silent' = silent \cup {a \in Items(poll.got) \ Stored : Polled \notin initialized}
  /\ poll' = [poll EXCEPT !.pc = "sight"]
  /\ UNCHANGED <<providerVars, turn, crashes>>

(* Mutant: only the adverts that went through the enrichment are seen.     *)
MutantSeen == Items(poll.got)
Seen == Items(poll.items) \cap Stored

(* RecordFeedSightings, a transaction of its own: an advert of the feed    *)
(* that is stored is alive, whatever became of its details.                *)
Sight ==
  /\ poll.pc = "sight"
  /\ status' = [a \in Adverts |-> IF a \in Seen THEN "active" ELSE status[a]]
  /\ Ends
  /\ UNCHANGED <<providerVars, stored, history, outbox, initialized, silent, crashes>>

(* A request or a statement fails, and with it the poll; a transaction     *)
(* under way rolls back.  A commit whose answer is lost ends the poll too, *)
(* from the step after it.                                                 *)
PollFails ==
  /\ poll.pc \in {"fetch", "store", "sight"}
  /\ Ends
  /\ UNCHANGED <<providerVars, storeVars, crashes>>

Crash ==
  /\ crashes < MaxCrashes /\ crashes' = crashes + 1
  /\ poll # NoPoll
  /\ poll' = NoPoll /\ turn' = 1
  /\ UNCHANGED <<providerVars, storeVars>>

-----------------------------------------------------------------------------
ProviderStep == \E a \in Adverts :
  List(a) \/ Unlist(a) \/ FoundGone(a) \/ \E o \in Offers \cup {Malformed} : Edit(a, o)

PollStep ==
  \/ Begin \/ Fetch \/ Enriched \/ Store \/ Sight
  \/ \E a \in Adverts : Enrich(a) \/ EnrichFails(a)

Next == ProviderStep \/ PollStep \/ PollFails \/ Crash

Spec == Init /\ [][Next]_vars

(* The monitor never stops polling.  Fetches and transactions may fail     *)
(* again and again, but where they can succeed they do so again and again: *)
(* a fetch of each source and a store of the details that have arrived,    *)
(* whatever else is in the poll.  Nothing is assumed of the details: those *)
(* of an advert may fail for ever.                                         *)
FetchOf(s) == Polled = s /\ Fetch
SightOf(s) == Polled = s /\ Sight
StoreWith(a) == poll.got[a] # Absent /\ Store
StoreOf(s) == Polled = s /\ Store

FairSpec ==
  /\ Spec
  /\ WF_vars(PollStep \/ PollFails)
  /\ \A s \in Sources : SF_vars(FetchOf(s)) /\ SF_vars(StoreOf(s)) /\ SF_vars(SightOf(s))
  /\ \A a \in Adverts : SF_vars(StoreWith(a))

-----------------------------------------------------------------------------
(* Properties.                                                             *)

EventRecord == [kind : {"listing_discovered", "price_changed"}, row : Nat \ {0},
                previous : Prices \cup {None}, price : Prices]

TypeOK ==
  /\ page \in [Adverts -> Offers \cup {Malformed}]
  /\ listed \in SUBSET Adverts
  /\ changes \in 0..MaxChanges
  /\ stored \in [Adverts -> Listing \cup {Absent}]
  /\ status \in [Adverts -> {"active", "inactive"}]
  /\ history \in [Adverts -> Seq(Prices)]
  /\ outbox \in [Adverts -> Seq(EventRecord)]
  /\ initialized \in SUBSET Sources /\ silent \in SUBSET Stored
  /\ poll \in [pc : {"idle", "fetch", "enrich", "store", "sight"}, baseline : {"yes", "no"},
               items : [Adverts -> Listing \cup {Absent}], todo : SUBSET Adverts,
               got : [Adverts -> Listing \cup {Absent}]]
  /\ turn \in 1..Len(Order)
  /\ crashes \in 0..MaxCrashes

(* README "Price history and alerts": every initial price is in the        *)
(* history, later ones only when the value changes, and the listing row    *)
(* always has the latest.                                                  *)
PriceLog ==
  \A a \in Adverts :
    /\ a \in Stored <=> history[a] # <<>>
    /\ a \in Stored => stored[a].price = Last(a)
    /\ \A i \in 1..Len(history[a]) - 1 : history[a][i] # history[a][i + 1]

(* The events of an advert tell its price history, one event for each row  *)
(* and in its order, whatever polls fail in between.  Only the first row   *)
(* of an advert that was stored before its source was initialized has no   *)
(* event: the first poll is silent, and it is the only one.                *)
Told(a) == IF a \in silent THEN 1 ELSE 0
EventsTellHistory ==
  \A a \in Adverts :
    /\ Len(outbox[a]) + Told(a) = Len(history[a])
    /\ \A i \in DOMAIN outbox[a] :
         LET r == i + Told(a)
         IN outbox[a][i] = [kind |-> IF r = 1 THEN "listing_discovered" ELSE "price_changed",
                            row |-> r,
                            previous |-> IF r = 1 THEN None ELSE history[a][r - 1],
                            price |-> history[a][r]]

(* Between edits the stored price of an advert whose details arrive now    *)
(* and then catches up with the one the provider shows, although fetches,  *)
(* details and transactions fail again and again; unless the advert is     *)
(* outside the window, or a malformed offer keeps its source from being    *)
(* fetched at all.                                                         *)
UpToDate(a) == a \in Stored /\ stored[a].price = page[a].price
ShownPriceIsStored ==
  \A a \in Adverts :
    SF_vars(Enrich(a)) =>
      []<>(UpToDate(a) \/ a \notin listed \/ ~Fetchable(SourceOf[a]) \/ page[a] = Malformed)

(* A stored advert its provider keeps listing does not stay inactive, even *)
(* if its details never arrive again.                                      *)
ListedIsActive ==
  \A a \in Adverts : []<>(a \in Stored \cap listed /\ status[a] = "inactive"
                             => ~Fetchable(SourceOf[a]) \/ page[a] = Malformed)
=============================================================================
