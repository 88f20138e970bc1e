SPECIFICATION FairSpec
CONSTANTS
  Adverts <- MCAdverts
  Order <- MCOrder
  SourceOf <- MCSourceOf
  Rss = {"ss"}
  Offers <- MCOffers
  MaxChanges = 2
  MaxCrashes = 1
INVARIANTS PriceLog EventsTellHistory
PROPERTIES ShownPriceIsStored ListedIsActive
