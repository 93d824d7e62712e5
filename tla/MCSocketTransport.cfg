CONSTANTS
  Exchange = {x1, x2, x3}
  MaxQueue = 2
  MaxRetries = 1
SPECIFICATION FairSpec
INVARIANTS TypeOK OneSlotEach OldestFirst OwnAnswer OfflineHoldsNothing NoMissedNotice
PROPERTIES ExchangeEnds
