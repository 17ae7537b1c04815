SPECIFICATION FairSpec
CONSTANTS
  None = None
  Requests = {r1, r2, r3}
  Keys = {"old", "new"}
  Markets = {"m1", "m2"}
  Users = {"ann", "bob"}
  Teams = {"t1", "t2", "t3"}
  Names = {"a", "b"}
  MarketOf <- MCMarketOf
  Present <- FewPresent
  Calls <- FewCalls
PROPERTIES
  EveryCallEnds
