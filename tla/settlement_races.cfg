SPECIFICATION Spec
CONSTANTS
  None = None
  Requests = {r1, r2, r3, r4}
  Competitions = {"c1"}
  Users = {"ann", "bob"}
  Markets = {"m1", "m2"}
  Selections = {"s1", "s2", "s3"}
  Keys = {"k1", "k2"}
  Stakes = {2, 3}
  CompetitionOf <- MCCompetitionOf
  MarketOf <- MCMarketOf
  Return <- MCReturn
  StartingChips <- ThreeChips
  Host <- MCHost
  StartMembers <- Everyone
  StartStatus <- AllOpen
  Calls <- SettlementCalls
SYMMETRY Symmetric
INVARIANTS
  SettlementComplete
  LedgerMatchesBets
  NoLateConflict
PROPERTIES
  SettledIsFinal
  ImplementsWagering
