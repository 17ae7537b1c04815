SPECIFICATION Spec
CONSTANTS
  None = None
  Requests = {r1, r2, r3, r4}
  Competitions = {"c1", "c2"}
  Users = {"ann", "bob"}
  Markets = {"m1", "m2", "m3"}
  Selections = {"s1", "s2", "s3", "s4"}
  Keys = {"k1", "k2"}
  Stakes = {2, 3}
  CompetitionOf <- MCCompetitionOf
  MarketOf <- MCMarketOf
  Return <- MCReturn
  StartingChips <- ThreeChips
  Host <- MCHost
  StartMembers <- HostsOnly
  StartStatus <- AllOpen
  Calls <- CrossCalls
SYMMETRY Symmetric
INVARIANTS
  StakesBelong
  OneStartingCredit
  LockDiscipline
  AnswersHold
PROPERTIES
  ImplementsWagering
