SPECIFICATION Spec
CONSTANTS
  None = None
  Requests = {r1}
  Readers = {q1}
  Competitions = {"c1"}
  Users = {"ann", "bob"}
  Markets = {"m1", "m2"}
  Selections = {"s1", "s2", "s3"}
  Keys = {"k1"}
  Stakes = {1}
  CompetitionOf <- MCCompetitionOf
  MarketOf <- MCMarketOf
  Return <- MCReturn
  StartingChips <- ThreeChips
  Host <- MCHost
  StartMembers <- HostsOnly
  StartStatus <- M2Absent
INVARIANTS
  StandingsAreOfOneMoment
  AvailableWithinSettled
