SPECIFICATION FairSpec
CONSTANTS
  None = None
  Requests = {r1, r2}
  Sockets = {k1}
  Competitions = {"c1"}
  Users = {"ann", "bob"}
  Markets = {"m1", "m2", "m3"}
  Selections = {"s1", "s2"}
  Keys = {}
  Stakes = {}
  CompetitionOf <- MCCompetitionOf
  MarketOf <- MCMarketOf
  Return <- MCReturn
  StartingChips <- OneChip
  Host <- MCHost
  StartMembers <- HostsOnly
  StartStatus <- ClosedAbsentOpen
INVARIANTS
  TypeOK
  EventsAreTrue
  OnlyMembersHear
PROPERTIES
  CommitsAreFollowedUp
  CommittedCallsSucceed
  RoomsHear
