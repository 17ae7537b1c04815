SPECIFICATION FairSpec
CONSTANTS
  None = None
  Requests = {r1, r2, r3}
  Codes = {"code1", "code2"}
  Existing = {c0}
  StartCode <- MCStartCode
  Names = {"red", "Red", "blue"}
  Normal <- MCNormal
  MaxTeams = 2
  MaxAttempts = 2
  Calls <- SetupCalls
INVARIANTS
  TypeOK
  TeamLimit
PROPERTIES
  ImplementsSheet
  RefusalsJustified
  EveryCallEnds
