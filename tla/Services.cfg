SPECIFICATION MCSpec
CONSTANTS
  Requests = {r1, r2}
  MaxAttempts = 2
  MaxLookups = 2
  Containers = {c1, c2}
  Filled = {"person"}
  None = None
  MaxCrashes = 1
  MaxDowngrades = 1
  MaxResumes = 2
INVARIANTS
  NeverSilentlyDown
  VersionTellsSchema
  PlanKept
  NeverBlocked
  CompleteIsShown
PROPERTIES
  LookupEnds
  RowsSurvive
  AllServe
CHECK_DEADLOCK FALSE
