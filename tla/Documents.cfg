SPECIFICATION MCSpec
CONSTANTS
  Names <- MCNames
  Stages <- MCStages
  Requires <- MCRequires
  One = {w1}
  Two = {w1, w2}
  Items = {i1, i2}
  ActionIds = {a1, a2}
  OneItem = {i1}
  Events = {e1}
  Headwords = {h1}
  Proposals = {p1}
  Tokens = {t1}
  Users = {u1}
  Keys = {k1}
  None = None
  MaxText = 2
  MaxAnswers = 2
  MaxPages = 3
  MaxAttempts = 1
  MaxRows = 1
  Marks = {"accepted_existing_headword", "approved"}
  Followed = {"entity_registry", "clause_parser", "eventcut_extraction"}
  Sizes = {1, 2}
  MaxRestarts = 1
  MaxPassed = 2
INVARIANTS
  ReturnsSmallest
  AppliedIsSound
  StoredItemsSound
  AuditCoversRuns
  CreatesStand
  AuditTellsCalls
  CallsWarranted
PROPERTIES
  Answers
  GeneratedKept
  StoreRefined
  RevokedForGood
CHECK_DEADLOCK FALSE
