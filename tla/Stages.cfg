SPECIFICATION Spec
CONSTANTS
  Workers = {w1, w2}
  MaxText = 2
  MaxOut = 3
  MaxShared = 2
  None = None
SYMMETRY Symmetry
INVARIANTS
  UsesSource
  ReviewedInputs
  AcceptedWasReviewed
  ClausesFitRow
  AttemptsPrecedeRows
