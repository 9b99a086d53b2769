SPECIFICATION Spec
CONSTANTS
  Workers = {w1}
  MaxText = 1
  MaxOut = 3
  MaxShared = 0
  None = None
SYMMETRY Symmetry
INVARIANTS
  AcceptedIsValid
