SPECIFICATION Spec
CONSTANTS
  Requests = {q1, q2}
  Workers = {w1}
  Proposals = {p1}
  Decisions = {"accepted"}
  Clients = {"review", "workbench"}
  MaxRows = 2
  MaxSource = 0
  None = None
SYMMETRY Symmetry
INVARIANTS
  ReviewCoversRows
PROPERTIES
  AcceptedRawImmutable
