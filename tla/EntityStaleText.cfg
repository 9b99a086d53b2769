SPECIFICATION Spec
CONSTANTS
  Requests = {q1, q2}
  Workers = {w1, w2}
  Proposals = {}
  Decisions = {"accepted", "rejected"}
  Clients = {"generation", "review"}
  MaxRows = 1
  MaxSource = 1
  None = None
SYMMETRY Symmetry
INVARIANTS
  SourceEditInvalidates
