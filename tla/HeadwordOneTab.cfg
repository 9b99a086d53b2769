SPECIFICATION Spec
CONSTANTS
  Cuts = {c1, c2}
  Workers = {w1}
  Events = {e1, e2}
  Headwords = {h1}
  MaxBatch = 3
  None = None
SYMMETRY Symmetry
INVARIANTS
  ExportFinal
PROPERTIES
  DecisionsStand
