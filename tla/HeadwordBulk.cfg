SPECIFICATION Spec
CONSTANTS
  Cuts = {c1}
  Workers = {w1, w2}
  Events = {e1}
  Headwords = {h1}
  MaxBatch = 2
  None = None
SYMMETRY Symmetry
PROPERTIES
  EditsPreserved
