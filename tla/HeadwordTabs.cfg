SPECIFICATION Spec
CONSTANTS
  Cuts = {c1}
  Workers = {w1, w2}
  Events = {e1}
  Headwords = {h1}
  MaxBatch = 3
  None = None
SYMMETRY Symmetry
INVARIANTS
  TypeOK
  ItemsWarranted
  StoreFitsCuts
  OccurrenceFinal
