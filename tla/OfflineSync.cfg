SPECIFICATION Spec
CONSTANTS
  Records = {r1, r2}
  Ahead = 4
  MaxEdits = 2
SYMMETRY Symmetry
INVARIANTS TypeOK NoChangeMissed
