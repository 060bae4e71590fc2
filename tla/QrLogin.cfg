SPECIFICATION Spec
CONSTANTS
  Tickets = {t1, t2}
  Followed = {t1}
  Admins = {a}
  Names = {n1, n2}
  Slots = {s1, s2}
  MaxFaults = 1
  Nobody = Nobody
INVARIANTS TypeOK SessionCoherent TokenNotLost PageAlive
SYMMETRY Alike
CHECK_DEADLOCK FALSE
