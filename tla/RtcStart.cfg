SPECIFICATION Spec
CONSTANTS
  Slots = {s1, s2}
  MaxTaps = 1
  MaxFaults = 0
INVARIANTS PlacedCallStarts
CHECK_DEADLOCK FALSE
