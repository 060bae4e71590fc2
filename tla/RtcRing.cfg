SPECIFICATION Spec
CONSTANTS
  Slots = {s1, s2}
  MaxTaps = 1
  MaxFaults = 1
INVARIANTS TypeOK RingWatched TalkingTogether
PROPERTIES WaitingEnds
CHECK_DEADLOCK FALSE
