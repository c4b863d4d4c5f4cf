SPECIFICATION FairSpec
CONSTANTS
  CHECK_EVERY = 3
  BYTE = 2
  IdLen = 2
  Difficulties = {1, 3, 4}
  MaxMs = {0, 2}
  ClockTimes = {0, 5}
  MaxBack = 6
INVARIANTS TypeOK MinedBelowTarget OverrunBounded GivesUpLate
PROPERTY MiningEnds
