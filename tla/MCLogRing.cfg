\* A ring of two lines, overwritten by two threads of three lines each.
SPECIFICATION Spec
CONSTANTS
  Threads = {t1, t2}
  LOG_RING_CAP = 2
  MaxLines = 3
INVARIANTS
  RingTypeOK
  RingIsRecent
  OneInstaller
