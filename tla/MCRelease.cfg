\* Two runs of one version or two, with three attempts between them, and one push to main.
CONSTANTS
  Runs = {r1, r2}
  Versions = {v1, v2}
  None = None
  MaxAttempts = 3
  MaxSrc = 1
SPECIFICATION Spec
SYMMETRY RunSymmetry
CHECK_DEADLOCK FALSE
INVARIANTS TypeOK TagOnMain PinIsWhole BinariesWereGated AloneResolves PublishedTogether
