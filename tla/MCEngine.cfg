\* Two threads, two ports, two instances: safety of start, stop and port.
SPECIFICATION Spec
CONSTANTS
  Callers = {c1, c2}
  Ports = {p1, p2}
  Engines = {e1, e2}
  Budgets = {}
  Tip = 2
  CHECKPOINT_EVERY = 2
  NoCaller = NoCaller
  NoPort = NoPort
  NoEngine = NoEngine
  Panic = Panic
  Free = Free
  Probe = Probe
  Other = Other
SYMMETRY Symmetry
INVARIANTS
  TypeOK
  LockInv
  NoOrphan
  SingleEngine
  PortAccounted
  LossBounded
PROPERTIES
  SlotNeverOverwritten
  CheckpointForward
