\* Is the checkpoint flushed when stop() returns?
SPECIFICATION Spec
CONSTANTS
  Callers = {c1}
  Ports = {p1}
  Engines = {e1, e2}
  Budgets = {}
  Tip = 2
  CHECKPOINT_EVERY = 2
  NoCaller = NoCaller
  NoPort = NoPort
  NoEngine = NoEngine
  Panic = Panic
  Free = Free
  Probe = Probe
  Other = Other
PROPERTIES
  StopFlushes
