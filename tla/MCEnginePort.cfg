\* Is the port start() returns again a live one?
SPECIFICATION Spec
CONSTANTS
  Callers = {c1}
  Ports = {p1}
  Engines = {e1, e2}
  Budgets = {}
  Tip = 0
  CHECKPOINT_EVERY = 1
  NoCaller = NoCaller
  NoPort = NoPort
  NoEngine = NoEngine
  Panic = Panic
  Free = Free
  Probe = Probe
  Other = Other
PROPERTIES
  ReusedPortIsLive
