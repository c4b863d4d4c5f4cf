\* Two threads, one port: every call returns though serve may hang in any phase,
\* the calls refine EngineApi (the mapping chooses a thread: no symmetry), and
\* the resident-wallet cap fits a budget that changes while engines start.
SPECIFICATION FairSpec
CONSTANTS
  Callers = {c1, c2}
  Ports = {p1}
  Engines = {e1, e2}
  Budgets = {200}
  Tip = 0
  CHECKPOINT_EVERY = 1
  NoCaller = NoCaller
  NoPort = NoPort
  NoEngine = NoEngine
  Panic = Panic
  Free = Free
  Probe = Probe
  Other = Other
INVARIANTS
  CapWithinBudget
PROPERTIES
  ApiRefined
  EveryCallReturns
