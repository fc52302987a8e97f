\* A signal while a client is cached.
CONSTANTS
  Handlers = {h1, h2}
  Targets = {t1, t2}
  None = None
  NetworkFaults = FALSE
SPECIFICATION Spec
INVARIANTS LogsOutOnSignal
SYMMETRY Symmetry
CHECK_DEADLOCK FALSE
