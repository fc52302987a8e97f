\* Three scrapes of two targets, any exchange may fail; the process may end.
CONSTANTS
  Handlers = {h1, h2, h3}
  Targets = {t1, t2}
  None = None
  NetworkFaults = TRUE
SPECIFICATION Spec
INVARIANTS TypeOK OneClientPerTarget NoStrayToken CleanShutdown
PROPERTIES ProbeKeepsItsToken
SYMMETRY Symmetry
CHECK_DEADLOCK FALSE
