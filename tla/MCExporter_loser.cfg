\* Two first scrapes of a target race, and the scraper of one hangs up.
CONSTANTS
  Handlers = {h1, h2}
  Targets = {t1, t2}
  None = None
  NetworkFaults = FALSE
SPECIFICATION Spec
INVARIANTS LoserGivesTokenBack
SYMMETRY Symmetry
CHECK_DEADLOCK FALSE
