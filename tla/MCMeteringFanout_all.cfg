\* Three namespaces, one or two at a time.
CONSTANTS
  Namespaces = {n1, n2, n3}
  Concurrencies <- ZeroOrTwo
  Nobody = Nobody
SPECIFICATION FairSpec
INVARIANTS TypeOK BoundedFanout NothingLost
PROPERTIES ImplementsFanOut CollectorEnds
CHECK_DEADLOCK FALSE
