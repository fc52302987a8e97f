\* Up to three nodes, two of which may share an address.
CONSTANTS
  Addresses = {a1, a2, a3}
  MaxNodes = 3
SPECIFICATION Spec
INVARIANTS TypeOK ResultsInOrder FailedNodeIsolated
PROPERTIES ImplementsFanOut
CHECK_DEADLOCK FALSE
