\* Four of the queries, each giving up to three rows or failing.
CONSTANTS
  Queries <- MCQueries
  Answers <- MCAnswers
  Nobody = Nobody
SPECIFICATION Spec
INVARIANTS TypeOK FailureIsolated FailsWithNothing CollisionNeedsRepeatedRow
PROPERTIES ImplementsFanOut
CHECK_DEADLOCK FALSE
