\* Every input of the sets of MCConversions.
CONSTANTS
  LocalZones <- MCLocalZones
  NodeAnswers <- MCNodeAnswers
  Groups <- MCGroups
  Quotas <- MCQuotas
  Billings <- MCBillings
  Responses <- MCResponses
  Results <- MCResults
  Ranges <- MCRanges
SPECIFICATION Spec
INVARIANTS TypeOK NoFalseValue QuotaOnlyWhenSet RowsFaithful OneMetricOfAllRows LiteralDenotesRange WithinFluxLimit
CHECK_DEADLOCK FALSE
