\* Every request of up to three names, with any API failing.
CONSTANTS
  Requests <- AllRequests
  NotUTF8 <- BadNames
SPECIFICATION Spec
INVARIANTS TypeOK FetchedOnce OneVdcLabel ReportsEveryName AnsweredUnlessRefused
CHECK_DEADLOCK FALSE
