\* collectors=cluster,other,other
CONSTANTS
  Requests <- UnknownTwice
  NotUTF8 <- BadNames
SPECIFICATION Spec
INVARIANTS UnknownFailsNothingElse
CHECK_DEADLOCK FALSE
