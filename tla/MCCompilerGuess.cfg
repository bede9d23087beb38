SPECIFICATION Spec
CONSTANTS
  Names        <- MCNames
  Short        = {"7"}
  Unfit        = {"a/b"}
  Versions     <- MCVersions
  Denotes      <- MCDenotes
  Calls        <- MCCalls
  OtherInputs  <- MCOtherInputs
CHECK_DEADLOCK FALSE
INVARIANTS
  NothingGuessed
