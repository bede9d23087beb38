SPECIFICATION Spec
CONSTANTS
  Pages <- MCPages
  Tree <- MCTree
  MaxCalls = 3
CHECK_DEADLOCK FALSE
INVARIANTS
  OrdinalsMatchTheLocator
