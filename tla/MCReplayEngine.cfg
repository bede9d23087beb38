SPECIFICATION FairSpec
CONSTANTS
  Pages <- MCPages
  Plan <- MCPlan
  Site <- MCSite
  Routed <- MCRouted
  Policy <- MCPolicy
  Moves <- MCMoves
  Leads <- MCLeads
  HasHandler = TRUE
  Ticks = 1
INVARIANTS
  TypeOK
  IrreversibleNeverAutomated
  WriteAhead
  DispatchedIsTrue
  AssertionHolds
  SuccessIsProven
  HumanAskedOnRecord
  HumanActNotForgotten
  StuckOwnerBlocks
  ControlOnRecord
PROPERTIES
  ExclusiveOwnership
  IrreversibleOnlyUnseen
  RestoreOnlyVerified
  FulfilsContract
  RunsEnd
