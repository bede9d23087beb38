SPECIFICATION Spec
CONSTANTS
  Pages <- MCPages
  Start = "typed"
  Site <- MCSite
  Answers <- MCAnswers
  Origin = "bank"
  Policy <- MCPolicy
  Leads <- MCLeads
  Moves <- MCMoves
  MaxSteps = 3
  NoProgressLimit = 2
  Inputs <- MCInputs
  Placeholders <- MCPlaceholders
  UnfitSegments = {}
  UnsafeLiterals <- MCUnsafe
  Decimals <- MCDecimals
  Outputs <- MCOutputs
  Member = "{member}"
  Balance = "balance"
  EntryRoutes <- MCEntryRoutes
CHECK_DEADLOCK FALSE
INVARIANT SavingsAreTheMembers
