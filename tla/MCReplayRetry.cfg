SPECIFICATION Spec
CONSTANTS
  Pages <- MCPages
  Plan <- MCPlan
  Site <- MCSite
  Routed <- MCRouted
  Policy <- MCPolicy
  Moves <- MCMoves
  Leads <- MCLeads
  HasHandler = TRUE
  Ticks = 1
INVARIANT PostHumanEvidenceErrorNotRetried
