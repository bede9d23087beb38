SPECIFICATION Spec
CONSTANTS
  Origins = {"bank"}
  Routes <- MCRoutes
  Patterns <- MCPatterns
  Targets <- MCTargets
  Actions = {"READ", "CLICK"}
  MaxRules = 2
INVARIANTS NoSilentIrreversible
PROPERTIES OrderIsIrrelevant DenialsAreHard DeclarationOnlyRaises MatchedRulesOnlyRaise
