SPECIFICATION Spec
CONSTANTS
  Processes = {"p1", "p2"}
  Artifacts = {"a1", "a2", "a3"}
  Longer   <- MCLonger
INVARIANTS
  FirstSaveWins
  ReportIsTheArtifacts
