SPECIFICATION Spec
CONSTANTS
  Steps = {1, 2}
  EventTypes = {"GATE_DECISION", "ACTION_COMPLETED"}
  MaxSeq = 4
INVARIANTS TypeOK Chronology TerminalIsLast DispatchCountPersisted
PROPERTY FailureIsFinal
