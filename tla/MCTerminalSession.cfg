SPECIFICATION FairSpec
CONSTANTS
  Interactive = {"work"}
  Cycle <- MCCycle
  MaxCycles = 2
  MaxLines = 2
INVARIANTS
  TerminalShared
  ScreenTells
  TerminalRestored
PROPERTIES
  RunMovesOn
CHECK_DEADLOCK FALSE
