SPECIFICATION CallsSpec
CONSTANTS
  Ids = {"a", "b", "c"}
  StreamLines <- MCStreamLines
  StreamPhases = {"reflect"}
  PipeCapacity = 1
  StderrCap = 2
  MaxStdout = 3
  MaxStderr = 3
  PtyCapacity = 1
  MaxChunks = 3
  MaxKeys = 2
  ReportLength = 4
INVARIANTS
  Correct
  AgentsAreHeard
  SessionLeavesNothing
PROPERTIES
  EveryCallEnds
CHECK_DEADLOCK FALSE
