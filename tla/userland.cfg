SPECIFICATION USpec
CONSTANTS
  N_PROCS = 7
  LINE = 6
  Pids <- MCPids
  Garbage <- MCGarbage
  Jobs <- MCJobs
INVARIANTS
  ChildrenKnown
  TableTrue
PROPERTIES
  LineRuns
  ZombiesCollected
  ShellReturns
