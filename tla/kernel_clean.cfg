SPECIFICATION HSpec
CONSTANTS
  N_PROCS = 5
  QUANTUM = 1
  TimeMod = 2
  LenMod = 8
  PidMod = 8
  N_STACKS = 5
  Calls = {"exit", "waitpid", "fork", "read", "kill", "sleep"}
  MaxPid = 5
  WaitTargets = {0, 4}
  KillTargets = {2, 3, 4}
  SleepTimes = {1}
  ExitCodes = {1}
  SetPrios = {}
  ReadLens = {1}
  MaxBurst = 1
  IN_SIZE = 1
INVARIANTS
  QueuesSoundUntilStale
  PlacedOnceUntilStale
  ParentAliveUntilStale
  StacksConservedUntilStale
  KernelRunsUntilStale
CONSTRAINT NotStale
