SPECIFICATION FairSpec
CONSTANTS
  N_PROCS = 5
  QUANTUM = 2
  TimeMod = 3
  LenMod = 8
  PidMod = 8
  N_STACKS = 6
  Calls = {"fork", "sleep", "read", "exec"}
  MaxPid = 5
  WaitTargets = {}
  KillTargets = {}
  SleepTimes = {0, 1}
  ExitCodes = {}
  SetPrios = {}
  ReadLens = {1}
  MaxBurst = 1
  IN_SIZE = 1
PROPERTIES
  SleepersWake
  ReadyRuns
