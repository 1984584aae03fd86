SPECIFICATION Spec
CONSTANTS
  N_PROCS = 4
  QUANTUM = 1
  TimeMod = 2
  LenMod = 8
  PidMod = 8
  N_STACKS = 4
  Calls = {"exit", "waitpid", "fork"}
  MaxPid = 6
  WaitTargets = {0}
  KillTargets = {}
  SleepTimes = {}
  ExitCodes = {0}
  SetPrios = {}
  ReadLens = {}
  MaxBurst = 0
  IN_SIZE = 0
INVARIANT WalksEnd
