SPECIFICATION Spec
CONSTANTS
  N_PROCS = 4
  QUANTUM = 1
  TimeMod = 2
  LenMod = 8
  PidMod = 8
  N_STACKS = 4
  Calls = {"exit", "waitpid", "fork", "kill"}
  MaxPid = 5
  WaitTargets = {0}
  KillTargets = {4}
  SleepTimes = {}
  ExitCodes = {0}
  SetPrios = {}
  ReadLens = {}
  MaxBurst = 0
  IN_SIZE = 0
PROPERTY KilledNeverRuns
