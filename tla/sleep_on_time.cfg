SPECIFICATION SSpec
CONSTANTS
  N_PROCS = 5
  QUANTUM = 1
  TimeMod = 4
  LenMod = 8
  PidMod = 8
  N_STACKS = 6
  Calls = {"fork", "exec", "sleep", "setprio"}
  MaxPid = 5
  WaitTargets = {0}
  KillTargets = {}
  SleepTimes = {0, 1, 3}
  ExitCodes = {}
  SetPrios = {0, 2}
  ReadLens = {}
  MaxBurst = 0
  IN_SIZE = 0
INVARIANT WakesOnTime
PROPERTY DispatchHighest
