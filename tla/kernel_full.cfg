SPECIFICATION Spec
CONSTANTS
  N_PROCS = 4
  QUANTUM = 1
  TimeMod = 2
  LenMod = 5
  PidMod = 5
  N_STACKS = 4
  Calls = {"exit", "bad", "waitpid", "fork", "exec", "setprio", "kill", "sleep"}
  MaxPid = 5
  WaitTargets = {0}
  KillTargets = {1, 3, 4}
  SleepTimes = {1}
  ExitCodes = {0}
  SetPrios = {2}
  ReadLens = {}
  MaxBurst = 0
  IN_SIZE = 0
INVARIANTS
  TypeOK
  CurrentSet
  PidsUnique
  InitLives
