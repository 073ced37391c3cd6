CONSTANTS
  NPROC = 3
  NCPU = 2
  MaxPid = 3
  MaxTicks = 1
  SleepTicks = 1
  KillPids <- MCKillPids
SPECIFICATION ProcSpec
INVARIANTS
  StackOnOneCpu
  SchedPreconditions
  NoLostWakeup
  ZombiesHaveReaper
