SPECIFICATION Spec
CONSTANTS
  a = a
  b = b
  c = c
  Jobs = {a, b, c}
  None = none
  HighWorkers = {h}
  LowWorkers = {l}
  Main = main
  Before <- MCBefore
  Programs <- MCPrograms
  GlobalCap = 1
  LocalCap = 1
  MaxPermits = 1
INVARIANTS TypeOK InOnePlace NoLostWakeup
PROPERTIES WaitReturns QueuedJobsRun
CHECK_DEADLOCK FALSE
