SPECIFICATION Spec
CONSTANTS
  N = 2
  Modulus = 8
  Start = 6
  Thieves = {t1, t2}
  MaxBatch = 2
  MaxPush = 4
  JobNull = JobNull
INVARIANTS TypeOK ExactlyOnce
PROPERTIES ImplementsDeque EveryJobServed
CHECK_DEADLOCK FALSE
