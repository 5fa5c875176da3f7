CONSTANTS
  NR_TASKS = 3
  Priority = 1
  Bufs = {b1}
  Clients <- SharedBufs
  MaxPid = 2
  MaxNest = 1
  TickInSchedule = FALSE
  SignalTargets = {}
  Nil = Nil
  b1 = b1
SPECIFICATION Spec
INVARIANTS EverySleeperIsQueued
CHECK_DEADLOCK FALSE
