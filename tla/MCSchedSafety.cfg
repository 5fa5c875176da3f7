CONSTANTS
  NR_TASKS = 3
  Priority = 2
  Bufs = {b1}
  Clients <- SharedBufs
  MaxPid = 3
  MaxNest = 1
  TickInSchedule = FALSE
  SignalTargets = {1}
  Nil = Nil
  b1 = b1
SPECIFICATION FairSpec
INVARIANTS TypeOK PidsUnique CurrentRuns HoldersExclusive SleepersStayOff
PROPERTIES IdleOnlyWhenNothingRuns NoStarvation
