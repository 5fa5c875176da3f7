CONSTANTS
  NR_REQUEST = 3
  Bufs = {0, 1, 2}
  BlockOf <- MCBlockOf
  Clients = {c1, c2}
  Commands = {0, 1, 3}
  Preemptible = FALSE
  MAX_ERRORS = 3
  CntSectors = 5
  Handlers = {"NULL", "DEVICE_INTR"}
  MaxCalls = 4
  Nil = Nil
SPECIFICATION Spec
CHECK_DEADLOCK FALSE
INVARIANTS DriveServesCurrent OnlyReadsServed UptodateIsWhole LockedHasOwner QueueSweepsOnce
PROPERTIES RetriesRecalibrate
