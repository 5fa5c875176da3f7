CONSTANTS
  NR_BUFFERS = 2
  Clients = {c1, c2, c3}
  Blocks = {1, 2, 3}
  HashFn <- MCHashFn
  Vals = {0, 1}
  Contents <- MCContents
  Failures = {"READ"}
  Preemptible = FALSE
  MaxCalls = 4
  Nil = Nil
SPECIFICATION Spec
SYMMETRY Symmetry
CHECK_DEADLOCK FALSE
INVARIANTS TypeOK CountsAreUsers BufferKeepsBlock OneBufferPerBlock QueuesIntact
PROPERTIES LockedKeepsBlock ImplementsBlockStore
