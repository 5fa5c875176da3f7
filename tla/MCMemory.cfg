CONSTANTS
  Procs = {0, 1, 2, 3}
  PAGES_SIZE = 11
  KERNEL_MEM = 2
  MainStart = 3
  MemPages = 11
  NrVPages = 2
  Vals = {0, 1}
  Image <- MCImage
  Preemptible = FALSE
  Nil = Nil
SPECIFICATION Spec
CHECK_DEADLOCK FALSE
INVARIANTS TypeOK CountsAreUses WritableIsPrivate KernelNotWritable
PROPERTIES FaultsKeepMemory ImplementsCow
