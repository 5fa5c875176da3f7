CONSTANTS
  VIDEO_NUM_COLUMNS = 8
  VIDEO_NUM_LINES = 2
  VIDEO_MEM_START = 100
  VIDEO_MEM_END = 140
  FirstRow = 0
  Printable = {"a"}
  Controls = {"LF", "HT"}
  Blank = " "
  TTY_BUF_SIZE = 4
  Writers = {1, 2}
  MaxLength = 3
  Messages <- MCMessages
  Line = "console"
  Preemptible = FALSE
  MaxCalls = 2
SPECIFICATION TtyFairSpec
CHECK_DEADLOCK FALSE
INVARIANTS ShownInOrder
PROPERTIES WritesReturn
