CONSTANTS
  Moments <- MCMoments
  MaxSeconds = 1
  Half = 128
  Flags <- MCFlags
  Widths <- MCWidths
  Numbers <- MCNumbers
  Strings <- MCStrings
  Letters = {"h", "i"}
  NULL = NULL
  Junk = Junk
  BPB_BytsPerSec = 4
  SectorEntries = 2
  RootSectors = 2
  SegmentSectors = 2
  BASE = 5
  Clusters = {2, 3, 4, 5, 6}
  MaxFile = 5
  VIDEO_NUM_COLUMNS = 8
  VIDEO_NUM_LINES = 2
  VIDEO_MEM_START = 100
  VIDEO_MEM_END = 140
  FirstRow = 0
  Printable = {"a"}
  Controls = {"LF", "VT", "FF", "CR", "DEL", "BS", "HT", "ESC", "NUL"}
  Blank = " "
SPECIFICATION MCSpec
CONSTRAINT FewCharacters
CHECK_DEADLOCK FALSE
INVARIANTS  PrintsAsC FileLoaded TypeOK PosMatchesCursor CursorRowShown
PROPERTIES ImplementsTerminal
