------------------------------ MODULE Console ------------------------------
(***************************************************************************)
(* The text console of kernel/chr_drv/console.c: what conWrite does with   *)
(* one character, the arithmetic that keeps the column x, the row y and    *)
(* the address pos together, scrolling by moving the start of the display, *)
(* and the display controller it programs.  scrollDown has no caller.      *)
(***************************************************************************)
EXTENDS Integers

CONSTANTS VIDEO_NUM_COLUMNS,
          VIDEO_NUM_LINES,  \* bottom
          VIDEO_MEM_START,
          VIDEO_MEM_END,
          FirstRow,         \* y after initConsole
          Printable,        \* codes 32 to 126
          Controls,         \* the control characters that are written
          Blank             \* attr | 0x20

ASSUME ConsoleAssumption ==
  /\ VIDEO_NUM_COLUMNS \in Nat \ {0} /\ VIDEO_NUM_COLUMNS % 8 = 0
  /\ VIDEO_NUM_LINES \in Nat \ {0}
  /\ VIDEO_MEM_START \in Nat /\ VIDEO_MEM_END \in Nat
  /\ FirstRow \in 0 .. VIDEO_NUM_LINES - 1
  /\ Blank \notin Printable

VIDEO_SIZE_ROW == 2 * VIDEO_NUM_COLUMNS

VARIABLES x, y,     \* column and row of the cursor
          pos,      \* address of the cursor
          origin,   \* address of the first character shown
          scr_end,  \* address behind the last one
          vram,     \* the 16-bit cells written so far, by address
          crt       \* the controller: cell of the start and of the cursor

vars == <<x, y, pos, origin, scr_end, vram, crt>>

\* setOrigin and setCursor write two byte registers: 16 bits of a cell number.
CrtCells == 65536
Cell(addr) == ((addr - VIDEO_MEM_START) \div 2) % CrtCells

Init ==
  /\ x = 0 /\ y = FirstRow
  /\ pos = VIDEO_MEM_START + FirstRow * VIDEO_SIZE_ROW
  /\ origin = VIDEO_MEM_START
  /\ scr_end = VIDEO_MEM_START + VIDEO_NUM_LINES * VIDEO_SIZE_ROW
  /\ vram = [a \in {} |-> Blank]
  /\ crt = [start |-> Cell(origin), cursor |-> Cell(pos)]

---------------------------------------------------------------------------

\* lf goes to the next row, or scrollUp moves the display by one, unless the
\* display memory is used up.
AtBottom == y + 1 >= VIDEO_NUM_LINES
CanScroll == scr_end < VIDEO_MEM_END
Moves == ~AtBottom \/ CanScroll

\* Mutant: the row goes on when the display memory is used up.
lfGoesOn(p, c, n) ==
  /\ x' = c + n
  /\ y' = y + 1
  /\ pos' = p + VIDEO_SIZE_ROW + 2 * n
  /\ IF AtBottom /\ CanScroll
       THEN /\ origin' = origin + VIDEO_SIZE_ROW
            /\ scr_end' = scr_end + VIDEO_SIZE_ROW
            /\ crt' = [start |-> Cell(origin'), cursor |-> Cell(p + VIDEO_SIZE_ROW)]
       ELSE UNCHANGED <<origin, scr_end, crt>>

\* lf and scrollUp with the cursor at p in column c, and n cells further on.
lf(p, c, n) ==
  /\ x' = c + n
  /\ y' = IF Moves THEN y + 1 ELSE y
  /\ pos' = (IF Moves THEN p + VIDEO_SIZE_ROW ELSE p) + 2 * n
  /\ IF AtBottom /\ CanScroll
       THEN /\ origin' = origin + VIDEO_SIZE_ROW
            /\ scr_end' = scr_end + VIDEO_SIZE_ROW
            /\ crt' = [start |-> Cell(origin'), cursor |-> Cell(p + VIDEO_SIZE_ROW)]
       ELSE UNCHANGED <<origin, scr_end, crt>>

\* The cursor moves within its row.
MoveTo(p, c) == x' = c /\ pos' = p /\ UNCHANGED <<y, origin, scr_end, crt>>

\* A cell of the display memory is written.
Show(addr, ch) ==
  vram' = [a \in DOMAIN vram \cup {addr} |-> IF a = addr THEN ch ELSE vram[a]]

\* A printable character; from a full row it goes to the next one.
Put(ch) ==
  IF x < VIDEO_NUM_COLUMNS
    THEN MoveTo(pos + 2, x + 1) /\ Show(pos, ch)
    ELSE /\ lf(pos - VIDEO_SIZE_ROW, x - VIDEO_NUM_COLUMNS, 1)
         /\ Show(pos' - 2, ch)

LineFeed == lf(pos, x, 0) /\ UNCHANGED vram

cr == MoveTo(pos - 2 * x, 0) /\ UNCHANGED vram

\* Mutant: the place under the cursor is blanked, not the one before it.
delHere ==
  IF x = 0 THEN UNCHANGED vars
  ELSE MoveTo(pos - 2, x - 1) /\ Show(pos, Blank)

del ==
  IF x = 0 THEN UNCHANGED vars
  ELSE MoveTo(pos - 2, x - 1) /\ Show(pos - 2, Blank)

\* Mutant: the first column is not respected.
BackspaceUnchecked == MoveTo(pos - 2, x - 1) /\ UNCHANGED vram

Backspace ==
  IF x = 0 THEN UNCHANGED vars ELSE MoveTo(pos - 2, x - 1) /\ UNCHANGED vram

\* Mutant: pos is not taken back when the tab leaves the row.
TabForgetsPos ==
  LET n == 8 - (x % 8)
  IN  /\ IF x + n > VIDEO_NUM_COLUMNS
           THEN lf(pos + 2 * n, x + n - VIDEO_NUM_COLUMNS, 0)
           ELSE MoveTo(pos + 2 * n, x + n)
      /\ UNCHANGED vram

Tab ==
  LET n == 8 - (x % 8)
  IN  /\ IF x + n > VIDEO_NUM_COLUMNS
           THEN lf(pos + 2 * n - VIDEO_SIZE_ROW, x + n - VIDEO_NUM_COLUMNS, 0)
           ELSE MoveTo(pos + 2 * n, x + n)
      /\ UNCHANGED vram

\* One round of the loop of conWrite; ESC and all other codes are ignored.
Emit(ch) ==
  \/ ch \in Printable /\ Put(ch)
  \/ ch \in {"LF", "VT", "FF"} /\ LineFeed
  \/ ch = "CR" /\ cr
  \/ ch = "DEL" /\ del
  \/ ch = "BS" /\ Backspace
  \/ ch = "HT" /\ Tab
  \/ ch \in {"ESC", "NUL"} /\ UNCHANGED vars

\* setCursor, at the end of conWrite.
setCursor ==
  /\ crt' = [crt EXCEPT !.cursor = Cell(pos)]
  /\ UNCHANGED <<x, y, pos, origin, scr_end, vram>>

Next == (\E ch \in Printable \cup Controls : Emit(ch)) \/ setCursor

Spec == Init /\ [][Next]_vars

---------------------------------------------------------------------------
(* Properties.                                                             *)

\* The types; the column may stand behind the last one of its row.
TypeOK ==
  /\ x \in 0 .. VIDEO_NUM_COLUMNS /\ y \in Nat
  /\ pos \in Nat /\ origin \in Nat /\ scr_end \in Nat
  /\ DOMAIN vram \subseteq Nat
  /\ vram \in [DOMAIN vram -> Printable \cup {Blank}]
  /\ crt \in [start : 0 .. CrtCells - 1, cursor : 0 .. CrtCells - 1]

\* pos, which every branch of conWrite updates on its own, is the address of
\* column x of row y.
PosMatchesCursor == pos = VIDEO_MEM_START + y * VIDEO_SIZE_ROW + 2 * x

\* The cursor's row is one of the rows shown, the controller shows what origin
\* says, and the screen keeps its size.
CursorRowShown ==
  /\ origin <= VIDEO_MEM_START + y * VIDEO_SIZE_ROW
  /\ VIDEO_MEM_START + y * VIDEO_SIZE_ROW < scr_end
  /\ scr_end = origin + VIDEO_NUM_LINES * VIDEO_SIZE_ROW
  /\ crt.start = Cell(origin)

\* A place where conWrite can write lies in the display memory.
CursorInVideoMemory == x < VIDEO_NUM_COLUMNS => pos < VIDEO_MEM_END

\* How many rows the display can move down.
MaxTop ==
  LET rest == VIDEO_MEM_END - VIDEO_MEM_START - VIDEO_NUM_LINES * VIDEO_SIZE_ROW
  IN  IF rest > 0 THEN (rest + VIDEO_SIZE_ROW - 1) \div VIDEO_SIZE_ROW ELSE 0

\* What is shown at an address; the memory starts empty.
CellText(a) == IF a \in DOMAIN vram THEN vram[a] ELSE Blank

Page == INSTANCE Terminal
          WITH COLUMNS <- VIDEO_NUM_COLUMNS, LINES <- VIDEO_NUM_LINES,
               row <- y, col <- x,
               top <- (origin - VIDEO_MEM_START) \div VIDEO_SIZE_ROW,
               text <- [r \in 0 .. MaxTop + VIDEO_NUM_LINES - 1 |->
                          [c \in 0 .. VIDEO_NUM_COLUMNS - 1 |->
                             CellText(VIDEO_MEM_START + r * VIDEO_SIZE_ROW + 2 * c)]]

\* The address arithmetic adds up to a page of text behind a window.
ImplementsTerminal == Page!Spec
=============================================================================
