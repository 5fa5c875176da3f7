---------------------------- MODULE ConsoleProofs ----------------------------
(***************************************************************************)
(* The cursor arithmetic of conWrite, for every size of the display and    *)
(* its memory; and ttyWrite with its queue in front of it, for every size  *)
(* of the queue and any messages, longer than the queue or not.            *)
(***************************************************************************)
EXTENDS Tty, SequenceTheorems, WellFoundedInduction, TLAPS

\* The display starts a whole number t of rows into the memory, not further
\* than the memory allows, and the row of the cursor is one of the
\* VIDEO_NUM_LINES rows from there, the last one once the display has moved.
Window(t) ==
  /\ t <= MaxTop /\ (t > 0 => y = t + VIDEO_NUM_LINES - 1)
  /\ origin = VIDEO_MEM_START + t * VIDEO_SIZE_ROW
  /\ scr_end = origin + VIDEO_NUM_LINES * VIDEO_SIZE_ROW
  /\ t <= y /\ y < t + VIDEO_NUM_LINES
  /\ crt.start = Cell(origin)

Cursor ==
  /\ x \in 0 .. VIDEO_NUM_COLUMNS /\ y \in Nat
  /\ PosMatchesCursor

Memory ==
  /\ DOMAIN vram \subseteq Nat
  /\ vram \in [DOMAIN vram -> Printable \cup {Blank}]

Registers == [start : 0 .. CrtCells - 1, cursor : 0 .. CrtCells - 1]
Controller == crt \in Registers

Inv == Cursor /\ (\E t \in Nat : Window(t)) /\ Memory /\ Controller

\* A row has a positive number of cells, a multiple of eight.
LEMMA Sizes ==
  /\ VIDEO_NUM_COLUMNS \in Nat /\ VIDEO_NUM_COLUMNS >= 8
  /\ VIDEO_NUM_LINES \in Nat /\ VIDEO_NUM_LINES >= 1
  /\ VIDEO_SIZE_ROW \in Nat /\ VIDEO_SIZE_ROW = 2 * VIDEO_NUM_COLUMNS
  /\ VIDEO_MEM_START \in Nat /\ VIDEO_MEM_END \in Nat
  BY ConsoleAssumption DEF VIDEO_SIZE_ROW

\* One row further is VIDEO_SIZE_ROW bytes further.
LEMMA NextRow ==
  ASSUME NEW a \in Int, NEW r \in Int
  PROVE  /\ a * r \in Int
         /\ (a + 1) * r = a * r + r
  OBVIOUS

\* Rows are counted in whole numbers of bytes, and counts of rows add up.
LEMMA RowSums ==
  ASSUME NEW a \in Nat, NEW b \in Nat, NEW r \in Nat
  PROVE  a * r \in Nat /\ (a + b) * r = a * r + b * r
  OBVIOUS

\* Rows do not change their order in memory.
LEMMA RowOrder ==
  ASSUME NEW a \in Nat, NEW b \in Nat, a <= b, NEW r \in Nat
  PROVE  a * r <= b * r
<1> DEFINE d == b - a
<1>1. d \in Nat /\ b = a + d
  OBVIOUS
<1>2. d * r \in Nat
  BY <1>1
<1>3. b * r = a * r + d * r
  BY <1>1
<1> QED
  BY <1>2, <1>3

\* A whole number of rows and the rest of one have one quotient.
LEMMA Quotient ==
  ASSUME NEW n \in Int, NEW r \in Nat, r > 0, NEW q \in Int, q * r <= n, n < q * r + r
  PROVE  n \div r = q
<1> DEFINE k == n \div r
           d == q - k
<1>1. k \in Int /\ k * r <= n /\ n < k * r + r
  OBVIOUS
<1>2. d \in Int /\ q = k + d
  BY <1>1
<1>3. d * r \in Int /\ q * r = k * r + d * r
  BY <1>1, <1>2
<1>4. -r < d * r /\ d * r < r
  BY <1>1, <1>3
<1>5. d < 1
  <2>1. d >= 1 => d * r >= r
    BY <1>2
  <2> QED
    BY <1>2, <1>4, <2>1
<1>6. d > -1
  <2>1. d <= -1 => d * r <= -r
    BY <1>2
  <2> QED
    BY <1>2, <1>4, <2>1
<1> QED
  BY <1>1, <1>2, <1>5, <1>6

\* The quotient rounded up is how many rows fit before n is reached.
LEMMA RoundedUp ==
  ASSUME NEW n \in Int, NEW r \in Nat, r > 0, NEW t \in Int
  PROVE  (n + r - 1) \div r \in Int /\ (t < (n + r - 1) \div r <=> t * r < n)
<1> DEFINE k == (n + r - 1) \div r
           d == k - t
<1>1. k \in Int /\ k * r <= n + r - 1 /\ n + r - 1 < k * r + r
  OBVIOUS
<1>2. d \in Int /\ k = t + d
  BY <1>1
<1>3. d * r \in Int /\ t * r \in Int /\ k * r = t * r + d * r
  BY <1>1, <1>2
<1>4. d >= 1 => d * r >= r
  BY <1>2
<1>5. d <= 0 => d * r <= 0
  BY <1>2
<1>6. t < k => t * r < n
  BY <1>1, <1>2, <1>3, <1>4
<1>7. ~(t < k) => ~(t * r < n)
  BY <1>1, <1>2, <1>3, <1>5
<1> QED
  BY <1>1, <1>6, <1>7

\* Half of an integer is an integer, and 16 bits of it a register value.
LEMMA HalfType == ASSUME NEW n \in Int PROVE n \div 2 \in Int
  OBVIOUS

\* What goes to the low half of a register of the display.
LEMMA LowBits == ASSUME NEW n \in Int PROVE n % CrtCells \in 0 .. CrtCells - 1
<1>1. ASSUME NEW m \in Nat \ {0} PROVE n % m \in 0 .. m - 1
  BY <1>1
<1>2. CrtCells \in Nat \ {0}
  BY DEF CrtCells
<1> QED
  BY <1>1, <1>2

\* A cell number fits the two registers.
LEMMA CellType ==
  ASSUME NEW a \in Int
  PROVE  Cell(a) \in 0 .. CrtCells - 1
<1>1. a - VIDEO_MEM_START \in Int
  BY Sizes
<1>2. (a - VIDEO_MEM_START) \div 2 \in Int
  BY <1>1, HalfType, Zenon
<1>3. ((a - VIDEO_MEM_START) \div 2) % CrtCells \in 0 .. CrtCells - 1
  BY <1>2, LowBits, Zenon
<1> QED
  BY <1>3, Zenon DEF Cell

\* The size of the display in bytes.
LEMMA DisplaySize == VIDEO_NUM_LINES * VIDEO_SIZE_ROW \in Nat
  BY Sizes, RowSums

\* The display can scroll when it is not as far down as it gets.
LEMMA Scrolls ==
  /\ MaxTop \in Nat
  /\ \A t \in Nat : Window(t) => (CanScroll <=> t < MaxTop)
<1> DEFINE rest == VIDEO_MEM_END - VIDEO_MEM_START - VIDEO_NUM_LINES * VIDEO_SIZE_ROW
           k == (rest + VIDEO_SIZE_ROW - 1) \div VIDEO_SIZE_ROW
<1>1. rest \in Int /\ VIDEO_SIZE_ROW > 0 /\ VIDEO_SIZE_ROW \in Nat
  BY Sizes, DisplaySize
<1>2. MaxTop = IF rest > 0 THEN k ELSE 0
  BY DEF MaxTop
<1>3. k \in Int /\ \A t \in Int : t < k <=> t * VIDEO_SIZE_ROW < rest
  <2> HIDE DEF rest
  <2>1. \A t \in Int : (rest + VIDEO_SIZE_ROW - 1) \div VIDEO_SIZE_ROW \in Int
                       /\ (t < (rest + VIDEO_SIZE_ROW - 1) \div VIDEO_SIZE_ROW
                           <=> t * VIDEO_SIZE_ROW < rest)
    BY <1>1, RoundedUp
  <2> QED
    BY <2>1 DEF k
<1>4. \A t \in Nat : Window(t) => (CanScroll <=> t * VIDEO_SIZE_ROW < rest)
  <2> SUFFICES ASSUME NEW t \in Nat, Window(t) PROVE CanScroll <=> t * VIDEO_SIZE_ROW < rest
    OBVIOUS
  <2>1. t * VIDEO_SIZE_ROW \in Nat
    BY Sizes, RowSums
  <2> QED
    BY <2>1, Sizes, DisplaySize DEF Window, CanScroll
<1> HIDE DEF rest, k
<1>5. 0 * VIDEO_SIZE_ROW = 0 /\ \A t \in Nat : t * VIDEO_SIZE_ROW \in Nat
  BY Sizes, RowSums
<1>6. rest > 0 => k > 0
  BY <1>1, <1>3, <1>5
<1> QED
  BY <1>1, <1>2, <1>3, <1>4, <1>5, <1>6

\* lf: the row and the address of the cursor move together, and when the
\* display moves the cursor stays in its last row.
LEMMA LineFeedInv ==
  ASSUME Inv, NEW p \in Int, NEW c \in Int, NEW n \in {0, 1},
         lf(p, c, n), c + n \in 0 .. VIDEO_NUM_COLUMNS,
         p = VIDEO_MEM_START + y * VIDEO_SIZE_ROW + 2 * c
  PROVE  Cursor' /\ (\E t \in Nat : Window(t))' /\ Controller'
<1> USE Sizes
<1>1. PICK t \in Nat : Window(t)
  BY DEF Inv
<1>2. y \in Nat
  BY DEF Inv, Cursor
<1>3. /\ y * VIDEO_SIZE_ROW \in Int
      /\ (y + 1) * VIDEO_SIZE_ROW = y * VIDEO_SIZE_ROW + VIDEO_SIZE_ROW
      /\ t * VIDEO_SIZE_ROW \in Int
      /\ (t + 1) * VIDEO_SIZE_ROW = t * VIDEO_SIZE_ROW + VIDEO_SIZE_ROW
  BY <1>2, NextRow
<1>4. Cursor'
  <2>1. CASE Moves
    BY <1>2, <1>3, <2>1 DEF lf, Cursor, PosMatchesCursor
  <2>2. CASE ~Moves
    BY <1>2, <1>3, <2>2 DEF lf, Cursor, PosMatchesCursor
  <2> QED
    BY <2>1, <2>2
<1>5. CASE AtBottom /\ CanScroll
  <2>1. /\ y' = y + 1 /\ origin' = origin + VIDEO_SIZE_ROW
        /\ scr_end' = scr_end + VIDEO_SIZE_ROW
        /\ crt' = [start |-> Cell(origin'), cursor |-> Cell(p + VIDEO_SIZE_ROW)]
    BY <1>5 DEF lf, Moves
  <2>2. origin \in Int /\ origin' \in Int
    BY <1>1, <1>3, <2>1 DEF Window
  <2>3. Window(t + 1)'
    <3>1. t + 1 <= MaxTop
      BY <1>1, <1>5, Scrolls
    <3>2. y = t + VIDEO_NUM_LINES - 1
      BY <1>1, <1>2, <1>5 DEF Window, AtBottom
    <3>3. MaxTop' = MaxTop
      BY DEF MaxTop
    <3> QED
      BY <1>1, <1>2, <1>3, <2>1, <2>2, <3>1, <3>2, <3>3 DEF Window
  <2>4. Controller'
    <3>1. p + VIDEO_SIZE_ROW \in Int
      OBVIOUS
    <3>2. Cell(origin') \in 0 .. CrtCells - 1 /\ Cell(p + VIDEO_SIZE_ROW) \in 0 .. CrtCells - 1
      BY <2>2, <3>1, CellType
    <3> QED
      BY <2>1, <3>2 DEF Controller, Registers
  <2> QED
    BY <1>4, <2>3, <2>4
<1>6. CASE ~(AtBottom /\ CanScroll)
  <2>1. UNCHANGED <<origin, scr_end, crt>> /\ (y' = y \/ (y' = y + 1 /\ ~AtBottom))
    BY <1>6 DEF lf, Moves
  <2>2. Cell(origin') = Cell(origin)
    BY <2>1
  <2>3. Window(t)'
    BY <1>1, <1>2, <2>1, <2>2 DEF Window, AtBottom, MaxTop
  <2>4. Controller'
    BY <2>1 DEF Inv, Controller
  <2> QED
    BY <1>4, <2>3, <2>4
<1> QED
  BY <1>5, <1>6

\* A move within the row by as many cells as columns.
LEMMA MoveInv ==
  ASSUME Inv, NEW p \in Int, NEW c \in 0 .. VIDEO_NUM_COLUMNS, MoveTo(p, c),
         p - 2 * c = pos - 2 * x
  PROVE  Cursor' /\ (\E t \in Nat : Window(t))' /\ Controller'
<1> USE Sizes
<1>1. PICK t \in Nat : Window(t)
  BY DEF Inv
<1>2. UNCHANGED <<y, origin, scr_end, crt>> /\ pos' = p /\ x' = c
  BY DEF MoveTo
<1>3. y \in Nat /\ y * VIDEO_SIZE_ROW \in Int
  BY NextRow DEF Inv, Cursor
<1>4. Cursor'
  BY <1>2, <1>3 DEF Inv, Cursor, PosMatchesCursor
<1>5. Cell(origin') = Cell(origin)
  BY <1>2
<1>6. Window(t)'
  BY <1>1, <1>2, <1>5 DEF Window, MaxTop
<1> QED
  BY <1>2, <1>4, <1>6 DEF Inv, Controller

\* Writing one cell.
LEMMA ShowInv ==
  ASSUME Memory, NEW a \in Nat, NEW ch \in Printable \cup {Blank}, Show(a, ch)
  PROVE  Memory'
  BY DEF Memory, Show

\* The position of the cursor is an address.
LEMMA PosType == Inv => pos \in Nat /\ pos - 2 * x \in Nat /\ x \in Nat /\ y \in Nat
<1> SUFFICES ASSUME Inv PROVE pos \in Nat /\ pos - 2 * x \in Nat /\ x \in Nat /\ y \in Nat
  OBVIOUS
<1>1. x \in Nat /\ y \in Nat /\ y * VIDEO_SIZE_ROW \in Nat
  BY Sizes DEF Inv, Cursor
<1> QED
  BY <1>1, Sizes DEF Inv, Cursor, PosMatchesCursor

\* Nothing happens: a control character that is ignored, or a stutter.
LEMMA NothingInv == Inv /\ UNCHANGED vars => Inv'
<1> SUFFICES ASSUME Inv, UNCHANGED vars PROVE Inv'
  OBVIOUS
<1>1. PICK t \in Nat : Window(t)
  BY DEF Inv
<1>2. Cell(origin') = Cell(origin)
  BY DEF vars
<1>3. Window(t)'
  BY <1>1, <1>2 DEF Window, MaxTop, vars
<1> QED
  BY <1>3 DEF Inv, Cursor, Memory, Controller, PosMatchesCursor, vars

\* A printable character, in its row or at the start of the next one.
LEMMA PutInv == ASSUME Inv, NEW ch \in Printable, Put(ch) PROVE Inv'
<1> USE Sizes, PosType
<1>1. CASE x < VIDEO_NUM_COLUMNS
  <2>1. MoveTo(pos + 2, x + 1) /\ Show(pos, ch)
    BY <1>1 DEF Put
  <2>2. Memory'
    BY <2>1, ShowInv DEF Inv
  <2>3. x + 1 \in 0 .. VIDEO_NUM_COLUMNS /\ pos + 2 \in Int
    BY <1>1
  <2> QED
    BY <2>1, <2>2, <2>3, MoveInv DEF Inv
<1>2. CASE ~(x < VIDEO_NUM_COLUMNS)
  <2>1. lf(pos - VIDEO_SIZE_ROW, x - VIDEO_NUM_COLUMNS, 1) /\ Show(pos' - 2, ch)
    BY <1>2 DEF Put
  <2>2. /\ x = VIDEO_NUM_COLUMNS
        /\ pos - VIDEO_SIZE_ROW = VIDEO_MEM_START + y * VIDEO_SIZE_ROW
    <3>1. x = VIDEO_NUM_COLUMNS
      BY <1>2 DEF Inv, Cursor
    <3>2. y * VIDEO_SIZE_ROW \in Int
      BY NextRow
    <3> QED
      BY <3>1, <3>2 DEF Inv, Cursor, PosMatchesCursor
  <2>3. Cursor' /\ (\E t \in Nat : Window(t))' /\ Controller'
    <3>1. 1 \in 0 .. VIDEO_NUM_COLUMNS
      OBVIOUS
    <3>2. pos - VIDEO_SIZE_ROW
            = VIDEO_MEM_START + y * VIDEO_SIZE_ROW + 2 * (x - VIDEO_NUM_COLUMNS)
      <4>1. y * VIDEO_SIZE_ROW \in Int
        BY NextRow
      <4> QED
        BY <2>2, <4>1
    <3>3. pos - VIDEO_SIZE_ROW \in Int /\ x - VIDEO_NUM_COLUMNS \in Int
      OBVIOUS
    <3>4. x - VIDEO_NUM_COLUMNS + 1 \in 0 .. VIDEO_NUM_COLUMNS
      BY <2>2, <3>1
    <3> QED
      BY <2>1, <3>2, <3>3, <3>4, LineFeedInv
  <2>4. pos' - 2 \in Nat
    <3>1. y' \in Nat /\ pos' = VIDEO_MEM_START + y' * VIDEO_SIZE_ROW + 2 * x'
      BY <2>3 DEF Cursor, PosMatchesCursor
    <3>3. y' * VIDEO_SIZE_ROW \in Nat
      BY <3>1, RowSums
    <3>2. x' = 1
      BY <2>1, <2>2 DEF lf
    <3>4. 2 * x' = 2
      BY <3>2
    <3>5. pos' = VIDEO_MEM_START + y' * VIDEO_SIZE_ROW + 2
      BY <3>1, <3>4
    <3> QED
      BY <3>3, <3>5
  <2>5. Memory'
    BY <2>1, <2>4, ShowInv DEF Inv
  <2> QED
    BY <2>3, <2>5 DEF Inv
<1> QED
  BY <1>1, <1>2

\* A tab, to the next multiple of eight or into the next row.
LEMMA TabInv == ASSUME Inv, Tab PROVE Inv'
<1> USE Sizes, PosType
<1> DEFINE n == 8 - (x % 8)
<1>1. n \in 1 .. 8
  BY SMT
<1>2. Memory'
  BY DEF Inv, Memory, Tab
<1>3. x \in 0 .. VIDEO_NUM_COLUMNS
  BY DEF Inv, Cursor
<1>4. /\ x + n > VIDEO_NUM_COLUMNS
         => lf(pos + 2 * n - VIDEO_SIZE_ROW, x + n - VIDEO_NUM_COLUMNS, 0)
      /\ ~(x + n > VIDEO_NUM_COLUMNS) => MoveTo(pos + 2 * n, x + n)
  BY DEF Tab
<1> HIDE DEF n
<1>5. CASE x + n > VIDEO_NUM_COLUMNS
  <2>1. x + n - VIDEO_NUM_COLUMNS \in 0 .. VIDEO_NUM_COLUMNS
    BY <1>1, <1>3, <1>5
  <2>2. pos + 2 * n - VIDEO_SIZE_ROW \in Int
    BY <1>1
  <2>3. pos + 2 * n - VIDEO_SIZE_ROW
          = VIDEO_MEM_START + y * VIDEO_SIZE_ROW + 2 * (x + n - VIDEO_NUM_COLUMNS)
    <3>1. y * VIDEO_SIZE_ROW \in Int
      BY NextRow
    <3> QED
      BY <1>1, <3>1 DEF Inv, Cursor, PosMatchesCursor
  <2>4. x + n - VIDEO_NUM_COLUMNS + 0 \in 0 .. VIDEO_NUM_COLUMNS
    BY <2>1
  <2>5. x + n - VIDEO_NUM_COLUMNS \in Int
    BY <2>1
  <2> QED
    BY <1>2, <1>4, <1>5, <2>2, <2>3, <2>4, <2>5, LineFeedInv DEF Inv
<1>6. CASE ~(x + n > VIDEO_NUM_COLUMNS)
  <2>1. x + n \in 0 .. VIDEO_NUM_COLUMNS /\ pos + 2 * n \in Int
    BY <1>1, <1>3, <1>6
  <2>2. pos + 2 * n - 2 * (x + n) = pos - 2 * x
    BY <1>1
  <2>3. MoveTo(pos + 2 * n, x + n)
    BY <1>4, <1>6
  <2>4. Cursor' /\ (\E t \in Nat : Window(t))' /\ Controller'
    BY <1>1, <2>1, <2>2, <2>3, MoveInv
  <2> QED
    BY <1>2, <2>4 DEF Inv
<1> QED
  BY <1>5, <1>6

\* The characters that move the cursor back within its row.
LEMMA BackInv == ASSUME Inv, cr \/ del \/ Backspace PROVE Inv'
<1> USE Sizes, PosType
<1>1. CASE cr
  <2>1. MoveTo(pos - 2 * x, 0) /\ vram' = vram
    BY <1>1 DEF cr
  <2>2. Memory'
    BY <2>1 DEF Inv, Memory
  <2>3. pos - 2 * x \in Int /\ 0 \in 0 .. VIDEO_NUM_COLUMNS
        /\ pos - 2 * x - 2 * 0 = pos - 2 * x
    OBVIOUS
  <2> QED
    BY <2>1, <2>2, <2>3, MoveInv DEF Inv
<1>2. CASE x # 0 /\ MoveTo(pos - 2, x - 1) /\ (Show(pos - 2, Blank) \/ vram' = vram)
  <2>1. pos - 2 \in Nat /\ x - 1 \in 0 .. VIDEO_NUM_COLUMNS
        /\ pos - 2 - 2 * (x - 1) = pos - 2 * x
    BY <1>2 DEF Inv, Cursor
  <2>2. Memory'
    <3>1. CASE Show(pos - 2, Blank)
      BY <2>1, <3>1, ShowInv DEF Inv
    <3>2. CASE vram' = vram
      BY <3>2 DEF Inv, Memory
    <3> QED
      BY <1>2, <3>1, <3>2
  <2> QED
    BY <1>2, <2>1, <2>2, MoveInv DEF Inv
<1>3. CASE x = 0 /\ UNCHANGED vars
  BY <1>3, NothingInv
<1> QED
  BY <1>1, <1>2, <1>3 DEF del, Backspace

\* Every character that conWrite shows keeps the invariant.
LEMMA EmitInv == ASSUME Inv, NEW code, Emit(code) PROVE Inv'
<1>1. ASSUME NEW ch \in Printable, Put(ch) PROVE Inv'
  BY <1>1, PutInv
<1>2. CASE LineFeed
  <2>1. lf(pos, x, 0) /\ vram' = vram
    BY <1>2 DEF LineFeed
  <2>2. Memory'
    BY <2>1 DEF Inv, Memory
  <2>3. pos \in Int /\ x \in Int /\ x + 0 \in 0 .. VIDEO_NUM_COLUMNS
    BY PosType DEF Inv, Cursor
  <2>4. pos = VIDEO_MEM_START + y * VIDEO_SIZE_ROW + 2 * x
    BY DEF Inv, Cursor, PosMatchesCursor
  <2> QED
    BY <2>1, <2>2, <2>3, <2>4, LineFeedInv DEF Inv
<1>3. CASE cr \/ del \/ Backspace
  BY <1>3, BackInv
<1>4. CASE Tab
  BY <1>4, TabInv
<1>5. CASE UNCHANGED vars
  BY <1>5, NothingInv
<1> QED
  BY <1>1, <1>2, <1>3, <1>4, <1>5 DEF Emit

\* So does telling the controller where the cursor is.
LEMMA CursorInv == ASSUME Inv, setCursor PROVE Inv' /\ crt'.cursor = Cell(pos')
<1>1. Cell(pos) \in 0 .. CrtCells - 1
  BY PosType, CellType
<1>2. crt' = [crt EXCEPT !.cursor = Cell(pos)]
      /\ UNCHANGED <<x, y, pos, origin, scr_end, vram>>
  BY DEF setCursor
<1>3. Controller' /\ crt'.start = crt.start /\ crt'.cursor = Cell(pos)
  BY <1>1, <1>2 DEF Inv, Controller, Registers
<1>4. PICK t \in Nat : Window(t)
  BY DEF Inv
<1>5. Cell(origin') = Cell(origin) /\ Cell(pos') = Cell(pos)
  BY <1>2
<1>6. Window(t)'
  BY <1>2, <1>3, <1>4, <1>5 DEF Window, MaxTop
<1> QED
  BY <1>2, <1>3, <1>5, <1>6 DEF Inv, Cursor, Memory, PosMatchesCursor

\* Every step of conWrite keeps the invariant.
LEMMA NextConsole == Inv /\ [Next]_vars => Inv'
  BY EmitInv, CursorInv, NothingInv DEF Next

\* initConsole establishes the invariant.
LEMMA InitConsole == Init => Inv
<1> SUFFICES ASSUME Init PROVE Inv
  OBVIOUS
<1> USE Sizes
<1>1. FirstRow \in Nat /\ FirstRow < VIDEO_NUM_LINES /\ FirstRow * VIDEO_SIZE_ROW \in Nat
  BY ConsoleAssumption
<1>2. Cursor
  BY <1>1 DEF Init, Cursor, PosMatchesCursor
<1>3. 0 * VIDEO_SIZE_ROW = 0
  OBVIOUS
<1>4. Window(0)
  BY <1>1, <1>3, Scrolls DEF Init, Window
<1>5. Memory
  BY DEF Init, Memory
<1>6. Controller
  <2>1. origin \in Int /\ pos \in Int
    BY <1>1 DEF Init
  <2>2. Cell(origin) \in 0 .. CrtCells - 1 /\ Cell(pos) \in 0 .. CrtCells - 1
    BY <2>1, CellType
  <2> QED
    BY <2>2 DEF Init, Controller, Registers
<1> QED
  BY <1>2, <1>4, <1>5, <1>6 DEF Inv

\* Whatever is written, pos is the address of the cursor's column and row: the
\* six branches of conWrite that update x, y and pos on their own agree.
THEOREM PosIsCursor == Spec => []PosMatchesCursor
<1>1. Inv => PosMatchesCursor
  BY DEF Inv, Cursor
<1> QED
  BY <1>1, InitConsole, NextConsole, PTL DEF Spec

\* Whatever is written and however often the display scrolled, also when its
\* memory is used up, the cursor is in a row that is shown.
THEOREM CursorIsShown == Spec => []CursorRowShown
<1>1. Inv => CursorRowShown
  <2> SUFFICES ASSUME Inv PROVE CursorRowShown
    OBVIOUS
  <2> USE Sizes, PosType
  <2>1. PICK t \in Nat : Window(t)
    BY DEF Inv
  <2>2. t * VIDEO_SIZE_ROW <= y * VIDEO_SIZE_ROW
    BY <2>1, RowOrder DEF Window
  <2>3. (y + 1) * VIDEO_SIZE_ROW <= (t + VIDEO_NUM_LINES) * VIDEO_SIZE_ROW
    <3>1. y + 1 \in Nat /\ t + VIDEO_NUM_LINES \in Nat /\ y + 1 <= t + VIDEO_NUM_LINES
      BY <2>1 DEF Window
    <3> QED
      BY <3>1, RowOrder
  <2>4. /\ (y + 1) * VIDEO_SIZE_ROW = y * VIDEO_SIZE_ROW + VIDEO_SIZE_ROW
        /\ (t + VIDEO_NUM_LINES) * VIDEO_SIZE_ROW
             = t * VIDEO_SIZE_ROW + VIDEO_NUM_LINES * VIDEO_SIZE_ROW
        /\ y * VIDEO_SIZE_ROW \in Int /\ t * VIDEO_SIZE_ROW \in Int
        /\ VIDEO_NUM_LINES * VIDEO_SIZE_ROW \in Int
    <3>1. y \in Int
      OBVIOUS
    <3>2. /\ y * VIDEO_SIZE_ROW \in Int
          /\ (y + 1) * VIDEO_SIZE_ROW = y * VIDEO_SIZE_ROW + VIDEO_SIZE_ROW
      BY <3>1, NextRow
    <3>3. /\ t * VIDEO_SIZE_ROW \in Nat
          /\ (t + VIDEO_NUM_LINES) * VIDEO_SIZE_ROW
               = t * VIDEO_SIZE_ROW + VIDEO_NUM_LINES * VIDEO_SIZE_ROW
      BY RowSums
    <3>4. VIDEO_NUM_LINES * VIDEO_SIZE_ROW \in Nat
      BY RowSums
    <3> QED
      BY <3>2, <3>3, <3>4
  <2>5. VIDEO_SIZE_ROW > 0
    OBVIOUS
  <2>6. /\ origin <= VIDEO_MEM_START + y * VIDEO_SIZE_ROW
        /\ VIDEO_MEM_START + y * VIDEO_SIZE_ROW < scr_end
    BY <2>1, <2>2, <2>3, <2>4, <2>5 DEF Window
  <2> QED
    BY <2>1, <2>6 DEF CursorRowShown, Window
<1> QED
  BY <1>1, InitConsole, NextConsole, PTL DEF Spec

\* The invariant contains the types.
LEMMA InvType == ASSUME Inv PROVE TypeOK
<1>1. PICK t \in Nat : Window(t)
  BY DEF Inv
<1>2. origin \in Nat /\ scr_end \in Nat
  <2>1. t * VIDEO_SIZE_ROW \in Nat /\ VIDEO_NUM_LINES * VIDEO_SIZE_ROW \in Nat
    BY Sizes
  <2> QED
    BY <1>1, <2>1, Sizes DEF Window
<1> QED
  BY <1>2, PosType DEF Inv, Cursor, Memory, Controller, Registers, TypeOK

\* Types of the console: what any sequence of calls of conWrite leaves in its variables.
THEOREM ConsoleType == Spec => []TypeOK
  BY InvType, InitConsole, NextConsole, PTL DEF Spec

---------------------------------------------------------------------------
(* The page of text that the addresses add up to: what Terminal sees.      *)

Top == (origin - VIDEO_MEM_START) \div VIDEO_SIZE_ROW
Columns == 0 .. VIDEO_NUM_COLUMNS - 1
Rows == 0 .. MaxTop + VIDEO_NUM_LINES - 1
Place(r, c) == VIDEO_MEM_START + r * VIDEO_SIZE_ROW + 2 * c
Text == [r \in Rows |-> [c \in Columns |-> CellText(Place(r, c))]]

\* The start of the display is a row of the page.
LEMMA TopOfWindow ==
  ASSUME NEW t \in Nat, Window(t)
  PROVE  Top = t
<1>1. t * VIDEO_SIZE_ROW \in Nat /\ VIDEO_SIZE_ROW \in Nat /\ VIDEO_SIZE_ROW > 0
  BY Sizes, RowSums
<1>2. origin - VIDEO_MEM_START = t * VIDEO_SIZE_ROW
  BY <1>1, Sizes DEF Window
<1>3. (t * VIDEO_SIZE_ROW) \div VIDEO_SIZE_ROW = t
  BY <1>1, Quotient
<1> QED
  BY <1>2, <1>3 DEF Top

\* The row of the cursor is one of the page.
LEMMA RowOfPage ==
  ASSUME NEW t \in Nat, Window(t), y \in Nat
  PROVE  y \in Rows
  BY Scrolls, Sizes DEF Window, Rows

\* Two places have two addresses.
LEMMA PlacesDiffer ==
  ASSUME NEW r \in Int, NEW c \in Columns, NEW i \in Int, NEW j \in Columns,
         Place(r, c) = Place(i, j)
  PROVE  r = i /\ c = j
<1> USE Sizes
<1> DEFINE d == r - i
<1>1. /\ r * VIDEO_SIZE_ROW \in Int /\ i * VIDEO_SIZE_ROW \in Int
      /\ c \in Int /\ j \in Int /\ c - j < VIDEO_NUM_COLUMNS /\ j - c < VIDEO_NUM_COLUMNS
  BY NextRow DEF Columns
<1>2. d \in Int /\ r = i + d
  OBVIOUS
<1>3. d * VIDEO_SIZE_ROW \in Int /\ r * VIDEO_SIZE_ROW = i * VIDEO_SIZE_ROW + d * VIDEO_SIZE_ROW
  BY <1>2
<1>4. d * VIDEO_SIZE_ROW = 2 * (j - c)
  BY <1>1, <1>3 DEF Place
<1>5. d >= 1 => d * VIDEO_SIZE_ROW >= VIDEO_SIZE_ROW
  BY <1>2
<1>6. d <= -1 => d * VIDEO_SIZE_ROW <= -VIDEO_SIZE_ROW
  BY <1>2
<1>7. d = 0
  BY <1>1, <1>2, <1>4, <1>5, <1>6
<1> QED
  BY <1>1, <1>2, <1>7 DEF Place

\* Writing the cell of a place writes the text there and nowhere else.
LEMMA ShowText ==
  ASSUME NEW r \in Rows, NEW c \in Columns, NEW ch, Show(Place(r, c), ch)
  PROVE  Text' = [Text EXCEPT ![r][c] = ch]
<1>1. ASSUME NEW i \in Rows, NEW j \in Columns
      PROVE  CellText(Place(i, j))' = IF i = r /\ j = c THEN ch ELSE CellText(Place(i, j))
  <2>1. Place(i, j) = Place(r, c) <=> i = r /\ j = c
    BY PlacesDiffer DEF Rows
  <2>2. Place(i, j)' = Place(i, j)
    BY DEF Place
  <2> QED
    BY <2>1, <2>2 DEF Show, CellText
<1>2. Text' = [i \in Rows |-> [j \in Columns |-> CellText(Place(i, j))']]
  BY DEF Text, Rows, Columns, MaxTop
<1>3. [Text EXCEPT ![r][c] = ch]
        = [i \in Rows |-> [j \in Columns |-> IF i = r /\ j = c THEN ch ELSE CellText(Place(i, j))]]
  BY DEF Text
<1> QED
  BY <1>1, <1>2, <1>3

\* Without a cell written the text stays.
LEMMA SameText == ASSUME vram' = vram PROVE Text' = Text
  BY DEF Text, CellText, Place, Rows, Columns, MaxTop

\* A move within the row leaves the window where it is.
LEMMA MoveIsTo ==
  ASSUME NEW p, NEW c, MoveTo(p, c)
  PROVE  y' = y /\ Top' = Top /\ x' = c
  BY DEF MoveTo, Top

\* lf goes down as Terminal says: a row, a row and the window, or not at all.
LEMMA LineIsDown ==
  ASSUME Inv, NEW p, NEW c, NEW n, lf(p, c, n)
  PROVE  /\ y' = Page!Down(y, Top)[1] /\ Top' = Page!Down(y, Top)[2] /\ x' = c + n
<1> USE Sizes
<1>1. PICK t \in Nat : Window(t)
  BY DEF Inv
<1>2. y \in Nat /\ Top = t
  BY <1>1, TopOfWindow DEF Inv, Cursor
<1>3. CanScroll <=> t < MaxTop
  BY <1>1, Scrolls
<1>4. /\ AtBottom <=> y = t + VIDEO_NUM_LINES - 1
      /\ ~AtBottom <=> y < t + VIDEO_NUM_LINES - 1
  BY <1>1, <1>2 DEF AtBottom, Window
<1>5. CASE AtBottom /\ CanScroll
  <2>1. y' = y + 1 /\ origin' = origin + VIDEO_SIZE_ROW
    BY <1>5 DEF lf, Moves
  <2>2. Top' = t + 1
    <3>1. origin' - VIDEO_MEM_START = (t + 1) * VIDEO_SIZE_ROW
      BY <1>1, <2>1, NextRow DEF Window
    <3>2. (t + 1) * VIDEO_SIZE_ROW \in Nat /\ VIDEO_SIZE_ROW > 0 /\ t + 1 \in Int
      BY RowSums
    <3>3. ((t + 1) * VIDEO_SIZE_ROW) \div VIDEO_SIZE_ROW = t + 1
      BY <3>2, Quotient
    <3> QED
      BY <3>1, <3>3 DEF Top
  <2>3. Page!Down(y, Top) = <<y + 1, t + 1>>
    BY <1>2, <1>3, <1>4, <1>5 DEF Page!Down
  <2> QED
    BY <2>1, <2>2, <2>3 DEF lf
<1>6. CASE ~AtBottom
  <2>1. y' = y + 1 /\ origin' = origin
    BY <1>6 DEF lf, Moves
  <2>2. Page!Down(y, Top) = <<y + 1, t>>
    BY <1>2, <1>4, <1>6 DEF Page!Down
  <2> QED
    BY <1>2, <2>1, <2>2 DEF lf, Top
<1>7. CASE AtBottom /\ ~CanScroll
  <2>1. y' = y /\ origin' = origin
    BY <1>7 DEF lf, Moves
  <2>2. Page!Down(y, Top) = <<y, t>>
    BY <1>2, <1>3, <1>4, <1>7 DEF Page!Down
  <2> QED
    BY <1>2, <2>1, <2>2 DEF lf, Top
<1> QED
  BY <1>5, <1>6, <1>7

\* What a step of Terminal does to its row, its window and its column.
LEMMA PageTo == \A r, t, c : Page!To(r, t, c) <=> y' = r /\ Top' = t /\ x' = c
  BY DEF Page!To, Top

\* A step that changes no row, column, start and cell is a stutter.
LEMMA NothingShown == UNCHANGED <<x, y, origin, vram>> => [Page!Next]_(Page!vars)
<1> SUFFICES ASSUME UNCHANGED <<x, y, origin, vram>> PROVE UNCHANGED (Page!vars)
  OBVIOUS
<1>1. Text' = Text /\ Top' = Top
  BY SameText DEF Top
<1> QED
  BY <1>1 DEF Page!vars, Top, Text, Place, Rows, Columns

\* A character is put on the page where putc writes it.
LEMMA PutShown == ASSUME Inv, NEW ch \in Printable, Put(ch) PROVE Page!Put(ch)
<1> USE Sizes, PosType
<1>1. PICK t \in Nat : Window(t)
  BY DEF Inv
<1>2. /\ x \in 0 .. VIDEO_NUM_COLUMNS /\ y \in Rows
      /\ pos = Place(y, x) /\ y * VIDEO_SIZE_ROW \in Nat
  BY <1>1, RowOfPage, RowSums DEF Inv, Cursor, PosMatchesCursor, Place
<1>3. CASE x < VIDEO_NUM_COLUMNS
  <2>1. MoveTo(pos + 2, x + 1) /\ Show(pos, ch)
    BY <1>3 DEF Put
  <2>2. y' = y /\ Top' = Top /\ x' = x + 1
    BY <2>1, MoveIsTo
  <2>3. Text' = [Text EXCEPT ![y][x] = ch]
    BY <1>2, <1>3, <2>1, ShowText DEF Columns
  <2> QED
    BY <1>3, <2>2, <2>3 DEF Page!Put, Page!To, Top, Text, Place, Rows, Columns
<1>4. CASE ~(x < VIDEO_NUM_COLUMNS)
  <2>1. lf(pos - VIDEO_SIZE_ROW, x - VIDEO_NUM_COLUMNS, 1) /\ Show(pos' - 2, ch)
    BY <1>4 DEF Put
  <2>2. x = VIDEO_NUM_COLUMNS /\ x' = 1
    BY <1>2, <1>4, <2>1 DEF lf
  <2>3. y' = Page!Down(y, Top)[1] /\ Top' = Page!Down(y, Top)[2]
    BY <2>1, LineIsDown
  <2>4. Inv'
    BY <1>4, PutInv
  <2>5. PICK u \in Nat : Window(u)'
    BY <2>4 DEF Inv
  <2>6. y' \in Rows /\ y' \in Nat /\ y' * VIDEO_SIZE_ROW \in Nat
    <3>1. y' \in Nat /\ MaxTop' = MaxTop
      BY <2>4 DEF Inv, Cursor, MaxTop
    <3>2. u <= MaxTop /\ y' < u + VIDEO_NUM_LINES
      BY <2>5, <3>1 DEF Window
    <3>3. y' \in 0 .. MaxTop + VIDEO_NUM_LINES - 1
      BY <3>1, <3>2, Scrolls
    <3>4. y' * VIDEO_SIZE_ROW \in Nat
      BY <3>1, RowSums
    <3> QED
      BY <3>1, <3>3, <3>4 DEF Rows
  <2>7. pos' - 2 = Place(y', 0)
    BY <2>2, <2>4, <2>6 DEF Inv, Cursor, PosMatchesCursor, Place
  <2>8. Text' = [Text EXCEPT ![y'][0] = ch]
    <3>1. 0 \in Columns
      BY DEF Columns
    <3> QED
      BY <2>1, <2>6, <2>7, <3>1, ShowText
  <2> QED
    BY <1>4, <2>2, <2>3, <2>8 DEF Page!Put, Page!To, Top, Text, Place, Rows, Columns
<1> QED
  BY <1>3, <1>4

\* lf moves the page as it moves the display, also where it scrolls.
LEMMA LineFeedShown == ASSUME Inv, LineFeed PROVE Page!LineFeed
<1>1. lf(pos, x, 0) /\ vram' = vram
  BY DEF LineFeed
<1>2. y' = Page!Down(y, Top)[1] /\ Top' = Page!Down(y, Top)[2] /\ x' = x
  BY <1>1, LineIsDown, PosType
<1>3. Text' = Text
  BY <1>1, SameText
<1> QED
  BY <1>2, <1>3 DEF Page!LineFeed, Page!To, Top, Text, Place, Rows, Columns

\* cr goes to the first column of the page.
LEMMA ReturnShown == ASSUME cr PROVE Page!Return
<1>1. y' = y /\ Top' = Top /\ x' = 0 /\ Text' = Text
  BY MoveIsTo, SameText DEF cr
<1> QED
  BY <1>1 DEF Page!Return, Page!To, Top, Text, Place, Rows, Columns

\* A step back on the display is one on the page.
LEMMA BackShown == ASSUME Inv, x # 0, Backspace PROVE Page!Back
<1>1. y' = y /\ Top' = Top /\ x' = x - 1 /\ Text' = Text
  BY MoveIsTo, SameText DEF Backspace
<1>2. x > 0
  BY PosType
<1> QED
  BY <1>1, <1>2 DEF Page!Back, Page!To, Top, Text, Place, Rows, Columns

\* del erases the character of the page under the cursor.
LEMMA EraseShown == ASSUME Inv, x # 0, del PROVE Page!Erase
<1>1. MoveTo(pos - 2, x - 1) /\ Show(pos - 2, Blank)
  BY DEF del
<1>2. y' = y /\ Top' = Top /\ x' = x - 1
  BY <1>1, MoveIsTo
<1>3. PICK t \in Nat : Window(t)
  BY DEF Inv
<1>4. x \in 1 .. VIDEO_NUM_COLUMNS /\ y \in Rows /\ y * VIDEO_SIZE_ROW \in Nat
  BY <1>3, RowOfPage, RowSums, PosType, Sizes DEF Inv, Cursor
<1>5. pos - 2 = Place(y, x - 1) /\ x - 1 \in Columns
  BY <1>4, Sizes, PosType DEF Inv, Cursor, PosMatchesCursor, Place, Columns
<1>6. Text' = [Text EXCEPT ![y][x - 1] = Blank]
  BY <1>1, <1>4, <1>5, ShowText
<1>7. x > 0
  BY <1>4
<1> QED
  BY <1>2, <1>6, <1>7 DEF Page!Erase, Page!To, Top, Text, Place, Rows, Columns

\* A tab goes to the next stop of the page, if need be on the next line.
LEMMA TabShown == ASSUME Inv, Tab PROVE Page!Tab
<1> USE Sizes, PosType
<1> DEFINE n == 8 - (x % 8)
           c == (x \div 8 + 1) * 8
<1>1. x + n = c /\ n \in Int /\ x \in Nat
  BY SMT
<1>2. /\ x + n > VIDEO_NUM_COLUMNS
         => lf(pos + 2 * n - VIDEO_SIZE_ROW, x + n - VIDEO_NUM_COLUMNS, 0)
      /\ ~(x + n > VIDEO_NUM_COLUMNS) => MoveTo(pos + 2 * n, x + n)
  BY DEF Tab
<1>3. Text' = Text
  BY SameText DEF Tab
<1>4. Page!Tab <=> /\ IF c <= VIDEO_NUM_COLUMNS
                        THEN Page!To(y, Top, c)
                        ELSE Page!To(Page!Down(y, Top)[1], Page!Down(y, Top)[2], c - VIDEO_NUM_COLUMNS)
                   /\ Text' = Text
  BY DEF Page!Tab, Top, Text, Place, Rows, Columns
<1> HIDE DEF n, c
<1>5. CASE c <= VIDEO_NUM_COLUMNS
  <2>1. MoveTo(pos + 2 * n, x + n)
    BY <1>1, <1>2, <1>5
  <2>2. y' = y /\ Top' = Top /\ x' = x + n
    BY <2>1, MoveIsTo
  <2> QED
    BY <1>1, <1>3, <1>4, <1>5, <2>2, PageTo
<1>6. CASE ~(c <= VIDEO_NUM_COLUMNS)
  <2>1. lf(pos + 2 * n - VIDEO_SIZE_ROW, x + n - VIDEO_NUM_COLUMNS, 0)
    BY <1>1, <1>2, <1>6
  <2>2. /\ y' = Page!Down(y, Top)[1] /\ Top' = Page!Down(y, Top)[2]
        /\ x' = x + n - VIDEO_NUM_COLUMNS + 0
    BY <2>1, LineIsDown
  <2>3. x' = c - VIDEO_NUM_COLUMNS
    BY <1>1, <2>2
  <2> QED
    BY <1>3, <1>4, <1>6, <2>2, <2>3, PageTo
<1> QED
  BY <1>5, <1>6

\* The refinement: whatever is written, the addresses add up to a page of text
\* seen through a window.
THEOREM ConsoleIsTerminal == Spec => ImplementsTerminal
<1>1. Init => Page!Init
  <2> SUFFICES ASSUME Init PROVE Page!Init
    OBVIOUS
  <2>1. Inv
    BY InitConsole
  <2>2. Window(0)
    <3>1. PICK t \in Nat : Window(t)
      BY <2>1 DEF Inv
    <3>2. t = 0
      <4>1. Top = t
        BY <3>1, TopOfWindow
      <4>2. 0 * VIDEO_SIZE_ROW = 0 /\ VIDEO_SIZE_ROW > 0
        BY Sizes
      <4>3. 0 \div VIDEO_SIZE_ROW = 0
        BY <4>2, Sizes, Quotient
      <4>4. origin - VIDEO_MEM_START = 0
        BY Sizes DEF Init
      <4> QED
        BY <4>1, <4>3, <4>4 DEF Top
    <3> QED
      BY <3>1, <3>2
  <2>3. Top = 0
    BY <2>2, TopOfWindow
  <2>4. Text = [r \in Rows |-> [c \in Columns |-> Blank]]
    BY DEF Init, Text, CellText
  <2> QED
    BY <2>3, <2>4 DEF Init, Page!Init, Page!Rows, Top, Text, Place, Rows, Columns
<1>2. Inv /\ [Next]_vars => [Page!Next]_(Page!vars)
  <2> SUFFICES ASSUME Inv, [Next]_vars PROVE [Page!Next]_(Page!vars)
    OBVIOUS
  <2>1. ASSUME NEW ch \in Printable, Put(ch) PROVE Page!Next
    BY <2>1, PutShown DEF Page!Next
  <2>2. CASE LineFeed
    BY <2>2, LineFeedShown DEF Page!Next
  <2>3. CASE cr
    BY <2>3, ReturnShown DEF Page!Next
  <2>4. CASE del
    <3>1. CASE x = 0
      BY <2>4, <3>1, NothingShown DEF del, vars
    <3>2. CASE x # 0
      BY <2>4, <3>2, EraseShown DEF Page!Next
    <3> QED
      BY <3>1, <3>2
  <2>5. CASE Backspace
    <3>1. CASE x = 0
      BY <2>5, <3>1, NothingShown DEF Backspace, vars
    <3>2. CASE x # 0
      BY <2>5, <3>2, BackShown DEF Page!Next
    <3> QED
      BY <3>1, <3>2
  <2>6. CASE Tab
    BY <2>6, TabShown DEF Page!Next
  <2>7. CASE UNCHANGED vars
    BY <2>7, NothingShown DEF vars
  <2>8. CASE setCursor
    BY <2>8, NothingShown DEF setCursor
  <2> QED
    BY <2>1, <2>2, <2>3, <2>4, <2>5, <2>6, <2>7, <2>8 DEF Next, Emit
<1> QED
  BY <1>1, <1>2, InitConsole, NextConsole, PTL DEF Spec, ImplementsTerminal, Page!Spec
---------------------------------------------------------------------------
(* A message as it is to appear.                                           *)

\* f goes on from start by one step for each number.
GoesOn(f, n, S, start, step) ==
  /\ f \in [0 .. n -> S] /\ f[0] = start
  /\ \A i \in 1 .. n : f[i] = step[i][f[i - 1]]

\* A function can be defined step by step from its value at 0.
LEMMA StepByStep ==
  ASSUME NEW n \in Nat, NEW S, NEW start \in S, NEW step,
         \A i \in 1 .. n, s \in S : step[i][s] \in S
  PROVE  \E f : GoesOn(f, n, S, start, step)
<1> DEFINE Path(f, m) == /\ f \in [0 .. m -> S] /\ f[0] = start
                         /\ \A i \in 1 .. m : f[i] = step[i][f[i - 1]]
           None == {m \in 0 .. n : ~ \E f : Path(f, m)}
<1>1. None = {}
  <2> SUFFICES ASSUME None # {} PROVE FALSE
    OBVIOUS
  <2> DEFINE N == None
  <2>7. N \subseteq Nat /\ N # {}
    OBVIOUS
  <2> HIDE DEF N
  <2>8. PICK m \in N : \A k \in N : ~(<<k, m>> \in OpToRel(<, Nat))
    BY <2>7, NatLessThanWellFounded, WFMin
  <2>9. \A k \in N : ~(k < m)
    BY <2>7, <2>8 DEF OpToRel
  <2>1. m \in None
    BY <2>8 DEF N
  <2>2. m \in 0 .. n /\ \A k \in None : ~(k < m)
    BY <2>1, <2>9 DEF N
  <2>3. m # 0
    <3>1. Path([k \in 0 .. 0 |-> start], 0)
      OBVIOUS
    <3> QED
      BY <2>1, <3>1
  <2>4. m - 1 \in 0 .. n /\ m - 1 \notin None
    <3> HIDE DEF None
    <3> QED
      BY <2>2, <2>3
  <2>5. PICK f : Path(f, m - 1)
    BY <2>4
  <2>6. Path([k \in 0 .. m |-> IF k = m THEN step[m][f[m - 1]] ELSE f[k]], m)
    BY <2>2, <2>3, <2>4, <2>5
  <2> QED
    BY <2>1, <2>6
<1> QED
  BY <1>1 DEF GoesOn

\* Texts are put together in any order.
LEMMA Regrouped ==
  ASSUME NEW S, NEW a \in Seq(S), NEW b \in Seq(S), NEW c \in Seq(S)
  PROVE  (a \o b) \o c = a \o (b \o c)
  OBVIOUS

\* What is printed for one character.
Piece(c) == IF Line = "console" /\ c = "LF" THEN <<"CR", "LF">> ELSE <<c>>

\* What messages are made of.
Input == Printable \cup Controls

\* The text of a message, built up from its beginning.
Builds(m, f) ==
  /\ f \in [0 .. Len(m) -> Seq(Codes)] /\ f[0] = <<>>
  /\ \A i \in 1 .. Len(m) : f[i] = f[i - 1] \o Piece(m[i])

\* What is stored for one character of a message is one or two codes.
LEMMA Pieces ==
  ASSUME NEW c \in Input \cup Codes
  PROVE  Piece(c) \in Seq(Codes)
<1>1. "CR" \in Codes /\ c \in Codes
  BY DEF Input, Codes
<1> HIDE DEF Codes
<1>2. <<c>> \in Seq(Codes) /\ <<"CR", c>> \in Seq(Codes)
  BY <1>1
<1> QED
  BY <1>2 DEF Piece

\* Expand takes a message piece by piece.
LEMMA ExpandBuilds ==
  ASSUME NEW m \in Seq(Input)
  PROVE  \E f : Builds(m, f) /\ Expand(m) = f[Len(m)]
<1> DEFINE n == Len(m)
           Eqn(w) == w = [i \in 0 .. n |-> IF i = 0 THEN <<>> ELSE w[i - 1] \o Piece(m[i])]
           step == [i \in 1 .. n |-> [s \in Seq(Codes) |-> s \o Piece(m[i])]]
<1>1. n \in Nat /\ \A i \in 1 .. n : m[i] \in Input /\ Piece(m[i]) \in Seq(Codes)
  BY Pieces
<1>2. \A i \in 1 .. n, s \in Seq(Codes) : step[i][s] = s \o Piece(m[i])
  OBVIOUS
<1>11. \A i \in 1 .. n, s \in Seq(Codes) : step[i][s] \in Seq(Codes)
  BY <1>1, <1>2, ConcatProperties
<1>3. <<>> \in Seq(Codes)
  OBVIOUS
<1>12. n \in Nat /\ \A i \in 1 .. n : i - 1 \in 0 .. n /\ i \in 0 .. n
  BY <1>1
<1> HIDE DEF step, n
<1>4. PICK f : /\ f \in [0 .. n -> Seq(Codes)] /\ f[0] = <<>>
               /\ \A i \in 1 .. n : f[i] = step[i][f[i - 1]]
  <2> DEFINE S == Seq(Codes)
             start == <<>>
  <2>1. n \in Nat /\ start \in S /\ \A i \in 1 .. n, s \in S : step[i][s] \in S
    BY <1>3, <1>11, <1>12
  <2> HIDE DEF S, start
  <2>2. \E f : GoesOn(f, n, S, start, step)
    BY <2>1, StepByStep
  <2> QED
    BY <2>2 DEF GoesOn, S, start
<1>5. \A i \in 1 .. n : i - 1 \in 0 .. n /\ f[i] = f[i - 1] \o Piece(m[i])
  BY <1>2, <1>4, <1>12
<1>6. Eqn(f)
  <2>1. \A i \in 0 .. n : f[i] = IF i = 0 THEN <<>> ELSE f[i - 1] \o Piece(m[i])
    <3>1. \A i \in 0 .. n : i # 0 => i \in 1 .. n
      BY <1>1
    <3> QED
      BY <1>4, <1>5, <3>1
  <2> QED
    BY <1>4, <2>1
<1> DEFINE ex == CHOOSE w : Eqn(w)
<1>7. Eqn(ex)
  BY <1>6
<1>8. Expand(m) = ex[n]
  BY DEF Expand, Piece, n
<1> HIDE DEF ex
<1>9. \A i \in 0 .. n : ex[i] = f[i]
  <2> DEFINE Off == {i \in 0 .. n : ex[i] # f[i]}
  <2> SUFFICES ASSUME Off # {} PROVE FALSE
    OBVIOUS
  <2>1. Off \subseteq Nat
    BY <1>1
  <2>2. PICK i \in Off : \A k \in Off : ~(<<k, i>> \in OpToRel(<, Nat))
    BY <2>1, NatLessThanWellFounded, WFMin
  <2>3. \A k \in Off : ~(k < i)
    BY <2>1, <2>2 DEF OpToRel
  <2>7. \A k \in 0 .. n : ex[k] = IF k = 0 THEN <<>> ELSE ex[k - 1] \o Piece(m[k])
    BY <1>7, Zenon
  <2>8. i \in 0 .. n /\ ex[i] # f[i]
    BY <2>2
  <2>9. i # 0
    BY <1>4, <2>7, <2>8, Zenon
  <2>4. i \in 1 .. n /\ i - 1 \in 0 .. n /\ i - 1 < i
    BY <1>12, <2>8, <2>9
  <2>5. ex[i - 1] = f[i - 1]
    BY <2>3, <2>4
  <2>6. ex[i] = ex[i - 1] \o Piece(m[i])
    BY <2>7, <2>8, <2>9
  <2> QED
    BY <1>5, <2>4, <2>5, <2>6
<1>10. Builds(m, f)
  BY <1>4, <1>5 DEF Builds, n
<1> QED
  BY <1>1, <1>8, <1>9, <1>10 DEF n

\* The text of a message begins with what its first character gives.
LEMMA ExpandFirst ==
  ASSUME NEW m \in Seq(Input)
  PROVE  /\ Expand(m) \in Seq(Codes)
         /\ m = <<>> => Expand(m) = <<>>
         /\ m # <<>> => Expand(m) = Piece(Head(m)) \o Expand(Tail(m))
<1> DEFINE n == Len(m)
<1>1. PICK f : Builds(m, f) /\ Expand(m) = f[n]
  BY ExpandBuilds
<1>2. n \in Nat /\ Expand(m) \in Seq(Codes) /\ (m = <<>> => Expand(m) = <<>>)
  BY <1>1 DEF Builds
<1>3. ASSUME m # <<>> PROVE Expand(m) = Piece(Head(m)) \o Expand(Tail(m))
  <2> DEFINE t == Tail(m)
             first == Piece(Head(m))
  <2>1. n \in Nat /\ n >= 1 /\ t \in Seq(Input) /\ Len(t) = n - 1 /\ Head(m) = m[1] /\ Head(m) \in Input
        /\ \A i \in 1 .. n - 1 : t[i] = m[i + 1]
    BY <1>3
  <2>2. PICK g : Builds(t, g) /\ Expand(t) = g[n - 1]
    BY <2>1, ExpandBuilds
  <2>3. first \in Seq(Codes) /\ \A i \in 1 .. n - 1 : Piece(t[i]) \in Seq(Codes)
    BY <2>1, Pieces
  <2> HIDE DEF n, t, first
  <2> DEFINE Off == {i \in 0 .. n - 1 : f[i + 1] # first \o g[i]}
  <2>4. Off = {}
    <3> SUFFICES ASSUME Off # {} PROVE FALSE
      OBVIOUS
    <3>1. Off \subseteq Nat
      BY <2>1
    <3>2. PICK i \in Off : \A k \in Off : ~(<<k, i>> \in OpToRel(<, Nat))
      BY <3>1, NatLessThanWellFounded, WFMin
    <3>3. \A k \in Off : ~(k < i)
      BY <3>1, <3>2 DEF OpToRel
    <3>6. i \in 0 .. n - 1 /\ f[i + 1] # first \o g[i]
      BY <3>2
    <3> HIDE DEF Off
    <3>4. CASE i = 0
      <4>3. 1 \in 1 .. n /\ 1 - 1 = 0
        BY <2>1
      <4>1. f[1] = f[0] \o Piece(m[1]) /\ f[0] = <<>> /\ g[0] = <<>>
        BY <1>1, <2>2, <4>3 DEF Builds, n
      <4>2. f[1] = first /\ first \o g[0] = first
        BY <2>1, <2>3, <4>1, ConcatEmptySeq DEF first
      <4> QED
        BY <3>4, <3>6, <4>2
    <3>5. CASE i # 0
      <4>1. i \in 1 .. n - 1 /\ i - 1 \in 0 .. n - 1 /\ i - 1 < i /\ i + 1 \in 1 .. n
        BY <2>1, <3>5, <3>6
      <4>7. i - 1 + 1 = i /\ i + 1 - 1 = i
        BY <2>1, <3>6
      <4>2. f[i] = first \o g[i - 1]
        BY <3>3, <4>1, <4>7 DEF Off
      <4>3. f[i + 1] = f[i] \o Piece(m[i + 1])
        <5>1. \A k \in 1 .. n : f[k] = f[k - 1] \o Piece(m[k])
          BY <1>1 DEF Builds, n
        <5> DEFINE k == i + 1
        <5>2. k \in 1 .. n /\ k - 1 = i
          BY <4>1, <4>7
        <5> HIDE DEF k
        <5>3. f[k] = f[k - 1] \o Piece(m[k])
          BY <5>1, <5>2
        <5> QED
          BY <5>2, <5>3 DEF k
      <4>4. g[i] = g[i - 1] \o Piece(t[i]) /\ g[i - 1] \in Seq(Codes)
        BY <2>1, <2>2, <4>1 DEF Builds
      <4>5. (first \o g[i - 1]) \o Piece(t[i]) = first \o (g[i - 1] \o Piece(t[i]))
        <5> DEFINE b == g[i - 1]
                   c == Piece(t[i])
        <5>1. b \in Seq(Codes) /\ c \in Seq(Codes)
          BY <2>3, <4>1, <4>4
        <5> HIDE DEF b, c
        <5>2. (first \o b) \o c = first \o (b \o c)
          BY <2>3, <5>1, Regrouped
        <5> QED
          BY <5>2 DEF b, c
      <4>6. t[i] = m[i + 1]
        BY <2>1, <4>1
      <4> QED
        BY <3>6, <4>2, <4>3, <4>4, <4>5, <4>6
    <3> QED
      BY <3>4, <3>5
  <2>5. n - 1 \in 0 .. n - 1 /\ n - 1 + 1 = n
    BY <2>1
  <2>6. f[n] = first \o g[n - 1]
    BY <2>4, <2>5
  <2> QED
    BY <1>1, <2>2, <2>6 DEF first, t
<1> QED
  BY <1>2, <1>3
---------------------------------------------------------------------------
(* The ring.                                                               *)

Chars == Codes \cup {"NUL"}

\* What lies between the tail t and the head h.
Held(h, t, b) == [i \in 1 .. (h - t) % TTY_BUF_SIZE |-> b[(t + i - 1) % TTY_BUF_SIZE]]

\* The remainder of a number that is less than once around.
LEMMA Remainder ==
  ASSUME NEW n \in Nat, n > 0, NEW i \in Int
  PROVE  /\ -n <= i /\ i < 0 => i % n = i + n
         /\ 0 <= i /\ i < n => i % n = i
         /\ n <= i /\ i < n + n => i % n = i - n
<1> DEFINE q == i \div n
           r == i % n
<1>1. q \in Int /\ r \in 0 .. n - 1 /\ i = n * q + r
  OBVIOUS
<1> HIDE DEF q, r
<1>2. q <= -2 => n * q <= n * (-2)
  BY <1>1
<1>3. q >= 2 => n * q >= n * 2
  BY <1>1
<1>4. q \in {-1, 0, 1} \/ q <= -2 \/ q >= 2
  BY <1>1
<1>5. -n <= i /\ i < n + n => q \in {-1, 0, 1}
  BY <1>1, <1>2, <1>3, <1>4
<1>6. n * (-1) = -n /\ n * 0 = 0 /\ n * 1 = n
  OBVIOUS
<1>7. -n <= i /\ i < n + n => r = i + n \/ r = i \/ r = i - n
  BY <1>1, <1>5, <1>6
<1>8. /\ -n <= i /\ i < 0 => r = i + n
      /\ 0 <= i /\ i < n => r = i
      /\ n <= i /\ i < n + n => r = i - n
  BY <1>1, <1>7
<1> QED
  BY <1>8 DEF r

\* Going around.
LEMMA Ring == TTY_BUF_SIZE \in Nat /\ TTY_BUF_SIZE > 1 /\ Slots = 0 .. TTY_BUF_SIZE - 1
  BY TtyAssumption DEF Slots

\* INC on the ring.
LEMMA Around ==
  ASSUME NEW h \in Slots
  PROVE  Succ(h) \in Slots /\ Succ(h) = IF h + 1 = TTY_BUF_SIZE THEN 0 ELSE h + 1
<1>1. h + 1 \in Int /\ 0 <= h + 1 /\ h + 1 < TTY_BUF_SIZE + TTY_BUF_SIZE
  BY Ring
<1>2. (h + 1) % TTY_BUF_SIZE = IF h + 1 = TTY_BUF_SIZE THEN 0 ELSE h + 1
  BY <1>1, Ring, Remainder
<1> QED
  BY <1>2, Ring DEF Succ

\* How many there are from the tail t to the head h, and where the i-th of them is.
LEMMA Distance ==
  ASSUME NEW h \in Slots, NEW t \in Slots
  PROVE  (h - t) % TTY_BUF_SIZE = IF h < t THEN h - t + TTY_BUF_SIZE ELSE h - t
<1>1. h - t \in Int /\ -TTY_BUF_SIZE <= h - t /\ h - t < TTY_BUF_SIZE /\ (h - t < 0 <=> h < t)
  BY Ring
<1> DEFINE i == h - t
<1> HIDE DEF i
<1>2. i % TTY_BUF_SIZE = IF i < 0 THEN i + TTY_BUF_SIZE ELSE i
  BY <1>1, Ring, Remainder DEF i
<1> QED
  BY <1>1, <1>2 DEF i

\* The slot of the k-th character behind tail.
LEMMA PlaceAt ==
  ASSUME NEW t \in Slots, NEW k \in 1 .. TTY_BUF_SIZE
  PROVE  /\ (t + k - 1) % TTY_BUF_SIZE \in Slots
         /\ (t + k - 1) % TTY_BUF_SIZE = IF t + k - 1 < TTY_BUF_SIZE THEN t + k - 1
                                         ELSE t + k - 1 - TTY_BUF_SIZE
<1> DEFINE i == t + k - 1
<1>1. i \in Int /\ 0 <= i /\ i < TTY_BUF_SIZE + TTY_BUF_SIZE
  BY Ring
<1>4. t + k - 1 = i
  OBVIOUS
<1> HIDE DEF i
<1>2. i % TTY_BUF_SIZE = IF i < TTY_BUF_SIZE THEN i ELSE i - TTY_BUF_SIZE
  BY <1>1, Ring, Remainder
<1>3. i % TTY_BUF_SIZE \in Slots
  BY <1>1, <1>2, Ring
<1>5. (t + k - 1) % TTY_BUF_SIZE = i % TTY_BUF_SIZE
  BY <1>4, Zenon
<1>6. i % TTY_BUF_SIZE = IF t + k - 1 < TTY_BUF_SIZE THEN t + k - 1
                         ELSE t + k - 1 - TTY_BUF_SIZE
  BY <1>1, <1>2, <1>4, Ring
<1> QED
  BY <1>3, <1>5, <1>6, Zenon

\* What lies between tail and head is a sequence of at most a ring less one.
LEMMA HeldType ==
  ASSUME NEW h \in Slots, NEW t \in Slots, NEW b \in [Slots -> Chars]
  PROVE  /\ Held(h, t, b) \in Seq(Chars) /\ Len(Held(h, t, b)) = (h - t) % TTY_BUF_SIZE
         /\ (h - t) % TTY_BUF_SIZE \in Slots
         /\ h = t <=> (h - t) % TTY_BUF_SIZE = 0
         /\ h = t => Held(h, t, b) = <<>>
<1> DEFINE n == (h - t) % TTY_BUF_SIZE
           place(i) == (t + i - 1) % TTY_BUF_SIZE
<1>1. n \in Nat /\ n < TTY_BUF_SIZE /\ (h = t <=> n = 0) /\ n \in Slots
  BY Ring, Distance
<1>2. ASSUME NEW i \in 1 .. n PROVE place(i) \in Slots
  <2>1. i \in 1 .. TTY_BUF_SIZE
    BY <1>1, Ring
  <2> QED
    BY <2>1, PlaceAt
<1> HIDE DEF n, place
<1>5. \A i \in 1 .. n : b[place(i)] \in Chars
  BY <1>2
<1>3. [i \in 1 .. n |-> b[place(i)]] \in Seq(Chars) /\ Len([i \in 1 .. n |-> b[place(i)]]) = n
  BY <1>1, <1>5
<1>4. n = 0 => [i \in 1 .. n |-> b[place(i)]] = <<>>
  BY <1>3
<1> QED
  BY <1>1, <1>3, <1>4 DEF Held, n, place

\* A character at the head, which is in the queue when the head moves on.
LEMMA HeldPut ==
  ASSUME NEW h \in Slots, NEW t \in Slots, NEW b \in [Slots -> Chars], NEW c \in Chars,
         t # Succ(h)
  PROVE  /\ Held(h, t, [b EXCEPT ![h] = c]) = Held(h, t, b)
         /\ Held(Succ(h), t, b) = Held(h, t, b) \o <<b[h]>>
<1> DEFINE n == (h - t) % TTY_BUF_SIZE
           place(i) == (t + i - 1) % TTY_BUF_SIZE
<1>1. /\ n \in Nat /\ n + 1 < TTY_BUF_SIZE /\ (Succ(h) - t) % TTY_BUF_SIZE = n + 1
      /\ TTY_BUF_SIZE \in Nat
  <2>1. Succ(h) \in Slots
    BY Around
  <2>2. (Succ(h) - t) % TTY_BUF_SIZE = IF Succ(h) < t THEN Succ(h) - t + TTY_BUF_SIZE ELSE Succ(h) - t
    BY <2>1, Distance
  <2>3. n = IF h < t THEN h - t + TTY_BUF_SIZE ELSE h - t
    BY Distance
  <2>4. Succ(h) = IF h + 1 = TTY_BUF_SIZE THEN 0 ELSE h + 1
    BY Around
  <2> HIDE DEF n
  <2> QED
    BY <2>2, <2>3, <2>4, Ring
<1>2. place(n + 1) = h /\ \A i \in 1 .. n : place(i) \in Slots /\ place(i) # h
  <2>1. n + 1 \in 1 .. TTY_BUF_SIZE /\ \A i \in 1 .. n : i \in 1 .. TTY_BUF_SIZE
    BY <1>1
  <2>4. n = IF h < t THEN h - t + TTY_BUF_SIZE ELSE h - t
    BY Distance
  <2>5. place(n + 1) = IF t + (n + 1) - 1 < TTY_BUF_SIZE THEN t + (n + 1) - 1
                       ELSE t + (n + 1) - 1 - TTY_BUF_SIZE
    BY <2>1, PlaceAt
  <2>2. place(n + 1) = h
    <3> HIDE DEF n, place
    <3> QED
      BY <1>1, <2>4, <2>5, Ring
  <2>3. ASSUME NEW i \in 1 .. n PROVE place(i) \in Slots /\ place(i) # h
    <3>1. /\ place(i) \in Slots
          /\ place(i) = IF t + i - 1 < TTY_BUF_SIZE THEN t + i - 1 ELSE t + i - 1 - TTY_BUF_SIZE
      BY <2>1, PlaceAt
    <3> HIDE DEF n, place
    <3> QED
      BY <1>1, <2>4, <3>1, Ring
  <2> QED
    BY <2>2, <2>3
<1>3. Held(Succ(h), t, b) = [i \in 1 .. n + 1 |-> b[place(i)]] /\ Held(h, t, b) = [i \in 1 .. n |-> b[place(i)]]
  BY <1>1 DEF Held
<1>4. Held(h, t, [b EXCEPT ![h] = c]) = [i \in 1 .. n |-> [b EXCEPT ![h] = c][place(i)]]
  BY DEF Held
<1> HIDE DEF n, place
<1>5. [i \in 1 .. n |-> [b EXCEPT ![h] = c][place(i)]] = [i \in 1 .. n |-> b[place(i)]]
  BY <1>2
<1>6. [i \in 1 .. n + 1 |-> b[place(i)]] = [i \in 1 .. n |-> b[place(i)]] \o <<b[h]>>
  <2>1. [i \in 1 .. n |-> b[place(i)]] \in Seq(Chars) /\ Len([i \in 1 .. n |-> b[place(i)]]) = n
        /\ b[h] \in Chars
    BY <1>1, <1>2
  <2>2. [i \in 1 .. n + 1 |-> b[place(i)]] \in Seq(Chars)
    BY <1>1, <1>2
  <2> QED
    BY <1>1, <1>2, <2>1, <2>2
<1> QED
  BY <1>3, <1>4, <1>5, <1>6

\* A character taken from the tail.
LEMMA HeldTake ==
  ASSUME NEW h \in Slots, NEW t \in Slots, NEW b \in [Slots -> Chars], h # t
  PROVE  /\ Held(h, t, b) = <<b[t]>> \o Held(h, Succ(t), b)
         /\ (h - Succ(t)) % TTY_BUF_SIZE = ((h - t) % TTY_BUF_SIZE) - 1
<1> DEFINE n == (h - t) % TTY_BUF_SIZE
           place(i) == (t + i - 1) % TTY_BUF_SIZE
           next(i) == (Succ(t) + i - 1) % TTY_BUF_SIZE
<1>1. Succ(t) \in Slots
  BY Around
<1>2. /\ n \in Nat /\ n > 0 /\ n < TTY_BUF_SIZE /\ (h - Succ(t)) % TTY_BUF_SIZE = n - 1
      /\ TTY_BUF_SIZE \in Nat
  <2>1. (h - Succ(t)) % TTY_BUF_SIZE = IF h < Succ(t) THEN h - Succ(t) + TTY_BUF_SIZE ELSE h - Succ(t)
    BY <1>1, Distance
  <2>2. Succ(t) = IF t + 1 = TTY_BUF_SIZE THEN 0 ELSE t + 1
    BY Around
  <2>3. n = IF h < t THEN h - t + TTY_BUF_SIZE ELSE h - t
    BY Distance
  <2> HIDE DEF n
  <2> QED
    BY <2>1, <2>2, <2>3, Ring
<1>3. place(1) = t /\ (\A i \in 1 .. n : place(i) \in Slots) /\ \A i \in 1 .. n - 1 : next(i) = place(i + 1)
  <2>1. \A i \in 1 .. n : i \in 1 .. TTY_BUF_SIZE
    BY <1>2
  <2>2. 1 \in 1 .. TTY_BUF_SIZE
    BY <1>2
  <2>3. place(1) = t
    <3>1. place(1) = IF t + 1 - 1 < TTY_BUF_SIZE THEN t + 1 - 1 ELSE t + 1 - 1 - TTY_BUF_SIZE
      BY <2>2, PlaceAt
    <3> HIDE DEF place
    <3> QED
      BY <3>1, Ring
  <2>4. ASSUME NEW i \in 1 .. n PROVE place(i) \in Slots
    BY <2>1, PlaceAt
  <2>5. ASSUME NEW i \in 1 .. n - 1 PROVE next(i) = place(i + 1)
    <3>1. i \in 1 .. TTY_BUF_SIZE /\ i + 1 \in 1 .. TTY_BUF_SIZE /\ i \in Nat
      BY <1>2
    <3>2. next(i) = IF Succ(t) + i - 1 < TTY_BUF_SIZE THEN Succ(t) + i - 1
                    ELSE Succ(t) + i - 1 - TTY_BUF_SIZE
      BY <1>1, <3>1, PlaceAt
    <3>3. place(i + 1) = IF t + (i + 1) - 1 < TTY_BUF_SIZE THEN t + (i + 1) - 1
                         ELSE t + (i + 1) - 1 - TTY_BUF_SIZE
      BY <3>1, PlaceAt
    <3>4. Succ(t) = IF t + 1 = TTY_BUF_SIZE THEN 0 ELSE t + 1
      BY Around
    <3> HIDE DEF next, place
    <3> QED
      BY <3>1, <3>2, <3>3, <3>4, Ring
  <2> QED
    BY <2>3, <2>4, <2>5
<1>4. Held(h, t, b) = [i \in 1 .. n |-> b[place(i)]] /\ Held(h, Succ(t), b) = [i \in 1 .. n - 1 |-> b[next(i)]]
  BY <1>2 DEF Held
<1> HIDE DEF n, place, next
<1>5. [i \in 1 .. n |-> b[place(i)]] = <<b[t]>> \o [i \in 1 .. n - 1 |-> b[next(i)]]
  <2>1. \A i \in 1 .. n - 1 : i + 1 \in 1 .. n /\ b[next(i)] = b[place(i + 1)] /\ b[next(i)] \in Chars
    BY <1>2, <1>3
  <2>2. [i \in 1 .. n - 1 |-> b[next(i)]] \in Seq(Chars) /\ Len([i \in 1 .. n - 1 |-> b[next(i)]]) = n - 1
        /\ b[t] \in Chars
    BY <1>2, <2>1
  <2>3. [i \in 1 .. n |-> b[place(i)]] \in Seq(Chars)
    BY <1>2, <1>3
  <2> QED
    BY <1>2, <1>3, <2>1, <2>2, <2>3
<1> QED
  BY <1>2, <1>4, <1>5 DEF n
---------------------------------------------------------------------------
(* The writers of the console that nobody interrupts.                      *)

\* What a call has still to put into the queue.
Left(r) == IF r.crFlag THEN <<"LF">> \o Expand(Tail(r.b)) ELSE Expand(r.b)

Calls == [at : {"idle", "test", "store", "advance", "count", "take"},
          b : Seq(Input), crFlag : BOOLEAN, c : Chars, nr : Slots]

QueueTypes ==
  /\ head \in Slots /\ tail \in Slots /\ buf \in [Slots -> Chars]
  /\ writer \in [Writers -> Calls]
  /\ printed \in Seq(Chars) /\ sent \in Seq(Chars)

Idle(w) == writer[w].at = "idle"

\* Everything that was written has been printed, is in the queue, or is what
\* the call in progress has still to store.
Accounted(r) == sent = printed \o (Held(head, tail, buf) \o Left(r))

\* What a call in progress knows at each place.
Working(r) ==
  /\ Accounted(r)
  /\ r.crFlag => r.b # <<>> /\ Head(r.b) = "LF"
  /\ r.at \in {"store", "advance"} =>
       r.b # <<>> /\ ~Full /\ r.c = IF NeedsCr(r) THEN "CR" ELSE Head(r.b)
  /\ r.at = "advance" => buf[head] = r.c
  /\ r.at = "take" => r.nr = (head - tail) % TTY_BUF_SIZE

TtyInv ==
  /\ QueueTypes /\ Inv
  /\ \A w, u \in Writers : ~Idle(w) /\ ~Idle(u) => w = u
  /\ \A w \in Writers : ~Idle(w) => Working(writer[w])
  /\ (\A w \in Writers : Idle(w)) => printed = sent /\ head = tail /\ crt.cursor = Cell(pos)

\* What a message and a queue consist of.
LEMMA TextTypes ==
  /\ Input \subseteq Chars /\ Codes \subseteq Chars /\ "CR" \in Chars /\ "NUL" \in Chars
  /\ \A s : s \in Seq(Codes) => s \in Seq(Chars)
  BY DEF Input, Chars, Codes

\* What a call has still to store is a text, and nothing at the end of the message.
LEMMA LeftType ==
  ASSUME NEW r \in Calls, r.crFlag => r.b # <<>> /\ Head(r.b) = "LF"
  PROVE  /\ Left(r) \in Seq(Chars)
         /\ r.b = <<>> => Left(r) = <<>>
<1>1. r.b \in Seq(Input) /\ r.crFlag \in BOOLEAN
  BY DEF Calls
<1>2. CASE r.crFlag
  <2>1. Tail(r.b) \in Seq(Input) /\ "LF" \in Input
    BY <1>1, <1>2
  <2>2. Expand(Tail(r.b)) \in Seq(Chars) /\ <<"LF">> \in Seq(Chars)
    <3>1. Expand(Tail(r.b)) \in Seq(Chars)
      BY <2>1, ExpandFirst, TextTypes
    <3>2. "LF" \in Chars
      BY <2>1, TextTypes
    <3> QED
      BY <3>1, <3>2
  <2> QED
    BY <1>2, <2>2, ConcatProperties DEF Left
<1>3. CASE ~r.crFlag
  BY <1>1, <1>3, ExpandFirst, TextTypes DEF Left
<1> QED
  BY <1>1, <1>2, <1>3

\* The character that is stored next is the first of what is left, also where a CR
\* goes before it.
LEMMA LeftStep ==
  ASSUME Line = "console", NEW r \in Calls, NEW q \in Calls, r.b # <<>>,
         r.crFlag => Head(r.b) = "LF",
         q.crFlag = NeedsCr(r), q.b = IF NeedsCr(r) THEN r.b ELSE Tail(r.b)
  PROVE  Left(r) = <<IF NeedsCr(r) THEN "CR" ELSE Head(r.b)>> \o Left(q)
<1> DEFINE rest == Expand(Tail(r.b))
           c == Head(r.b)
<1>1. /\ r.b \in Seq(Input) /\ Tail(r.b) \in Seq(Input) /\ r.crFlag \in BOOLEAN /\ c \in Input
  BY DEF Calls
<1>2. Expand(r.b) = Piece(c) \o rest /\ rest \in Seq(Chars)
  BY <1>1, ExpandFirst, TextTypes
<1>3. c \in Chars /\ "CR" \in Chars /\ <<"CR">> \in Seq(Chars) /\ <<c>> \in Seq(Chars)
  BY <1>1, TextTypes
<1>4. NeedsCr(r) <=> c = "LF" /\ ~r.crFlag
  BY DEF NeedsCr
<1> HIDE DEF rest, c
<1>5. CASE NeedsCr(r)
  <2>1. Left(r) = Expand(r.b) /\ Left(q) = <<"LF">> \o rest /\ c = "LF"
    BY <1>1, <1>4, <1>5 DEF Left, rest
  <2>2. Piece(c) = <<"CR", "LF">>
    BY <2>1 DEF Piece
  <2>3. <<"CR", "LF">> \o rest = <<"CR">> \o (<<"LF">> \o rest)
    <3>1. <<"CR", "LF">> = <<"CR">> \o <<"LF">>
      OBVIOUS
    <3>2. <<"LF">> \in Seq(Chars)
      BY <1>3, <2>1
    <3> QED
      BY <1>2, <1>3, <3>1, <3>2, Regrouped
  <2> QED
    BY <1>2, <1>5, <2>1, <2>2, <2>3 DEF c
<1>6. CASE ~NeedsCr(r)
  <2>1. Left(q) = rest
    BY <1>6 DEF Left, rest
  <2>2. CASE r.crFlag
    <3>1. Left(r) = <<"LF">> \o rest /\ c = "LF"
      BY <2>2 DEF Left, rest, c
    <3> QED
      BY <1>6, <2>1, <3>1 DEF c
  <2>3. CASE ~r.crFlag
    <3>1. Left(r) = Expand(r.b) /\ Piece(c) = <<c>>
      BY <1>4, <1>6, <2>3 DEF Left, Piece
    <3> QED
      BY <1>2, <1>6, <2>1, <3>1 DEF c
  <2> QED
    BY <1>1, <2>2, <2>3
<1> QED
  BY <1>5, <1>6

\* A step that leaves the queue alone and keeps what is left.
LEMMA Proceeds ==
  ASSUME NEW r, NEW q, Accounted(r), Left(q) = Left(r),
         UNCHANGED <<queue, sent, printed>>
  PROVE  sent' = printed' \o (Held(head', tail', buf') \o Left(q))
  BY DEF Accounted, queue

\* Only the one who is at work does a step.
LEMMA OthersIdle ==
  ASSUME TtyInv, ~Preemptible, NEW w \in Writers, NEW place, At(w, place)
  PROVE  \A u \in Writers \ {w} : Idle(u)
  BY DEF At, Idle

\* After a step of w, the rest is about w.
LEMMA StepInv ==
  ASSUME TtyInv, NEW w \in Writers, NEW q \in Calls, Now(w, q), \A u \in Writers \ {w} : Idle(u),
         head' \in Slots, tail' \in Slots, buf' \in [Slots -> Chars],
         printed' \in Seq(Chars), sent' \in Seq(Chars), Inv',
         q.at # "idle" => Working(q)',
         q.at = "idle" => printed' = sent' /\ head' = tail' /\ crt'.cursor = Cell(pos')
  PROVE  TtyInv'
<1>1. /\ writer' \in [Writers -> Calls] /\ writer'[w] = q
      /\ \A u \in Writers \ {w} : writer'[u] = writer[u]
  BY DEF TtyInv, QueueTypes, Now
<1>2. \A u \in Writers \ {w} : Idle(u)'
  BY <1>1 DEF Idle
<1>3. QueueTypes'
  BY <1>1 DEF QueueTypes
<1>4. Idle(w)' <=> q.at = "idle"
  BY <1>1 DEF Idle
<1>5. ASSUME NEW u \in Writers, ~Idle(u)' PROVE Working(writer[u])'
  <2>1. u = w
    BY <1>2, <1>5
  <2>2. writer'[u] = q /\ q.at # "idle"
    BY <1>1, <1>4, <1>5, <2>1
  <2>3. Working(q)'
    BY <2>2
  <2> QED
    BY <2>2, <2>3 DEF Working, Accounted
<1>6. (\A u \in Writers : Idle(u)') => printed' = sent' /\ head' = tail' /\ crt'.cursor = Cell(pos')
  BY <1>4
<1>7. \A u, v \in Writers : ~Idle(u)' /\ ~Idle(v)' => u = v
  BY <1>2
<1> QED
  BY <1>3, <1>5, <1>6, <1>7 DEF TtyInv, Cell

\* ttyWrite begins with the whole message still to store.
LEMMA CallStep ==
  ASSUME TtyInv, ~Preemptible, NEW w \in Writers, NEW m \in Messages, Call(w, m)
  PROVE  TtyInv'
<1>0. PICK q : q = [Returned EXCEPT !.at = "test", !.b = m]
  OBVIOUS
<1>1. /\ At(w, "idle") /\ m # <<>> /\ Now(w, q) /\ sent' = sent \o Expand(m)
      /\ UNCHANGED <<vars, head, tail, buf, printed>>
  BY <1>0 DEF Call, queue
<1>2. /\ head \in Slots /\ tail \in Slots /\ buf \in [Slots -> Chars]
      /\ printed \in Seq(Chars) /\ sent \in Seq(Chars) /\ Inv
  BY DEF TtyInv, QueueTypes
<1>3. m \in Seq(Input) /\ q = [at |-> "test", b |-> m, crFlag |-> FALSE, c |-> "NUL", nr |-> 0]
  BY <1>0, TtyAssumption DEF Returned, Input
<1>4. q \in Calls
  BY <1>3, TextTypes, Ring DEF Calls
<1>5. (\A u \in Writers \ {w} : Idle(u)) /\ \A u \in Writers : Idle(u)
  BY <1>1, OthersIdle DEF At, Idle
<1>6. printed = sent /\ head = tail
  BY <1>5 DEF TtyInv
<1>7. Expand(m) \in Seq(Chars) /\ Left(q) = Expand(m)
  BY <1>3, ExpandFirst, TextTypes DEF Left
<1>8. sent' \in Seq(Chars)
  BY <1>1, <1>2, <1>7
<1>9. sent' = printed' \o (Held(head', tail', buf') \o Left(q))
  <2>1. Held(head, tail, buf) = <<>>
    BY <1>2, <1>6, HeldType
  <2>2. <<>> \o Expand(m) = Expand(m)
    BY <1>7
  <2> QED
    BY <1>1, <1>6, <1>7, <2>1, <2>2
<1>10. Inv'
  BY <1>1, <1>2, NothingInv
<1>11. Working(q)' /\ q.at = "test"
  BY <1>3, <1>9 DEF Working, Accounted
<1> QED
  BY <1>1, <1>2, <1>4, <1>5, <1>8, <1>10, <1>11, StepInv

\* What is known of a call that goes on.
LEMMA AtWork ==
  ASSUME TtyInv, ~Preemptible, NEW w \in Writers, NEW place \in {"test", "store", "advance", "count", "take"},
         At(w, place)
  PROVE  /\ writer[w] \in Calls /\ writer[w].at = place /\ Working(writer[w])
         /\ writer[w].b \in Seq(Input) /\ writer[w].crFlag \in BOOLEAN
         /\ head \in Slots /\ tail \in Slots /\ buf \in [Slots -> Chars]
         /\ printed \in Seq(Chars) /\ sent \in Seq(Chars) /\ Inv
         /\ \A u \in Writers \ {w} : Idle(u)
<1>1. writer[w] \in Calls /\ writer[w].at = place /\ ~Idle(w)
  BY DEF TtyInv, QueueTypes, At, Idle
<1> QED
  BY <1>1, OthersIdle DEF TtyInv, QueueTypes, Calls

\* ttyWrite looks at the queue: it goes on storing, or lets conWrite take what there is.
LEMMA TestStep ==
  ASSUME TtyInv, ~Preemptible, NEW w \in Writers, Test(w)
  PROVE  TtyInv'
<1> DEFINE r == writer[w]
<1>0. PICK q : q = IF r.b = <<>> \/ Full THEN [r EXCEPT !.at = "count"]
                    ELSE [r EXCEPT !.at = "store", !.c = IF NeedsCr(r) THEN "CR" ELSE Head(r.b)]
  OBVIOUS
<1>1. /\ At(w, "test") /\ Now(w, q) /\ UNCHANGED <<vars, head, tail, buf, sent, printed>>
  BY <1>0 DEF Test, queue
<1>2. /\ r \in Calls /\ r.at = "test" /\ Working(r) /\ r.b \in Seq(Input)
      /\ head \in Slots /\ tail \in Slots /\ buf \in [Slots -> Chars]
      /\ printed \in Seq(Chars) /\ sent \in Seq(Chars) /\ Inv
      /\ \A u \in Writers \ {w} : Idle(u)
  BY <1>1, AtWork
<1>3. /\ q.b = r.b /\ q.crFlag = r.crFlag /\ q.at \in {"count", "store"}
      /\ q.at = "store" => r.b # <<>> /\ ~Full /\ q.c = IF NeedsCr(r) THEN "CR" ELSE Head(r.b)
      /\ q \in Calls
  <2>1. r.b # <<>> => Head(r.b) \in Chars
    BY <1>2, TextTypes
  <2> QED
    BY <1>0, <1>2, <2>1, TextTypes DEF Calls
<1>4. Left(q) = Left(r) /\ NeedsCr(q) = NeedsCr(r)
  BY <1>3 DEF Left, NeedsCr
<1>5. sent' = printed' \o (Held(head', tail', buf') \o Left(q))
  BY <1>1, <1>2, <1>4 DEF Working, Accounted
<1>6. Full' = Full
  BY <1>1 DEF Full, Succ
<1>7. Working(q)'
  BY <1>2, <1>3, <1>4, <1>5, <1>6 DEF Working, Accounted, NeedsCr
<1>8. Inv'
  BY <1>1, <1>2, NothingInv
<1> QED
  BY <1>1, <1>2, <1>3, <1>7, <1>8, StepInv

\* A character is written into the slot at head, which nobody reads yet.
LEMMA StoreStep ==
  ASSUME TtyInv, ~Preemptible, NEW w \in Writers, Store(w)
  PROVE  TtyInv'
<1> DEFINE r == writer[w]
<1>0. PICK q : q = [r EXCEPT !.at = "advance"]
  OBVIOUS
<1>1. /\ At(w, "store") /\ Now(w, q) /\ UNCHANGED <<vars, head, tail, sent, printed>>
      /\ buf' = [buf EXCEPT ![head] = r.c]
  BY <1>0 DEF Store
<1>2. /\ r \in Calls /\ r.at = "store" /\ Working(r) /\ r.b \in Seq(Input)
      /\ head \in Slots /\ tail \in Slots /\ buf \in [Slots -> Chars]
      /\ printed \in Seq(Chars) /\ sent \in Seq(Chars) /\ Inv
      /\ \A u \in Writers \ {w} : Idle(u)
  BY <1>1, AtWork
<1>3. /\ q.b = r.b /\ q.crFlag = r.crFlag /\ q.at = "advance" /\ q.c = r.c /\ q \in Calls /\ r.c \in Chars
  BY <1>0, <1>2 DEF Calls
<1>4. Left(q) = Left(r) /\ NeedsCr(q) = NeedsCr(r) /\ Full' = Full
  BY <1>1, <1>3 DEF Left, NeedsCr, Full, Succ
<1>5. sent' = printed' \o (Held(head', tail', buf') \o Left(q))
  <2>1. Held(head, tail, [buf EXCEPT ![head] = r.c]) = Held(head, tail, buf)
    BY <1>2, <1>3, HeldPut DEF Working, Full
  <2> QED
    BY <1>1, <1>2, <1>4, <2>1 DEF Working, Accounted
<1>6. buf' \in [Slots -> Chars] /\ buf'[head'] = r.c
  BY <1>1, <1>2, <1>3
<1>7. Working(q)'
  BY <1>2, <1>3, <1>4, <1>5, <1>6 DEF Working, Accounted, NeedsCr
<1>8. Inv'
  BY <1>1, <1>2, NothingInv
<1> QED
  BY <1>1, <1>2, <1>3, <1>6, <1>7, <1>8, StepInv

\* head advances: one more character is held, and one fewer is left.
LEMMA AdvanceStep ==
  ASSUME TtyInv, ~Preemptible, Line = "console", NEW w \in Writers, Advance(w)
  PROVE  TtyInv'
<1> DEFINE r == writer[w]
           H == Held(head, tail, buf)
           P == printed
<1>0. PICK q : q = IF NeedsCr(r) THEN [r EXCEPT !.at = "test", !.crFlag = TRUE]
                    ELSE [r EXCEPT !.at = "test", !.crFlag = FALSE, !.b = Tail(@)]
  OBVIOUS
<1> DEFINE L == Left(q)
<1>1. /\ At(w, "advance") /\ Now(w, q) /\ UNCHANGED <<vars, tail, buf, sent, printed>>
      /\ head' = Succ(head)
  BY <1>0 DEF Advance
<1>2. /\ r \in Calls /\ r.at = "advance" /\ Working(r) /\ r.b \in Seq(Input)
      /\ head \in Slots /\ tail \in Slots /\ buf \in [Slots -> Chars]
      /\ P \in Seq(Chars) /\ sent \in Seq(Chars) /\ Inv
      /\ \A u \in Writers \ {w} : Idle(u)
  BY <1>1, AtWork
<1>3. /\ q.crFlag = NeedsCr(r) /\ q.b = IF NeedsCr(r) THEN r.b ELSE Tail(r.b)
      /\ q \in Calls /\ q.at = "test" /\ r.b # <<>> /\ (NeedsCr(r) => Head(r.b) = "LF")
  <2>1. r.b # <<>> /\ (NeedsCr(r) => Head(r.b) = "LF")
    BY <1>2 DEF Working, NeedsCr
  <2>2. Tail(r.b) \in Seq(Input)
    BY <1>2, <2>1
  <2>3. CASE NeedsCr(r)
    BY <1>0, <1>2, <2>1, <2>3 DEF Calls
  <2>4. CASE ~NeedsCr(r)
    <3> DEFINE t == Tail(r.b)
    <3>1. t \in Seq(Input) /\ q = [r EXCEPT !.at = "test", !.crFlag = FALSE, !.b = t]
      BY <1>0, <2>2, <2>4
    <3> HIDE DEF t
    <3>2. q \in Calls /\ q.at = "test" /\ q.crFlag = FALSE /\ q.b = t
      BY <1>2, <3>1 DEF Calls
    <3>3. q.crFlag = NeedsCr(r)
      BY <2>4, <3>2 DEF NeedsCr
    <3> QED
      BY <2>1, <2>4, <3>2, <3>3 DEF t
  <2> QED
    BY <2>1, <2>3, <2>4
<1>4. Left(r) = <<buf[head]>> \o L /\ L \in Seq(Chars)
  <2>1. q.crFlag => q.b # <<>> /\ Head(q.b) = "LF"
    BY <1>3
  <2> QED
    BY <1>2, <1>3, <2>1, LeftStep, LeftType DEF Working
<1>5. buf[head] \in Chars /\ Succ(head) \in Slots /\ tail # Succ(head)
  BY <1>2, Around DEF Working, Full
<1>6. Held(Succ(head), tail, buf) = H \o <<buf[head]>> /\ H \in Seq(Chars)
  BY <1>2, <1>5, HeldPut, HeldType
<1>7. sent' = printed' \o (Held(head', tail', buf') \o L)
  <2>1. sent = P \o (H \o (<<buf[head]>> \o L))
    BY <1>2, <1>4 DEF Working, Accounted
  <2>2. <<buf[head]>> \in Seq(Chars)
    BY <1>5
  <2> HIDE DEF H, L, P
  <2>3. (H \o <<buf[head]>>) \o L = H \o (<<buf[head]>> \o L)
    BY <1>4, <1>6, <2>2, Regrouped
  <2> QED
    BY <1>1, <1>6, <2>1, <2>3 DEF P
<1>8. Working(q)'
  BY <1>3, <1>7 DEF Working, Accounted
<1>9. Inv'
  BY <1>1, <1>2, NothingInv
<1> QED
  BY <1>1, <1>2, <1>3, <1>5, <1>8, <1>9, StepInv

\* conWrite counts what is held.
LEMMA CountStep ==
  ASSUME TtyInv, ~Preemptible, Line = "console", NEW w \in Writers, Count(w)
  PROVE  TtyInv'
<1> DEFINE r == writer[w]
<1>0. PICK q : q = [r EXCEPT !.at = "take", !.nr = (head - tail) % TTY_BUF_SIZE]
  OBVIOUS
<1>1. /\ At(w, "count") /\ Now(w, q) /\ UNCHANGED <<vars, head, tail, buf, sent, printed>>
  BY <1>0 DEF Count, queue
<1>2. /\ r \in Calls /\ Working(r) /\ r.b \in Seq(Input)
      /\ head \in Slots /\ tail \in Slots /\ buf \in [Slots -> Chars]
      /\ printed \in Seq(Chars) /\ sent \in Seq(Chars) /\ Inv
      /\ \A u \in Writers \ {w} : Idle(u)
  BY <1>1, AtWork
<1>3. (head - tail) % TTY_BUF_SIZE \in Slots
  BY <1>2, HeldType
<1>4. /\ q.b = r.b /\ q.crFlag = r.crFlag /\ q.at = "take" /\ q.nr = (head - tail) % TTY_BUF_SIZE /\ q \in Calls
  BY <1>0, <1>2, <1>3 DEF Calls
<1>5. Left(q) = Left(r)
  BY <1>4 DEF Left
<1>6. sent' = printed' \o (Held(head', tail', buf') \o Left(q))
  BY <1>1, <1>2, <1>5 DEF Working, Accounted
<1>7. Working(q)'
  BY <1>1, <1>2, <1>4, <1>6 DEF Working, Accounted
<1>8. Inv'
  BY <1>1, <1>2, NothingInv
<1> QED
  BY <1>1, <1>2, <1>4, <1>7, <1>8, StepInv

\* A character is taken and shown.
LEMMA TakeOne ==
  ASSUME TtyInv, ~Preemptible, NEW w \in Writers, Take(w), writer[w].nr > 0
  PROVE  TtyInv'
<1> DEFINE r == writer[w]
           L == Left(r)
           H == Held(head, Succ(tail), buf)
           P == printed
<1>0. PICK q : q = [r EXCEPT !.nr = @ - 1]
  OBVIOUS
<1>1. /\ At(w, "take") /\ Now(w, q) /\ UNCHANGED <<head, buf, sent>>
      /\ Emit(buf[tail]) /\ tail' = Succ(tail) /\ printed' = Append(printed, buf[tail])
  BY <1>0 DEF Take
<1>2. /\ r \in Calls /\ r.at = "take" /\ Working(r) /\ r.b \in Seq(Input)
      /\ head \in Slots /\ tail \in Slots /\ buf \in [Slots -> Chars]
      /\ P \in Seq(Chars) /\ sent \in Seq(Chars) /\ Inv
      /\ \A u \in Writers \ {w} : Idle(u)
  BY <1>1, AtWork
<1>3. r.nr = (head - tail) % TTY_BUF_SIZE /\ r.nr \in Slots
  BY <1>2 DEF Working, Calls
<1>4. head # tail
  BY <1>2, <1>3, HeldType
<1>5. r.nr - 1 \in Slots
  BY <1>3, Ring
<1>6. /\ q.b = r.b /\ q.crFlag = r.crFlag /\ q.at = "take" /\ q.nr = r.nr - 1 /\ q \in Calls
  BY <1>0, <1>2, <1>5 DEF Calls
<1>7. Left(q) = L
  BY <1>6 DEF Left
<1>8. Succ(tail) \in Slots /\ buf[tail] \in Chars /\ L \in Seq(Chars)
  BY <1>2, Around, LeftType DEF Working
<1>9. /\ Held(head, tail, buf) = <<buf[tail]>> \o H
      /\ (head - Succ(tail)) % TTY_BUF_SIZE = ((head - tail) % TTY_BUF_SIZE) - 1
  BY <1>2, <1>4, HeldTake
<1>10. H \in Seq(Chars)
  BY <1>2, <1>8, HeldType
<1>11. sent' = printed' \o (Held(head', tail', buf') \o Left(q))
  <2> DEFINE C == <<buf[tail]>>
  <2>1. sent = P \o ((C \o H) \o L)
    BY <1>2, <1>9 DEF Working, Accounted
  <2>2. C \in Seq(Chars) /\ P \in Seq(Chars) /\ printed' = P \o C
    BY <1>1, <1>2, <1>8
  <2> HIDE DEF C, H, L, P
  <2>3. (C \o H) \o L = C \o (H \o L) /\ H \o L \in Seq(Chars)
    BY <1>8, <1>10, <2>2, Regrouped, ConcatProperties, SMTT(60)
  <2>4. (P \o C) \o (H \o L) = P \o (C \o (H \o L))
    BY <2>2, <2>3, Regrouped, SMTT(60)
  <2> QED
    BY <1>1, <1>7, <2>1, <2>2, <2>3, <2>4 DEF H
<1>12. Working(q)'
  BY <1>1, <1>2, <1>3, <1>6, <1>9, <1>11 DEF Working, Accounted
<1>13. Inv'
  BY <1>1, <1>2, EmitInv
<1>14. printed' \in Seq(Chars)
  BY <1>1, <1>2, <1>8
<1> QED
  BY <1>1, <1>2, <1>6, <1>8, <1>12, <1>13, <1>14, StepInv

\* conWrite has emptied the queue; the call is over if nothing is left to store.
LEMMA TakeDone ==
  ASSUME TtyInv, ~Preemptible, NEW w \in Writers, Take(w), ~(writer[w].nr > 0)
  PROVE  TtyInv'
<1> DEFINE r == writer[w]
<1>0. PICK q : q = Written(r)
  OBVIOUS
<1>1. /\ At(w, "take") /\ Now(w, q) /\ UNCHANGED <<head, tail, buf, sent, printed>> /\ setCursor
  BY <1>0 DEF Take
<1>2. /\ r \in Calls /\ r.at = "take" /\ Working(r) /\ r.b \in Seq(Input)
      /\ head \in Slots /\ tail \in Slots /\ buf \in [Slots -> Chars]
      /\ printed \in Seq(Chars) /\ sent \in Seq(Chars) /\ Inv
      /\ \A u \in Writers \ {w} : Idle(u)
  BY <1>1, AtWork
<1>3. r.nr = (head - tail) % TTY_BUF_SIZE /\ r.nr \in Slots
  BY <1>2 DEF Working, Calls
<1>4. head = tail
  <2> DEFINE n == (head - tail) % TTY_BUF_SIZE
  <2>1. n = IF head < tail THEN head - tail + TTY_BUF_SIZE ELSE head - tail
    BY <1>2, Distance
  <2>2. n \in Slots /\ ~(n > 0)
    BY <1>1, <1>3
  <2> HIDE DEF n
  <2> QED
    BY <1>2, <2>1, <2>2, Ring
<1>5. Inv' /\ crt'.cursor = Cell(pos')
  BY <1>1, <1>2, CursorInv
<1>6. CASE r.b = <<>>
  <2>1. q = Returned
    BY <1>0, <1>6 DEF Written
  <2>2. q \in Calls /\ q.at = "idle"
    BY <2>1, TextTypes, Ring DEF Returned, Calls
  <2>3. printed = sent
    <3>1. Left(r) = <<>> /\ Held(head, tail, buf) = <<>>
      BY <1>2, <1>4, <1>6, LeftType, HeldType DEF Working
    <3> QED
      BY <1>2, <3>1 DEF Working, Accounted
  <2> QED
    BY <1>1, <1>2, <1>4, <1>5, <2>2, <2>3, StepInv
<1>7. CASE r.b # <<>>
  <2>1. /\ q.b = r.b /\ q.crFlag = r.crFlag /\ q.at = "test" /\ q \in Calls
    <3>1. q = [r EXCEPT !.at = "test", !.nr = 0]
      BY <1>0, <1>7 DEF Written
    <3>2. 0 \in Slots
      BY Ring
    <3> QED
      BY <1>2, <3>1, <3>2 DEF Calls
  <2>2. Left(q) = Left(r)
    BY <2>1 DEF Left
  <2>3. sent' = printed' \o (Held(head', tail', buf') \o Left(q))
    BY <1>1, <1>2, <2>2 DEF Working, Accounted
  <2>4. Working(q)'
    BY <1>2, <2>1, <2>3 DEF Working, Accounted
  <2> QED
    BY <1>1, <1>2, <1>5, <2>1, <2>4, StepInv
<1> QED
  BY <1>6, <1>7

\* Every step of ttyWrite and conWrite keeps account of all characters.
LEMMA TtyStep ==
  ASSUME ~Preemptible, Line = "console", TtyInv, [TtyNext]_ttyVars
  PROVE  TtyInv'
<1>1. ASSUME NEW w \in Writers, Step(w) PROVE TtyInv'
  <2>1. CASE Test(w) \/ Store(w) \/ Advance(w) \/ Count(w)
    BY <2>1, TestStep, StoreStep, AdvanceStep, CountStep
  <2>2. CASE Take(w)
    BY <2>2, TakeOne, TakeDone
  <2> QED
    BY <1>1, <2>1, <2>2 DEF Step
<1>2. ASSUME NEW w \in Writers, NEW m \in Messages, Call(w, m) PROVE TtyInv'
  BY <1>2, CallStep
<1>3. CASE UNCHANGED ttyVars
  <2>1. UNCHANGED <<vars, head, tail, buf, writer, sent, printed>>
    BY <1>3 DEF ttyVars, queue
  <2>2. Inv' /\ crt' = crt /\ pos' = pos /\ Cell(pos') = Cell(pos)
    BY <2>1, NothingInv DEF TtyInv, vars
  <2>3. QueueTypes' /\ \A w \in Writers : Idle(w)' = Idle(w)
    BY <2>1 DEF TtyInv, QueueTypes, Idle
  <2>4. ASSUME NEW w \in Writers, ~Idle(w) PROVE Working(writer[w])'
    <3>1. Working(writer[w])
      BY <2>4 DEF TtyInv
    <3>2. NeedsCr(writer[w])' = NeedsCr(writer[w]) /\ Full' = Full
      BY <2>1 DEF NeedsCr, Full, Succ
    <3> QED
      BY <2>1, <3>1, <3>2 DEF Working, Accounted, Left
  <2> QED
    BY <2>1, <2>2, <2>3, <2>4 DEF TtyInv
<1> QED
  BY <1>1, <1>2, <1>3 DEF TtyNext

\* At the start nothing is sent, held or printed.
LEMMA TtyStart == TtyInit => TtyInv
<1> SUFFICES ASSUME TtyInit PROVE TtyInv
  OBVIOUS
<1>1. Inv /\ crt.cursor = Cell(pos)
  BY InitConsole DEF TtyInit, Init
<1>2. Returned \in Calls /\ Returned.at = "idle"
  <2>1. <<>> \in Seq(Input) /\ 0 \in Slots
    BY Ring
  <2> QED
    BY <2>1, TextTypes DEF Returned, Calls
<1>3. QueueTypes
  BY <1>2, TextTypes, Ring DEF TtyInit, QueueTypes
<1>4. \A w \in Writers : Idle(w)
  BY <1>2 DEF TtyInit, Idle
<1> QED
  BY <1>1, <1>3, <1>4 DEF TtyInit, TtyInv

\* Types of the terminal: the queue's places stay inside its buffer, and conWrite
\* never has more to take than the buffer holds.
THEOREM TtyType ==
  ASSUME ~Preemptible, Line = "console"
  PROVE  TtySpec => []TtyTypeOK
<1>1. TtyInv => TtyTypeOK
  <2> SUFFICES ASSUME TtyInv PROVE TtyTypeOK
    OBVIOUS
  <2>1. TypeOK
    BY InvType DEF TtyInv
  <2>2. \A m : m \in Seq(Input) => m \in Seq(Codes)
    BY DEF Input, Codes
  <2>3. \A q \in Calls : q \in [at : {"idle", "test", "store", "advance", "count", "take"},
                                b : Seq(Codes), crFlag : BOOLEAN,
                                c : Codes \cup {"NUL"}, nr : 0 .. TTY_BUF_SIZE - 1]
    BY <2>2, Ring DEF Calls, Chars
  <2> QED
    BY <2>1, <2>3 DEF TtyInv, QueueTypes, Chars, TtyTypeOK
<1> QED
  BY <1>1, TtyStart, TtyStep, PTL DEF TtySpec

\* Whatever the writers of the console write, one call after the other, longer than
\* the queue or not, and wherever the CR of a NL finds the queue full: every
\* character is shown once and in order, and the cursor stands behind the last.
THEOREM WrittenIsShown ==
  ASSUME ~Preemptible, Line = "console"
  PROVE  TtySpec => []ShownInOrder
<1>1. TtyInv => ShownInOrder
  <2> SUFFICES ASSUME TtyInv PROVE ShownInOrder
    OBVIOUS
  <2>1. printed \in Seq(Chars) /\ sent \in Seq(Chars) /\ head \in Slots /\ tail \in Slots
        /\ buf \in [Slots -> Chars]
    BY DEF TtyInv, QueueTypes
  <2>2. CASE \A w \in Writers : Idle(w)
    <3>1. printed = sent /\ head = tail /\ crt.cursor = Cell(pos)
      BY <2>2 DEF TtyInv
    <3>2. SubSeq(sent, 1, Len(sent)) = sent
      BY <2>1
    <3> QED
      BY <2>1, <3>1, <3>2 DEF ShownInOrder
  <2>3. ASSUME NEW w \in Writers, ~Idle(w) PROVE ShownInOrder
    <3> DEFINE rest == Held(head, tail, buf) \o Left(writer[w])
    <3>1. writer[w] \in Calls /\ Working(writer[w])
      BY <2>3 DEF TtyInv, QueueTypes
    <3>2. rest \in Seq(Chars) /\ sent = printed \o rest
      <4>1. Held(head, tail, buf) \in Seq(Chars) /\ Left(writer[w]) \in Seq(Chars)
        BY <2>1, <3>1, HeldType, LeftType DEF Working
      <4> QED
        BY <3>1, <4>1, ConcatProperties DEF Working, Accounted
    <3> HIDE DEF rest
    <3>3. Len(printed) <= Len(sent) /\ SubSeq(sent, 1, Len(printed)) = printed
      BY <2>1, <3>2
    <3> QED
      BY <2>3, <3>3 DEF ShownInOrder, Idle
  <2> QED
    BY <2>2, <2>3
<1> QED
  BY <1>1, TtyStart, TtyStep, PTL DEF TtySpec
=============================================================================
