------------------------------ MODULE Terminal ------------------------------
(***************************************************************************)
(* What the console promises: a page of text that grows downwards, seen    *)
(* through a window of LINES rows.  Characters go to a row and a column;   *)
(* there are no addresses.                                                 *)
(***************************************************************************)
EXTENDS Integers

CONSTANTS COLUMNS,    \* characters in a row
          LINES,      \* rows of the window
          FirstRow,   \* row of the cursor at the start
          MaxTop,     \* the window cannot move down further than this row
          Printable,  \* characters that have a glyph
          Blank       \* an empty place

Rows == 0 .. MaxTop + LINES - 1

VARIABLES row,   \* row of the cursor, counted from the top of the page
          col,   \* its column; COLUMNS when the row is full
          top,   \* the row at the top of the window
          text   \* what is written where

vars == <<row, col, top, text>>

Init ==
  /\ row = FirstRow /\ col = 0 /\ top = 0
  /\ text = [r \in Rows |-> [c \in 0 .. COLUMNS - 1 |-> Blank]]

\* The next row: inside the window, by moving the window, or not at all.
Down(r, t) ==
  CASE r < t + LINES - 1                 -> <<r + 1, t>>
    [] r = t + LINES - 1 /\ t < MaxTop   -> <<r + 1, t + 1>>
    [] OTHER                             -> <<r, t>>

To(r, t, c) == row' = r /\ top' = t /\ col' = c

LineFeed == To(Down(row, top)[1], Down(row, top)[2], col) /\ UNCHANGED text

Return == To(row, top, 0) /\ UNCHANGED text

Back == col > 0 /\ To(row, top, col - 1) /\ UNCHANGED text

Erase ==
  /\ col > 0 /\ To(row, top, col - 1)
  /\ text' = [text EXCEPT ![row][col - 1] = Blank]

\* A character goes to the cursor, after a full row to the next one.
Put(ch) ==
  IF col < COLUMNS
    THEN To(row, top, col + 1) /\ text' = [text EXCEPT ![row][col] = ch]
    ELSE LET d == Down(row, top)
         IN  To(d[1], d[2], 1) /\ text' = [text EXCEPT ![d[1]][0] = ch]

\* The next multiple of eight; behind the end of the row, that of the next row.
Tab ==
  LET c == (col \div 8 + 1) * 8
      d == Down(row, top)
  IN  /\ IF c <= COLUMNS THEN To(row, top, c) ELSE To(d[1], d[2], c - COLUMNS)
      /\ UNCHANGED text

Next == \/ LineFeed \/ Return \/ Back \/ Erase \/ Tab
        \/ \E ch \in Printable : Put(ch)

Spec == Init /\ [][Next]_vars
=============================================================================
