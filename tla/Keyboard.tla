------------------------------ MODULE Keyboard ------------------------------
(***************************************************************************)
(* The keyboard driver of kernel/chr_drv/keyboard.c: scan codes become     *)
(* modifiers, locks and codes in the read queue of the console.            *)
(*                                                                         *)
(* The keyboard itself, which is not part of the repository, sends for     *)
(* each key pressed, repeated or released the bytes of scan code set 1     *)
(* over a wire; the last byte of a key carries the event it ends, for the  *)
(* properties.  A key is its row of the keymap, plus 128 if its codes      *)
(* start with E0.                                                          *)
(***************************************************************************)
EXTENDS Integers, Sequences, FiniteSets

CONSTANTS Keys,         \* the keys that are used
          TTY_BUF_SIZE,
          Nested,       \* may the handler be interrupted by the next byte?
          Waiting,      \* may a byte wait in the controller while kbAck reads?
          MaxHeld,      \* bound: keys held down at a time
          MaxWire,      \* bound: bytes on the wire
          Nil

PAUSE == 256

ASSUME KeyboardAssumption ==
  /\ Keys \subseteq 0 .. PAUSE
  /\ TTY_BUF_SIZE \in Nat \ {0}
  /\ Nested \in BOOLEAN /\ Waiting \in BOOLEAN
  /\ MaxHeld \in Nat /\ MaxWire \in Nat
  /\ Nil \notin [key : 0 .. PAUSE, make : BOOLEAN]

VARIABLES shift_l, shift_r, ctrl_l, ctrl_r, alt_l, alt_r,
          caps_lock, num_lock, scroll_lock, code_with_E0,
          read_q,   \* the read queue: buf and head; nobody moves its tail
          held,     \* the keys that are down
          wire,     \* the bytes under way, each with the event it ends or Nil
          reading   \* the bytes that activations of the handler have read

modifiers == <<shift_l, shift_r, ctrl_l, ctrl_r, alt_l, alt_r>>
locks == <<caps_lock, num_lock, scroll_lock>>
vars == <<modifiers, locks, code_with_E0, read_q, held, wire, reading>>

---------------------------------------------------------------------------
(* The keymap.  Characters stand for themselves, special keys are numbered *)
(* from 1 to 59.                                                           *)

ENTER == 3
SHIFT_L == 8
SHIFT_R == 9
CTRL_L == 10
CTRL_R == 11
ALT_L == 12
ALT_R == 13
CAPS_LOCK == 14
NUM_LOCK == 15
SCROLL_LOCK == 16
INSERT == 31
DELETE == 32
HOME == 33
END == 34
PAGEUP == 35
PAGEDOWN == 36
UP == 37
DOWN == 38
LEFT == 39
RIGHT == 40
PAD_SLASH == 44
PAD_STAR == 45
PAD_MINUS == 46
PAD_PLUS == 47
PAD_ENTER == 48
PAD_DOT == 49
PAD_0 == 50
PAD_9 == 59

\* Rows 1 to 88 without Shift and with it, and what follows E0.
Unshifted ==
  <<1, 49, 50, 51, 52, 53, 54, 55, 56, 57, 48, 45, 61, 4,
    2, 113, 119, 101, 114, 116, 121, 117, 105, 111, 112, 91, 93, ENTER,
    CTRL_L, 97, 115, 100, 102, 103, 104, 106, 107, 108, 59, 39, 96,
    SHIFT_L, 92, 122, 120, 99, 118, 98, 110, 109, 44, 46, 47, SHIFT_R, 42,
    ALT_L, 32, CAPS_LOCK, 17, 18, 19, 20, 21, 22, 23, 24, 25, 26,
    NUM_LOCK, SCROLL_LOCK, 57, 58, 59, PAD_MINUS, 54, 55, 56, PAD_PLUS, 51, 52, 53,
    50, PAD_DOT, 0, 0, 0, 27, 28>>

Shifted ==
  <<1, 33, 64, 35, 36, 37, 94, 38, 42, 40, 41, 95, 43, 4,
    2, 81, 87, 69, 82, 84, 89, 85, 73, 79, 80, 123, 125, ENTER,
    CTRL_L, 65, 83, 68, 70, 71, 72, 74, 75, 76, 58, 34, 126,
    SHIFT_L, 124, 90, 88, 67, 86, 66, 78, 77, 60, 62, 63, SHIFT_R, 42,
    ALT_L, 32, CAPS_LOCK, 17, 18, 19, 20, 21, 22, 23, 24, 25, 26,
    NUM_LOCK, SCROLL_LOCK, 55, 56, 57, 45, 52, 53, 54, 43, 49, 50, 51,
    48, 46, 0, 0, 0, 27, 28>>

Extended ==
  [r \in 0 .. 127 |->
     CASE r = 28 -> PAD_ENTER [] r = 29 -> CTRL_R  [] r = 53 -> PAD_SLASH
       [] r = 56 -> ALT_R     [] r = 71 -> HOME    [] r = 72 -> UP
       [] r = 73 -> PAGEUP    [] r = 75 -> LEFT    [] r = 77 -> RIGHT
       [] r = 79 -> END       [] r = 80 -> DOWN    [] r = 81 -> PAGEDOWN
       [] r = 82 -> INSERT    [] r = 83 -> DELETE
       [] r \in 91 .. 93 -> r - 86
       [] OTHER -> 0]

keymap ==
  [r \in 0 .. 127 |->
     IF r \in 1 .. 88 THEN <<Unshifted[r], Shifted[r], Extended[r]>>
     ELSE <<0, 0, Extended[r]>>]

\* A cell of the keymap has four bytes, and keyrow points to bytes: column c
\* is byte c of the row's first cell.
keyrow(r, c) == (keymap[r][1] \div 256 ^ c) % 256

---------------------------------------------------------------------------
(* The handler.                                                            *)

IsLetter(r) == keyrow(r, 0) \in 97 .. 122 \/ keyrow(r, 1) \in 65 .. 90

Column(r) ==
  LET shift == shift_l \/ shift_r
      caps  == IF caps_lock /\ IsLetter(r) THEN ~shift ELSE shift
  IN  CASE code_with_E0 -> 2 [] ~code_with_E0 /\ caps -> 1 [] OTHER -> 0

\* Mutant: the keys of the pad ignore the num lock.
PadNumbers(key) ==
  CASE key = PAD_SLASH -> 47 [] key = PAD_STAR -> 42 [] key = PAD_MINUS -> 45
    [] key = PAD_PLUS -> 43 [] key = PAD_ENTER -> ENTER [] key = PAD_DOT -> 46
    [] OTHER -> key - PAD_0 + 48

\* Without the num lock the pad's digits are the cursor keys, 5 stays PAD_5.
PadKey(key) ==
  CASE key = PAD_SLASH -> 47 [] key = PAD_STAR -> 42 [] key = PAD_MINUS -> 45
    [] key = PAD_PLUS -> 43 [] key = PAD_ENTER -> ENTER
    [] key = PAD_DOT -> IF num_lock THEN 46 ELSE DELETE
    [] OTHER ->
         IF num_lock THEN key - PAD_0 + 48
         ELSE <<INSERT, END, DOWN, PAGEDOWN, LEFT, key, RIGHT, HOME, UP,
                PAGEUP>>[key - PAD_0 + 1]

\* What goes into the read queue.
Stored(key) == IF key \in PAD_SLASH .. PAD_9 THEN PadKey(key) ELSE key

PutKey(key) ==
  read_q' = [buf  |-> [read_q.buf EXCEPT ![read_q.head] = Stored(key)],
             head |-> (read_q.head + 1) % TTY_BUF_SIZE]

Ack == <<250, Nil>>

\* setLeds sends two commands and reads one byte after each: the answer, the
\* byte read before once more, or a byte that waits in the controller.
setLeds ==
  \E late \in 0 .. 2 : \E lost \in 0 .. late :
    /\ lost <= (IF Waiting THEN Len(wire) ELSE 0)
    /\ wire' = [i \in 1 .. late |-> Ack] \o SubSeq(wire, lost + 1, Len(wire))

Modifier(key, make) ==
  /\ shift_l' = (IF key = SHIFT_L THEN make ELSE shift_l)
  /\ shift_r' = (IF key = SHIFT_R THEN make ELSE shift_r)
  /\ ctrl_l' = (IF key = CTRL_L THEN make ELSE ctrl_l)
  /\ ctrl_r' = (IF key = CTRL_R THEN make ELSE ctrl_r)
  /\ alt_l' = (IF key = ALT_L THEN make ELSE alt_l)
  /\ alt_r' = (IF key = ALT_R THEN make ELSE alt_r)

\* Mutant: a lock changes when its key is released, too.
LockEither(key, make) ==
  /\ caps_lock' = (caps_lock # (key = CAPS_LOCK))
  /\ num_lock' = (num_lock # (key = NUM_LOCK))
  /\ scroll_lock' = (scroll_lock # (key = SCROLL_LOCK))
  /\ IF key \in {CAPS_LOCK, NUM_LOCK, SCROLL_LOCK} THEN setLeds ELSE UNCHANGED wire

Lock(key, make) ==
  /\ caps_lock' = (caps_lock # (make /\ key = CAPS_LOCK))
  /\ num_lock' = (num_lock # (make /\ key = NUM_LOCK))
  /\ scroll_lock' = (scroll_lock # (make /\ key = SCROLL_LOCK))
  /\ IF make /\ key \in {CAPS_LOCK, NUM_LOCK, SCROLL_LOCK}
       THEN setLeds ELSE UNCHANGED wire

\* The byte of the innermost activation.
Innermost == reading[Len(reading)]

\* inByte(KB_DATA): the handler has read the byte and done nothing else.
Interrupt ==
  /\ wire # <<>>
  /\ reading = <<>> \/ (Nested /\ Len(reading) = 1)
  /\ reading' = Append(reading, Head(wire))
  /\ wire' = Tail(wire)
  /\ UNCHANGED <<modifiers, locks, code_with_E0, read_q, held>>

\* Prefixes are remembered (E0) or dropped (E1).
Prefix ==
  /\ code_with_E0' = (code_with_E0 \/ Innermost[1] = 224)
  /\ UNCHANGED <<modifiers, locks, read_q, wire>>

\* Mutant: the prefix is forgotten by the next key only if that is pressed.
ScanCodeE0 ==
  LET scan == Innermost[1]
      make == scan < 128
      key  == keyrow(scan % 128, Column(scan % 128))
  IN  /\ code_with_E0' = (code_with_E0 /\ ~make)
      /\ Modifier(key, make)
      /\ Lock(key, make)
      /\ IF make THEN PutKey(key) ELSE UNCHANGED read_q

ScanCode ==
  LET scan == Innermost[1]
      make == scan < 128
      key  == keyrow(scan % 128, Column(scan % 128))
  IN  /\ code_with_E0' = FALSE
      /\ Modifier(key, make)
      /\ Lock(key, make)
      /\ IF make THEN PutKey(key) ELSE UNCHANGED read_q

keyboardHandler ==
  /\ reading # <<>>
  /\ IF Innermost[1] \in {224, 225} THEN Prefix ELSE ScanCode
  /\ reading' = SubSeq(reading, 1, Len(reading) - 1)
  /\ UNCHANGED held

---------------------------------------------------------------------------
(* The keyboard.                                                           *)

IsExtended(k) == k \in 128 .. 255

\* The bytes of an event; PAUSE has codes for being pressed only.
Bytes(k, make) ==
  LET event == [key |-> k, make |-> make]
      up    == IF make THEN 0 ELSE 128
  IN  CASE k = PAUSE -> <<<<225, Nil>>, <<29, Nil>>, <<69, Nil>>,
                          <<225, Nil>>, <<157, Nil>>, <<197, event>>>>
        [] IsExtended(k) -> <<<<224, Nil>>, <<(k % 128) + up, event>>>>
        [] OTHER -> <<<<k + up, event>>>>

\* Some keyboards put a Shift that nobody pressed around an extended key.
FakeShift(k, make) ==
  {<<>>} \cup IF IsExtended(k) /\ k # 157
                THEN {<<<<224, Nil>>, <<IF make THEN 42 ELSE 170, Nil>>>>} ELSE {}

Send(k, make) ==
  /\ \E fake \in FakeShift(k, make) :
       wire' = wire \o IF make THEN fake \o Bytes(k, make) ELSE Bytes(k, make) \o fake
  /\ Len(wire') <= MaxWire

Press(k) ==
  /\ k \notin held /\ Cardinality(held) < MaxHeld
  /\ held' = held \cup ({k} \ {PAUSE})
  /\ Send(k, TRUE)
  /\ UNCHANGED <<modifiers, locks, code_with_E0, read_q, reading>>

Repeat(k) ==
  /\ k \in held
  /\ Send(k, TRUE)
  /\ UNCHANGED <<modifiers, locks, code_with_E0, read_q, held, reading>>

LetGo(k) ==
  /\ k \in held
  /\ held' = held \ {k}
  /\ Send(k, FALSE)
  /\ UNCHANGED <<modifiers, locks, code_with_E0, read_q, reading>>

Init ==
  /\ shift_l = FALSE /\ shift_r = FALSE /\ ctrl_l = FALSE /\ ctrl_r = FALSE
  /\ alt_l = FALSE /\ alt_r = FALSE
  /\ caps_lock = FALSE /\ num_lock = TRUE /\ scroll_lock = FALSE
  /\ code_with_E0 = FALSE
  /\ read_q = [buf |-> [i \in 0 .. TTY_BUF_SIZE - 1 |-> 0], head |-> 0]
  /\ held = {} /\ wire = <<>> /\ reading = <<>>

Next ==
  \/ Interrupt \/ keyboardHandler
  \/ \E k \in Keys : Press(k) \/ Repeat(k) \/ LetGo(k)

Spec == Init /\ [][Next]_vars

---------------------------------------------------------------------------
(* Properties.                                                             *)

\* The types.
TypeOK ==
  /\ modifiers \in [1 .. 6 -> BOOLEAN] /\ locks \in [1 .. 3 -> BOOLEAN]
  /\ code_with_E0 \in BOOLEAN
  /\ read_q.buf \in [0 .. TTY_BUF_SIZE - 1 -> 0 .. 127]
  /\ read_q.head \in 0 .. TTY_BUF_SIZE - 1
  /\ held \subseteq Keys

\* Every byte has been dealt with.
Quiet == wire = <<>> /\ reading = <<>>

\* As the comments on the keymap have it, a modifier is set while its key is
\* down: the release finds the code that the press found.
ModifiersAreHeld ==
  Quiet => /\ shift_l = (42 \in held) /\ shift_r = (54 \in held)
           /\ ctrl_l = (29 \in held)  /\ ctrl_r = (157 \in held)
           /\ alt_l = (56 \in held)   /\ alt_r = (184 \in held)

\* As long as no Shift was pressed, left Ctrl follows its key, whatever else is
\* held, repeated, prefixed or surrounded by fake Shifts, right Ctrl included.
LeftCtrlIsHeld == Quiet /\ ~shift_l /\ ~shift_r => ctrl_l = (29 \in held)

\* A lock changes when its own key is pressed, and by nothing else: neither by
\* a release nor by the answers to the commands that its lights need.
LockChanges(key) ==
  Innermost[2] # Nil /\ Innermost[2].make /\ Innermost[2].key = key
LocksFollowKeys ==
  [][/\ caps_lock' # caps_lock => LockChanges(58)
     /\ num_lock' # num_lock => LockChanges(69)
     /\ scroll_lock' # scroll_lock => LockChanges(70)]_vars

\* The code that a step of the handler puts into the queue.
Typed == read_q'.buf[read_q.head]

\* The event that a step of the handler ends.
Ends(k) ==
  /\ Len(reading') < Len(reading) /\ Innermost[2] = [key |-> k, make |-> TRUE]
  /\ ~shift_l /\ ~shift_r /\ ~caps_lock

\* The keys of the pad, from 7 to the dot, with the num lock and without.
Pad == 71 .. 83
PadDigit == <<55, 56, 57, 45, 52, 53, 54, 43, 49, 50, 51, 48, 46>>
PadCursor == <<HOME, UP, PAGEUP, 45, LEFT, PAD_0 + 5, RIGHT, 43, END, DOWN, PAGEDOWN,
               INSERT, DELETE>>

\* The keys whose characters have the codes of pad keys, 44 to 59: the digits and
\* the minus (2 to 12), the semicolon, the comma, the dot and the slash.  The pad's
\* conversion takes them for its own: the 2 types 0 with the num lock on.
Ambiguous == (2 .. 12) \cup {39, 51, 52, 53}

\* A key outside the pad types what the keymap says, without exception.
TypedAsMapped ==
  [][\A k \in (Keys \cap 1 .. 88) \ Pad : Ends(k) => Typed = Unshifted[k]]_vars

\* What is typed without Shift and CapsLock: a key of the pad its digit, or with
\* the num lock off its cursor movement; any other what the keymap says, but for
\* the 15 ambiguous keys.
TypedUnlessAmbiguous ==
  [][\A k \in (Keys \cap 1 .. 88) \ Ambiguous : Ends(k) =>
       Typed = IF k \in Pad THEN (IF num_lock THEN PadDigit ELSE PadCursor)[k - 70]
               ELSE Unshifted[k]]_vars
=============================================================================
