--------------------------- MODULE KeyboardProofs ---------------------------
(***************************************************************************)
(* The keyboard driver fed one byte at a time, by a keyboard without the   *)
(* key Pause, for any set of keys, any number of them held and any number  *)
(* of bytes under way: which modifier, lock and character a byte stands    *)
(* for is told apart from what precedes it on the wire.                    *)
(***************************************************************************)
EXTENDS Keyboard, TLAPS

\* The rows of the keymap that have a key, and those behind E0.
RealKeys == 1 .. 88 \cup 129 .. 221

\* The bytes that are still to be handled, in order.
Pending == Len(reading) + Len(wire)
Byte(i) == IF i <= Len(reading) THEN reading[i] ELSE wire[i - Len(reading)]

\* A byte behind E0.
Prefixed(i) == IF i = 1 THEN code_with_E0 ELSE Byte(i - 1)[1] = 224

Events == [key : 0 .. PAUSE, make : BOOLEAN] \cup {Nil}
Pressed(k) == [key |-> k, make |-> TRUE]
ScanCodes == 1 .. 224 \cup {250}

Types ==
  /\ reading \in Seq(ScanCodes \X Events) /\ Len(reading) <= 1
  /\ wire \in Seq(ScanCodes \X Events)
  /\ shift_l \in BOOLEAN /\ shift_r \in BOOLEAN /\ ctrl_l \in BOOLEAN
  /\ caps_lock \in BOOLEAN /\ num_lock \in BOOLEAN /\ scroll_lock \in BOOLEAN
  /\ code_with_E0 \in BOOLEAN
  /\ read_q.buf \in [0 .. TTY_BUF_SIZE - 1 -> 0 .. 127]
  /\ read_q.head \in 0 .. TTY_BUF_SIZE - 1

\* A byte below 128 that is not behind E0 presses the key it names, and the
\* byte that presses a key of the main block is that one.
Plain ==
  \A i \in 1 .. Pending :
    /\ Byte(i)[1] < 128 /\ ~Prefixed(i) =>
         Byte(i)[1] \in 1 .. 88 /\ Byte(i)[2] = Pressed(Byte(i)[1])
    /\ \A k \in 1 .. 88 : Byte(i)[2] = Pressed(k) =>
         Byte(i)[1] = k /\ ~Prefixed(i)

\* No E0 waits for its second byte.
Complete ==
  /\ Pending = 0 => ~code_with_E0
  /\ \A i \in 1 .. Pending : i = Pending => Byte(i)[1] # 224

\* The bytes that press and release left Ctrl.
IsCtrl(i) == Byte(i)[1] \in {29, 157} /\ ~Prefixed(i)

\* The last of them says whether the key is down; without one under way the
\* driver knows.
CtrlKnown ==
  ~shift_l /\ ~shift_r =>
    /\ \A i \in 1 .. Pending :
         IsCtrl(i) /\ (\A j \in i + 1 .. Pending : ~IsCtrl(j)) =>
           (Byte(i)[1] = 29 <=> 29 \in held)
    /\ (\A i \in 1 .. Pending : ~IsCtrl(i)) => (ctrl_l <=> 29 \in held)

Inv == Types /\ Plain /\ Complete /\ CtrlKnown

---------------------------------------------------------------------------
(* The keymap.                                                             *)

\* What the rows hold in their first column.
LEMMA Rows ==
  \A r \in 1 .. 88 :
    /\ Unshifted[r] \in 0 .. 127
    /\ Unshifted[r] = CTRL_L <=> r = 29
    /\ Unshifted[r] = CAPS_LOCK <=> r = 58
    /\ Unshifted[r] = NUM_LOCK <=> r = 69
    /\ Unshifted[r] = SCROLL_LOCK <=> r = 70
  BY DEF Unshifted, ENTER, CTRL_L, SHIFT_L, SHIFT_R, ALT_L, CAPS_LOCK, NUM_LOCK,
         SCROLL_LOCK, PAD_MINUS, PAD_PLUS, PAD_DOT

LEMMA RowIsByte ==
  ASSUME NEW r \in 1 .. 88
  PROVE  Unshifted[r] \in 0 .. 127
  BY Rows, Zenon

\* Left Ctrl is the key 29, and the locks have a key each.
LEMMA CtrlRow ==
  /\ Unshifted[29] = CTRL_L
  /\ \A r \in 1 .. 88 : Unshifted[r] = CTRL_L => r = 29
<1>1. 29 \in 1 .. 88
  OBVIOUS
<1> QED
  BY <1>1, Rows, Zenon

LEMMA LockRows ==
  ASSUME NEW r \in 1 .. 88
  PROVE  /\ Unshifted[r] = CAPS_LOCK => r = 58
         /\ Unshifted[r] = NUM_LOCK => r = 69
         /\ Unshifted[r] = SCROLL_LOCK => r = 70
  BY Rows, Zenon

\* keyrow finds the code of the first column there and nothing in the others.
LEMMA KeyRows ==
  ASSUME NEW r \in 0 .. 127
  PROVE  /\ keyrow(r, 0) = IF r \in 1 .. 88 THEN Unshifted[r] ELSE 0
         /\ keyrow(r, 1) = 0 /\ keyrow(r, 2) = 0
<1>1. keymap[r][1] = IF r \in 1 .. 88 THEN Unshifted[r] ELSE 0
  BY SMTT(60) DEF keymap
<1>2. keymap[r][1] \in 0 .. 127
  <2>1. CASE r \in 1 .. 88
    BY <1>1, <2>1, RowIsByte, Zenon
  <2>2. CASE r \notin 1 .. 88
    <3>1. keymap[r][1] = 0
      BY <1>1, <2>2, Zenon
    <3> QED
      BY <3>1
  <2> QED
    BY <2>1, <2>2, Zenon
<1>3. 256 ^ 0 = 1 /\ 256 ^ 1 = 256 /\ 256 ^ 2 = 65536
  OBVIOUS
<1>4. ASSUME NEW n \in 0 .. 127
      PROVE  (n \div 1) % 256 = n /\ (n \div 256) % 256 = 0 /\ (n \div 65536) % 256 = 0
  OBVIOUS
<1> QED
  BY <1>1, <1>2, <1>3, <1>4 DEF keyrow

\* The code a scan code finds: that of its key's first column, unless it is
\* behind E0; with Shift at most that of a letter.
Finds(r, key) ==
  /\ key # 0 => /\ ~code_with_E0 /\ r \in 1 .. 88 /\ key = Unshifted[r]
                /\ shift_l \/ shift_r => Unshifted[r] \in 97 .. 122
  /\ ~code_with_E0 /\ ~shift_l /\ ~shift_r /\ r \in 1 .. 88
     /\ (~caps_lock \/ Unshifted[r] \notin 97 .. 122)
       => key = Unshifted[r]

LEMMA Codes ==
  ASSUME Types, NEW r \in 0 .. 127
  PROVE  Finds(r, keyrow(r, Column(r)))
<1>1. Column(r) \in {0, 1, 2}
  BY DEF Column
<1>2. /\ keyrow(r, 0) = IF r \in 1 .. 88 THEN Unshifted[r] ELSE 0
      /\ keyrow(r, 1) = 0 /\ keyrow(r, 2) = 0
  BY KeyRows
<1>3. IsLetter(r) <=> r \in 1 .. 88 /\ Unshifted[r] \in 97 .. 122
  BY <1>2 DEF IsLetter
<1>4. Column(r) = 0 <=> /\ ~code_with_E0
                        /\ IF caps_lock /\ IsLetter(r) THEN shift_l \/ shift_r
                                                       ELSE ~shift_l /\ ~shift_r
  BY DEF Column, Types
<1>5. ASSUME keyrow(r, Column(r)) # 0
      PROVE  /\ ~code_with_E0 /\ r \in 1 .. 88
             /\ keyrow(r, Column(r)) = Unshifted[r]
             /\ shift_l \/ shift_r => Unshifted[r] \in 97 .. 122
  <2>1. Column(r) = 0
    <3>1. keyrow(r, 1) = 0 /\ keyrow(r, 2) = 0
      BY <1>2
    <3> QED
      BY <1>1, <1>5, <3>1
  <2>2. r \in 1 .. 88 /\ keyrow(r, Column(r)) = Unshifted[r]
    BY <1>2, <1>5, <2>1, Zenon
  <2>3. ~code_with_E0 /\ (shift_l \/ shift_r => IsLetter(r))
    BY <1>4, <2>1, Zenon
  <2> QED
    BY <1>3, <2>2, <2>3, Zenon
<1>6. ASSUME ~code_with_E0, ~shift_l, ~shift_r, r \in 1 .. 88,
             ~caps_lock \/ Unshifted[r] \notin 97 .. 122
      PROVE  keyrow(r, Column(r)) = Unshifted[r]
  <2>1. ~(caps_lock /\ IsLetter(r))
    BY <1>3, <1>6, Zenon
  <2>2. Column(r) = 0
    BY <1>4, <1>6, <2>1, Zenon
  <2> QED
    BY <1>2, <1>6, <2>2, Zenon
<1> QED
  BY <1>5, <1>6, Zenon DEF Finds

---------------------------------------------------------------------------
(* What the keyboard sends.                                                *)

\* Byte i of a sequence is behind E0.
Behind(S, i) == i > 1 /\ S[i - 1][1] = 224

\* The bytes of one event of key k: no E0 waits for its second byte at the
\* end, and left Ctrl is named only by its own events.
BlockByte(S, i, k, make) ==
  /\ S[i][1] < 128 /\ ~Behind(S, i) =>
       S[i][1] \in 1 .. 88 /\ S[i][2] = Pressed(S[i][1])
  /\ \A j \in 1 .. 88 : S[i][2] = Pressed(j) =>
       S[i][1] = j /\ ~Behind(S, i)
  /\ S[i][1] \in {29, 157} /\ ~Behind(S, i) => k = 29 /\ (S[i][1] = 29 <=> make)

Block(S, k, make) ==
  /\ S \in Seq(ScanCodes \X Events) /\ Len(S) \in 1 .. 4
  /\ S[Len(S)][1] # 224
  /\ \A i \in 1 .. Len(S) : BlockByte(S, i, k, make)
  /\ k = 29 => Len(S) = 1 /\ S[1][1] \in {29, 157}

\* Sequences one after the other.
LEMMA Join ==
  ASSUME NEW E, NEW s \in Seq(E), NEW t \in Seq(E)
  PROVE  /\ s \o t \in Seq(E) /\ Len(s \o t) = Len(s) + Len(t)
         /\ \A i \in 1 .. Len(s) + Len(t) : (s \o t)[i] = IF i <= Len(s) THEN s[i] ELSE t[i - Len(s)]
  OBVIOUS

\* A byte that starts or ends an E0 and presses nothing of the main block.
LEMMA Silent ==
  ASSUME NEW S, NEW i, NEW k, NEW make, S[i][1] = 224 \/ Behind(S, i),
         \A j \in 1 .. 88 : S[i][2] # Pressed(j)
  PROVE  BlockByte(S, i, k, make)
<1>1. S[i][1] = 224 => ~(S[i][1] < 128) /\ S[i][1] \notin {29, 157}
  OBVIOUS
<1> QED
  BY <1>1, Zenon DEF BlockByte

\* The bytes that a key sends end in the byte that tells what happened to it.
LEMMA SentBlock ==
  ASSUME NEW k \in RealKeys, NEW make \in BOOLEAN, Send(k, make), wire \in Seq(ScanCodes \X Events)
  PROVE  \E S : Block(S, k, make) /\ wire' = wire \o S
<1> DEFINE e == [key |-> k, make |-> make]
           E == ScanCodes \X Events
           up == IF make THEN 0 ELSE 128
<1>1. e \in Events /\ Nil \in Events /\ k \in Int /\ k # PAUSE
  BY DEF Events, RealKeys, PAUSE
<1>2. \A j \in 1 .. 88 : Nil # Pressed(j)
  <2>1. \A j \in 1 .. 88 : Pressed(j) \in [key : 0 .. 256, make : BOOLEAN]
    BY DEF Pressed
  <2> QED
    BY <2>1, KeyboardAssumption, ZenonT(60) DEF PAUSE
<1>3. \A j \in 1 .. 88 : e = Pressed(j) <=> j = k /\ make
  BY DEF Pressed
<1>4. CASE k \in 1 .. 88
  <2> DEFINE b == k + up
             S == <<<<b, e>>>>
  <2>1. Bytes(k, make) = S /\ FakeShift(k, make) = {<<>>}
    <3>1. k # PAUSE /\ ~IsExtended(k)
      BY <1>1, <1>4 DEF IsExtended
    <3>2. Bytes(k, make) = S
      BY <3>1, Zenon DEF Bytes
    <3> QED
      BY <3>1, <3>2 DEF FakeShift
  <2>2. b \in ScanCodes /\ b # 224 /\ (b < 128 <=> make) /\ (make => b = k)
        /\ (b \in {29, 157} => k = 29) /\ (k = 29 => b \in {29, 157}) /\ (b = 29 => make)
    BY <1>4 DEF ScanCodes
  <2> HIDE DEF b, e
  <2>3. S \in Seq(E) /\ Len(S) = 1 /\ S[1] = <<b, e>>
    BY <1>1, <2>2
  <2> HIDE DEF S, E
  <2>4. <<>> \o S = S /\ S \o <<>> = S
    BY <2>3
  <2>5. wire' = wire \o S
    BY <2>1, <2>4 DEF Send
  <2>6. S[1][1] = b /\ S[1][2] = e
    BY <2>3
  <2>7. Block(S, k, make)
    <3>1. S \in Seq(ScanCodes \X Events)
      BY <2>3 DEF E
    <3>2. ASSUME NEW i \in 1 .. Len(S)
          PROVE  i = 1 /\ S[i][1] = b /\ S[i][2] = e
      BY <2>3, <2>6
    <3>3. ASSUME NEW i \in 1 .. Len(S)
          PROVE  BlockByte(S, i, k, make)
      <4>1. CASE make
        <5>1. b = k /\ e = Pressed(k)
          <6>1. b = k
            BY <2>2, <4>1
          <6> QED
            BY <1>3, <1>4, <4>1, <6>1
        <5>2. \A j \in 1 .. 88 : e = Pressed(j) => j = b
          BY <1>3, <5>1
        <5>3. ~Behind(S, i)
          BY <3>2 DEF Behind
        <5>4. S[i][1] = k /\ S[i][2] = Pressed(k)
          BY <3>2, <5>1
        <5>5. S[i][1] \in {29, 157} => k = 29 /\ S[i][1] = 29
          BY <1>4, <5>4
        <5> QED
          BY <1>4, <4>1, <5>1, <5>2, <5>3, <5>4, <5>5, Zenon DEF BlockByte
      <4>2. CASE ~make
        <5>1. \A j \in 1 .. 88 : e # Pressed(j)
          BY <1>3, <4>2
        <5>2. ~(b < 128) /\ b # 29
          BY <2>2, <4>2
        <5> QED
          <6>1. S[i][1] = b /\ S[i][2] = e /\ ~Behind(S, i)
            BY <3>2 DEF Behind
          <6>2. b \in {29, 157} => k = 29
            BY <2>2
          <6> QED
            BY <4>2, <5>1, <5>2, <6>1, <6>2, Zenon DEF BlockByte
      <4> QED
        BY <4>1, <4>2
    <3> QED
      BY <2>2, <2>3, <2>6, <3>1, <3>3 DEF Block
  <2> QED
    BY <2>5, <2>7
<1>5. CASE k \in 129 .. 221
  <2> DEFINE b == (k % 128) + up
             f == IF make THEN 42 ELSE 170
             sent == <<<<224, Nil>>, <<b, e>>>>
             extra == <<<<224, Nil>>, <<f, Nil>>>>
  <2>1. Bytes(k, make) = sent /\ FakeShift(k, make) \subseteq {<<>>, extra}
    BY <1>1, <1>5 DEF Bytes, FakeShift, IsExtended
  <2>2. b \in ScanCodes /\ b # 224 /\ f \in ScanCodes /\ f # 224 /\ 224 \in ScanCodes
    BY <1>5 DEF ScanCodes
  <2> HIDE DEF b, e, f
  <2>3. /\ sent \in Seq(E) /\ Len(sent) = 2 /\ sent[1] = <<224, Nil>> /\ sent[2] = <<b, e>>
        /\ extra \in Seq(E) /\ Len(extra) = 2 /\ extra[1] = <<224, Nil>> /\ extra[2] = <<f, Nil>>
    BY <1>1, <2>2
  <2>4. /\ <<224, Nil>>[1] = 224 /\ <<224, Nil>>[2] = Nil /\ <<b, e>>[1] = b /\ <<b, e>>[2] = e
        /\ <<f, Nil>>[1] = f /\ <<f, Nil>>[2] = Nil
    OBVIOUS
  <2> HIDE DEF sent, extra, E
  <2>5. <<>> \o sent = sent /\ sent \o <<>> = sent
    BY <2>3
  <2>6. wire' = wire \o sent \/ wire' = wire \o (extra \o sent) \/ wire' = wire \o (sent \o extra)
    BY <2>1, <2>5 DEF Send
  <2>7. \A j \in 1 .. 88 : e # Pressed(j)
    <3>1. \A j \in 1 .. 88 : j # k
      BY <1>5
    <3> QED
      BY <1>3, <3>1
  <2>8. Block(sent, k, make)
    <3>1. sent \in Seq(ScanCodes \X Events) /\ k # 29
      BY <1>5, <2>3 DEF E
    <3>2. ASSUME NEW i \in 1 .. Len(sent)
          PROVE  \/ i = 1 /\ sent[i][1] = 224 /\ sent[i][2] = Nil
                 \/ i = 2 /\ sent[i - 1][1] = 224 /\ sent[i][1] = b /\ sent[i][2] = e
      BY <2>3, <2>4
    <3> QED
      <4>1. \A i \in 1 .. Len(sent) : BlockByte(sent, i, k, make)
        <5>1. ASSUME NEW i \in 1 .. Len(sent)
              PROVE  /\ \A j \in 1 .. 88 : sent[i][2] # Pressed(j)
                     /\ sent[i][1] = 224 \/ Behind(sent, i)
          <6>1. sent[i][2] = Nil \/ sent[i][2] = e
            BY <3>2, Zenon
          <6>2. sent[i][1] = 224 \/ Behind(sent, i)
            BY <3>2 DEF Behind
          <6> QED
            BY <1>2, <2>7, <6>1, <6>2, Zenon
        <5> QED
          BY <5>1, Silent
      <4> QED
        BY <2>2, <2>3, <2>4, <3>1, <4>1 DEF Block
  <2>9. Block(extra \o sent, k, make)
    <3> DEFINE S == extra \o sent
    <3>0. /\ S \in Seq(E) /\ Len(S) = Len(extra) + Len(sent)
          /\ \A i \in 1 .. Len(extra) + Len(sent) :
               S[i] = IF i <= Len(extra) THEN extra[i] ELSE sent[i - Len(extra)]
      BY <2>3, Join, ZenonT(60)
    <3>1. /\ S \in Seq(E) /\ Len(S) = 4
          /\ S[1] = extra[1] /\ S[2] = extra[2] /\ S[3] = sent[1] /\ S[4] = sent[2]
      BY <2>3, <3>0
    <3> HIDE DEF S
    <3>2. S \in Seq(ScanCodes \X Events) /\ k # 29
      BY <1>5, <3>1 DEF E
    <3>3. ASSUME NEW i \in 1 .. Len(S)
          PROVE  \/ i \in {1, 3} /\ S[i][1] = 224 /\ S[i][2] = Nil
                 \/ i = 2 /\ S[i - 1][1] = 224 /\ S[i][1] = f /\ S[i][2] = Nil
                 \/ i = 4 /\ S[i - 1][1] = 224 /\ S[i][1] = b /\ S[i][2] = e
      BY <2>3, <2>4, <3>1
    <3>4. \A i \in 1 .. Len(S) : BlockByte(S, i, k, make)
      <4>1. ASSUME NEW i \in 1 .. Len(S)
            PROVE  /\ \A j \in 1 .. 88 : S[i][2] # Pressed(j)
                   /\ S[i][1] = 224 \/ Behind(S, i)
        <5>1. S[i][2] = Nil \/ S[i][2] = e
          BY <3>3, Zenon
        <5>2. S[i][1] = 224 \/ Behind(S, i)
          BY <3>3 DEF Behind
        <5> QED
          BY <1>2, <2>7, <5>1, <5>2, Zenon
      <4> QED
        BY <4>1, Silent, SMTT(60)
    <3>5. Block(S, k, make)
      BY <2>2, <2>3, <2>4, <3>1, <3>2, <3>4 DEF Block
    <3> QED
      BY <3>5 DEF S
  <2>10. Block(sent \o extra, k, make)
    <3> DEFINE S == sent \o extra
    <3>0. /\ S \in Seq(E) /\ Len(S) = Len(sent) + Len(extra)
          /\ \A i \in 1 .. Len(sent) + Len(extra) :
               S[i] = IF i <= Len(sent) THEN sent[i] ELSE extra[i - Len(sent)]
      BY <2>3, Join, ZenonT(60)
    <3>1. /\ S \in Seq(E) /\ Len(S) = 4
          /\ S[1] = sent[1] /\ S[2] = sent[2] /\ S[3] = extra[1] /\ S[4] = extra[2]
      BY <2>3, <3>0
    <3> HIDE DEF S
    <3>2. S \in Seq(ScanCodes \X Events) /\ k # 29
      BY <1>5, <3>1 DEF E
    <3>3. ASSUME NEW i \in 1 .. Len(S)
          PROVE  \/ i \in {1, 3} /\ S[i][1] = 224 /\ S[i][2] = Nil
                 \/ i = 4 /\ S[i - 1][1] = 224 /\ S[i][1] = f /\ S[i][2] = Nil
                 \/ i = 2 /\ S[i - 1][1] = 224 /\ S[i][1] = b /\ S[i][2] = e
      BY <2>3, <2>4, <3>1
    <3>4. \A i \in 1 .. Len(S) : BlockByte(S, i, k, make)
      <4>1. ASSUME NEW i \in 1 .. Len(S)
            PROVE  /\ \A j \in 1 .. 88 : S[i][2] # Pressed(j)
                   /\ S[i][1] = 224 \/ Behind(S, i)
        <5>1. S[i][2] = Nil \/ S[i][2] = e
          BY <3>3, Zenon
        <5>2. S[i][1] = 224 \/ Behind(S, i)
          BY <3>3 DEF Behind
        <5> QED
          BY <1>2, <2>7, <5>1, <5>2, Zenon
      <4> QED
        BY <4>1, Silent, SMTT(60)
    <3>5. Block(S, k, make)
      BY <2>2, <2>3, <2>4, <3>1, <3>2, <3>4 DEF Block
    <3> QED
      BY <3>5 DEF S
  <2> QED
    BY <2>6, <2>8, <2>9, <2>10
<1> QED
  BY <1>4, <1>5 DEF RealKeys

---------------------------------------------------------------------------
(* The invariant.                                                          *)

\* What the lemmas say of the queue of bytes if its end moves.
LEMMA Appended ==
  ASSUME Inv, NEW S, NEW k, NEW make, Block(S, k, make), wire' = wire \o S,
         UNCHANGED <<reading, code_with_E0, modifiers, locks, read_q>>,
         make \in BOOLEAN,
         29 \in held' <=> IF k = 29 THEN make ELSE 29 \in held
  PROVE  Inv'
<1> DEFINE E == ScanCodes \X Events
<1>1. /\ reading \in Seq(E) /\ wire \in Seq(E) /\ S \in Seq(E) /\ Len(S) \in 1 .. 4
      /\ Len(reading) \in Nat /\ Len(wire) \in Nat /\ Len(S) \in Nat
  BY DEF Inv, Types, Block
<1>2. /\ wire' \in Seq(E) /\ Len(wire') = Len(wire) + Len(S)
      /\ \A i \in 1 .. Len(wire) + Len(S) :
           wire'[i] = IF i <= Len(wire) THEN wire[i] ELSE S[i - Len(wire)]
  BY <1>1, Join
<1> HIDE DEF E
<1> SUFFICES ASSUME NEW n \in Nat, n = Pending PROVE Inv'
  BY <1>1 DEF Pending
<1>3. n \in Nat /\ Pending' = n + Len(S) /\ reading' = reading
  BY <1>1, <1>2 DEF Pending
<1>4. \A i \in 1 .. n : Byte(i)' = Byte(i)
  BY <1>1, <1>2 DEF Byte, Pending
<1>5. \A i \in n + 1 .. n + Len(S) : Byte(i)' = S[i - n]
  BY <1>1, <1>2, SMTT(60) DEF Byte, Pending
<1>6. \A i \in 1 .. n : Prefixed(i)' <=> Prefixed(i)
  <2> SUFFICES ASSUME NEW i \in 1 .. n PROVE Prefixed(i)' <=> Prefixed(i)
    OBVIOUS
  <2>1. i # 1 => i - 1 \in 1 .. n
    BY <1>3
  <2> QED
    BY <1>4, <2>1 DEF Prefixed
<1>7. \A i \in n + 1 .. n + Len(S) : Prefixed(i)' <=> Behind(S, i - n)
  <2> SUFFICES ASSUME NEW i \in n + 1 .. n + Len(S) PROVE Prefixed(i)' <=> Behind(S, i - n)
    OBVIOUS
  <2>1. CASE i = n + 1
    <3>1. ~Behind(S, i - n)
      BY <1>3, <2>1 DEF Behind
    <3>2. CASE n = 0
      BY <2>1, <3>1, <3>2 DEF Prefixed, Inv, Complete
    <3>3. CASE n # 0
      <4>1. i # 1 /\ i - 1 = n /\ Byte(n)' = Byte(n) /\ Byte(n)[1] # 224
        BY <1>3, <1>4, <2>1, <3>3 DEF Inv, Complete
      <4> QED
        BY <3>1, <4>1 DEF Prefixed
    <3> QED
      BY <3>2, <3>3
  <2>2. CASE i # n + 1
    <3>1. i # 1 /\ i - 1 \in n + 1 .. n + Len(S) /\ i - n > 1 /\ (i - 1) - n = (i - n) - 1
      BY <1>1, <1>3, <2>2
    <3>2. Byte(i - 1)' = S[(i - n) - 1]
      BY <1>5, <3>1
    <3> QED
      BY <3>1, <3>2 DEF Prefixed, Behind
  <2> QED
    BY <2>1, <2>2
<1>8. Types'
  BY <1>2 DEF Inv, Types, modifiers, locks, E
<1>9. Plain'
  <2> SUFFICES ASSUME NEW i \in 1 .. n + Len(S)
               PROVE  /\ Byte(i)'[1] < 128 /\ ~Prefixed(i)' =>
                           Byte(i)'[1] \in 1 .. 88 /\ Byte(i)'[2] = Pressed(Byte(i)'[1])
                      /\ \A j \in 1 .. 88 : Byte(i)'[2] = Pressed(j) =>
                           Byte(i)'[1] = j /\ ~Prefixed(i)'
    BY <1>3 DEF Plain, Pressed
  <2>1. CASE i \in 1 .. n
    BY <1>4, <1>6, <2>1, ZenonT(60) DEF Inv, Plain
  <2>2. CASE i \in n + 1 .. n + Len(S)
    <3>1. i - n \in 1 .. Len(S)
      BY <1>1, <1>3, <2>2
    <3>2. BlockByte(S, i - n, k, make)
      BY <3>1 DEF Block
    <3>3. Byte(i)' = S[i - n] /\ (Prefixed(i)' <=> Behind(S, i - n))
      BY <1>5, <1>7, <2>2
    <3> QED
      BY <3>2, <3>3, Zenon DEF BlockByte
  <2> QED
    BY <1>1, <1>3, <2>1, <2>2
<1>10. Complete'
  <2>1. n + Len(S) # 0 /\ n + Len(S) \in n + 1 .. n + Len(S) /\ (n + Len(S)) - n = Len(S)
    <3>1. \A l \in 1 .. 4 : n + l # 0 /\ n + l \in n + 1 .. n + l /\ (n + l) - n = l
      OBVIOUS
    <3> QED
      BY <1>1, <3>1
  <2>2. ASSUME NEW m, m = n + Len(S)
        PROVE  Byte(m)' = S[Len(S)]
    BY <1>1, <1>3, <1>5, <2>1, <2>2
  <2>3. S[Len(S)][1] # 224
    BY DEF Block
  <2>4. ASSUME NEW m, m = Pending'
        PROVE  Byte(m)'[1] # 224
    BY <1>3, <2>2, <2>3, <2>4
  <2> QED
    BY <1>3, <2>1, <2>4 DEF Complete
<1>11. CtrlKnown'
  <2>1. \A i \in 1 .. n : IsCtrl(i)' <=> IsCtrl(i)
    BY <1>4, <1>6 DEF IsCtrl
  <2>2. \A i \in n + 1 .. n + Len(S) : IsCtrl(i)' => k = 29 /\ (Byte(i)'[1] = 29 <=> make)
    <3> SUFFICES ASSUME NEW i \in n + 1 .. n + Len(S), IsCtrl(i)'
                 PROVE  k = 29 /\ (Byte(i)'[1] = 29 <=> make)
      OBVIOUS
    <3>1. i - n \in 1 .. Len(S)
      BY <1>1, <1>3
    <3>2. BlockByte(S, i - n, k, make)
      BY <3>1 DEF Block
    <3>3. Byte(i)' = S[i - n] /\ (Prefixed(i)' <=> Behind(S, i - n))
      BY <1>5, <1>7
    <3> QED
      BY <3>2, <3>3, ZenonT(60) DEF BlockByte, IsCtrl
  <2>3. CASE k = 29
    <3>1. Len(S) = 1 /\ S[1][1] \in {29, 157}
      BY <2>3 DEF Block
    <3>2. IsCtrl(n + 1)'
      <4>1. Byte(n + 1)' = S[1] /\ ~Prefixed(n + 1)'
        BY <1>3, <1>5, <1>7, <3>1 DEF Behind
      <4> QED
        BY <3>1, <4>1 DEF IsCtrl
    <3> QED
      BY <1>3, <2>2, <2>3, <3>1, <3>2 DEF CtrlKnown
  <2>4. CASE k # 29
    <3>1. \A i \in n + 1 .. n + Len(S) : ~IsCtrl(i)'
      BY <2>2, <2>4
    <3>2. 29 \in held' <=> 29 \in held
      BY <2>4
    <3> QED
      BY <1>1, <1>3, <1>4, <2>1, <3>1, <3>2, SMTT(60) DEF Inv, CtrlKnown, modifiers
  <2> QED
    BY <2>3, <2>4
<1> QED
  BY <1>8, <1>9, <1>10, <1>11 DEF Inv

\* A byte that the handler reads stays the first of those to be handled.
LEMMA InterruptStep ==
  ASSUME Inv, ~Nested, Interrupt
  PROVE  Inv'
<1> DEFINE E == ScanCodes \X Events
<1>1. /\ wire \in Seq(E) /\ wire # <<>> /\ reading = <<>>
      /\ Len(wire) \in Nat /\ Len(wire) # 0 /\ Len(reading) = 0
  BY DEF Inv, Types, Interrupt
<1>2. /\ reading' = <<Head(wire)>> /\ reading' \in Seq(E) /\ Len(reading') = 1
      /\ reading'[1] = wire[1]
      /\ wire' \in Seq(E) /\ Len(wire') = Len(wire) - 1
      /\ \A i \in 1 .. Len(wire) - 1 : wire'[i] = wire[i + 1]
  BY <1>1 DEF Interrupt
<1>3. Pending' = Pending /\ Pending = Len(wire)
  BY <1>1, <1>2 DEF Pending
<1>4. \A i \in 1 .. Pending : Byte(i)' = Byte(i)
  BY <1>1, <1>2, <1>3 DEF Byte
<1>5. \A i \in 1 .. Pending : Prefixed(i)' <=> Prefixed(i)
  <2> SUFFICES ASSUME NEW i \in 1 .. Pending PROVE Prefixed(i)' <=> Prefixed(i)
    OBVIOUS
  <2>1. i # 1 => i - 1 \in 1 .. Pending
    BY <1>1, <1>3
  <2>2. code_with_E0' = code_with_E0
    BY DEF Interrupt
  <2> QED
    BY <1>4, <2>1, <2>2 DEF Prefixed
<1>6. Types'
  BY <1>2 DEF Inv, Types, Interrupt, modifiers, locks
<1>7. Plain'
  <2> SUFFICES ASSUME NEW i \in 1 .. Pending
               PROVE  /\ Byte(i)'[1] < 128 /\ ~Prefixed(i)' =>
                           Byte(i)'[1] \in 1 .. 88 /\ Byte(i)'[2] = Pressed(Byte(i)'[1])
                      /\ \A j \in 1 .. 88 : Byte(i)'[2] = Pressed(j) =>
                           Byte(i)'[1] = j /\ ~Prefixed(i)'
    BY <1>3 DEF Plain, Pressed
  <2> QED
    BY <1>4, <1>5, ZenonT(60) DEF Inv, Plain
<1>8. Complete'
  <2>1. Pending \in 1 .. Pending
    BY <1>1, <1>3
  <2>2. ASSUME NEW m, m = Pending
        PROVE  Byte(m)'[1] # 224
    BY <1>1, <1>3, <1>4, <2>1, <2>2 DEF Inv, Complete
  <2> QED
    BY <1>1, <1>3, <2>2 DEF Complete, Byte
<1>9. CtrlKnown'
  <2>1. \A i \in 1 .. Pending : IsCtrl(i)' <=> IsCtrl(i)
    BY <1>4, <1>5 DEF IsCtrl
  <2>2. UNCHANGED <<shift_l, shift_r, ctrl_l, held>>
    BY DEF Interrupt, modifiers
  <2>3. \A i \in 1 .. Pending : \A j \in i + 1 .. Pending : j \in 1 .. Pending
    BY <1>1, <1>3
  <2> QED
    BY <1>3, <1>4, <2>1, <2>2, <2>3 DEF Inv, CtrlKnown
<1> QED
  BY <1>6, <1>7, <1>8, <1>9 DEF Inv

\* A key that is pressed, repeated or released.
LEMMA KeyStep ==
  ASSUME Inv, NEW k \in RealKeys, Press(k) \/ Repeat(k) \/ LetGo(k)
  PROVE  Inv'
<1> SUFFICES ASSUME NEW make \in BOOLEAN, Send(k, make),
                    UNCHANGED <<reading, code_with_E0, modifiers, locks, read_q>>,
                    29 \in held' <=> IF k = 29 THEN make ELSE 29 \in held
             PROVE  Inv'
  <2>1. k # PAUSE
    BY DEF RealKeys, PAUSE
  <2>2. CASE Press(k)
    <3>1. 29 \in held' <=> IF k = 29 THEN TRUE ELSE 29 \in held
      BY <2>1, <2>2 DEF Press
    <3> QED
      BY <2>2, <3>1 DEF Press
  <2>3. CASE Repeat(k)
    <3>1. 29 \in held' <=> IF k = 29 THEN TRUE ELSE 29 \in held
      BY <2>3 DEF Repeat
    <3> QED
      BY <2>3, <3>1 DEF Repeat
  <2>4. CASE LetGo(k)
    <3>1. 29 \in held' <=> IF k = 29 THEN FALSE ELSE 29 \in held
      BY <2>4 DEF LetGo
    <3> QED
      BY <2>4, <3>1 DEF LetGo
  <2> QED
    BY <2>2, <2>3, <2>4
<1>1. PICK S : Block(S, k, make) /\ wire' = wire \o S
  BY SentBlock DEF Inv, Types
<1> QED
  BY <1>1, Appended

\* The answers to the commands of setLeds come before everything that waits.
LEMMA Answered ==
  ASSUME Types, ~Waiting, UNCHANGED wire \/ setLeds
  PROVE  \E a \in 0 .. 2 :
           /\ wire' \in Seq(ScanCodes \X Events) /\ Len(wire') = a + Len(wire)
           /\ \A i \in 1 .. a + Len(wire) : wire'[i] = IF i <= a THEN Ack ELSE wire[i - a]
<1> DEFINE E == ScanCodes \X Events
<1>1. wire \in Seq(E) /\ Len(wire) \in Nat
  BY DEF Types
<1>2. Ack \in E
  BY DEF Ack, ScanCodes, Events
<1> HIDE DEF E
<1>3. CASE UNCHANGED wire
  <2>1. /\ 0 \in 0 .. 2 /\ wire' \in Seq(E) /\ Len(wire') = 0 + Len(wire)
        /\ \A i \in 1 .. 0 + Len(wire) : wire'[i] = IF i <= 0 THEN Ack ELSE wire[i - 0]
    BY <1>1, <1>3
  <2> QED
    BY <2>1 DEF E
<1>4. CASE setLeds
  <2>1. PICK a \in 0 .. 2 : wire' = [i \in 1 .. a |-> Ack] \o SubSeq(wire, 1, Len(wire))
    <3>1. PICK late \in 0 .. 2 : \E lost \in 0 .. late :
            /\ lost <= 0
            /\ wire' = [i \in 1 .. late |-> Ack] \o SubSeq(wire, lost + 1, Len(wire))
      BY <1>4, Zenon DEF setLeds
    <3>2. PICK lost \in 0 .. late :
            /\ lost <= 0
            /\ wire' = [i \in 1 .. late |-> Ack] \o SubSeq(wire, lost + 1, Len(wire))
      BY <3>1
    <3>3. lost + 1 = 1
      BY <3>2
    <3> QED
      BY <3>2, <3>3, Zenon
  <2> DEFINE A == [i \in 1 .. a |-> Ack]
             W == SubSeq(wire, 1, Len(wire))
  <2>2. A \in Seq(E) /\ Len(A) = a /\ \A i \in 1 .. a : A[i] = Ack
    BY <1>2
  <2>3. W \in Seq(E) /\ Len(W) = Len(wire) /\ \A i \in 1 .. Len(wire) : W[i] = wire[i]
    BY <1>1
  <2> HIDE DEF A, W
  <2>4. /\ A \o W \in Seq(E) /\ Len(A \o W) = a + Len(wire)
        /\ \A i \in 1 .. a + Len(wire) : (A \o W)[i] = IF i <= a THEN A[i] ELSE W[i - a]
    BY <2>2, <2>3, Join
  <2>5. \A i \in 1 .. a + Len(wire) : (A \o W)[i] = IF i <= a THEN Ack ELSE wire[i - a]
    <3> SUFFICES ASSUME NEW i \in 1 .. a + Len(wire)
                 PROVE  (A \o W)[i] = IF i <= a THEN Ack ELSE wire[i - a]
      OBVIOUS
    <3>1. i <= a => i \in 1 .. a
      BY <2>1
    <3>2. ~(i <= a) => i - a \in 1 .. Len(wire)
      BY <1>1, <2>1
    <3> QED
      BY <2>2, <2>3, <2>4, <3>1, <3>2
  <2> QED
    BY <2>1, <2>4, <2>5 DEF A, W, E
<1> QED
  BY <1>3, <1>4

\* What the lemmas say of the queue of bytes if its first is handled.
LEMMA Handled ==
  ASSUME Inv, Types', NEW a \in 0 .. 2, Len(reading) = 1, Len(reading') = 0,
         Len(wire') = a + Len(wire),
         \A i \in 1 .. a + Len(wire) : wire'[i] = IF i <= a THEN Ack ELSE wire[i - a],
         code_with_E0' <=> Byte(1)[1] = 224, Byte(1)[1] = 224 => a = 0,
         held' = held,
         ~shift_l' /\ ~shift_r' =>
           /\ ~shift_l /\ ~shift_r
           /\ ctrl_l' <=> IF IsCtrl(1) THEN Byte(1)[1] = 29 ELSE ctrl_l
  PROVE  Inv'
<1>1. Len(wire) \in Nat /\ Pending = Len(wire) + 1 /\ Pending \in Nat /\ 1 \in 1 .. Pending
  BY DEF Inv, Types, Pending
<1>2. Pending' = Len(wire) + a
  BY <1>1 DEF Pending
<1> SUFFICES ASSUME NEW n \in Nat, n = Len(wire) PROVE Inv'
  BY <1>1
<1>3. Pending = n + 1 /\ Pending' = n + a
  BY <1>1, <1>2
<1>4. \A i \in 1 .. a : Byte(i)' = Ack
  BY DEF Byte
<1>5. \A i \in a + 1 .. a + n : i - a + 1 \in 2 .. n + 1 /\ Byte(i)' = Byte(i - a + 1)
  BY DEF Byte
<1>6. \A i \in 1 .. a : ~Prefixed(i)'
  <2> SUFFICES ASSUME NEW i \in 1 .. a PROVE ~Prefixed(i)'
    OBVIOUS
  <2>1. CASE i = 1
    BY <2>1 DEF Prefixed
  <2>2. CASE i # 1
    <3>1. i - 1 \in 1 .. a
      BY <2>2
    <3>2. Byte(i - 1)' = <<250, Nil>>
      BY <1>4, <3>1 DEF Ack
    <3> QED
      BY <2>2, <3>2 DEF Prefixed
  <2> QED
    BY <2>1, <2>2
<1>7. \A i \in a + 1 .. a + n : Prefixed(i)' <=> Prefixed(i - a + 1)
  <2> SUFFICES ASSUME NEW i \in a + 1 .. a + n PROVE Prefixed(i)' <=> Prefixed(i - a + 1)
    OBVIOUS
  <2>1. i - a + 1 # 1 /\ (i - a + 1) - 1 = i - a
    OBVIOUS
  <2>2. Prefixed(i - a + 1) <=> Byte(i - a)[1] = 224
    BY <2>1 DEF Prefixed
  <2>3. CASE i = a + 1
    <3>1. i - a = 1
      BY <2>3
    <3>2. CASE a = 0
      BY <2>2, <2>3, <3>1, <3>2 DEF Prefixed
    <3>3. CASE a # 0
      <4>1. i # 1 /\ i - 1 \in 1 .. a
        BY <2>3, <3>3
      <4>2. Byte(i - 1)' = <<250, Nil>>
        BY <1>4, <4>1 DEF Ack
      <4>3. ~Prefixed(i)'
        BY <4>1, <4>2 DEF Prefixed
      <4> QED
        BY <2>2, <3>1, <3>3, <4>3
    <3> QED
      BY <3>2, <3>3
  <2>4. CASE i # a + 1
    <3>1. i # 1 /\ i - 1 \in a + 1 .. a + n /\ (i - 1) - a + 1 = i - a
      BY <2>4
    <3>2. Byte(i - 1)' = Byte(i - a)
      BY <1>5, <3>1
    <3> QED
      BY <2>2, <3>1, <3>2 DEF Prefixed
  <2> QED
    BY <2>3, <2>4
<1>8. Plain'
  <2>1. SUFFICES ASSUME NEW i \in 1 .. n + a
                 PROVE  /\ Byte(i)'[1] < 128 /\ ~Prefixed(i)' =>
                             Byte(i)'[1] \in 1 .. 88 /\ Byte(i)'[2] = Pressed(Byte(i)'[1])
                        /\ \A j \in 1 .. 88 : Byte(i)'[2] = Pressed(j) =>
                             Byte(i)'[1] = j /\ ~Prefixed(i)'
    BY <1>3 DEF Plain, Pressed
  <2>2. CASE i \in 1 .. a
    <3>1. \A j \in 1 .. 88 : Pressed(j) \in [key : 0 .. 256, make : BOOLEAN]
      BY DEF Pressed
    <3>2. \A j \in 1 .. 88 : Pressed(j) # Nil
      BY <3>1, KeyboardAssumption, ZenonT(60) DEF PAUSE
    <3>3. Byte(i)'[1] = 250 /\ Byte(i)'[2] = Nil
      BY <1>4, <2>2 DEF Ack
    <3>4. ~(Byte(i)'[1] < 128)
      BY <3>3
    <3>5. \A j \in 1 .. 88 : Byte(i)'[2] # Pressed(j)
      BY <3>2, <3>3
    <3> QED
      BY <3>4, <3>5, Zenon
  <2>3. CASE i \in a + 1 .. a + n
    <3>1. i - a + 1 \in 1 .. Pending
      BY <1>3, <1>5, <2>3
    <3>2. Byte(i)' = Byte(i - a + 1) /\ (Prefixed(i)' <=> Prefixed(i - a + 1))
      BY <1>5, <1>7, <2>3
    <3>3. ASSUME NEW m \in 1 .. Pending
          PROVE  /\ Byte(m)[1] < 128 /\ ~Prefixed(m) =>
                      Byte(m)[1] \in 1 .. 88 /\ Byte(m)[2] = Pressed(Byte(m)[1])
                 /\ \A j \in 1 .. 88 : Byte(m)[2] = Pressed(j) => Byte(m)[1] = j /\ ~Prefixed(m)
      BY DEF Inv, Plain
    <3>4. ASSUME NEW b, NEW m \in 1 .. Pending, b = Byte(m)
          PROVE  /\ b[1] < 128 /\ ~Prefixed(m) => b[1] \in 1 .. 88 /\ b[2] = Pressed(b[1])
                 /\ \A j \in 1 .. 88 : b[2] = Pressed(j) => b[1] = j /\ ~Prefixed(m)
      BY <3>3, <3>4
    <3> QED
      BY <3>1, <3>2, <3>4, ZenonT(60)
  <2> QED
    BY <2>2, <2>3, SMTT(60)
<1>9. Complete'
  <2>1. CASE Pending' = 0
    <3>1. Pending = 1
      BY <1>3, <2>1
    <3>2. Byte(1)[1] # 224
      BY <3>1 DEF Inv, Complete
    <3>3. ~code_with_E0'
      BY <3>2
    <3>4. ~(Pending' \in 1 .. Pending')
      BY <2>1
    <3> QED
      BY <2>1, <3>3, <3>4 DEF Complete
  <2>2. ASSUME NEW i \in 1 .. n + a, i = Pending'
        PROVE  Byte(i)'[1] # 224
    <3>1. CASE i \in 1 .. a
      BY <1>4, <3>1 DEF Ack
    <3>2. CASE i \in a + 1 .. a + n
      <4>1. i - a + 1 = Pending /\ i - a + 1 \in 1 .. Pending
        BY <1>3, <2>2
      <4>2. Byte(i - a + 1)[1] # 224
        BY <4>1 DEF Inv, Complete
      <4> QED
        BY <1>5, <3>2, <4>2
    <3> QED
      BY <3>1, <3>2
  <2> QED
    BY <1>3, <2>1, <2>2 DEF Complete
<1>10. CtrlKnown'
  <2>1. SUFFICES ASSUME ~shift_l', ~shift_r'
        PROVE  /\ \A i \in 1 .. n + a :
                    IsCtrl(i)' /\ (\A j \in i + 1 .. n + a : ~IsCtrl(j)') =>
                      (Byte(i)'[1] = 29 <=> 29 \in held)
               /\ (\A i \in 1 .. n + a : ~IsCtrl(i)') => (ctrl_l' <=> 29 \in held)
    BY <1>3 DEF CtrlKnown
  <2>2. \A i \in 1 .. a : ~IsCtrl(i)'
    BY <1>4 DEF IsCtrl, Ack
  <2>3. \A i \in a + 1 .. a + n : IsCtrl(i)' <=> IsCtrl(i - a + 1)
    BY <1>5, <1>7 DEF IsCtrl
  <2>4. ASSUME NEW k \in 2 .. n + 1
        PROVE  k + a - 1 \in a + 1 .. a + n /\ (k + a - 1) - a + 1 = k
    OBVIOUS
  <2>5. ASSUME NEW i \in 1 .. n + a, IsCtrl(i)', \A j \in i + 1 .. n + a : ~IsCtrl(j)'
        PROVE  Byte(i)'[1] = 29 <=> 29 \in held
    <3>1. i \in a + 1 .. a + n
      BY <2>2, <2>5
    <3>2. i - a + 1 \in 1 .. Pending /\ IsCtrl(i - a + 1) /\ Byte(i)' = Byte(i - a + 1)
      BY <1>3, <1>5, <2>3, <2>5, <3>1
    <3>3. ASSUME NEW k \in (i - a + 1) + 1 .. n + 1
          PROVE  ~IsCtrl(k)
      <4>1. k \in 2 .. n + 1 /\ k + a - 1 \in i + 1 .. n + a
        BY <3>1, SMTT(60)
      <4> QED
        BY <2>3, <2>4, <2>5, <4>1
    <3> QED
      BY <1>3, <2>1, <3>2, <3>3, SMTT(60) DEF Inv, CtrlKnown
  <2>6. ASSUME \A i \in 1 .. n + a : ~IsCtrl(i)'
        PROVE  ctrl_l' <=> 29 \in held
    <3>1. ASSUME NEW k \in 2 .. n + 1
          PROVE  ~IsCtrl(k)
      <4>1. k + a - 1 \in 1 .. n + a
        OBVIOUS
      <4> QED
        BY <2>3, <2>4, <2>6, <4>1, ZenonT(60)
    <3>2. CASE IsCtrl(1)
      <4>1. Byte(1)[1] = 29 <=> 29 \in held
        BY <1>1, <1>3, <2>1, <3>1, <3>2 DEF Inv, CtrlKnown
      <4> QED
        BY <2>1, <3>2, <4>1
    <3>3. CASE ~IsCtrl(1)
      <4>1. \A k \in 1 .. Pending : ~IsCtrl(k)
        BY <1>3, <3>1, <3>3
      <4> QED
        BY <2>1, <3>3, <4>1 DEF Inv, CtrlKnown
    <3> QED
      BY <3>2, <3>3
  <2> QED
    BY <2>5, <2>6
<1> QED
  BY <1>8, <1>9, <1>10 DEF Inv

\* Every code that is stored is a character: a code of the pad becomes its
\* digit or its cursor movement.
LEMMA StoredCode ==
  ASSUME Types, NEW key \in 0 .. 127
  PROVE  Stored(key) \in 0 .. 127
<1>1. CASE key \in PAD_SLASH .. PAD_9
  <2>1. key - PAD_0 + 1 \in 1 .. 10 \/ key \in 44 .. 49
    BY <1>1 DEF PAD_SLASH, PAD_0, PAD_9
  <2>2. \A i \in 1 .. 10 :
          <<INSERT, END, DOWN, PAGEDOWN, LEFT, key, RIGHT, HOME, UP, PAGEUP>>[i] \in 0 .. 127
    BY DEF INSERT, END, DOWN, PAGEDOWN, LEFT, RIGHT, HOME, UP, PAGEUP
  <2>3. key - PAD_0 + 1 \in 1 .. 10 => key - PAD_0 + 48 \in 0 .. 127
    BY DEF PAD_0
  <2>4. PadKey(key) \in 0 .. 127
    BY <2>1, <2>2, <2>3 DEF PadKey, PAD_SLASH, PAD_STAR, PAD_MINUS, PAD_PLUS, PAD_ENTER,
                            PAD_DOT, DELETE, ENTER
  <2> QED
    BY <1>1, <2>4 DEF Stored
<1>2. CASE key \notin PAD_SLASH .. PAD_9
  BY <1>2 DEF Stored
<1> QED
  BY <1>1, <1>2

\* The byte that the handler has read.
LEMMA FirstByte ==
  ASSUME Inv, keyboardHandler
  PROVE  /\ Len(reading) = 1 /\ Innermost = Byte(1) /\ Pending # 0
         /\ Byte(1) \in ScanCodes \X Events /\ Byte(1)[1] \in ScanCodes /\ Byte(1)[1] # 225
         /\ Len(reading') = 0 /\ reading' \in Seq(ScanCodes \X Events) /\ held' = held
         /\ 1 \in 1 .. Pending
<1> DEFINE E == ScanCodes \X Events
<1>1. reading \in Seq(E) /\ Len(reading) = 1 /\ reading # <<>> /\ Len(wire) \in Nat
  <2>1. reading \in Seq(E) /\ Len(reading) <= 1 /\ wire \in Seq(E)
    BY DEF Inv, Types
  <2>2. reading # <<>>
    BY DEF keyboardHandler
  <2> HIDE DEF E
  <2>3. Len(reading) \in Nat /\ Len(wire) \in Nat
    BY <2>1
  <2>4. Len(reading) # 0
    BY <2>1, <2>2
  <2>5. \A n \in Nat : n <= 1 /\ n # 0 => n = 1
    OBVIOUS
  <2>6. Len(reading) = 1
    BY <2>1, <2>3, <2>4, <2>5
  <2> QED
    BY <2>1, <2>2, <2>3, <2>6
<1>2. Byte(1) = reading[1] /\ reading[1] \in E /\ Innermost = reading[1] /\ Pending # 0
      /\ 1 \in 1 .. Pending
  BY <1>1 DEF Byte, Innermost, Pending
<1>3. reading' \in Seq(E) /\ Len(reading') = 0
  BY <1>1 DEF keyboardHandler
<1>4. reading[1][1] \in ScanCodes /\ reading[1][1] # 225
  BY <1>2 DEF ScanCodes
<1> QED
  BY <1>1, <1>2, <1>3, <1>4 DEF keyboardHandler

\* keyboardHandler takes the first byte under way and does to ctrl_l what its key did.
LEMMA HandlerStep ==
  ASSUME Inv, ~Waiting, keyboardHandler
  PROVE  Inv'
<1> DEFINE scan == Byte(1)[1]
           r == scan % 128
           make == scan < 128
           key == keyrow(r, Column(r))
           E == ScanCodes \X Events
<1>1. /\ Len(reading) = 1 /\ Innermost = Byte(1) /\ scan \in ScanCodes /\ scan # 225
      /\ Len(reading') = 0 /\ reading' \in Seq(E) /\ held' = held
  BY FirstByte
<1>2. wire \in Seq(E) /\ Len(wire) \in Nat
  BY DEF Inv, Types
<1>3. CASE scan = 224
  <2>1. Prefix
    BY <1>1, <1>3 DEF keyboardHandler
  <2>2. /\ code_with_E0' = TRUE
        /\ UNCHANGED <<modifiers, locks, read_q, wire>>
    BY <1>1, <1>3, <2>1 DEF Prefix
  <2>3. Types'
    BY <1>1, <1>2, <2>2, SMTT(60) DEF Inv, Types, modifiers, locks
  <2>4. /\ 0 \in 0 .. 2 /\ Len(wire') = 0 + Len(wire)
        /\ \A i \in 1 .. 0 + Len(wire) : wire'[i] = IF i <= 0 THEN Ack ELSE wire[i - 0]
    BY <1>2, <2>2
  <2>5. ~IsCtrl(1)
    BY <1>3 DEF IsCtrl
  <2>6. ~shift_l' /\ ~shift_r' => ~shift_l /\ ~shift_r /\ (ctrl_l' <=> ctrl_l)
    BY <2>2 DEF modifiers
  <2>7. code_with_E0' <=> Byte(1)[1] = 224
    BY <1>3, <2>2
  <2> HIDE DEF E, scan
  <2> QED
    BY <1>1, <2>3, <2>4, <2>5, <2>6, <2>7, Handled
<1>4. CASE scan # 224
  <2>1. ScanCode
    BY <1>1, <1>4 DEF keyboardHandler
  <2>2. /\ code_with_E0' = FALSE
        /\ Modifier(key, make)
        /\ Lock(key, make)
        /\ IF make THEN PutKey(key) ELSE UNCHANGED read_q
    BY <1>1, <2>1, SMT DEF ScanCode
  <2>3. r \in 0 .. 127 /\ make \in BOOLEAN
    <3>1. \A s \in ScanCodes : s % 128 \in 0 .. 127
      BY DEF ScanCodes
    <3> HIDE DEF scan
    <3> QED
      BY <1>1, <3>1, SMTT(60)
  <2>4. Finds(r, key)
    BY <2>3, Codes DEF Inv
  <2>5. (r = 29 <=> scan \in {29, 157}) /\ (scan = 29 <=> r = 29 /\ make)
    <3>1. \A s \in ScanCodes : /\ s % 128 = 29 <=> s \in {29, 157}
                               /\ s = 29 <=> s % 128 = 29 /\ s < 128
      BY DEF ScanCodes
    <3>2. scan \in ScanCodes
      BY <1>1
    <3> HIDE DEF scan
    <3>3. r = 29 <=> scan \in {29, 157}
      BY <3>1, <3>2
    <3>4. scan = 29 <=> r = 29 /\ scan < 128
      BY <3>1, <3>2, SMTT(60)
    <3> QED
      BY <3>3, <3>4, Zenon
  <2> HIDE DEF r, key
  <2>6. key \in 0 .. 127
    <3>1. CASE key = 0
      BY <3>1
    <3>2. CASE key # 0
      <4>1. r \in 1 .. 88 /\ key = Unshifted[r]
        BY <2>4, <3>2, Zenon DEF Finds
      <4> QED
        BY <4>1, RowIsByte, Zenon
    <3> QED
      BY <3>1, <3>2, Zenon
  <2>7. PICK a \in 0 .. 2 :
          /\ wire' \in Seq(E) /\ Len(wire') = a + Len(wire)
          /\ \A i \in 1 .. a + Len(wire) : wire'[i] = IF i <= a THEN Ack ELSE wire[i - a]
    <3>1. UNCHANGED wire \/ setLeds
      BY <2>2 DEF Lock
    <3> QED
      BY <3>1, Answered DEF Inv
  <2>8. Types'
    <3>1. /\ shift_l' \in BOOLEAN /\ shift_r' \in BOOLEAN /\ ctrl_l' \in BOOLEAN
          /\ code_with_E0' \in BOOLEAN
      BY <2>2, <2>3 DEF Inv, Types, Modifier
    <3>2. caps_lock' \in BOOLEAN /\ num_lock' \in BOOLEAN /\ scroll_lock' \in BOOLEAN
      BY <2>2 DEF Lock
    <3>3. /\ read_q'.buf \in [0 .. TTY_BUF_SIZE - 1 -> 0 .. 127]
          /\ read_q'.head \in 0 .. TTY_BUF_SIZE - 1
      <4>1. CASE make
        <5>1. /\ read_q'.buf = [read_q.buf EXCEPT ![read_q.head] = Stored(key)]
              /\ read_q'.head = (read_q.head + 1) % TTY_BUF_SIZE
          BY <2>2, <4>1 DEF PutKey
        <5>2. Stored(key) \in 0 .. 127
          BY <2>6, StoredCode DEF Inv
        <5>3. read_q.head \in Nat /\ TTY_BUF_SIZE \in Nat \ {0}
          BY KeyboardAssumption DEF Inv, Types
        <5>4. (read_q.head + 1) % TTY_BUF_SIZE \in 0 .. TTY_BUF_SIZE - 1
          BY <5>3
        <5> QED
          BY <5>1, <5>2, <5>4, ZenonT(60) DEF Inv, Types
      <4>2. CASE ~make
        BY <2>2, <4>2 DEF Inv, Types
      <4> QED
        BY <4>1, <4>2
    <3> QED
      BY <1>1, <2>7, <3>1, <3>2, <3>3 DEF Types
  <2>9. ASSUME ~shift_l', ~shift_r'
         PROVE  /\ ~shift_l /\ ~shift_r
                /\ ctrl_l' <=> IF IsCtrl(1) THEN scan = 29 ELSE ctrl_l
    <3>1. ~shift_l /\ ~shift_r
      <4>1. SUFFICES ASSUME shift_l \/ shift_r PROVE FALSE
        OBVIOUS
      <4>2. key # SHIFT_L /\ key # SHIFT_R
        BY <2>4, <4>1 DEF Finds, SHIFT_L, SHIFT_R
      <4> QED
        BY <2>2, <2>9, <4>1, <4>2 DEF Modifier
    <3>2. IsCtrl(1) <=> r = 29 /\ ~code_with_E0
      BY <2>5 DEF IsCtrl, Prefixed
    <3>3. IsCtrl(1) <=> key = CTRL_L
      <4>1. r = 29 => /\ r \in 1 .. 88 /\ Unshifted[r] = CTRL_L
                      /\ Unshifted[r] \notin 97 .. 122
        BY CtrlRow DEF CTRL_L
      <4>2. key = CTRL_L => r = 29 /\ ~code_with_E0
        <5>1. CTRL_L # 0
          BY DEF CTRL_L
        <5> QED
          BY <2>4, <5>1, CtrlRow, Zenon DEF Finds
      <4>3. r = 29 /\ ~code_with_E0 => key = CTRL_L
        BY <2>4, <3>1, <4>1, Zenon DEF Finds
      <4> QED
        BY <3>2, <4>2, <4>3, Zenon
    <3>4. IsCtrl(1) => (make <=> scan = 29)
      BY <2>5, <3>2
    <3> QED
      BY <2>2, <3>1, <3>3, <3>4 DEF Modifier
  <2> QED
    BY <1>1, <1>4, <2>2, <2>7, <2>8, <2>9, Handled, SMTT(60)
<1> QED
  BY <1>3, <1>4

\* The invariant is one.
LEMMA Invariance ==
  ASSUME ~Nested, ~Waiting, Keys \subseteq RealKeys
  PROVE  Spec => []Inv
<1>1. Init => Inv
  <2> SUFFICES ASSUME Init PROVE Inv
    OBVIOUS
  <2>1. Pending = 0 /\ 1 .. Pending = {} /\ reading = <<>> /\ wire = <<>>
    BY DEF Init, Pending
  <2>2. Types
    <3>1. reading \in Seq(ScanCodes \X Events) /\ Len(reading) <= 1
          /\ wire \in Seq(ScanCodes \X Events)
      BY <2>1
    <3>2. 0 .. TTY_BUF_SIZE - 1 # {} /\ 0 \in 0 .. TTY_BUF_SIZE - 1
      BY KeyboardAssumption
    <3>3. read_q.buf = [i \in 0 .. TTY_BUF_SIZE - 1 |-> 0] /\ read_q.head = 0
      BY DEF Init
    <3>4. /\ read_q.buf \in [0 .. TTY_BUF_SIZE - 1 -> 0 .. 127]
          /\ read_q.head \in 0 .. TTY_BUF_SIZE - 1
      BY <3>2, <3>3
    <3> QED
      BY <3>1, <3>4 DEF Init, Types
  <2>3. Plain /\ Complete
    BY <2>1 DEF Plain, Complete, Init
  <2>4. CtrlKnown
    BY <2>1 DEF CtrlKnown, Init
  <2> QED
    BY <2>2, <2>3, <2>4 DEF Inv
<1>2. Inv /\ [Next]_vars => Inv'
  <2> SUFFICES ASSUME Inv, [Next]_vars PROVE Inv'
    OBVIOUS
  <2>1. CASE Interrupt
    BY <2>1, InterruptStep
  <2>2. CASE keyboardHandler
    BY <2>2, HandlerStep
  <2>3. ASSUME NEW k \in Keys, Press(k) \/ Repeat(k) \/ LetGo(k)
        PROVE  Inv'
    BY <2>3, KeyStep, SMTT(60)
  <2>4. CASE UNCHANGED vars
    <3>1. /\ UNCHANGED <<shift_l, shift_r, ctrl_l, code_with_E0>>
          /\ UNCHANGED <<caps_lock, num_lock, scroll_lock>>
          /\ UNCHANGED <<read_q, wire, reading, held>>
      BY <2>4 DEF vars, modifiers, locks
    <3>2. Types'
      BY <3>1 DEF Inv, Types
    <3>3. Pending' = Pending /\ \A i : Byte(i)' = Byte(i)
      BY <3>1 DEF Pending, Byte
    <3>4. ASSUME NEW i
          PROVE  (Prefixed(i)' <=> Prefixed(i)) /\ (IsCtrl(i)' <=> IsCtrl(i))
      <4>1. Byte(i)' = Byte(i) /\ Byte(i - 1)' = Byte(i - 1)
        BY <3>3
      <4>2. Prefixed(i)' <=> Prefixed(i)
        BY <3>1, <4>1 DEF Prefixed
      <4> QED
        BY <4>1, <4>2 DEF IsCtrl
    <3>5. Plain'
      BY <3>3, <3>4, Zenon DEF Inv, Plain
    <3>6. Complete'
      BY <3>1, <3>3, Zenon DEF Inv, Complete
    <3>7. CtrlKnown'
      BY <3>1, <3>3, <3>4, Zenon DEF Inv, CtrlKnown
    <3> QED
      BY <3>2, <3>5, <3>6, <3>7 DEF Inv
  <2> QED
    BY <2>1, <2>2, <2>3, <2>4 DEF Next
<1> QED
  BY <1>1, <1>2, PTL DEF Spec

---------------------------------------------------------------------------
(* The properties.                                                         *)

\* What a scan code does in a state of the invariant: the code it finds, and
\* that a key of the main block finds its own.
LEMMA ScanCodeFinds ==
  ASSUME Inv, keyboardHandler, Byte(1)[1] # 224, NEW r, r = Byte(1)[1] % 128,
         NEW key, key = keyrow(r, Column(r))
  PROVE  /\ Lock(key, Byte(1)[1] < 128)
         /\ Byte(1)[1] < 128 => PutKey(key) /\ r = Byte(1)[1]
         /\ r \in 0 .. 127
         /\ key # 0 => ~code_with_E0 /\ r \in 1 .. 88 /\ key = Unshifted[r]
         /\ ~code_with_E0 /\ ~shift_l /\ ~shift_r /\ ~caps_lock /\ r \in 1 .. 88
              => key = Unshifted[r]
<1>1. Innermost = Byte(1) /\ Byte(1)[1] \in ScanCodes /\ Byte(1)[1] # 225
  BY FirstByte
<1>2. ScanCode
  BY <1>1 DEF keyboardHandler
<1>3. Lock(key, Byte(1)[1] < 128) /\ (Byte(1)[1] < 128 => PutKey(key))
  BY <1>1, <1>2 DEF ScanCode
<1>4. \A s \in ScanCodes : s % 128 \in 0 .. 127 /\ (s < 128 => s % 128 = s)
  BY DEF ScanCodes
<1>5. r \in 0 .. 127 /\ (Byte(1)[1] < 128 => r = Byte(1)[1])
  BY <1>1, <1>4
<1>6. Types
  BY DEF Inv
<1>7. Finds(r, key)
  BY <1>5, <1>6, Codes
<1> QED
  BY <1>3, <1>5, <1>7, Zenon DEF Finds

\* Left Ctrl follows its key until a Shift is pressed: the E0 of the right one
\* and of fake Shifts counts for the next byte only, and no release is lost.
THEOREM LeftCtrlFollowsItsKey ==
  ASSUME ~Nested, ~Waiting, Keys \subseteq RealKeys
  PROVE  Spec => []LeftCtrlIsHeld
<1>1. Inv => LeftCtrlIsHeld
  <2> SUFFICES ASSUME Inv, Quiet, ~shift_l, ~shift_r PROVE ctrl_l = (29 \in held)
    BY DEF LeftCtrlIsHeld
  <2>1. 1 .. Pending = {}
    BY DEF Pending, Quiet
  <2>2. ctrl_l <=> 29 \in held
    BY <2>1 DEF Inv, CtrlKnown
  <2> QED
    BY <2>2 DEF Inv, Types
<1> QED
  BY <1>1, Invariance, PTL

\* A lock changes only by the byte that ends the press of its key.
LEMMA LockByte ==
  ASSUME Inv, keyboardHandler, NEW code \in {CAPS_LOCK, NUM_LOCK, SCROLL_LOCK}, NEW k,
         k = CASE code = CAPS_LOCK -> 58 [] code = NUM_LOCK -> 69 [] OTHER -> 70,
         Byte(1)[1] < 128, Byte(1)[1] # 224, keyrow(Byte(1)[1] % 128, Column(Byte(1)[1] % 128)) = code
  PROVE  LockChanges(k)
<1> DEFINE r == Byte(1)[1] % 128
<1>1. code # 0 /\ (Unshifted[r] = code /\ r \in 1 .. 88 => r = k)
  <2>1. CAPS_LOCK # NUM_LOCK /\ CAPS_LOCK # SCROLL_LOCK /\ NUM_LOCK # SCROLL_LOCK
    BY DEF CAPS_LOCK, NUM_LOCK, SCROLL_LOCK
  <2>2. code # 0
    BY DEF CAPS_LOCK, NUM_LOCK, SCROLL_LOCK
  <2> HIDE DEF r
  <2>3. k = IF code = CAPS_LOCK THEN 58 ELSE IF code = NUM_LOCK THEN 69 ELSE 70
    BY <2>1
  <2>4. ASSUME Unshifted[r] = code, r \in 1 .. 88
        PROVE  r = k
    <3>1. /\ code = CAPS_LOCK => r = 58
          /\ code = NUM_LOCK => r = 69
          /\ code = SCROLL_LOCK => r = 70
      BY <2>4, LockRows
    <3> QED
      BY <2>1, <2>3, <3>1
  <2> QED
    BY <2>2, <2>4
<1>2. ~code_with_E0 /\ r \in 1 .. 88 /\ code = Unshifted[r] /\ r = Byte(1)[1]
  BY <1>1, ScanCodeFinds
<1>3. Byte(1)[1] = k /\ k \in 1 .. 88
  BY <1>1, <1>2
<1>4. 1 \in 1 .. Pending /\ Innermost = Byte(1)
  BY FirstByte
<1>5. Byte(1)[2] = Pressed(k)
  BY <1>2, <1>3, <1>4 DEF Inv, Plain, Prefixed
<1>6. Pressed(k) # Nil
  <2>1. Pressed(k) \in [key : 0 .. 256, make : BOOLEAN]
    BY <1>3 DEF Pressed
  <2> QED
    BY <2>1, KeyboardAssumption DEF PAUSE
<1> QED
  BY <1>4, <1>5, <1>6, SMTT(60) DEF LockChanges, Pressed

\* Caps, Num and Scroll Lock change with the press of their own key only, not
\* with a release nor with the answers that their lights cause.
THEOREM LocksAreKeys ==
  ASSUME ~Nested, ~Waiting, Keys \subseteq RealKeys
  PROVE  Spec => LocksFollowKeys
<1> DEFINE A == /\ caps_lock' # caps_lock => LockChanges(58)
                /\ num_lock' # num_lock => LockChanges(69)
                /\ scroll_lock' # scroll_lock => LockChanges(70)
<1>1. Inv /\ [Next]_vars => [A]_vars
  <2> SUFFICES ASSUME Inv, Next PROVE A
    BY DEF vars
  <2>1. CASE UNCHANGED locks
    BY <2>1 DEF locks
  <2>2. CASE keyboardHandler /\ Byte(1)[1] # 224
    <3>1. PICK r, key : r = Byte(1)[1] % 128 /\ key = keyrow(r, Column(r))
      OBVIOUS
    <3>2. Lock(key, Byte(1)[1] < 128)
      BY <2>2, <3>1, ScanCodeFinds
    <3>3. /\ caps_lock' # caps_lock => Byte(1)[1] < 128 /\ key = CAPS_LOCK
          /\ num_lock' # num_lock => Byte(1)[1] < 128 /\ key = NUM_LOCK
          /\ scroll_lock' # scroll_lock => Byte(1)[1] < 128 /\ key = SCROLL_LOCK
      BY <3>2 DEF Lock, Inv, Types
    <3>4. NUM_LOCK # CAPS_LOCK /\ SCROLL_LOCK # CAPS_LOCK /\ SCROLL_LOCK # NUM_LOCK
      BY DEF CAPS_LOCK, NUM_LOCK, SCROLL_LOCK
    <3> QED
      BY <2>2, <3>1, <3>3, <3>4, LockByte
  <2>3. CASE keyboardHandler /\ Byte(1)[1] = 224
    <3>1. Innermost = Byte(1)
      BY <2>3, FirstByte
    <3>2. UNCHANGED locks
      BY <2>3, <3>1 DEF keyboardHandler, Prefix
    <3> QED
      BY <2>1, <3>2
  <2> QED
    BY <2>1, <2>2, <2>3 DEF Next, Interrupt, Press, Repeat, LetGo
<1> QED
  BY <1>1, Invariance, PTL DEF Spec, LocksFollowKeys

\* What the pad stores, with the num lock and without.
LEMMA PadStores ==
  ASSUME NEW k \in Pad
  PROVE  Stored(Unshifted[k]) = (IF num_lock THEN PadDigit ELSE PadCursor)[k - 70]
<1>1. k \in {71, 72, 73, 74, 75, 76, 77, 78, 79, 80, 81, 82, 83}
  BY DEF Pad
<1>2. /\ Unshifted[71] = 57 /\ Unshifted[72] = 58 /\ Unshifted[73] = 59 /\ Unshifted[74] = 46
      /\ Unshifted[75] = 54 /\ Unshifted[76] = 55 /\ Unshifted[77] = 56 /\ Unshifted[78] = 47
      /\ Unshifted[79] = 51 /\ Unshifted[80] = 52 /\ Unshifted[81] = 53 /\ Unshifted[82] = 50
      /\ Unshifted[83] = 49
  BY DEF Unshifted, PAD_MINUS, PAD_PLUS, PAD_DOT
<1>3. ASSUME NEW key \in 50 .. 59, NEW i, i = key - 49
      PROVE  Stored(key) = IF num_lock THEN key - 2
                           ELSE <<INSERT, END, DOWN, PAGEDOWN, LEFT, key, RIGHT, HOME, UP,
                                  PAGEUP>>[i]
  BY <1>3 DEF Stored, PadKey, PAD_SLASH, PAD_STAR, PAD_MINUS, PAD_PLUS, PAD_ENTER, PAD_DOT,
              PAD_0, PAD_9
<1>4. Stored(46) = 45 /\ Stored(47) = 43 /\ Stored(49) = IF num_lock THEN 46 ELSE DELETE
  BY DEF Stored, PadKey, PAD_SLASH, PAD_STAR, PAD_MINUS, PAD_PLUS, PAD_ENTER, PAD_DOT, PAD_0, PAD_9
<1>5. /\ Stored(57) = IF num_lock THEN 55 ELSE HOME
      /\ Stored(58) = IF num_lock THEN 56 ELSE UP
      /\ Stored(59) = IF num_lock THEN 57 ELSE PAGEUP
      /\ Stored(54) = IF num_lock THEN 52 ELSE LEFT
      /\ Stored(55) = IF num_lock THEN 53 ELSE 55
      /\ Stored(56) = IF num_lock THEN 54 ELSE RIGHT
      /\ Stored(51) = IF num_lock THEN 49 ELSE END
      /\ Stored(52) = IF num_lock THEN 50 ELSE DOWN
      /\ Stored(53) = IF num_lock THEN 51 ELSE PAGEDOWN
      /\ Stored(50) = IF num_lock THEN 48 ELSE INSERT
  BY <1>3
<1> QED
  BY <1>1, <1>2, <1>4, <1>5 DEF PadDigit, PadCursor, PAD_0

\* The ambiguous keys are all that have the code of a pad key.
LEMMA OthersAreMapped ==
  ASSUME NEW k \in 1 .. 88, k \notin Pad, k \notin Ambiguous
  PROVE  Unshifted[k] \notin PAD_SLASH .. PAD_9
  BY DEF Unshifted, Pad, Ambiguous, PAD_SLASH, PAD_9, ENTER, CTRL_L, SHIFT_L, SHIFT_R, ALT_L,
         CAPS_LOCK, NUM_LOCK, SCROLL_LOCK

\* Without Shift and CapsLock the pad types its digits or, with the num lock off, its
\* cursor movements, and any other key but the 15 ambiguous ones (the digits, the
\* minus, the semicolon, the comma, the dot and the slash) what the keymap says.
THEOREM UnambiguousTyped ==
  ASSUME ~Nested, ~Waiting, Keys \subseteq RealKeys
  PROVE  Spec => TypedUnlessAmbiguous
<1> DEFINE Meant(k) == IF k \in Pad THEN (IF num_lock THEN PadDigit ELSE PadCursor)[k - 70]
                       ELSE Unshifted[k]
           A == \A k \in (Keys \cap 1 .. 88) \ Ambiguous : Ends(k) => Typed = Meant(k)
<1>1. Inv /\ [Next]_vars => [A]_vars
  <2> SUFFICES ASSUME Inv, Next, NEW k \in (Keys \cap 1 .. 88) \ Ambiguous, Ends(k)
               PROVE  Typed = Meant(k)
    BY DEF vars
  <2>1. keyboardHandler
    <3>1. Len(reading') < Len(reading) /\ Len(reading) \in Nat
      BY DEF Ends, Inv, Types
    <3>2. ~Interrupt
      <4>1. Interrupt => Len(reading') = Len(reading) + 1
        BY DEF Interrupt, Inv, Types
      <4> QED
        BY <3>1, <4>1
    <3>3. reading' # reading
      BY <3>1
    <3> QED
      BY <3>2, <3>3 DEF Next, Press, Repeat, LetGo
  <2>2. Innermost = Byte(1) /\ 1 \in 1 .. Pending
    BY <2>1, FirstByte
  <2>3. Byte(1)[2] = Pressed(k) /\ ~shift_l /\ ~shift_r /\ ~caps_lock
    BY <2>2 DEF Ends, Pressed
  <2>4. Byte(1)[1] = k /\ ~code_with_E0
    BY <2>2, <2>3, SMTT(60) DEF Inv, Plain, Prefixed
  <2>5. k # 224 /\ k < 128 /\ k % 128 = k
    OBVIOUS
  <2>6. PutKey(Unshifted[k])
    <3>1. PICK r, key : r = Byte(1)[1] % 128 /\ key = keyrow(r, Column(r))
      OBVIOUS
    <3>2. r = k
      BY <2>4, <2>5, <3>1
    <3> QED
      BY <2>1, <2>3, <2>4, <2>5, <3>1, <3>2, ScanCodeFinds
  <2>7. Typed = Stored(Unshifted[k])
    <3>1. read_q'.buf = [read_q.buf EXCEPT ![read_q.head] = Stored(Unshifted[k])]
      BY <2>6 DEF PutKey
    <3> QED
      BY <3>1 DEF Typed, Inv, Types
  <2>8. CASE k \in Pad
    BY <2>7, <2>8, PadStores
  <2>9. CASE k \notin Pad
    BY <2>7, <2>9, OthersAreMapped DEF Stored
  <2> QED
    BY <2>8, <2>9
<1> QED
  BY <1>1, Invariance, PTL DEF Spec, TypedUnlessAmbiguous

\* Types of the driver's variables: the head stays inside the queue, what is stored
\* fits in the keymap's codes, and a modifier or a lock is on or off.
THEOREM KeyboardType ==
  ASSUME ~Nested, ~Waiting, Keys \subseteq RealKeys
  PROVE  Spec => []TypeOK
<1> DEFINE Flags == /\ shift_l \in BOOLEAN /\ shift_r \in BOOLEAN
                    /\ ctrl_l \in BOOLEAN /\ ctrl_r \in BOOLEAN
                    /\ alt_l \in BOOLEAN /\ alt_r \in BOOLEAN
                    /\ held \subseteq Keys
<1>1. Init => Flags
  BY DEF Init
<1>2. Inv /\ Flags /\ [Next]_vars => Flags'
  <2> SUFFICES ASSUME Inv, Flags, [Next]_vars PROVE Flags'
    OBVIOUS
  <2>1. CASE Interrupt
    BY <2>1 DEF Interrupt, modifiers
  <2>2. CASE keyboardHandler /\ Prefix
    BY <2>2 DEF keyboardHandler, Prefix, modifiers
  <2>3. CASE keyboardHandler /\ ScanCode
    <3> DEFINE scan == Innermost[1]
               key == keyrow(scan % 128, Column(scan % 128))
    <3>1. Modifier(key, scan < 128) /\ held' = held
      BY <2>3 DEF ScanCode, keyboardHandler
    <3>2. scan \in ScanCodes
      BY <2>3, FirstByte
    <3> HIDE DEF scan, key
    <3>3. (scan < 128) \in BOOLEAN
      BY <3>2 DEF ScanCodes
    <3>4. PICK make \in BOOLEAN : Modifier(key, make)
      BY <3>1, <3>3, Zenon
    <3> QED
      BY <3>1, <3>4 DEF Modifier
  <2>4. ASSUME NEW k \in Keys, Press(k) \/ Repeat(k) \/ LetGo(k) PROVE Flags'
    BY <2>4 DEF Press, Repeat, LetGo, modifiers
  <2>5. CASE UNCHANGED vars
    BY <2>5 DEF vars, modifiers
  <2> QED
    BY <2>1, <2>2, <2>3, <2>4, <2>5 DEF Next, keyboardHandler
<1>3. Inv /\ Flags => TypeOK
  <2> SUFFICES ASSUME Inv, Flags PROVE TypeOK
    OBVIOUS
  <2>1. caps_lock \in BOOLEAN /\ num_lock \in BOOLEAN /\ scroll_lock \in BOOLEAN
        /\ code_with_E0 \in BOOLEAN
    BY DEF Inv, Types
  <2>2. modifiers \in [1 .. 6 -> BOOLEAN]
    BY DEF modifiers
  <2>3. locks \in [1 .. 3 -> BOOLEAN]
    BY <2>1 DEF locks
  <2> QED
    BY <2>1, <2>2, <2>3 DEF Inv, Types, TypeOK
<1> QED
  BY <1>1, <1>2, <1>3, Invariance, PTL DEF Spec
=============================================================================
