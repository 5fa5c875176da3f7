--------------------------- MODULE ConvertProofs ---------------------------
(***************************************************************************)
(* Two of the modules of MCConvert, which share nothing.                   *)
(*                                                                         *)
(* Boot: loading a file from the floppy, for every size of a sector, of    *)
(* the root directory and of a segment, and for every file: the packed     *)
(* table gives back each successor, also where an entry lies across two    *)
(* sectors, and what is in memory is told by the number of sectors loaded. *)
(*                                                                         *)
(* Vsprintf: for every width of an int, every flags, width and argument,   *)
(* when the text written is that of C.  The recursion over the figures and *)
(* C's numeral by powers of the base meet in FiguresOf, by induction on    *)
(* the number (LeastOf); the padding is compared by length, first and last *)
(* character (PaddingAgrees); the loop is told by how much of the flags or *)
(* of the width it has read (PrintInv).                                    *)
(***************************************************************************)
EXTENDS Boot, Vsprintf, WellFoundedInduction, TLAPS

---------------------------------------------------------------------------
(* Loading a file.                                                         *)

\* What a file is.
IsFile(f, n) ==
  /\ n \in Nat \ {0} /\ f \in [1 .. n -> Clusters]
  /\ \A i, j \in 1 .. n : f[i] = f[j] => i = j

\* Where the sector behind the first m goes.
Follows(m) ==
  /\ bx = m % SegmentSectors
  /\ es = IF loader = "setup" /\ m >= SegmentSectors THEN OFFSET + 1 ELSE BASE

\* What is in memory after m sectors: nothing in the segment behind the base,
\* and the file in order as long as it fits.
Holds(m) ==
  /\ \A a \in DOMAIN memory : a[1] # BASE + 1
  /\ m <= SegmentSectors =>
       /\ DOMAIN memory = {<<BASE, i - 1>> : i \in 1 .. m}
       /\ \A i \in 1 .. m : memory[<<BASE, i - 1>>] = file[i]

\* How far the loader has come.
Progress(n) ==
  /\ stage = "root" =>
       /\ sector \in 0 .. RootSectors - 1
       /\ entry = 0 \/ entry > sector * SectorEntries
       /\ Follows(0) /\ Holds(0)
  /\ stage = "not found" => entry = 0
  /\ stage = "data" => entry # 0 /\ \E i \in 1 .. n : sector = file[i] /\ Follows(i - 1) /\ Holds(i - 1)
  /\ stage = "loaded" => entry # 0 /\ Holds(n)

BootInv ==
  /\ \E n \in Nat \ {0} : IsFile(file, n) /\ Progress(n)
  /\ entry \in 0 .. RootSectors * SectorEntries
  /\ loader \in {"boot", "setup"} /\ stage \in {"root", "not found", "data", "loaded"}

\* The numbers of clusters and the values of entries.
ClusterNumbers == 2 .. 4086
Entries == 0 .. 4095

---------------------------------------------------------------------------
(* The table.                                                              *)

\* A file of n clusters is a sequence of n numbers of clusters.
LEMMA FileLength ==
  ASSUME NEW f, NEW n, IsFile(f, n)
  PROVE  Len(f) = n /\ \A i \in 1 .. n : f[i] \in ClusterNumbers
<1>1. f \in Seq(Clusters) /\ Len(f) = n
  BY DEF IsFile
<1>2. \A i \in 1 .. n : f[i] \in Clusters
  BY DEF IsFile
<1>3. Clusters \subseteq ClusterNumbers /\ n \in Nat
  BY BootAssumption DEF IsFile, ClusterNumbers
<1>4. ASSUME NEW i \in 1 .. n
      PROVE  f[i] \in ClusterNumbers
  BY <1>2, <1>3
<1> QED
  BY <1>1, <1>4

\* What follows a cluster of the file; every entry has twelve bits.
LEMMA Successors ==
  ASSUME NEW f, NEW n, IsFile(f, n)
  PROVE  /\ \A c : Successor(f, c) \in Entries
         /\ \A i \in 1 .. n : Successor(f, f[i]) = IF i = n THEN 4095 ELSE f[i + 1]
<1>1. Len(f) = n /\ n \in Nat /\ \A i \in 1 .. n : f[i] \in ClusterNumbers
  <2>1. n \in Nat
    BY DEF IsFile
  <2> QED
    BY <2>1, FileLength, SMT
<1>2. ASSUME NEW c, NEW i \in 1 .. n, f[i] = c
      PROVE  Successor(f, c) = IF i = n THEN 4095 ELSE f[i + 1]
  <2> DEFINE j == CHOOSE k \in 1 .. Len(f) : f[k] = c
  <2>1. j \in 1 .. n /\ f[j] = c
    BY <1>1, <1>2
  <2>2. j = i
    BY <1>2, <2>1 DEF IsFile
  <2>3. \E k \in 1 .. Len(f) : f[k] = c
    BY <1>1, <1>2
  <2>4. Successor(f, c) = IF j = n THEN 4095 ELSE f[j + 1]
    BY <1>1, <2>3 DEF Successor
  <2> HIDE DEF j
  <2> QED
    BY <2>2, <2>4
<1>3. ASSUME NEW c
      PROVE  Successor(f, c) \in Entries
  <2>1. CASE \E i \in 1 .. n : f[i] = c
    <3>1. PICK i \in 1 .. n : f[i] = c
      BY <2>1
    <3>2. i # n => i + 1 \in 1 .. n
      BY <1>1
    <3>3. Successor(f, c) = IF i = n THEN 4095 ELSE f[i + 1]
      BY <1>2, <3>1
    <3>4. i # n => f[i + 1] \in ClusterNumbers
      BY <1>1, <3>2
    <3>5. 4095 \in Entries
      BY DEF Entries
    <3>6. \A x \in ClusterNumbers : x \in Entries
      BY DEF Entries, ClusterNumbers
    <3> QED
      BY <3>3, <3>4, <3>5, <3>6
  <2>2. CASE ~ \E i \in 1 .. n : f[i] = c
    <3>1. Successor(f, c) = 0
      BY <1>1, <2>2 DEF Successor
    <3> QED
      BY <3>1 DEF Entries
  <2> QED
    BY <2>1, <2>2
<1> QED
  BY <1>2, <1>3

\* The two bytes that are read are those of the table.
LEMMA TwoSectors ==
  ASSUME NEW o \in Nat, NEW B \in Nat \ {0}
  PROVE  (o + 1) \div B \in {o \div B, o \div B + 1}
<1> DEFINE q == o \div B
           r == o % B
<1>1. q \in Nat /\ r \in 0 .. B - 1 /\ o = B * q + r
  OBVIOUS
<1>2. CASE r + 1 < B
  <2>1. o + 1 = B * q + (r + 1) /\ r + 1 \in 0 .. B - 1
    BY <1>1, <1>2
  <2>2. (o + 1) \div B = q
    BY <1>1, <2>1
  <2> QED
    BY <2>2
<1>3. CASE r + 1 = B
  <2>1. o + 1 = B * (q + 1)
    BY <1>1, <1>3
  <2>2. (o + 1) \div B = q + 1
    BY <1>1, <2>1
  <2> QED
    BY <2>2
<1> QED
  BY <1>1, <1>2, <1>3

\* Packing two entries into three bytes and reading one of them back.
LEMMA Unpacked ==
  ASSUME NEW c \in ClusterNumbers, \A d : Successor(file, d) \in Entries
  PROVE  readFATValue(c) = Successor(file, c)
<1> DEFINE o == (3 * c) \div 2
           first == o \div BPB_BytsPerSec
           word == readSector(o, first) + 256 * readSector(o + 1, first)
<1>0. c \in 2 .. 4086
  BY DEF ClusterNumbers
<1>1. o \in Nat /\ BPB_BytsPerSec \in Nat \ {0}
  <2>1. BPB_BytsPerSec \in Nat \ {0}
    BY BootAssumption, SMT
  <2> QED
    BY <1>0, <2>1
<1>2. word = FatByte(file, o) + 256 * FatByte(file, o + 1)
  <2>1. (o + 1) \div BPB_BytsPerSec \in {first, first + 1}
    BY <1>1, TwoSectors
  <2> QED
    BY <2>1 DEF readSector
<1> DEFINE S(d) == Successor(file, d)
<1>3. CASE c % 2 = 0
  <2>1. PICK k \in Nat : c = 2 * k
    <3>1. c \div 2 \in Nat /\ c = 2 * (c \div 2)
      BY <1>0, <1>3
    <3> QED
      BY <3>1
  <2>2. o = 3 * k /\ (3 * c) % 2 = 0
    BY <2>1
  <2>3. /\ o \div 3 = k /\ o % 3 = 0 /\ (o + 1) \div 3 = k /\ (o + 1) % 3 = 1
    BY <2>2
  <2>4. FatByte(file, o) = S(c) % 256 /\ FatByte(file, o + 1) = S(c) \div 256 + 16 * (S(c + 1) % 16)
    BY <2>1, <2>3 DEF FatByte
  <2>5. \A x, y \in Entries : ((x % 256) + 256 * (x \div 256 + 16 * (y % 16))) % 4096 = x
    BY SMTT(60) DEF Entries
  <2>6. S(c) \in Entries /\ S(c + 1) \in Entries
    OBVIOUS
  <2>7. readFATValue(c) = word % 4096
    BY <2>2 DEF readFATValue
  <2> HIDE DEF S, word, o
  <2>8. readFATValue(c) = S(c)
    <3>1. word = (S(c) % 256) + 256 * (S(c) \div 256 + 16 * (S(c + 1) % 16))
      BY <1>2, <2>4
    <3> QED
      BY <2>5, <2>6, <2>7, <3>1
  <2> QED
    BY <2>8 DEF S
<1>4. CASE c % 2 = 1
  <2>1. PICK k \in Nat : c = 2 * k + 1
    <3>1. c \div 2 \in Nat /\ c = 2 * (c \div 2) + 1
      BY <1>0, <1>4
    <3> QED
      BY <3>1
  <2>2. o = 3 * k + 1 /\ (3 * c) % 2 # 0
    BY <2>1
  <2>3. o \div 3 = k /\ o % 3 = 1 /\ (o + 1) \div 3 = k /\ (o + 1) % 3 = 2
    BY <2>2
  <2>4. FatByte(file, o) = S(c - 1) \div 256 + 16 * (S(c) % 16) /\ FatByte(file, o + 1) = S(c) \div 16
    <3>1. 2 * k = c - 1 /\ 2 * k + 1 = c
      BY <2>1
    <3> QED
      BY <2>3, <3>1 DEF FatByte
  <2>5. \A x, y \in Entries : (x \div 256 + 16 * (y % 16) + 256 * (y \div 16)) \div 16 = y
    BY DEF Entries
  <2>6. S(c) \in Entries /\ S(c - 1) \in Entries
    OBVIOUS
  <2>7. readFATValue(c) = word \div 16
    BY <2>2 DEF readFATValue
  <2> HIDE DEF S, word, o
  <2>8. readFATValue(c) = S(c)
    <3>1. word = S(c - 1) \div 256 + 16 * (S(c) % 16) + 256 * (S(c) \div 16)
      BY <1>2, <2>4
    <3> QED
      BY <2>5, <2>6, <2>7, <3>1
  <2> QED
    BY <2>8 DEF S
<1>5. c % 2 = 0 \/ c % 2 = 1
  BY <1>0
<1> QED
  BY <1>3, <1>4, <1>5

---------------------------------------------------------------------------
(* The invariant.                                                          *)

\* The constants.
LEMMA Sizes ==
  /\ BPB_BytsPerSec \in Nat \ {0} /\ SectorEntries \in Nat \ {0} /\ RootSectors \in Nat \ {0}
  /\ SegmentSectors \in Nat \ {0} /\ MaxFile \in Nat \ {0} /\ BASE \in Nat \ {0, 1}
  BY BootAssumption

\* Before the loader has read anything its invariant holds, and the file is one.
LEMMA Started ==
  ASSUME BootInit
  PROVE  BootInv
<1>1. PICK n \in 1 .. MaxFile : /\ file \in [1 .. n -> Clusters]
                                /\ \A i, j \in 1 .. n : file[i] = file[j] => i = j
  BY DEF BootInit, Files
<1>2. n \in Nat \ {0} /\ IsFile(file, n)
  BY <1>1, Sizes DEF IsFile
<1>3. DOMAIN memory = {}
  BY DEF BootInit
<1>4. Holds(0)
  BY <1>3, Sizes DEF Holds
<1>5. Follows(0)
  BY Sizes DEF Follows, BootInit, OFFSET
<1>6. sector \in 0 .. RootSectors - 1 /\ (entry = 0 \/ entry > sector * SectorEntries)
  <2>1. sector = 0 /\ entry \in Nat
    BY Sizes DEF BootInit
  <2>2. 0 * SectorEntries = 0
    BY Sizes
  <2> QED
    BY <2>1, <2>2, Sizes
<1>7. Progress(n)
  BY <1>4, <1>5, <1>6 DEF Progress, BootInit
<1> QED
  BY <1>2, <1>7 DEF BootInv, BootInit

\* The root directory is read sector by sector, to its end if need be.
LEMMA RootStep ==
  ASSUME BootInv, TraverseRoot
  PROVE  BootInv'
<1>1. PICK n \in Nat \ {0} : IsFile(file, n) /\ Progress(n)
  BY DEF BootInv
<1>2. UNCHANGED <<loader, file, entry, es, bx, memory>> /\ stage = "root"
  BY DEF TraverseRoot
<1>3. sector \in 0 .. RootSectors - 1 /\ Follows(0) /\ Holds(0)
      /\ (entry = 0 \/ entry > sector * SectorEntries) /\ entry \in Nat
  <2>1. entry \in Nat
    <3>1. entry \in 0 .. RootSectors * SectorEntries
      BY DEF BootInv
    <3> QED
      BY <3>1, Sizes
  <2> QED
    BY <1>1, <1>2, <2>1 DEF Progress
<1>4. Follows(0)' /\ Holds(0)'
  BY <1>2, <1>3 DEF Follows, Holds
<1>5. CASE Found /\ stage' = "data" /\ sector' = file[1]
  <2>1. entry > sector * SectorEntries /\ sector * SectorEntries \in Nat
    <3>1. sector * SectorEntries \in Nat /\ (sector + 1) * SectorEntries \in Nat
      BY <1>3, Sizes
    <3> QED
      BY <1>5, <3>1 DEF Found
  <2>2. entry # 0
    BY <1>3, <2>1
  <2>3. 1 \in 1 .. n /\ 1 - 1 = 0
    OBVIOUS
  <2>4. Progress(n)'
    BY <1>2, <1>4, <1>5, <2>2, <2>3 DEF Progress
  <2> QED
    BY <1>1, <1>2, <1>5, <2>4 DEF BootInv
<1>6. CASE ~Found /\ sector' = sector + 1
           /\ stage' = (IF sector + 1 = RootSectors THEN "not found" ELSE stage)
  <2>1. entry = 0 \/ entry > (sector + 1) * SectorEntries
    <3>1. sector * SectorEntries \in Nat /\ (sector + 1) * SectorEntries \in Nat
      BY <1>3, Sizes
    <3>2. entry \notin sector * SectorEntries + 1 .. (sector + 1) * SectorEntries
      BY <1>6 DEF Found
    <3>3. \A a, b \in Nat : entry > a /\ entry \notin a + 1 .. b => entry > b
      BY <1>3
    <3> QED
      BY <1>3, <3>1, <3>2, <3>3
  <2>2. CASE sector + 1 = RootSectors
    <3>1. entry = 0
      <4>1. entry \in 0 .. RootSectors * SectorEntries
        BY DEF BootInv
      <4>2. entry = 0 \/ entry > RootSectors * SectorEntries
        BY <2>1, <2>2
      <4>3. RootSectors * SectorEntries \in Nat
        BY Sizes
      <4> QED
        BY <1>3, <4>1, <4>2, <4>3
    <3>2. Progress(n)'
      BY <1>2, <1>6, <2>2, <3>1 DEF Progress
    <3> QED
      BY <1>1, <1>2, <1>6, <2>2, <3>2 DEF BootInv
  <2>3. CASE sector + 1 # RootSectors
    <3>1. sector' \in 0 .. RootSectors - 1
      BY <1>3, <1>6, <2>3, Sizes
    <3>2. Progress(n)'
      BY <1>2, <1>4, <1>6, <2>1, <2>3, <3>1 DEF Progress
    <3> QED
      BY <1>1, <1>2, <1>6, <2>3, <3>2 DEF BootInv
  <2> QED
    BY <2>2, <2>3
<1> QED
  BY <1>5, <1>6 DEF TraverseRoot

\* A multiple and a rest below the divisor are quotient and remainder.
LEMMA Division ==
  ASSUME NEW n \in Nat, NEW S \in Nat \ {0}, NEW q \in Nat, NEW r \in 0 .. S - 1, n = q * S + r
  PROVE  n \div S = q /\ n % S = r
<1> DEFINE k == n \div S
           d == q - k
<1>1. k \in Int /\ k * S <= n /\ n < k * S + S /\ n % S = n - k * S
  OBVIOUS
<1>2. d \in Int /\ q = k + d
  BY <1>1
<1>3. d * S \in Int /\ q * S = k * S + d * S
  BY <1>1, <1>2
<1>4. -S < d * S /\ d * S < S
  BY <1>1, <1>3
<1>5. d < 1
  <2>1. d >= 1 => d * S >= S
    BY <1>2
  <2> QED
    BY <1>2, <1>4, <2>1
<1>6. d > -1
  <2>1. d <= -1 => d * S <= -S
    BY <1>2
  <2> QED
    BY <1>2, <1>4, <2>1
<1>7. k = q
  BY <1>1, <1>2, <1>5, <1>6
<1> QED
  BY <1>1, <1>7

\* The sector behind the last of a segment is the first of the next.
LEMMA NextPlace ==
  ASSUME NEW m \in Nat, NEW S \in Nat \ {0}
  PROVE  ((m % S) + 1) % S = (m + 1) % S
<1> DEFINE q == m \div S
           r == m % S
<1>1. q \in Nat /\ r \in 0 .. S - 1 /\ m = q * S + r
  OBVIOUS
<1> HIDE DEF q, r
<1>2. CASE r + 1 < S
  <2>1. m + 1 \in Nat /\ r + 1 \in Nat /\ r + 1 \in 0 .. S - 1
        /\ m + 1 = q * S + (r + 1) /\ r + 1 = 0 * S + (r + 1)
    BY <1>1, <1>2
  <2>2. (m + 1) % S = r + 1
    BY <1>1, <2>1, Division, SMTT(60)
  <2>3. (r + 1) % S = r + 1
    BY <2>1, Division
  <2> QED
    BY <2>2, <2>3 DEF r
<1>3. CASE r + 1 = S
  <2>1. m + 1 \in Nat /\ r + 1 \in Nat /\ 0 \in 0 .. S - 1 /\ q + 1 \in Nat
        /\ m + 1 = (q + 1) * S + 0 /\ r + 1 = 1 * S + 0
    BY <1>1, <1>3
  <2>2. (m + 1) % S = 0
    BY <2>1, Division
  <2>3. (r + 1) % S = 0
    BY <2>1, Division
  <2> QED
    BY <2>2, <2>3 DEF r
<1>4. r + 1 < S \/ r + 1 = S
  BY <1>1
<1> QED
  BY <1>2, <1>3, <1>4

\* A sector is loaded where it belongs and its successor is looked up.
LEMMA SectorStep ==
  ASSUME BootInv, LoadSector
  PROVE  BootInv'
<1>1. PICK n \in Nat \ {0} : IsFile(file, n) /\ Progress(n)
  BY DEF BootInv
<1>2. UNCHANGED <<loader, file, entry>> /\ stage = "data"
  BY DEF LoadSector
<1>3. PICK i \in 1 .. n : entry # 0 /\ sector = file[i] /\ Follows(i - 1) /\ Holds(i - 1)
  BY <1>1, <1>2 DEF Progress
<1>4. i \in Nat \ {0} /\ i - 1 \in Nat /\ (i # n => i + 1 \in 1 .. n)
  OBVIOUS
<1>5. sector' = IF i = n THEN 4095 ELSE file[i + 1]
  <2>1. sector \in ClusterNumbers /\ \A d : Successor(file, d) \in Entries
    BY <1>1, <1>3, FileLength, Successors
  <2>2. readFATValue(sector) = Successor(file, sector)
    BY <2>1, Unpacked
  <2>3. Successor(file, file[i]) = IF i = n THEN 4095 ELSE file[i + 1]
    BY <1>1, Successors
  <2> QED
    BY <1>3, <2>2, <2>3 DEF LoadSector
<1>6. i # n => sector' < 4087 /\ ~(sector' >= 4087)
  <2>1. i # n => file[i + 1] \in ClusterNumbers
    BY <1>1, <1>4, FileLength
  <2>2. \A x \in ClusterNumbers : x < 4087 /\ ~(x >= 4087)
    BY DEF ClusterNumbers
  <2> QED
    BY <1>5, <2>1, <2>2
<1>7. bx = (i - 1) % SegmentSectors
      /\ es = IF loader = "setup" /\ i - 1 >= SegmentSectors THEN 1 ELSE BASE
  BY <1>3 DEF Follows, OFFSET
<1>8. Holds(i)'
  <2>1. /\ DOMAIN memory' = DOMAIN memory \cup {<<es, bx>>}
        /\ memory'[<<es, bx>>] = sector
        /\ \A a \in DOMAIN memory : a # <<es, bx>> => memory'[a] = memory[a]
    BY DEF LoadSector
  <2>2. <<es, bx>>[1] # BASE + 1
    BY <1>7, Sizes
  <2>3. \A a \in DOMAIN memory' : a[1] # BASE + 1
    BY <1>3, <2>1, <2>2 DEF Holds
  <2>4. ASSUME i <= SegmentSectors
        PROVE  /\ DOMAIN memory' = {<<BASE, j - 1>> : j \in 1 .. i}
               /\ \A j \in 1 .. i : memory'[<<BASE, j - 1>>] = file[j]
    <3>1. es = BASE /\ bx = i - 1
      <4>1. (i - 1) % SegmentSectors = i - 1 /\ ~(i - 1 >= SegmentSectors)
        BY <1>4, <2>4, Sizes
      <4> QED
        BY <1>7, <4>1
    <3>2. /\ DOMAIN memory = {<<BASE, j - 1>> : j \in 1 .. i - 1}
          /\ \A j \in 1 .. i - 1 : memory[<<BASE, j - 1>>] = file[j]
      BY <1>3, <1>4, <2>4, Sizes DEF Holds
    <3>3. DOMAIN memory' = {<<BASE, j - 1>> : j \in 1 .. i}
      <4>1. 1 .. i = (1 .. i - 1) \cup {i}
        BY <1>4
      <4> QED
        BY <2>1, <3>1, <3>2, <4>1
    <3>4. ASSUME NEW j \in 1 .. i
          PROVE  memory'[<<BASE, j - 1>>] = file[j]
      <4>1. CASE j = i
        BY <1>3, <2>1, <3>1, <4>1
      <4>2. CASE j # i
        <5>1. j \in 1 .. i - 1 /\ j - 1 # i - 1
          BY <1>4, <4>2
        <5>2. <<BASE, j - 1>> \in DOMAIN memory /\ <<BASE, j - 1>> # <<es, bx>>
          BY <3>1, <3>2, <5>1
        <5> QED
          BY <2>1, <3>2, <5>1, <5>2
      <4> QED
        BY <4>1, <4>2
    <3> QED
      BY <3>3, <3>4
  <2> QED
    BY <1>2, <2>3, <2>4 DEF Holds
<1>9. CASE i = n
  <2>1. sector' = 4095 /\ stage' = "loaded"
    BY <1>5, <1>9 DEF LoadSector
  <2>2. Progress(n)'
    BY <1>2, <1>3, <1>8, <1>9, <2>1 DEF Progress
  <2> QED
    BY <1>1, <1>2, <2>1, <2>2 DEF BootInv
<1>10. CASE i # n
  <2>1. Advance /\ stage' = "data" /\ sector' = file[i + 1]
    BY <1>2, <1>5, <1>6, <1>10 DEF LoadSector
  <2>2. Follows(i)'
    <3>1. (((i - 1) % SegmentSectors) + 1) % SegmentSectors = i % SegmentSectors
      <4>1. (i - 1) + 1 = i
        BY <1>4
      <4> QED
        BY <1>4, <4>1, Sizes, NextPlace
    <3>2. bx' = i % SegmentSectors
      BY <1>7, <2>1, <3>1 DEF Advance
    <3>3. CASE i < SegmentSectors
      <4>1. bx' # 0 /\ ~(i - 1 >= SegmentSectors) /\ ~(i >= SegmentSectors)
        BY <1>4, <3>2, <3>3, Sizes
      <4> QED
        BY <1>2, <1>7, <2>1, <3>2, <4>1 DEF Follows, Advance, OFFSET
    <3>4. CASE i = SegmentSectors
      <4>1. bx' = 0 /\ i >= SegmentSectors /\ ~(i - 1 >= SegmentSectors)
        BY <1>4, <3>2, <3>4, Sizes
      <4> QED
        BY <1>2, <1>7, <2>1, <3>2, <4>1 DEF Follows, Advance, OFFSET
    <3>5. CASE i > SegmentSectors
      <4>1. i >= SegmentSectors /\ i - 1 >= SegmentSectors
        BY <1>4, <3>5, Sizes
      <4>2. es = IF loader = "setup" THEN 1 ELSE BASE
        BY <1>7, <4>1
      <4>3. es' = IF loader = "setup" /\ bx' = 0 THEN 1 ELSE es
        BY <2>1 DEF Advance, OFFSET
      <4>4. es' = es
        BY <4>2, <4>3
      <4> QED
        BY <1>2, <3>2, <4>1, <4>2, <4>4 DEF Follows, OFFSET
    <3> QED
      BY <1>4, <3>3, <3>4, <3>5, Sizes
  <2>3. i + 1 \in 1 .. n /\ (i + 1) - 1 = i
    BY <1>4, <1>10
  <2>4. Progress(n)'
    BY <1>2, <1>3, <1>8, <2>1, <2>2, <2>3 DEF Progress
  <2> QED
    BY <1>1, <1>2, <2>1, <2>4 DEF BootInv
<1> QED
  BY <1>9, <1>10

---------------------------------------------------------------------------
(* The property.                                                           *)

\* Every step of the loaders keeps what they are at.
LEMMA LoaderStep == BootInv /\ [BootNext]_bootVars => BootInv'
<1> SUFFICES ASSUME BootInv, [BootNext]_bootVars PROVE BootInv'
  OBVIOUS
<1>1. CASE UNCHANGED bootVars
  BY <1>1, ZenonT(60) DEF bootVars, BootInv, Progress, Follows, Holds
<1> QED
  BY <1>1, RootStep, SectorStep DEF BootNext

\* What is loaded in the end lies in one piece exactly if it fits in a segment.
LEMMA OnePieceIfItFits ==
  ASSUME NEW n \in Nat \ {0}, Len(file) = n, Holds(n)
  PROVE  InOnePiece <=> n <= SegmentSectors
<1>1. CASE n <= SegmentSectors
  <2>1. \A i \in 1 .. n : Place(i) = <<BASE, i - 1>>
    <3> SUFFICES ASSUME NEW i \in 1 .. n PROVE Place(i) = <<BASE, i - 1>>
      OBVIOUS
    <3>1. i - 1 \in 0 .. SegmentSectors - 1
      BY <1>1, Sizes
    <3>2. (i - 1) \div SegmentSectors = 0 /\ (i - 1) % SegmentSectors = i - 1
      BY <3>1, Sizes
    <3> QED
      BY <3>2, Sizes DEF Place
  <2>2. /\ DOMAIN memory = {<<BASE, i - 1>> : i \in 1 .. n}
        /\ \A i \in 1 .. n : memory[<<BASE, i - 1>>] = file[i]
    BY <1>1 DEF Holds
  <2>3. {Place(i) : i \in 1 .. n} = {<<BASE, i - 1>> : i \in 1 .. n}
    BY <2>1
  <2>4. \A i \in 1 .. n : memory[Place(i)] = file[i]
    BY <2>1, <2>2
  <2> QED
    BY <1>1, <2>2, <2>3, <2>4 DEF InOnePiece
<1>2. CASE n > SegmentSectors
  <2>1. SegmentSectors + 1 \in 1 .. n /\ (SegmentSectors + 1) - 1 = SegmentSectors
    BY <1>2, Sizes
  <2>2. Place(SegmentSectors + 1)[1] = BASE + 1
    <3>1. SegmentSectors \div SegmentSectors = 1
      BY Sizes
    <3> QED
      BY <2>1, <3>1 DEF Place
  <2>3. Place(SegmentSectors + 1) \notin DOMAIN memory
    BY <2>2 DEF Holds
  <2> QED
    BY <1>2, <2>1, <2>3, Sizes DEF InOnePiece
<1> QED
  BY <1>1, <1>2, Sizes

\* Whatever the sizes: a file is found exactly if the root directory has it,
\* every sector that is loaded is its own, and a file that fits in a segment
\* ends up in one piece in memory.
THEOREM FilesAreLoaded ==
  BootInit /\ [][BootNext]_bootVars => []FileLoaded
<1>1. BootInv => FileLoaded
  <2> SUFFICES ASSUME BootInv PROVE FileLoaded
    OBVIOUS
  <2>1. PICK n \in Nat \ {0} : IsFile(file, n) /\ Progress(n)
    BY DEF BootInv
  <2>2. Len(file) = n
    BY <2>1, FileLength
  <2> QED
    BY <2>1, <2>2, OnePieceIfItFits DEF Progress, FileLoaded
<1> QED
  BY <1>1, LoaderStep, Started, PTL

\* And whatever the sizes, a file that is longer than a segment does not: neither
\* loader goes on in the segment behind the first (setup.asm:92 to 94).
THEOREM LongFilesAreSplit ==
  BootInit /\ [][BootNext]_bootVars =>
    [](stage = "loaded" /\ Len(file) > SegmentSectors => ~InOnePiece)
<1>1. BootInv => (stage = "loaded" /\ Len(file) > SegmentSectors => ~InOnePiece)
  <2> SUFFICES ASSUME BootInv, stage = "loaded", Len(file) > SegmentSectors
               PROVE  ~InOnePiece
    OBVIOUS
  <2>1. PICK n \in Nat \ {0} : IsFile(file, n) /\ Progress(n)
    BY DEF BootInv
  <2>2. Len(file) = n
    BY <2>1, FileLength
  <2>3. ~(n <= SegmentSectors)
    BY <2>2, Sizes
  <2> QED
    BY <2>1, <2>2, <2>3, OnePieceIfItFits DEF Progress
<1> QED
  BY <1>1, LoaderStep, Started, PTL

---------------------------------------------------------------------------
(* Numbers.                                                                *)

\* A non-empty set of naturals has a least member.
LEMMA LeastOf ==
  ASSUME NEW S, S \subseteq Nat, S # {}
  PROVE  \E m \in S : \A n \in S : m <= n
<1>1. PICK m \in S : \A n \in S : ~(<<n, m>> \in OpToRel(<, Nat))
  BY NatLessThanWellFounded, WFMin
<1>2. \A n \in S : ~(n < m)
  BY <1>1 DEF OpToRel
<1> QED
  BY <1>2

\* A quotient is what its bounds say.
LEMMA Quotient ==
  ASSUME NEW v \in Nat, NEW d \in Nat \ {0}
  PROVE  (v \div d) \in Nat /\ (v \div d) * d <= v /\ v < (v \div d) * d + d
  OBVIOUS

\* ... and nothing else does.
LEMMA QuotientIs ==
  ASSUME NEW v \in Nat, NEW d \in Nat \ {0}, NEW q \in Nat, q * d <= v, v < q * d + d
  PROVE  v \div d = q
  OBVIOUS

\* The bases of vsprintf.
Bases == {10, 16}

\* Dividing by a power is dividing by the base first.
LEMMA DivideTwice ==
  ASSUME NEW b \in Bases, NEW v \in Nat, NEW c \in Nat \ {0}
  PROVE  v \div (b * c) = (v \div b) \div c
<1> DEFINE u == v \div b
           q == u \div c
<1>1. u \in Nat /\ b * u <= v /\ v < b * u + b
  BY DEF Bases
<1>2. q \in Nat /\ q * c <= u /\ u < q * c + c
  BY <1>1, Quotient
<1> HIDE DEF u, q
<1>3. u + 1 <= q * c + c
  BY <1>1, <1>2
<1>4. b * (u + 1) = b * u + b /\ b * (q * c + c) = b * (q * c) + b * c
  BY <1>1, <1>2 DEF Bases
<1>5. b * (q * c) <= b * u /\ b * (u + 1) <= b * (q * c + c)
  BY <1>1, <1>2, <1>3 DEF Bases
<1>6. q * (b * c) = b * (q * c) /\ (b * c) \in Nat \ {0}
  BY <1>2 DEF Bases
<1>7. q * (b * c) <= v /\ v < q * (b * c) + b * c
  BY <1>1, <1>2, <1>4, <1>5, <1>6 DEF Bases
<1>8. v \div (b * c) = q
  BY <1>2, <1>6, <1>7, QuotientIs
<1> QED
  BY <1>8 DEF q, u

\* A value in S that each step makes from the one before.
Steps(f, n, S, start, step) ==
  /\ f \in [0 .. n -> S] /\ f[0] = start
  /\ \A i \in 1 .. n : f[i] = step[i][f[i - 1]]

\* There is such a function of the steps, by induction on their number.
LEMMA StepsExist ==
  ASSUME NEW n \in Nat, NEW S, NEW start \in S, NEW step \in [1 .. n -> [S -> S]]
  PROVE  \E f : Steps(f, n, S, start, step)
<1> DEFINE Path(f, m) == /\ f \in [0 .. m -> S] /\ f[0] = start
                         /\ \A i \in 1 .. m : f[i] = step[i][f[i - 1]]
           None == {m \in 0 .. n : ~ \E f : Path(f, m)}
<1>1. None = {}
  <2> SUFFICES ASSUME None # {} PROVE FALSE
    OBVIOUS
  <2>1. None \subseteq Nat
    OBVIOUS
  <2> HIDE DEF None
  <2>2. PICK m \in None : \A k \in None : m <= k
    BY <2>1, LeastOf
  <2>3. m \in 0 .. n
    BY <2>2 DEF None
  <2>4. m # 0
    <3> SUFFICES ASSUME m = 0 PROVE FALSE
      OBVIOUS
    <3>1. Path([k \in 0 .. 0 |-> start], 0)
      OBVIOUS
    <3> HIDE DEF Path
    <3>2. \E f : Path(f, m)
      BY <3>1, Zenon
    <3> QED
      BY <2>2, <3>2, Zenon DEF None
  <2>5. m - 1 \in 0 .. n /\ m - 1 \notin None
    BY <2>2, <2>3, <2>4
  <2>6. PICK f : Path(f, m - 1)
    BY <2>5 DEF None
  <2> DEFINE g == [k \in 0 .. m |-> IF k = m THEN step[m][f[m - 1]] ELSE f[k]]
  <2>7. f[m - 1] \in S /\ m \in 1 .. n
    BY <2>3, <2>4, <2>6
  <2>8. step[m][f[m - 1]] \in S
    BY <2>7
  <2>9. Path(g, m)
    <3>1. g \in [0 .. m -> S] /\ g[0] = start
      BY <2>3, <2>4, <2>6, <2>8
    <3>2. ASSUME NEW i \in 1 .. m
          PROVE  g[i] = step[i][g[i - 1]]
      <4>1. g[i - 1] = f[i - 1]
        BY <2>3
      <4>2. i = m => g[i] = step[m][f[m - 1]]
        OBVIOUS
      <4>3. i # m => i \in 1 .. m - 1 /\ g[i] = f[i]
        BY <2>3
      <4> QED
        BY <2>6, <4>1, <4>2, <4>3
    <3> QED
      BY <3>1, <3>2
  <2> QED
    BY <2>2, <2>3, <2>9 DEF None
<1>2. n \notin None
  BY <1>1
<1> HIDE DEF Path
<1>3. PICK f : Path(f, n)
  BY <1>2
<1> QED
  BY <1>3 DEF Path, Steps

\* The powers of a base: none is smaller than its exponent.
LEMMA PowersAre ==
  ASSUME NEW b \in Bases
  PROVE  /\ Powers(b)[0] = 1
         /\ \A n \in 1 .. 2 * Half : Powers(b)[n] = b * Powers(b)[n - 1]
         /\ \A n \in 0 .. 2 * Half : Powers(b)[n] \in Nat \ {0} /\ Powers(b)[n] > n
<1> DEFINE N == 2 * Half
           S == Nat \ {0}
           step == [i \in 1 .. N |-> [x \in S |-> b * x]]
           Eqn(p) == p = [n \in 0 .. N |-> IF n = 0 THEN 1 ELSE b * p[n - 1]]
<1>1. N \in Nat /\ 1 \in S
  BY PrintAssumption
<1>2. step \in [1 .. N -> [S -> S]]
  BY DEF Bases
<1>3. \A i \in 1 .. N, x \in S : step[i][x] = b * x
  OBVIOUS
<1> HIDE DEF N, S, step
<1>4. PICK f : Steps(f, N, S, 1, step)
  BY <1>1, <1>2, StepsExist
<1>5. \A i \in 1 .. N : f[i] = b * f[i - 1]
  BY <1>1, <1>3, <1>4 DEF Steps
<1>6. Eqn(f)
  <2>1. \A n \in 0 .. N : n # 0 => n \in 1 .. N
    BY <1>1
  <2> QED
    BY <1>4, <1>5, <2>1 DEF Steps
<1> DEFINE p == CHOOSE g : Eqn(g)
<1>7. Eqn(p)
  BY <1>6
<1>8. Powers(b) = p
  BY DEF Powers, N
<1> HIDE DEF p
<1>9. p[0] = 1 /\ \A n \in 1 .. N : p[n] = b * p[n - 1]
  BY <1>1, <1>7
<1>10. \A n \in 0 .. N : p[n] \in Nat \ {0} /\ p[n] > n
  <2> DEFINE Off == {n \in 0 .. N : ~(p[n] \in Nat \ {0} /\ p[n] > n)}
  <2> SUFFICES ASSUME Off # {} PROVE FALSE
    OBVIOUS
  <2>1. Off \subseteq Nat
    BY <1>1
  <2> HIDE DEF Off
  <2>2. PICK n \in Off : \A k \in Off : n <= k
    BY <2>1, LeastOf
  <2>3. n \in 0 .. N /\ ~(p[n] \in Nat \ {0} /\ p[n] > n)
    BY <2>2 DEF Off
  <2>4. n # 0
    BY <1>9, <2>3
  <2>5. n - 1 \in 0 .. N /\ n - 1 \notin Off /\ n \in 1 .. N
    BY <1>1, <2>2, <2>3, <2>4
  <2>6. p[n - 1] \in Nat \ {0} /\ p[n - 1] > n - 1
    BY <2>5 DEF Off
  <2>7. p[n] = b * p[n - 1]
    BY <1>9, <2>5
  <2> QED
    BY <2>3, <2>5, <2>6, <2>7 DEF Bases
<1> QED
  BY <1>8, <1>9, <1>10 DEF N

---------------------------------------------------------------------------
(* The figures that number writes.                                         *)

Ints == -Half .. Half - 1
Tables == {up, low}
Cells == NumberChars \cup {Junk}

Size(n) == IF n < 0 THEN -n ELSE n
Shorter(n, b) == IF n < 0 THEN -(Size(n) \div b) ELSE n \div b
Cell(n, b, t) == IF n < 0 /\ Size(n) % b # 0 THEN Junk ELSE t[(Size(n) % b) + 1]

\* What the recursion of Converted says of its function.
Converts(f, D, b, t) ==
  /\ f \in [D -> Seq(Cells)]
  /\ \A n \in D : f[n] = IF n = 0 THEN <<>> ELSE Append(f[Shorter(n, b)], Cell(n, b, t))

\* The tables begin with 0 and hold characters of numbers.
LEMMA TableCells ==
  ASSUME NEW t \in Tables
  PROVE  t[1] = "0" /\ \A i \in 1 .. 16 : t[i] \in NumberChars
<1>1. CASE t = up
  BY <1>1 DEF up, NumberChars
<1>2. CASE t = low
  BY <1>2 DEF low, NumberChars
<1> QED
  BY <1>1, <1>2 DEF Tables

\* Dividing an int by the base makes its size smaller.
LEMMA OneShorter ==
  ASSUME NEW n \in Ints, n # 0, NEW b \in Bases, NEW t \in Tables
  PROVE  /\ Shorter(n, b) \in Ints /\ Size(Shorter(n, b)) < Size(n)
         /\ Size(n) \in 1 .. Half /\ Size(Shorter(n, b)) = Size(n) \div b
         /\ Size(n) % b \in 0 .. b - 1 /\ Cell(n, b, t) \in Cells
<1>1. /\ Half \in Nat /\ Size(n) \in 1 .. Half
  BY PrintAssumption DEF Ints, Size
<1>2. /\ Size(n) \div b \in Nat /\ Size(n) \div b < Size(n)
      /\ Size(n) % b \in 0 .. b - 1
  BY <1>1 DEF Bases
<1>3. Shorter(n, b) \in Ints /\ Size(Shorter(n, b)) = Size(n) \div b
  BY <1>1, <1>2 DEF Shorter, Size, Ints
<1>4. (Size(n) % b) + 1 \in 1 .. 16
  BY <1>2 DEF Bases
<1>5. Cell(n, b, t) \in Cells
  BY <1>4, TableCells DEF Cell, Cells
<1> QED
  BY <1>1, <1>2, <1>3, <1>5

\* The recursion of Converted has a solution, by induction on the size.
LEMMA ConverterExists ==
  ASSUME NEW b \in Bases, NEW t \in Tables
  PROVE  \E f : Converts(f, Ints, b, t)
<1> DEFINE UpTo(k) == {n \in Ints : Size(n) <= k}
           None == {k \in 0 .. Half : ~ \E f : Converts(f, UpTo(k), b, t)}
<1>1. Half \in Nat
  BY PrintAssumption
<1>2. None = {}
  <2> SUFFICES ASSUME None # {} PROVE FALSE
    OBVIOUS
  <2>1. None \subseteq Nat
    BY <1>1
  <2> HIDE DEF None
  <2>2. PICK k \in None : \A j \in None : k <= j
    BY <2>1, LeastOf
  <2>3. k \in 0 .. Half
    BY <2>2 DEF None
  <2>4. k # 0
    <3> SUFFICES ASSUME k = 0 PROVE FALSE
      OBVIOUS
    <3>1. UpTo(0) = {0}
      <4>1. \A n \in Ints : Size(n) <= 0 <=> n = 0
        BY <1>1 DEF Ints, Size
      <4>2. 0 \in Ints
        BY PrintAssumption DEF Ints
      <4> QED
        BY <4>1, <4>2
    <3>2. Converts([n \in {0} |-> <<>>], {0}, b, t)
      BY DEF Converts
    <3> QED
      BY <2>2, <3>1, <3>2 DEF None
  <2>5. k - 1 \in 0 .. Half /\ k - 1 \notin None
    BY <1>1, <2>2, <2>3, <2>4
  <2>6. PICK f : Converts(f, UpTo(k - 1), b, t)
    BY <2>5 DEF None
  <2> DEFINE D == UpTo(k - 1)
             E == UpTo(k)
             g == [n \in E |-> IF n \in D THEN f[n] ELSE Append(f[Shorter(n, b)], Cell(n, b, t))]
  <2>7. ASSUME NEW n \in E, n # 0
        PROVE  Shorter(n, b) \in D /\ Cell(n, b, t) \in Cells
    <3>1. n \in Ints /\ Size(n) <= k
      OBVIOUS
    <3>2. /\ Shorter(n, b) \in Ints /\ Size(Shorter(n, b)) < Size(n)
          /\ Size(n) \in Int /\ Size(Shorter(n, b)) \in Int /\ Cell(n, b, t) \in Cells
      BY <1>1, <2>7, <3>1, OneShorter DEF Size, Ints
    <3>3. Size(Shorter(n, b)) <= k - 1
      BY <2>3, <3>1, <3>2
    <3> QED
      BY <3>2, <3>3
  <2>8. 0 \in D /\ D \subseteq E
    <3>1. \A n \in Ints : Size(n) \in Int
      BY <1>1 DEF Ints, Size
    <3>2. 0 \in Ints /\ Size(0) = 0
      BY PrintAssumption DEF Ints, Size
    <3> QED
      BY <2>3, <2>4, <3>1, <3>2
  <2> HIDE DEF D, E
  <2>9. f \in [D -> Seq(Cells)]
    BY <2>6 DEF Converts, D
  <2>10. \A n \in D : f[n] = IF n = 0 THEN <<>> ELSE Append(f[Shorter(n, b)], Cell(n, b, t))
    BY <2>6 DEF Converts, D
  <2>11. g \in [E -> Seq(Cells)]
    <3> SUFFICES ASSUME NEW n \in E
                 PROVE  (IF n \in D THEN f[n] ELSE Append(f[Shorter(n, b)], Cell(n, b, t)))
                          \in Seq(Cells)
      OBVIOUS
    <3>1. CASE n \in D
      BY <2>9, <3>1
    <3>2. CASE n \notin D
      <4>1. n # 0
        BY <2>8, <3>2
      <4>2. f[Shorter(n, b)] \in Seq(Cells) /\ Cell(n, b, t) \in Cells
        BY <2>7, <2>9, <4>1
      <4> QED
        BY <3>2, <4>2
    <3> QED
      BY <3>1, <3>2
  <2>12. ASSUME NEW n \in E
         PROVE  g[n] = IF n = 0 THEN <<>> ELSE Append(g[Shorter(n, b)], Cell(n, b, t))
    <3>1. CASE n = 0
      BY <2>8, <2>10, <3>1
    <3>2. CASE n # 0
      <4>1. Shorter(n, b) \in D
        BY <2>7, <3>2
      <4>2. g[Shorter(n, b)] = f[Shorter(n, b)]
        BY <2>8, <4>1
      <4>3. g[n] = Append(f[Shorter(n, b)], Cell(n, b, t))
        BY <2>10, <3>2
      <4> QED
        BY <3>2, <4>2, <4>3
    <3> QED
      BY <3>1, <3>2
  <2>13. Converts(g, E, b, t)
    <3> HIDE DEF g
    <3> QED
      BY <2>11, <2>12 DEF Converts
  <2> QED
    BY <2>2, <2>3, <2>13 DEF None, E
<1>3. UpTo(Half) = Ints
  BY <1>1 DEF Ints, Size
<1>4. Half \in 0 .. Half
  BY <1>1
<1> QED
  BY <1>2, <1>3, <1>4

\* Converted takes its figures from such a function.
LEMMA ConvertedIs ==
  ASSUME NEW b \in Bases, NEW t \in Tables
  PROVE  \E f : /\ Converts(f, Ints, b, t)
                /\ \A n \in Ints : Converted(n, b, t) = IF n = 0 THEN <<"0">> ELSE f[n]
<1> DEFINE Eqn(g) == g = [n \in -Half .. Half - 1 |->
                            IF n = 0 THEN <<>> ELSE Append(g[Shorter(n, b)], Cell(n, b, t))]
           digits == CHOOSE g : Eqn(g)
<1>1. PICK f : Converts(f, Ints, b, t)
  BY ConverterExists
<1>2. Eqn(f)
  BY <1>1 DEF Converts, Ints
<1>3. Eqn(digits)
  BY <1>2
<1>4. \A n \in Ints : Converted(n, b, t) = IF n = 0 THEN <<"0">> ELSE digits[n]
  BY DEF Converted, Shorter, Cell, Size, Ints
<1> HIDE DEF digits
<1>5. \A n \in Ints : digits[n] = IF n = 0 THEN <<>> ELSE Append(digits[Shorter(n, b)], Cell(n, b, t))
  BY <1>3 DEF Ints
<1>6. \A n \in Ints : digits[n] = f[n]
  <2> DEFINE Off == {Size(n) : n \in {m \in Ints : digits[m] # f[m]}}
  <2> SUFFICES ASSUME Off # {} PROVE FALSE
    OBVIOUS
  <2>1. Off \subseteq Nat
    BY PrintAssumption DEF Ints, Size
  <2> HIDE DEF Off
  <2>2. PICK k \in Off : \A j \in Off : k <= j
    BY <2>1, LeastOf
  <2>3. PICK n \in Ints : k = Size(n) /\ digits[n] # f[n]
    BY <2>2 DEF Off
  <2>4. n # 0
    BY <1>1, <1>5, <2>3 DEF Converts
  <2>5. Shorter(n, b) \in Ints /\ Size(Shorter(n, b)) < Size(n)
    BY <2>4, OneShorter
  <2>6. digits[Shorter(n, b)] = f[Shorter(n, b)]
    <3> SUFFICES ASSUME digits[Shorter(n, b)] # f[Shorter(n, b)] PROVE FALSE
      OBVIOUS
    <3>1. Size(Shorter(n, b)) \in Off
      BY <2>5 DEF Off
    <3>2. k <= Size(Shorter(n, b))
      BY <2>2, <3>1
    <3>3. k \in Nat /\ Size(Shorter(n, b)) \in Nat
      BY <2>1, <2>2, <3>1, Zenon
    <3> QED
      BY <2>3, <2>5, <3>2, <3>3
  <2> QED
    BY <1>1, <1>5, <2>3, <2>4, <2>6 DEF Converts
<1> QED
  BY <1>1, <1>4, <1>6

---------------------------------------------------------------------------
(* They are the figures of the number.                                     *)

\* The first n figures of v from the lowest, the highest of them first.
FiguresOf(v, n, b, t) == [i \in 1 .. n |-> t[((v \div Powers(b)[n - i]) % b) + 1]]

\* Figures are characters of numbers, and n of them are n.
LEMMA FiguresAreText ==
  ASSUME NEW b \in Bases, NEW t \in Tables, NEW v \in Nat, NEW n \in 0 .. 2 * Half
  PROVE  /\ FiguresOf(v, n, b, t) \in Seq(NumberChars)
         /\ Len(FiguresOf(v, n, b, t)) = n
<1>1. ASSUME NEW i \in 1 .. n
      PROVE  t[((v \div Powers(b)[n - i]) % b) + 1] \in NumberChars
  <2>1. n - i \in 0 .. 2 * Half
    BY PrintAssumption
  <2>2. Powers(b)[n - i] \in Nat \ {0}
    BY <2>1, PowersAre
  <2>3. (v \div Powers(b)[n - i]) \in Nat
    BY <2>2, Quotient
  <2>4. ((v \div Powers(b)[n - i]) % b) + 1 \in 1 .. 16
    BY <2>3 DEF Bases
  <2> QED
    BY <2>4, TableCells
<1>2. n \in Nat
  BY PrintAssumption
<1> QED
  BY <1>1, <1>2 DEF FiguresOf

\* A sequence that goes on for one more.
LEMMA AppendIs ==
  ASSUME NEW S, NEW s \in Seq(S), NEW r \in Seq(S), Len(r) = Len(s) + 1,
         \A i \in 1 .. Len(s) : r[i] = s[i]
  PROVE  r = Append(s, r[Len(r)])
  OBVIOUS

\* v has n figures.
HasFigures(v, n, b) == n \in 1 .. 2 * Half /\ Powers(b)[n] > v /\ Powers(b)[n - 1] <= v

\* A number of one figure is less than the base; one of more has one less when it
\* is divided.
LEMMA FiguresShift ==
  ASSUME NEW b \in Bases, NEW v \in 1 .. Half, NEW n, HasFigures(v, n, b)
  PROVE  /\ n = 1 => v < b
         /\ n # 1 => v >= b /\ HasFigures(v \div b, n - 1, b)
<1> DEFINE p == Powers(b)
           u == v \div b
<1>1. /\ p[0] = 1
      /\ \A k \in 1 .. 2 * Half : p[k] = b * p[k - 1]
      /\ \A k \in 0 .. 2 * Half : p[k] \in Nat \ {0}
  BY PowersAre
<1>2. n \in 1 .. 2 * Half /\ p[n] > v /\ p[n - 1] <= v /\ Half \in Nat
  BY PrintAssumption DEF HasFigures
<1>3. u \in Nat /\ b * u <= v /\ v < b * u + b /\ v \in Nat
  BY PrintAssumption DEF Bases
<1> HIDE DEF p, u
<1>4. n = 1 => v < b
  BY <1>1, <1>2, <1>3 DEF Bases
<1>5. ASSUME n # 1
      PROVE  v >= b /\ n - 1 \in 1 .. 2 * Half /\ p[n - 1] > u /\ p[n - 1 - 1] <= u
  <2>1. n - 1 \in 1 .. 2 * Half /\ n - 1 - 1 \in 0 .. 2 * Half
    BY <1>2, <1>5
  <2>2. p[n] = b * p[n - 1] /\ p[n - 1] = b * p[n - 1 - 1]
    BY <1>1, <1>2, <2>1
  <2>3. p[n] \in Nat /\ p[n - 1] \in Nat /\ p[n - 1 - 1] \in Nat \ {0}
    BY <1>1, <1>2, <2>1
  <2>4. b * p[n - 1] > v /\ b * p[n - 1 - 1] <= v
    BY <1>2, <2>2
  <2> HIDE DEF HasFigures
  <2> QED
    BY <1>3, <2>1, <2>3, <2>4 DEF Bases
<1> QED
  BY <1>4, <1>5 DEF HasFigures, p, u

\* The recursion writes the figures of a positive number, by induction on it.
LEMMA ConvertsFigures ==
  ASSUME NEW b \in Bases, NEW t \in Tables, NEW f, Converts(f, Ints, b, t),
         NEW v \in 1 .. Half - 1, NEW n, HasFigures(v, n, b)
  PROVE  f[v] = FiguresOf(v, n, b, t)
<1> DEFINE Off == {x \in 1 .. Half - 1 : \E k : HasFigures(x, k, b) /\ f[x] # FiguresOf(x, k, b, t)}
<1>1. Off = {}
  <2> SUFFICES ASSUME Off # {} PROVE FALSE
    OBVIOUS
  <2>1. Off \subseteq Nat
    BY PrintAssumption
  <2> HIDE DEF Off
  <2>2. PICK x \in Off : \A y \in Off : x <= y
    BY <2>1, LeastOf
  <2>3. x \in 1 .. Half - 1 /\ x \in Ints /\ x \in 1 .. Half /\ x \in Nat /\ Half \in Nat
    BY <2>2, PrintAssumption DEF Off, Ints
  <2>4. PICK k : HasFigures(x, k, b) /\ f[x] # FiguresOf(x, k, b, t)
    BY <2>2 DEF Off
  <2> DEFINE u == x \div b
             p == Powers(b)
  <2>5. f[x] = Append(f[u], t[(x % b) + 1]) /\ f[0] = <<>>
    <3>1. x # 0 /\ Shorter(x, b) = u /\ Cell(x, b, t) = t[(x % b) + 1]
      BY <2>3 DEF Shorter, Cell, Size
    <3>2. 0 \in Ints
      BY PrintAssumption DEF Ints
    <3> HIDE DEF u
    <3> QED
      BY <2>3, <3>1, <3>2 DEF Converts
  <2>6. u \in Nat /\ u < x /\ b * u <= x /\ x < b * u + b
    BY <2>3 DEF Bases
  <2>7. /\ p[0] = 1
        /\ \A j \in 1 .. 2 * Half : p[j] = b * p[j - 1]
        /\ \A j \in 0 .. 2 * Half : p[j] \in Nat \ {0}
    BY PowersAre
  <2>8. k \in 1 .. 2 * Half
    BY <2>4 DEF HasFigures
  <2> HIDE DEF u, p
  <2>9. CASE k = 1
    <3>1. x < b /\ u = 0
      BY <2>3, <2>4, <2>6, <2>9, FiguresShift DEF Bases
    <3>2. FiguresOf(x, 1, b, t) = <<t[(x % b) + 1]>>
      BY <2>3, <2>7 DEF FiguresOf, p
    <3>3. f[x] = <<t[(x % b) + 1]>>
      <4>1. \A e : Append(<<>>, e) = <<e>>
        OBVIOUS
      <4> QED
        BY <2>5, <3>1, <4>1, Zenon
    <3> QED
      BY <2>4, <2>9, <3>2, <3>3
  <2>10. CASE k # 1
    <3>1. x >= b /\ HasFigures(u, k - 1, b)
      BY <2>3, <2>4, <2>10, FiguresShift DEF u
    <3>2. u \in 1 .. Half - 1 /\ u \notin Off
      BY <2>2, <2>3, <2>6, <3>1 DEF Bases
    <3>3. f[u] = FiguresOf(u, k - 1, b, t)
      BY <3>1, <3>2 DEF Off
    <3>4. ASSUME NEW i \in 1 .. k - 1
          PROVE  (u \div p[k - 1 - i]) % b = (x \div p[k - i]) % b
      <4>1. k - i \in 1 .. 2 * Half /\ k - 1 - i \in 0 .. 2 * Half /\ k - i - 1 = k - 1 - i
        BY <2>3, <2>8
      <4>2. p[k - i] = b * p[k - 1 - i] /\ p[k - 1 - i] \in Nat \ {0}
        BY <2>7, <4>1
      <4>3. x \div p[k - i] = u \div p[k - 1 - i]
        BY <2>3, <4>2, DivideTwice DEF u
      <4> QED
        BY <4>3
    <3>5. (x \div p[k - k]) % b = x % b
      BY <2>3, <2>7, <2>8
    <3>6. Append(FiguresOf(u, k - 1, b, t), t[(x % b) + 1]) = FiguresOf(x, k, b, t)
      <4> DEFINE g == FiguresOf(u, k - 1, b, t)
                 h == FiguresOf(x, k, b, t)
      <4>1. k - 1 \in 0 .. 2 * Half /\ k \in 0 .. 2 * Half
        BY <2>3, <2>8
      <4>2. g \in Seq(NumberChars) /\ Len(g) = k - 1 /\ h \in Seq(NumberChars) /\ Len(h) = k
        BY <2>3, <2>6, <4>1, FiguresAreText
      <4>3. ASSUME NEW i \in 1 .. k - 1
            PROVE  h[i] = g[i]
        <5>1. i \in 1 .. k
          BY <2>3, <2>8
        <5>2. h[i] = t[((x \div p[k - i]) % b) + 1]
          BY <5>1 DEF FiguresOf, p
        <5>3. g[i] = t[((u \div p[k - 1 - i]) % b) + 1]
          BY DEF FiguresOf, p
        <5> QED
          BY <3>4, <5>2, <5>3
      <4>4. h[k] = t[(x % b) + 1]
        BY <2>8, <3>5 DEF FiguresOf, p
      <4> HIDE DEF g, h
      <4> QED
        BY <2>8, <4>2, <4>3, <4>4, AppendIs DEF g, h
    <3> QED
      BY <2>4, <2>5, <3>3, <3>6
  <2> QED
    BY <2>9, <2>10
<1> QED
  BY <1>1

\* Every number has a number of figures, and C writes as many.
LEMMA NumeralIs ==
  ASSUME NEW b \in Bases, NEW t \in Tables, NEW v \in 0 .. 2 * Half - 1
  PROVE  /\ Numeral(v, b, t) \in Seq(NumberChars) /\ Len(Numeral(v, b, t)) \in Nat \ {0}
         /\ v = 0 => Numeral(v, b, t) = <<"0">>
         /\ v # 0 => \E n : HasFigures(v, n, b) /\ Numeral(v, b, t) = FiguresOf(v, n, b, t)
<1> DEFINE p == Powers(b)
           Fits(k) == p[k] > v /\ (k = 1 \/ p[k - 1] <= v)
           n == CHOOSE k \in 1 .. v + 1 : Fits(k)
<1>1. /\ p[0] = 1
      /\ \A k \in 0 .. 2 * Half : p[k] \in Nat \ {0} /\ p[k] > k
  BY PowersAre
<1>2. v \in Nat /\ Half \in Nat /\ v + 1 \in 1 .. 2 * Half
  BY PrintAssumption
<1> HIDE DEF p
<1>3. \E k \in 1 .. v + 1 : Fits(k)
  <2> DEFINE Enough == {k \in 1 .. v + 1 : p[k] > v}
  <2>1. v + 1 \in Enough /\ Enough \subseteq Nat
    BY <1>1, <1>2
  <2>2. PICK k \in Enough : \A j \in Enough : k <= j
    BY <2>1, LeastOf
  <2>3. k \in 1 .. v + 1 /\ p[k] > v
    BY <2>2
  <2>4. k = 1 \/ p[k - 1] <= v
    <3> SUFFICES ASSUME k # 1 PROVE p[k - 1] <= v
      OBVIOUS
    <3>1. k - 1 \in 1 .. v + 1 /\ k - 1 \in 0 .. 2 * Half /\ ~(k <= k - 1)
      BY <1>2, <2>3
    <3>2. ~(p[k - 1] > v)
      BY <2>2, <3>1
    <3>3. p[k - 1] \in Nat
      BY <1>1, <3>1
    <3> QED
      BY <1>2, <3>2, <3>3
  <2> QED
    BY <2>3, <2>4
<1> HIDE DEF Fits
<1>4. n \in 1 .. v + 1 /\ Fits(n)
  BY <1>3
<1>5. Numeral(v, b, t) = FiguresOf(v, n, b, t)
  BY DEF Numeral, FiguresOf, Fits, p
<1> HIDE DEF n
<1>6. n \in 1 .. 2 * Half
  BY <1>2, <1>4
<1>7. Numeral(v, b, t) \in Seq(NumberChars) /\ Len(Numeral(v, b, t)) = n
  BY <1>2, <1>5, <1>6, FiguresAreText
<1>8. v = 0 => Numeral(v, b, t) = <<"0">>
  <2> SUFFICES ASSUME v = 0 PROVE FiguresOf(0, 1, b, t) = <<"0">>
    BY <1>4, <1>5
  <2>1. (0 \div p[1 - 1]) % b = 0
    BY <1>1 DEF Bases
  <2>2. t[1] = "0"
    BY TableCells
  <2> QED
    BY <2>1, <2>2 DEF FiguresOf, p
<1>9. v # 0 => HasFigures(v, n, b)
  BY <1>1, <1>2, <1>4, <1>6 DEF HasFigures, Fits, p
<1> QED
  BY <1>5, <1>6, <1>7, <1>8, <1>9

\* What number writes of a positive number is what C writes of it.
LEMMA ConvertedIsNumeral ==
  ASSUME NEW b \in Bases, NEW t \in Tables, NEW v \in 0 .. Half - 1
  PROVE  Converted(v, b, t) = Numeral(v, b, t)
<1>1. PICK f : /\ Converts(f, Ints, b, t)
               /\ \A n \in Ints : Converted(n, b, t) = IF n = 0 THEN <<"0">> ELSE f[n]
  BY ConvertedIs
<1>2. v \in Ints /\ v \in 0 .. 2 * Half - 1
  BY PrintAssumption DEF Ints
<1>3. CASE v = 0
  BY <1>1, <1>2, <1>3, NumeralIs
<1>4. CASE v # 0
  <2>1. PICK n : HasFigures(v, n, b) /\ Numeral(v, b, t) = FiguresOf(v, n, b, t)
    BY <1>2, <1>4, NumeralIs
  <2>2. v \in 1 .. Half - 1
    BY <1>4, PrintAssumption
  <2>3. f[v] = FiguresOf(v, n, b, t)
    BY <1>1, <2>1, <2>2, ConvertsFigures
  <2> QED
    BY <1>1, <1>2, <1>4, <2>1, <2>3
<1> QED
  BY <1>3, <1>4

\* A negative number has a figure from before the table.
LEMMA NegativeIsJunk ==
  ASSUME NEW b \in Bases, NEW t \in Tables, NEW m \in -Half .. -1
  PROVE  /\ Converted(m, b, t) \in Seq(Cells)
         /\ \E i \in 1 .. Len(Converted(m, b, t)) : Converted(m, b, t)[i] = Junk
<1> DEFINE HasJunk(s) == \E i \in 1 .. Len(s) : s[i] = Junk
<1>1. PICK f : /\ Converts(f, Ints, b, t)
               /\ \A n \in Ints : Converted(n, b, t) = IF n = 0 THEN <<"0">> ELSE f[n]
  BY ConvertedIs
<1> DEFINE Off == {k \in 1 .. Half : ~HasJunk(f[-k])}
<1>2. Off = {}
  <2> SUFFICES ASSUME Off # {} PROVE FALSE
    OBVIOUS
  <2>1. Off \subseteq Nat
    BY PrintAssumption
  <2> HIDE DEF Off
  <2>2. PICK k \in Off : \A j \in Off : k <= j
    BY <2>1, LeastOf
  <2>3. k \in 1 .. Half /\ ~HasJunk(f[-k]) /\ Half \in Nat
    BY <2>2, PrintAssumption DEF Off
  <2> DEFINE u == k \div b
             n == -k
             s == f[-u]
             c == Cell(n, b, t)
  <2>4. /\ u \in Nat /\ u < k /\ (u = 0 => k % b = k)
        /\ n \in Ints /\ n # 0 /\ n < 0 /\ Size(n) = k /\ Shorter(n, b) = -u
    <3>1. u \in Nat /\ u < k /\ (u = 0 => k % b = k)
      BY <2>3 DEF Bases
    <3>2. n \in Ints /\ n # 0 /\ n < 0 /\ -n = k
      BY <2>3 DEF Ints
    <3>3. Size(n) = k
      BY <3>2, Zenon DEF Size
    <3>4. Shorter(n, b) = -u
      BY <3>2, <3>3, Zenon DEF Shorter
    <3> QED
      BY <3>1, <3>2, <3>3, <3>4
  <2>5. -u \in Ints /\ c \in Cells
    BY <2>4, OneShorter
  <2>6. s \in Seq(Cells) /\ f[n] = Append(s, c)
    BY <1>1, <2>4, <2>5 DEF Converts
  <2> HIDE DEF u, n, s, c
  <2>7. Len(Append(s, c)) = Len(s) + 1 /\ Append(s, c)[Len(s) + 1] = c
        /\ \A i \in 1 .. Len(s) : Append(s, c)[i] = s[i]
    BY <2>5, <2>6
  <2>8. Len(s) \in Nat
    BY <2>6
  <2>9. CASE k % b # 0
    <3>1. c = Junk
      BY <2>4, <2>9 DEF Cell, c
    <3>2. HasJunk(f[n])
      BY <2>6, <2>7, <2>8, <3>1
    <3> QED
      BY <2>3, <3>2 DEF n
  <2>10. CASE k % b = 0
    <3>1. u \in 1 .. Half /\ ~(k <= u)
      BY <2>3, <2>4, <2>10
    <3>2. HasJunk(s)
      BY <2>2, <3>1 DEF Off, s
    <3>3. HasJunk(f[n])
      BY <2>6, <2>7, <2>8, <3>2
    <3> QED
      BY <2>3, <3>3 DEF n
  <2> QED
    BY <2>9, <2>10
<1>3. -m \in 1 .. Half /\ -(-m) = m /\ m \in Ints /\ m # 0
  BY PrintAssumption DEF Ints
<1>4. HasJunk(f[m])
  BY <1>2, <1>3
<1>5. f[m] \in Seq(Cells) /\ Converted(m, b, t) = f[m]
  BY <1>1, <1>3 DEF Converts
<1> QED
  BY <1>4, <1>5

---------------------------------------------------------------------------
(* Widths.                                                                 *)

\* The value of a digit.
LEMMA DigitsAre ==
  ASSUME NEW c \in DOMAIN Digits
  PROVE  Digits[c] \in 0 .. 9 /\ (Digits[c] = 0 => c = "0")
<1> DEFINE ten == <<"0", "1", "2", "3", "4", "5", "6", "7", "8", "9">>
           D == {"0", "1", "2", "3", "4", "5", "6", "7", "8", "9"}
<1>1. c \in D /\ Digits[c] = CHOOSE i \in 0 .. 9 : c = ten[i + 1]
  BY DEF Digits
<1>2. \E i \in 0 .. 9 : c = ten[i + 1]
  BY <1>1
<1>3. Digits[c] \in 0 .. 9 /\ c = ten[Digits[c] + 1]
  <2> HIDE DEF ten, D
  <2> QED
    BY <1>1, <1>2
<1>4. ten[0 + 1] = "0"
  OBVIOUS
<1> QED
  <2> HIDE DEF ten
  <2> QED
    BY <1>3, <1>4

\* The value of a width of no digit, of one digit, and of more.
LEMMA LastButOne ==
  ASSUME NEW n \in Nat, n > 1
  PROVE  n \in 1 .. n /\ n - 1 \in 0 .. n /\ n - 1 # 0
  OBVIOUS

\* The value of a width: 0 without digits, the digit of one, 10 or more of more.
LEMMA ValueIs ==
  ASSUME NEW w \in Seq(DOMAIN Digits), w # <<>> => w[1] # "0"
  PROVE  /\ Len(w) \in Nat
         /\ \A i \in 1 .. Len(w) : w[i] \in DOMAIN Digits /\ Digits[w[i]] \in 0 .. 9
         /\ Value(w) \in Nat
         /\ Len(w) = 0 => Value(w) = 0
         /\ Len(w) = 1 => Value(w) = Digits[w[1]]
         /\ Len(w) > 1 => Value(w) >= 10
<1> DEFINE N == Len(w)
           step == [i \in 1 .. N |-> [x \in Nat |-> 10 * x + Digits[w[i]]]]
           Eqn(v) == v = [i \in 0 .. N |-> IF i = 0 THEN 0 ELSE 10 * v[i - 1] + Digits[w[i]]]
           v == CHOOSE g : Eqn(g)
<1>1. w \in Seq(DOMAIN Digits) /\ (w # <<>> => w[1] # "0")
  OBVIOUS
<1>2. N \in Nat /\ \A i \in 1 .. N : w[i] \in DOMAIN Digits
  BY <1>1
<1>3. \A i \in 1 .. N : Digits[w[i]] \in 0 .. 9 /\ (Digits[w[i]] = 0 => w[i] = "0")
  BY <1>2, DigitsAre
<1>4. N # 0 => Digits[w[1]] # 0
  <2> SUFFICES ASSUME N # 0 PROVE Digits[w[1]] # 0
    OBVIOUS
  <2>1. w # <<>> /\ 1 \in 1 .. N
    BY <1>1, <1>2
  <2> QED
    BY <1>1, <1>3, <2>1
<1>5. Value(w) = v[N]
  BY DEF Value
<1>6. step \in [1 .. N -> [Nat -> Nat]]
  <2> SUFFICES ASSUME NEW i \in 1 .. N, NEW x \in Nat PROVE 10 * x + Digits[w[i]] \in Nat
    OBVIOUS
  <2> QED
    BY <1>3
<1>7. \A i \in 1 .. N, x \in Nat : step[i][x] = 10 * x + Digits[w[i]]
  OBVIOUS
<1> HIDE DEF N, step
<1>8. PICK f : Steps(f, N, Nat, 0, step)
  BY <1>2, <1>6, StepsExist
<1>9. Eqn(f)
  <2>1. \A i \in 0 .. N : i # 0 => i \in 1 .. N /\ i - 1 \in 0 .. N
    BY <1>2
  <2>2. f \in [0 .. N -> Nat] /\ f[0] = 0 /\ \A i \in 1 .. N : f[i] = step[i][f[i - 1]]
    BY <1>8, Zenon DEF Steps
  <2>3. ASSUME NEW i \in 1 .. N
        PROVE  f[i] = 10 * f[i - 1] + Digits[w[i]]
    <3>1. i - 1 \in 0 .. N
      BY <1>2
    <3>2. f[i - 1] \in Nat
      BY <2>2, <3>1
    <3> QED
      BY <1>7, <2>2, <3>2, Zenon
  <2> QED
    BY <2>1, <2>2, <2>3
<1>10. Eqn(v)
  BY <1>9
<1> HIDE DEF v
<1>11. v[0] = 0 /\ \A i \in 1 .. N : v[i] = 10 * v[i - 1] + Digits[w[i]]
  BY <1>2, <1>10
<1>12. \A i \in 0 .. N : v[i] \in Nat /\ (i # 0 => v[i] # 0)
  <2> DEFINE Off == {i \in 0 .. N : ~(v[i] \in Nat /\ (i # 0 => v[i] # 0))}
  <2> SUFFICES ASSUME Off # {} PROVE FALSE
    OBVIOUS
  <2>1. Off \subseteq Nat
    BY <1>2
  <2> HIDE DEF Off
  <2>2. PICK i \in Off : \A j \in Off : i <= j
    BY <2>1, LeastOf
  <2>3. i \in 0 .. N /\ ~(v[i] \in Nat /\ (i # 0 => v[i] # 0))
    BY <2>2 DEF Off
  <2>4. i # 0
    BY <1>11, <2>3
  <2>5. i - 1 \in 0 .. N /\ i \in 1 .. N /\ i - 1 \notin Off
    BY <1>2, <2>2, <2>3, <2>4
  <2>6. v[i - 1] \in Nat /\ (i - 1 # 0 => v[i - 1] # 0)
    BY <2>5 DEF Off
  <2>7. v[i] = 10 * v[i - 1] + Digits[w[i]] /\ Digits[w[i]] \in Nat
    BY <1>3, <1>11, <2>5
  <2>8. i = 1 => Digits[w[i]] # 0
    BY <1>2, <1>4, <2>5
  <2>9. v[i] \in Nat
    BY <2>6, <2>7
  <2>10. v[i] # 0
    <3>1. CASE i = 1
      BY <2>6, <2>7, <2>8, <3>1
    <3>2. CASE i # 1
      <4>1. v[i - 1] # 0
        BY <2>5, <2>6, <3>2
      <4> QED
        BY <2>6, <2>7, <4>1
    <3> QED
      BY <3>1, <3>2
  <2> QED
    BY <2>3, <2>9, <2>10
<1>13. N = 1 => v[N] = Digits[w[1]]
  BY <1>3, <1>11
<1>14. N > 1 => v[N] >= 10
  <2> SUFFICES ASSUME N > 1 PROVE v[N] >= 10
    OBVIOUS
  <2>1. N \in 1 .. N /\ N - 1 \in 0 .. N /\ N - 1 # 0
    BY <1>2, LastButOne
  <2>2. v[N] = 10 * v[N - 1] + Digits[w[N]] /\ Digits[w[N]] \in Nat
    <3>1. v[N] = 10 * v[N - 1] + Digits[w[N]]
      BY <1>11, <2>1, Zenon
    <3>2. Digits[w[N]] \in 0 .. 9
      BY <1>3, <2>1, Zenon
    <3> QED
      BY <3>1, <3>2
  <2>3. v[N - 1] \in Nat \ {0}
    BY <1>12, <2>1
  <2> QED
    BY <2>2, <2>3
<1>15. v[N] \in Nat
  BY <1>2, <1>12
<1> QED
  BY <1>1, <1>2, <1>3, <1>5, <1>11, <1>13, <1>14, <1>15 DEF N

\* What vsprintf takes the width for: its last digit.
FieldWidth(w) == IF w = <<>> THEN -1 ELSE Digits[w[Len(w)]]

\* The last digit of a width is its value when it is the only one, and less when not.
LEMMA FieldWidthIs ==
  ASSUME NEW w \in Seq(DOMAIN Digits), w # <<>> => w[1] # "0"
  PROVE  /\ FieldWidth(w) \in Int /\ Value(w) \in Nat /\ Len(w) \in Nat
         /\ FieldWidth(w) <= Value(w)
         /\ Len(w) = 0 => Value(w) = 0
         /\ Len(w) = 1 => FieldWidth(w) = Value(w)
         /\ Len(w) > 1 => FieldWidth(w) < Value(w)
<1>1. CASE w = <<>>
  <2>1. Len(w) = 0 /\ FieldWidth(w) = -1
    BY <1>1 DEF FieldWidth
  <2>2. Value(w) = 0
    BY <2>1, ValueIs
  <2> QED
    BY <2>1, <2>2
<1>2. CASE w # <<>>
  <2>1. Len(w) \in Nat \ {0}
    BY <1>2
  <2>2. FieldWidth(w) = Digits[w[Len(w)]] /\ FieldWidth(w) \in 0 .. 9
    BY <1>2, <2>1, ValueIs DEF FieldWidth
  <2>3. CASE Len(w) = 1
    <3>1. Value(w) = Digits[w[1]]
      BY <2>3, ValueIs
    <3>2. FieldWidth(w) = Value(w)
      BY <2>2, <2>3, <3>1
    <3> QED
      BY <2>2, <2>3, <3>2
  <2>4. CASE Len(w) > 1
    <3>1. Value(w) \in Nat /\ Value(w) >= 10
      BY <2>4, ValueIs
    <3> QED
      BY <2>1, <2>2, <2>4, <3>1
  <2>5. Len(w) = 1 \/ Len(w) > 1
    <3> DEFINE n == Len(w)
    <3>1. n \in Nat \ {0}
      BY <2>1
    <3> HIDE DEF n
    <3>2. n = 1 \/ n > 1
      BY <3>1
    <3> QED
      BY <3>2 DEF n
  <2> QED
    BY <2>3, <2>4, <2>5, Zenon
<1> QED
  BY <1>1, <1>2

---------------------------------------------------------------------------
(* Padding.                                                                *)

\* n times a character, and nothing for no or a negative n.
LEMMA TimesIs ==
  ASSUME NEW M, NEW c \in M, NEW n \in Int
  PROVE  /\ Times(n, c) \in Seq(M)
         /\ Len(Times(n, c)) = IF n > 0 THEN n ELSE 0
         /\ \A i \in 1 .. Len(Times(n, c)) : Times(n, c)[i] = c
         /\ n <= 0 => Times(n, c) = <<>>
<1>1. CASE n > 0
  BY <1>1 DEF Times
<1>2. CASE n <= 0
  <2>1. 1 .. n = {}
    BY <1>2
  <2>2. Times(n, c) = <<>>
    BY <2>1 DEF Times
  <2> QED
    BY <1>2, <2>2
<1> QED
  BY <1>1, <1>2

\* Three sequences one after the other.
LEMMA Three ==
  ASSUME NEW M, NEW p \in Seq(M), NEW q \in Seq(M), NEW r \in Seq(M)
  PROVE  /\ p \o q \o r \in Seq(M)
         /\ Len(p \o q \o r) = Len(p) + Len(q) + Len(r)
         /\ Len(p) > 0 => (p \o q \o r)[1] = p[1]
         /\ Len(r) > 0 => (p \o q \o r)[Len(p) + Len(q) + Len(r)] = r[Len(r)]
<1>1. /\ p \o q \in Seq(M) /\ Len(p \o q) = Len(p) + Len(q)
      /\ Len(p) > 0 => (p \o q)[1] = p[1]
      /\ Len(p) \in Nat /\ Len(q) \in Nat /\ Len(r) \in Nat
  OBVIOUS
<1> DEFINE s == p \o q
<1>2. /\ s \o r \in Seq(M) /\ Len(s \o r) = Len(s) + Len(r)
      /\ Len(s) > 0 => (s \o r)[1] = s[1]
      /\ Len(r) > 0 => (s \o r)[Len(s) + Len(r)] = r[Len(r)]
  <2>1. s \in Seq(M) /\ Len(s) \in Nat
    BY <1>1
  <2> HIDE DEF s
  <2> QED
    BY <2>1
<1> QED
  BY <1>1, <1>2

\* A sequence that is not empty has an element.
LEMMA NotEmpty ==
  ASSUME NEW M, NEW p \in Seq(M), p # <<>>
  PROVE  Len(p) > 0
  OBVIOUS

\* Nothing written between, behind or before two texts changes them.
LEMMA Nothing ==
  ASSUME NEW M, NEW p \in Seq(M), NEW q \in Seq(M)
  PROVE  p \o <<>> \o q = p \o q /\ p \o q \o <<>> = p \o q /\ <<>> \o p \o q = p \o q
<1>1. p \o <<>> = p /\ <<>> \o p = p
  OBVIOUS
<1>2. p \o q \in Seq(M)
  OBVIOUS
<1>3. p \o q \o <<>> = p \o q
  <2> DEFINE s == p \o q
  <2> HIDE DEF s
  <2>1. s \o <<>> = s
    BY <1>2 DEF s
  <2> QED
    BY <2>1 DEF s
<1> QED
  BY <1>1, <1>3

---------------------------------------------------------------------------
(* number, as far as C agrees with the figures, and where it does not.     *)

Sign(num, f) == IF "SIGN" \in f /\ num < 0 THEN <<"-">> ELSE <<>>
Mark(b, f) == IF b = 16 THEN <<"0", IF "SMALL" \in f THEN "x" ELSE "X">> ELSE <<>>
Table(f) == IF "SMALL" \in f THEN low ELSE up

\* A sign or a mark, figures and padding in the order of the flags.
LaidOut(p, q, w, f) ==
  LET pad == Times(w - Len(p) - Len(q), IF "ZEROPAD" \in f THEN "0" ELSE " ")
  IN  IF "LEFT" \in f THEN p \o q \o pad ELSE p \o pad \o q

\* number lays out the figures of C where it gets the number right.
LEMMA NumberIs ==
  ASSUME NEW num \in Ints, NEW b \in Bases, NEW w \in Int, NEW f,
         num >= 0 \/ ("SIGN" \in f /\ num # -Half)
  PROVE  number(num, b, w, f) =
           LaidOut(Sign(num, f) \o Mark(b, f), Numeral(Size(num), b, Table(f)), w, f)
<1> DEFINE neg == "SIGN" \in f /\ num < 0
           m == IF neg /\ num # -Half THEN -num ELSE num
<1>1. m = Size(num) /\ m \in 0 .. Half - 1
  BY PrintAssumption DEF Ints, Size
<1>2. Table(f) \in Tables
  BY DEF Table, Tables
<1> HIDE DEF m
<1>3. Converted(m, b, Table(f)) = Numeral(Size(num), b, Table(f))
  BY <1>1, <1>2, ConvertedIsNumeral
<1>4. number(num, b, w, f) =
        LaidOut(Sign(num, f) \o Mark(b, f), Converted(m, b, Table(f)), w, f)
  BY DEF number, LaidOut, Sign, Mark, Table, room, m
<1> QED
  BY <1>3, <1>4

\* Short sequences.
LEMMA Singles ==
  ASSUME NEW M, NEW c \in M, NEW e \in M
  PROVE  <<>> \in Seq(M) /\ <<c>> \in Seq(M) /\ <<c, e>> \in Seq(M)
  OBVIOUS

\* The characters of a sign, of 0x and of padding.
LEMMA MarkChars ==
  /\ "0" \in NumberChars /\ "-" \in NumberChars /\ " " \in NumberChars
  /\ "x" \in NumberChars /\ "X" \in NumberChars
<1>1. up \in Tables
  BY DEF Tables
<1>2. "0" \in NumberChars
  BY <1>1, TableCells
<1> QED
  BY <1>2 DEF NumberChars

\* Sign and mark are characters of numbers.
LEMMA MarksAreText ==
  ASSUME NEW num, NEW b, NEW f
  PROVE  Sign(num, f) \o Mark(b, f) \in Seq(NumberChars)
<1>2. Sign(num, f) \in Seq(NumberChars)
  BY MarkChars, Singles, Zenon DEF Sign
<1>3. Mark(b, f) \in Seq(NumberChars)
  BY MarkChars, Singles, Zenon DEF Mark
<1> QED
  BY <1>2, <1>3

\* A number written wrong has a character that C never writes.
LEMMA NumberIsJunk ==
  ASSUME NEW num \in Ints, NEW b \in Bases, NEW w \in Int, NEW f,
         ~(num >= 0 \/ ("SIGN" \in f /\ num # -Half)),
         NEW text \in Seq(NumberChars)
  PROVE  number(num, b, w, f) # text
<1> DEFINE p == Sign(num, f) \o Mark(b, f)
           q == Converted(num, b, Table(f))
           pad == Times(w - Len(p) - Len(q), IF "ZEROPAD" \in f THEN "0" ELSE " ")
<1>1. num \in -Half .. -1 /\ ~("SIGN" \in f /\ num < 0 /\ num # -Half)
  BY PrintAssumption DEF Ints
<1>2. number(num, b, w, f) = LaidOut(p, q, w, f)
  BY <1>1 DEF number, LaidOut, Sign, Mark, Table, room
<1>3. Table(f) \in Tables
  BY DEF Table, Tables
<1>4. q \in Seq(Cells) /\ \E i \in 1 .. Len(q) : q[i] = Junk
  BY <1>1, <1>3, NegativeIsJunk
<1>5. p \in Seq(Cells)
  <2>1. p \in Seq(NumberChars)
    BY MarksAreText
  <2> HIDE DEF p
  <2> QED
    BY <2>1 DEF Cells
<1> HIDE DEF p, q
<1>6. pad \in Seq(Cells)
  <2>1. "0" \in Cells /\ " " \in Cells
    BY MarkChars DEF Cells
  <2>2. w - Len(p) - Len(q) \in Int
    BY <1>4, <1>5
  <2> QED
    BY <2>1, <2>2, TimesIs
<1>7. LaidOut(p, q, w, f) = p \o q \o pad \/ LaidOut(p, q, w, f) = p \o pad \o q
  BY DEF LaidOut
<1> HIDE DEF pad
<1>8. ASSUME NEW a \in Seq(Cells), NEW c \in Seq(Cells)
      PROVE  a \o q \o c # text
  <2>1. PICK i \in 1 .. Len(q) : q[i] = Junk
    BY <1>4
  <2>2. /\ a \o q \in Seq(Cells) /\ Len(a) + i \in 1 .. Len(a \o q)
        /\ (a \o q)[Len(a) + i] = Junk
    BY <1>4, <2>1
  <2>3. /\ Len(a) + i \in 1 .. Len(a \o q \o c)
        /\ (a \o q \o c)[Len(a) + i] = Junk
    <3> DEFINE s == a \o q
               j == Len(a) + i
    <3>1. s \in Seq(Cells) /\ j \in 1 .. Len(s) /\ s[j] = Junk
      BY <2>2
    <3> HIDE DEF s, j
    <3>2. j \in 1 .. Len(s \o c) /\ (s \o c)[j] = Junk
      BY <3>1
    <3> QED
      BY <3>2 DEF s, j
  <2>4. \A j \in 1 .. Len(text) : text[j] # Junk
    BY PrintAssumption
  <2> QED
    BY <2>3, <2>4
<1>9. p \o q \o pad # text
  BY <1>5, <1>6, <1>8
<1>10. p \o pad \o q # text
  <2>1. p \o pad \in Seq(Cells) /\ <<>> \in Seq(Cells)
    BY <1>5, <1>6
  <2> DEFINE a == p \o pad
  <2> HIDE DEF a
  <2>2. a \o q \o <<>> = a \o q
    BY <1>4, <2>1, Nothing DEF a
  <2>3. a \o q \o <<>> # text
    BY <1>8, <2>1 DEF a
  <2> QED
    BY <2>2, <2>3 DEF a
<1> QED
  BY <1>2, <1>7, <1>9, <1>10

---------------------------------------------------------------------------
(* The padding of vsprintf and that of C.                                  *)

\* How C pads with r characters.
PaddedInC(p, q, r, f) ==
  IF "LEFT" \in f THEN p \o q \o Times(r, " ")
  ELSE IF "ZEROPAD" \in f THEN p \o Times(r, "0") \o q
  ELSE Times(r, " ") \o p \o q

\* When vsprintf does the same.
Fits(width, p, r, f) ==
  r > 0 => /\ Len(width) = 1
           /\ IF "LEFT" \in f THEN "ZEROPAD" \notin f ELSE "ZEROPAD" \in f \/ p = <<>>

\* No room: nothing is written to fill it.
LEMMA PadNothing ==
  ASSUME NEW M, NEW c \in M, NEW n \in Int, n <= 0
  PROVE  Times(n, c) = <<>>
  BY TimesIs

\* The length of three sequences one after the other.
LEMMA LengthOfThree ==
  ASSUME NEW M, NEW p \in Seq(M), NEW q \in Seq(M), NEW r \in Seq(M)
  PROVE  Len(p \o q \o r) = Len(p) + Len(q) + Len(r)
  BY Three

\* No layout with the padding s is one with the padding t.
Differ(p, q, s, t) ==
  \A a \in {p \o q \o s, p \o s \o q} : a \notin {p \o q \o t, p \o t \o q, t \o p \o q}

\* Less padding makes a shorter text, wherever it is put.
LEMMA PadShorter ==
  ASSUME NEW M, NEW p \in Seq(M), NEW q \in Seq(M), NEW c \in M, NEW e \in M,
         NEW n \in Int, NEW r \in Int, n < r, r > 0
  PROVE  Differ(p, q, Times(n, c), Times(r, e))
<1> DEFINE s == Times(n, c)
           t == Times(r, e)
<1>1. s \in Seq(M) /\ Len(s) = (IF n > 0 THEN n ELSE 0)
  BY TimesIs
<1>2. t \in Seq(M) /\ Len(t) = r
  BY TimesIs
<1> HIDE DEF s, t
<1>3. Len(s) \in Nat /\ Len(s) < Len(t) /\ Len(t) \in Nat /\ Len(p) \in Nat /\ Len(q) \in Nat
  BY <1>1, <1>2
<1>4. /\ Len(p \o q \o s) = Len(p) + Len(q) + Len(s)
      /\ Len(p \o s \o q) = Len(p) + Len(s) + Len(q)
  <2>1. s \in Seq(M)
    BY <1>1
  <2>2. Len(p \o q \o s) = Len(p) + Len(q) + Len(s)
    BY <2>1, LengthOfThree
  <2>3. Len(p \o s \o q) = Len(p) + Len(s) + Len(q)
    BY <2>1, LengthOfThree
  <2> QED
    BY <2>2, <2>3
<1>5. /\ Len(p \o q \o t) = Len(p) + Len(q) + Len(t)
      /\ Len(p \o t \o q) = Len(p) + Len(t) + Len(q)
      /\ Len(t \o p \o q) = Len(t) + Len(p) + Len(q)
  <2>1. t \in Seq(M)
    BY <1>2
  <2>2. Len(p \o q \o t) = Len(p) + Len(q) + Len(t)
    BY <2>1, LengthOfThree
  <2>3. Len(p \o t \o q) = Len(p) + Len(t) + Len(q)
    BY <2>1, LengthOfThree
  <2>4. Len(t \o p \o q) = Len(t) + Len(p) + Len(q)
    BY <2>1, LengthOfThree
  <2> QED
    BY <2>2, <2>3, <2>4
<1> DEFINE L == Len(p) + Len(q) + Len(s)
           K == Len(p) + Len(q) + Len(t)
<1>6. L # K
  BY <1>3
<1>7. \A a \in {p \o q \o s, p \o s \o q} : Len(a) = L
  BY <1>3, <1>4
<1>8. \A a \in {p \o q \o t, p \o t \o q, t \o p \o q} : Len(a) = K
  BY <1>3, <1>5
<1> HIDE DEF L, K
<1>9. ASSUME NEW a \in {p \o q \o s, p \o s \o q}
      PROVE  a \notin {p \o q \o t, p \o t \o q, t \o p \o q}
  <2>1. Len(a) # K
    BY <1>6, <1>7
  <2> QED
    BY <1>8, <2>1, Zenon
<1> QED
  BY <1>9, Zenon DEF s, t, Differ

\* The last characters differ.
EndsOtherwise(p, q, r, c, e) == p \o q \o Times(r, c) # p \o q \o Times(r, e)

\* Blanks on the right make a text that no other layout makes.
LEMMA PadRight ==
  ASSUME NEW M, NEW p \in Seq(M), NEW q \in Seq(M), NEW c \in M, NEW e \in M, c # e,
         NEW r \in Int, r > 0
  PROVE  EndsOtherwise(p, q, r, c, e)
<1> DEFINE s == Times(r, c)
           t == Times(r, e)
           L == Len(p) + Len(q) + r
<1>1. s \in Seq(M) /\ Len(s) = r /\ s[r] = c
  <2>1. /\ s \in Seq(M) /\ Len(s) = (IF r > 0 THEN r ELSE 0)
        /\ \A i \in 1 .. Len(s) : s[i] = c
    BY TimesIs
  <2> HIDE DEF s
  <2> QED
    BY <2>1
<1>2. t \in Seq(M) /\ Len(t) = r /\ t[r] = e
  <2>1. /\ t \in Seq(M) /\ Len(t) = (IF r > 0 THEN r ELSE 0)
        /\ \A i \in 1 .. Len(t) : t[i] = e
    BY TimesIs
  <2> HIDE DEF t
  <2> QED
    BY <2>1
<1> HIDE DEF s, t
<1>3. (p \o q \o s)[L] = c
  <2>1. Len(s) > 0 => (p \o q \o s)[Len(p) + Len(q) + Len(s)] = s[Len(s)]
    BY <1>1, Three
  <2> QED
    BY <1>1, <2>1
<1>4. (p \o q \o t)[L] = e
  <2>1. Len(t) > 0 => (p \o q \o t)[Len(p) + Len(q) + Len(t)] = t[Len(t)]
    BY <1>2, Three
  <2> QED
    BY <1>2, <2>1
<1>5. p \o q \o s # p \o q \o t
  BY <1>3, <1>4
<1> QED
  BY <1>5, Zenon DEF s, t, EndsOtherwise

\* p begins with another character than e.
BeginsOtherwise(p, e) == p # <<>> /\ p[1] # e

\* Padding before a sign makes another text than padding after it.
LEMMA PadLeft ==
  ASSUME NEW M, NEW p \in Seq(M), NEW q \in Seq(M), NEW e \in M,
         BeginsOtherwise(p, e), NEW r \in Int, r > 0
  PROVE  p \o Times(r, e) \o q # Times(r, e) \o p \o q
<1> DEFINE t == Times(r, e)
<1>2. t \in Seq(M) /\ Len(t) = r /\ t[1] = e
  <2>1. /\ t \in Seq(M) /\ Len(t) = (IF r > 0 THEN r ELSE 0)
        /\ \A i \in 1 .. Len(t) : t[i] = e
    BY TimesIs
  <2> HIDE DEF t
  <2> QED
    BY <2>1
<1> HIDE DEF t
<1>3. (p \o t \o q)[1] = p[1] /\ p[1] # e
  BY <1>2, NotEmpty, Three DEF BeginsOtherwise
<1>4. (t \o p \o q)[1] = e
  <2>1. Len(t) > 0 => (t \o p \o q)[1] = t[1]
    BY <1>2, Three
  <2> QED
    BY <1>2, <2>1
<1>5. p \o t \o q # t \o p \o q
  BY <1>3, <1>4
<1> QED
  BY <1>5 DEF t

\* A set of characters with the two that fill.
Filled(M) == "0" \in M /\ " " \in M

\* The digits of a width.
IsWidth(wd) == wd \in Seq(DOMAIN Digits) /\ (wd # <<>> => wd[1] # "0")

\* A prefix does not begin with a blank.
Starts(p) == p # <<>> => p[1] # " "

\* vsprintf pads as C does exactly where Fits says so.
LEMMA PaddingAgrees ==
  ASSUME NEW M, Filled(M), NEW p \in Seq(M), NEW q \in Seq(M), NEW f,
         Starts(p), NEW wd, IsWidth(wd), NEW r \in Int, r = Value(wd) - Len(p) - Len(q)
  PROVE  LaidOut(p, q, FieldWidth(wd), f) = PaddedInC(p, q, r, f) <=> Fits(wd, p, r, f)
<1> DEFINE w == FieldWidth(wd)
           n == w - Len(p) - Len(q)
           out == LaidOut(p, q, w, f)
           outC == PaddedInC(p, q, r, f)
           B == " "
           Z == "0"
<1>1. /\ w \in Int /\ Value(wd) \in Nat /\ Len(wd) \in Nat /\ w <= Value(wd)
      /\ Len(wd) = 0 => Value(wd) = 0
      /\ Len(wd) = 1 => w = Value(wd)
      /\ Len(wd) > 1 => w < Value(wd)
  BY FieldWidthIs DEF IsWidth
<1>2. B \in M /\ Z \in M /\ (p # <<>> => p[1] # B)
  BY Zenon DEF Filled, Starts
<1>3. B # Z
  OBVIOUS
<1>4. /\ "LEFT" \in f => outC = p \o q \o Times(r, B)
      /\ "LEFT" \notin f /\ "ZEROPAD" \in f => outC = p \o Times(r, Z) \o q
      /\ "LEFT" \notin f /\ "ZEROPAD" \notin f => outC = Times(r, B) \o p \o q
  BY Zenon DEF PaddedInC
<1>5. /\ "LEFT" \in f /\ "ZEROPAD" \in f => out = p \o q \o Times(n, Z)
      /\ "LEFT" \in f /\ "ZEROPAD" \notin f => out = p \o q \o Times(n, B)
      /\ "LEFT" \notin f /\ "ZEROPAD" \in f => out = p \o Times(n, Z) \o q
      /\ "LEFT" \notin f /\ "ZEROPAD" \notin f => out = p \o Times(n, B) \o q
  BY Zenon DEF LaidOut
<1> HIDE DEF out, outC, w, B, Z
<1>6. /\ n \in Int /\ r \in Int /\ n <= r /\ (r <= 0 \/ r > 0)
      /\ r > 0 /\ Len(wd) # 1 => n < r
      /\ Len(wd) = 1 => n = r
  <2> DEFINE lp == Len(p)
             lq == Len(q)
             l == Len(wd)
             v == Value(wd)
  <2>1. lp \in Nat /\ lq \in Nat /\ l \in Nat /\ v \in Nat /\ w \in Int
    <3>1. lp \in Nat /\ lq \in Nat
      OBVIOUS
    <3> QED
      BY <1>1, <3>1, Zenon
  <2>2. r = v - lp - lq /\ n = w - lp - lq
    BY Zenon
  <2>3. /\ w <= v
        /\ l = 0 => v = 0
        /\ l = 1 => w = v
        /\ l > 1 => w < v
    BY <1>1
  <2> HIDE DEF lp, lq, l, v, n
  <2> QED
    <3>1. /\ n \in Int /\ n <= r /\ (r <= 0 \/ r > 0)
          /\ r > 0 /\ l # 1 => n < r
          /\ l = 1 => n = r
      BY <2>1, <2>2, <2>3
    <3> QED
      BY <3>1, Zenon DEF l
<1> HIDE DEF n
<1>7. CASE r <= 0
  <2>1. Times(n, B) = <<>> /\ Times(n, Z) = <<>> /\ Times(r, B) = <<>> /\ Times(r, Z) = <<>>
    <3>1. n <= 0
      BY <1>6, <1>7
    <3> QED
      BY <1>2, <1>6, <1>7, <3>1, PadNothing
  <2>2. p \o <<>> \o q = p \o q /\ p \o q \o <<>> = p \o q /\ <<>> \o p \o q = p \o q
    BY Nothing
  <2>3. out = p \o q /\ outC = p \o q
    BY <1>4, <1>5, <2>1, <2>2, Zenon
  <2>4. ~(r > 0)
    BY <1>6, <1>7
  <2> QED
    BY <2>3, <2>4, Zenon DEF out, outC, w, Fits
<1>8. CASE r > 0 /\ Len(wd) # 1
  <2>1. n < r
    BY <1>6, <1>8
  <2>2. /\ Differ(p, q, Times(n, B), Times(r, B))
        /\ Differ(p, q, Times(n, Z), Times(r, Z))
        /\ Differ(p, q, Times(n, Z), Times(r, B))
    <3>1. n \in Int /\ n < r /\ r > 0
      BY <1>6, <1>8, <2>1
    <3> QED
      BY <1>2, <3>1, PadShorter
  <2>3. out # outC
    BY <1>4, <1>5, <2>2, Zenon DEF Differ
  <2> QED
    BY <1>8, <2>3, Zenon DEF out, outC, w, Fits
<1>9. CASE r > 0 /\ Len(wd) = 1
  <2>1. n = r
    BY <1>6, <1>9
  <2>2. CASE "LEFT" \in f /\ "ZEROPAD" \notin f
    <3>1. out = outC
      BY <1>4, <1>5, <2>1, <2>2, Zenon
    <3> QED
      BY <1>9, <2>2, <3>1, Zenon DEF out, outC, w, Fits
  <2>3. CASE "LEFT" \in f /\ "ZEROPAD" \in f
    <3>1. p \o q \o Times(r, Z) # p \o q \o Times(r, B)
      <4>1. Z \in M /\ B \in M /\ Z # B /\ r > 0
        BY <1>2, <1>3, <1>9, Zenon
      <4>2. EndsOtherwise(p, q, r, Z, B)
        BY <4>1, PadRight
      <4> QED
        BY <4>2, Zenon DEF EndsOtherwise
    <3>2. out # outC
      BY <1>4, <1>5, <2>1, <2>3, <3>1, Zenon
    <3> QED
      BY <1>9, <2>3, <3>2, Zenon DEF out, outC, w, Fits
  <2>4. CASE "LEFT" \notin f /\ "ZEROPAD" \in f
    <3>1. out = outC
      BY <1>4, <1>5, <2>1, <2>4, Zenon
    <3> QED
      BY <1>9, <2>4, <3>1, Zenon DEF out, outC, w, Fits
  <2>5. CASE "LEFT" \notin f /\ "ZEROPAD" \notin f /\ p = <<>>
    <3>1. Times(r, B) \in Seq(M)
      BY <1>2, <1>6, TimesIs
    <3> DEFINE t == Times(r, B)
    <3>2. <<>> \o t \o q = t \o <<>> \o q
      <4> HIDE DEF t
      <4>1. t \in Seq(M)
        BY <3>1 DEF t
      <4> QED
        BY <4>1
    <3>3. out = outC
      BY <1>4, <1>5, <2>1, <2>5, <3>2, Zenon
    <3> QED
      BY <1>9, <2>5, <3>3, Zenon DEF out, outC, w, Fits
  <2>6. CASE "LEFT" \notin f /\ "ZEROPAD" \notin f /\ p # <<>>
    <3>1. BeginsOtherwise(p, B)
      BY <1>2, <2>6, Zenon DEF BeginsOtherwise
    <3>2. p \o Times(r, B) \o q # Times(r, B) \o p \o q
      <4>1. r > 0 /\ B \in M
        BY <1>2, <1>9
      <4> QED
        BY <3>1, <4>1, PadLeft
    <3>3. out # outC
      BY <1>4, <1>5, <2>1, <2>6, <3>2, Zenon
    <3> QED
      BY <1>9, <2>6, <3>3, Zenon DEF out, outC, w, Fits
  <2> QED
    BY <2>2, <2>3, <2>4, <2>5, <2>6, Zenon
<1> QED
  BY <1>6, <1>7, <1>8, <1>9, Zenon

---------------------------------------------------------------------------
(* A directive.                                                            *)

\* number gets the number right.
Right(d) == Number(d) => d.arg >= 0 \/ (Signed(d) /\ d.arg # -Half)

\* Flags that stand for those of d.
StandFor(f, d) ==
  /\ "LEFT" \in f <=> Has(d, "-")
  /\ "ZEROPAD" \in f <=> Has(d, "0") /\ Number(d)
  /\ "SIGN" \in f <=> Signed(d)
  /\ "SMALL" \in f <=> d.conv = "x"

\* InC and Agrees in terms of the flags.
LEMMA InCIs ==
  ASSUME NEW d, NEW f, StandFor(f, d)
  PROVE  /\ InC(d) = PaddedInC(Prefix(d), Body(d), Room(d), f)
         /\ Number(d) \/ Prefix(d) = <<>> =>
              (Agrees(d) <=> Right(d) /\ Fits(d.width, Prefix(d), Room(d), f))
<1>1. CASE Has(d, "-")
  BY <1>1, Zenon DEF StandFor, InC, PaddedInC, Agrees, Right, Fits
<1>2. CASE ~Has(d, "-") /\ Has(d, "0") /\ Number(d)
  BY <1>2, Zenon DEF StandFor, InC, PaddedInC, Agrees, Right, Fits
<1>3. CASE ~Has(d, "-") /\ ~(Has(d, "0") /\ Number(d))
  BY <1>3, Zenon DEF StandFor, InC, PaddedInC, Agrees, Right, Fits
<1> QED
  BY <1>1, <1>2, <1>3, Zenon

\* Sign and mark are not both there.
LEMMA OneHead ==
  ASSUME NEW c, NEW e
  PROVE  <<>> \o <<>> = <<>> /\ <<c>> \o <<>> = <<c>> /\ <<>> \o <<c, e>> = <<c, e>>
  OBVIOUS

\* The first of one or two characters.
LEMMA Firsts ==
  ASSUME NEW c, NEW e
  PROVE  <<c>>[1] = c /\ <<c, e>>[1] = c
  OBVIOUS

\* A sign or a 0x does not begin with a blank.
LEMMA NoBlank == "0" # " " /\ "-" # " "
  OBVIOUS

\* The base is that of a hexadecimal conversion or 10.
LEMMA BaseOf ==
  ASSUME NEW d, NEW b, b = IF d.conv \in {"x", "X"} THEN 16 ELSE 10
  PROVE  b \in Bases /\ (b = 16 <=> d.conv \in {"x", "X"})
<1>1. 10 # 16
  OBVIOUS
<1> QED
  BY <1>1, Zenon DEF Bases

\* One of four: with a sign, in one of two hexadecimals, plain.
LEMMA KindsOfNumber ==
  ASSUME NEW d, Number(d)
  PROVE  /\ Signed(d) => d.conv # "x" /\ d.conv # "X"
         /\ d.conv = "x" => d.conv # "X"
         /\ d.conv # "x" /\ d.conv # "X" => d.conv \in {"d", "i", "u"}
  BY DEF Number, Signed

\* The prefix of C is the sign and mark of number.
LEMMA HeadOfNumber ==
  ASSUME NEW d, Number(d), NEW f, StandFor(f, d), NEW b,
         b = IF d.conv \in {"x", "X"} THEN 16 ELSE 10
  PROVE  /\ Prefix(d) = Sign(d.arg, f) \o Mark(b, f)
         /\ Prefix(d) \in Seq(NumberChars) /\ Starts(Prefix(d))
<1>1. b = 16 <=> d.conv \in {"x", "X"}
  BY BaseOf
<1>2. CASE Signed(d) /\ d.arg < 0
  <2>1. Prefix(d) = <<"-">>
    <3>1. ~(d.conv \in {"x", "X"})
      BY <1>2, KindsOfNumber, Zenon
    <3> QED
      BY <1>2, <3>1, Zenon DEF Prefix
  <2>2. Sign(d.arg, f) = <<"-">> /\ Mark(b, f) = <<>>
    BY <1>1, <1>2, KindsOfNumber, Zenon DEF Sign, Mark, StandFor
  <2> QED
    <3>1. Prefix(d) = Sign(d.arg, f) \o Mark(b, f)
      BY <2>1, <2>2, OneHead, Zenon
    <3>2. Prefix(d) \in Seq(NumberChars)
      BY <2>1, MarkChars, Singles, Zenon
    <3>3. Starts(Prefix(d))
      BY <2>1, Firsts, NoBlank, Zenon DEF Starts
    <3> QED
      BY <3>1, <3>2, <3>3
<1>3. CASE d.conv \in {"x", "X"}
  <2>1. ~Signed(d)
    BY <1>3, KindsOfNumber, Zenon
  <2>2. Prefix(d) = <<"0", d.conv>>
    BY <1>3, <2>1, Zenon DEF Prefix
  <2>3. Sign(d.arg, f) = <<>>
    BY <2>1, Zenon DEF Sign, StandFor
  <2>4. Mark(b, f) = <<"0", d.conv>>
    BY <1>1, <1>3, KindsOfNumber, Zenon DEF Mark, StandFor
  <2>5. d.conv \in NumberChars
    BY <1>3, MarkChars, Zenon
  <2> QED
    <3>1. Prefix(d) = Sign(d.arg, f) \o Mark(b, f)
      BY <2>2, <2>3, <2>4, OneHead, Zenon
    <3>2. Prefix(d) \in Seq(NumberChars)
      BY <2>2, <2>5, MarkChars, Singles, Zenon
    <3>3. Starts(Prefix(d))
      BY <2>2, Firsts, NoBlank, Zenon DEF Starts
    <3> QED
      BY <3>1, <3>2, <3>3
<1>4. CASE d.conv \notin {"x", "X"} /\ ~(Signed(d) /\ d.arg < 0)
  <2>1. Prefix(d) = <<>>
    BY <1>4, Zenon DEF Prefix
  <2>2. Sign(d.arg, f) = <<>> /\ Mark(b, f) = <<>>
    BY <1>1, <1>4, Zenon DEF Sign, Mark, StandFor
  <2> QED
    BY <2>1, <2>2, OneHead, MarkChars, Singles, Zenon DEF Starts
<1> QED
  BY <1>2, <1>3, <1>4, Zenon

\* The body of C is the numeral of the size where number gets it right.
LEMMA BodyOfNumber ==
  ASSUME NEW d, Number(d), NEW f, StandFor(f, d), NEW num \in Ints, d.arg = num,
         NEW b, b = IF d.conv \in {"x", "X"} THEN 16 ELSE 10
  PROVE  \E v \in 0 .. 2 * Half - 1 :
           /\ Body(d) = Numeral(v, b, Table(f))
           /\ Right(d) => v = Size(num)
<1> DEFINE v == IF d.arg >= 0 THEN d.arg ELSE IF Signed(d) THEN -d.arg ELSE d.arg + 2 * Half
<1>1. b = 16 <=> d.conv \in {"x", "X"}
  BY BaseOf
<1>2. b = IF d.conv \in {"x", "X"} THEN 16 ELSE 10
  OBVIOUS
<1>3. Body(d) = Numeral(v, b, Table(f))
  <2>1. CASE d.conv = "x"
    BY <1>2, <2>1, Zenon DEF Body, Table, StandFor
  <2>2. CASE d.conv = "X"
    <3>1. d.conv # "x"
      BY <2>2, KindsOfNumber, Zenon
    <3> QED
      BY <1>2, <2>2, <3>1, Zenon DEF Body, Table, StandFor
  <2>3. CASE d.conv # "x" /\ d.conv # "X"
    <3>1. d.conv \in {"d", "i", "u"}
      BY <2>3, KindsOfNumber, Zenon
    <3> QED
      BY <1>2, <2>3, <3>1, Zenon DEF Body, Table, StandFor
  <2> QED
    BY <2>1, <2>2, <2>3, Zenon
<1>4. v = IF num >= 0 THEN num ELSE IF Signed(d) THEN -num ELSE num + 2 * Half
  BY Zenon
<1> HIDE DEF v
<1>5. Half \in Nat \ {0} /\ num \in -Half .. Half - 1
  BY PrintAssumption DEF Ints
<1>6. v \in 0 .. 2 * Half - 1
  <2> DEFINE sgn == Signed(d)
  <2> HIDE DEF sgn
  <2> QED
    BY <1>4, <1>5 DEF sgn
<1>7. Right(d) => v = Size(num)
  <2>1. Right(d) => num >= 0 \/ Signed(d)
    BY Zenon DEF Right
  <2>2. num >= 0 => v = num
    BY <1>4, Zenon
  <2>3. num < 0 /\ Signed(d) => v = -num
    <3>1. num < 0 => ~(num >= 0)
      BY <1>5
    <3> QED
      BY <1>4, <3>1, Zenon
  <2>4. num >= 0 \/ num < 0
    BY <1>5
  <2>5. num >= 0 => ~(num < 0)
    BY <1>5
  <2> QED
    BY <2>1, <2>2, <2>3, <2>4, <2>5, Zenon DEF Size
<1> QED
  BY <1>3, <1>6, <1>7, Zenon

\* Padding keeps to the characters of the text.
LEMMA PaddedIsText ==
  ASSUME NEW M, Filled(M), NEW p \in Seq(M), NEW q \in Seq(M), NEW r \in Int, NEW f
  PROVE  PaddedInC(p, q, r, f) \in Seq(M)
<1> DEFINE s == Times(r, " ")
           t == Times(r, "0")
<1>1. s \in Seq(M) /\ t \in Seq(M)
  <2>1. \A c \in M : Times(r, c) \in Seq(M)
    BY TimesIs
  <2> QED
    BY <2>1, Zenon DEF Filled
<1>2. PaddedInC(p, q, r, f) \in {p \o q \o s, p \o t \o q, s \o p \o q}
  BY Zenon DEF PaddedInC
<1> HIDE DEF s, t
<1>3. p \o q \o s \in Seq(M) /\ p \o t \o q \in Seq(M) /\ s \o p \o q \in Seq(M)
  <2>1. \A a \in Seq(M), c \in Seq(M), e \in Seq(M) : a \o c \o e \in Seq(M)
    BY Three
  <2> QED
    BY <1>1, <2>1, Zenon
<1> QED
  BY <1>2, <1>3, Zenon

\* A number that vsprintf writes with the figures of C, its sign or mark, its
\* figures and the room it leaves.
Writes(num, b, f, wd, p, q, r) ==
  /\ num \in Ints /\ b \in Bases /\ (num >= 0 \/ ("SIGN" \in f /\ num # -Half))
  /\ IsWidth(wd) /\ p \in Seq(NumberChars) /\ Starts(p) /\ q \in Seq(NumberChars)
  /\ p = Sign(num, f) \o Mark(b, f) /\ q = Numeral(Size(num), b, Table(f))
  /\ r \in Int /\ r = Value(wd) - Len(p) - Len(q)

\* Then number writes what C writes exactly where the padding fits.
LEMMA NumberFits ==
  ASSUME NEW num, NEW b, NEW f, NEW wd, NEW p, NEW q, NEW r, Writes(num, b, f, wd, p, q, r)
  PROVE  number(num, b, FieldWidth(wd), f) = PaddedInC(p, q, r, f) <=> Fits(wd, p, r, f)
<1> DEFINE w == FieldWidth(wd)
<1>1. num \in Ints /\ b \in Bases /\ (num >= 0 \/ ("SIGN" \in f /\ num # -Half))
  BY Zenon DEF Writes
<1>2. /\ IsWidth(wd) /\ p \in Seq(NumberChars) /\ Starts(p) /\ q \in Seq(NumberChars)
      /\ r \in Int /\ r = Value(wd) - Len(p) - Len(q)
  BY Zenon DEF Writes
<1>3. p = Sign(num, f) \o Mark(b, f) /\ q = Numeral(Size(num), b, Table(f))
  BY Zenon DEF Writes
<1>4. w \in Int
  BY <1>2, FieldWidthIs DEF IsWidth
<1>5. Filled(NumberChars)
  BY MarkChars, Zenon DEF Filled
<1>6. LaidOut(p, q, w, f) = PaddedInC(p, q, r, f) <=> Fits(wd, p, r, f)
  BY <1>2, <1>5, PaddingAgrees, Zenon
<1> HIDE DEF w
<1>7. number(num, b, w, f) = LaidOut(Sign(num, f) \o Mark(b, f), Numeral(Size(num), b, Table(f)), w, f)
  BY <1>1, <1>4, NumberIs, Zenon
<1>8. number(num, b, w, f) = LaidOut(p, q, w, f)
  BY <1>3, <1>7, Zenon
<1> QED
  BY <1>6, <1>8, Zenon DEF w

\* A number: what is written is what C writes exactly where Agrees says so.
LEMMA NumberAgrees ==
  ASSUME NEW d, Number(d), NEW f, StandFor(f, d), NEW num \in Ints, d.arg = num,
         IsWidth(d.width), NEW b, b = IF d.conv \in {"x", "X"} THEN 16 ELSE 10
  PROVE  number(num, b, FieldWidth(d.width), f) = InC(d) <=> Agrees(d)
<1> DEFINE p == Prefix(d)
           q == Body(d)
           r == Room(d)
           wd == d.width
           w == FieldWidth(wd)
<1>1. b \in Bases
  BY BaseOf
<1>2. p = Sign(num, f) \o Mark(b, f) /\ p \in Seq(NumberChars) /\ Starts(p)
  BY HeadOfNumber, Zenon
<1>3. PICK v \in 0 .. 2 * Half - 1 : q = Numeral(v, b, Table(f)) /\ (Right(d) => v = Size(num))
  BY BodyOfNumber
<1>4. Table(f) \in Tables
  BY Zenon DEF Table, Tables
<1>5. q \in Seq(NumberChars)
  BY <1>1, <1>3, <1>4, NumeralIs, Zenon
<1>6. /\ InC(d) = PaddedInC(p, q, r, f)
      /\ Agrees(d) <=> Right(d) /\ Fits(wd, p, r, f)
  BY InCIs, Zenon
<1>7. r = Value(wd) - Len(p) - Len(q) /\ IsWidth(wd)
  BY Zenon DEF Room
<1>8. Right(d) <=> num >= 0 \/ (Signed(d) /\ num # -Half)
  BY Zenon DEF Right
<1>9. "SIGN" \in f <=> Signed(d)
  BY Zenon DEF StandFor
<1>10. Filled(NumberChars)
  BY MarkChars, Zenon DEF Filled
<1> HIDE DEF p, q, r, wd
<1>11. r \in Int /\ w \in Int
  <2>1. Value(wd) \in Nat /\ FieldWidth(wd) \in Int
    BY <1>7, FieldWidthIs DEF IsWidth
  <2>2. Len(p) \in Nat /\ Len(q) \in Nat
    BY <1>2, <1>5
  <2> QED
    BY <1>7, <2>1, <2>2
<1> HIDE DEF w
<1>12. CASE Right(d)
  <2>1. num >= 0 \/ ("SIGN" \in f /\ num # -Half)
    BY <1>8, <1>9, <1>12, Zenon
  <2>2. q = Numeral(Size(num), b, Table(f))
    BY <1>3, <1>12, Zenon
  <2>3. Writes(num, b, f, wd, p, q, r)
    BY <1>1, <1>2, <1>5, <1>7, <1>11, <2>1, <2>2, Zenon DEF Writes
  <2>4. number(num, b, w, f) = PaddedInC(p, q, r, f) <=> Fits(wd, p, r, f)
    <3>1. number(num, b, FieldWidth(wd), f) = PaddedInC(p, q, r, f) <=> Fits(wd, p, r, f)
      BY <2>3, NumberFits
    <3> QED
      BY <3>1, Zenon DEF w
  <2> QED
    BY <1>6, <1>12, <2>4, Zenon DEF w, wd
<1>13. CASE ~Right(d)
  <2>1. ~(num >= 0 \/ ("SIGN" \in f /\ num # -Half))
    BY <1>8, <1>9, <1>13, Zenon
  <2>2. PaddedInC(p, q, r, f) \in Seq(NumberChars)
    BY <1>2, <1>5, <1>10, <1>11, PaddedIsText, Zenon
  <2>3. number(num, b, w, f) # PaddedInC(p, q, r, f)
    BY <1>1, <1>11, <2>1, <2>2, NumberIsJunk, Zenon
  <2> QED
    BY <1>6, <1>13, <2>3, Zenon DEF w, wd
<1> QED
  BY <1>12, <1>13, Zenon

\* %c and %s: flags without ZEROPAD.
LEMMA TextAgrees ==
  ASSUME NEW d, ~Number(d), NEW f, StandFor(f, d), IsWidth(d.width),
         Prefix(d) = <<>>, NEW M, Filled(M), Body(d) \in Seq(M)
  PROVE  LaidOut(<<>>, Body(d), FieldWidth(d.width), f) = InC(d) <=> Agrees(d)
<1> DEFINE p == <<>>
           q == Body(d)
           r == Room(d)
           wd == d.width
           w == FieldWidth(wd)
<1>1. p \in Seq(M) /\ Starts(p) /\ Prefix(d) = p
  <2>1. <<>> \in Seq(M)
    OBVIOUS
  <2> QED
    BY <2>1, Zenon DEF Starts
<1>2. q \in Seq(M)
  BY Zenon
<1>3. /\ InC(d) = PaddedInC(Prefix(d), q, r, f)
      /\ Agrees(d) <=> Right(d) /\ Fits(wd, Prefix(d), r, f)
  BY InCIs, Zenon
<1>4. r = Value(wd) - Len(p) - Len(q) /\ IsWidth(wd) /\ Right(d)
  BY Zenon DEF Room, Right
<1> HIDE DEF p, q, r, wd
<1>5. r \in Int
  <2>1. Value(wd) \in Nat
    BY <1>4, FieldWidthIs DEF IsWidth
  <2>2. Len(p) \in Nat /\ Len(q) \in Nat
    BY <1>1, <1>2
  <2> QED
    BY <1>4, <2>1, <2>2
<1> HIDE DEF w
<1>6. LaidOut(p, q, w, f) = PaddedInC(p, q, r, f) <=> Fits(wd, p, r, f)
  BY <1>1, <1>2, <1>4, <1>5, PaddingAgrees DEF w
<1> QED
  BY <1>1, <1>3, <1>4, <1>6, Zenon DEF w, wd, p, q

---------------------------------------------------------------------------
(* What a directive writes.                                                *)

\* The flags read of the first k.
FlagsOf(fl, k) ==
  {x \in {"LEFT", "ZEROPAD"} : \E i \in 1 .. k : fl[i] = IF x = "LEFT" THEN "-" ELSE "0"}

\* The flags read of all.
Read(d) == FlagsOf(d.flags, Len(d.flags))

\* %%, a letter that is no conversion, and the end of the format.
Others == {"%", "q", "none"}

\* A directive that PrintInit asks for.
IsAsked(d) ==
  /\ d.flags \in Seq({"-", "0"}) /\ IsWidth(d.width)
  /\ \/ Number(d) /\ d.arg \in Ints
     \/ d.conv = "s" /\ d.arg \in Strings
     \/ d.conv = "c" /\ d.arg = "z"
     \/ d.conv \in Others /\ d.flags = <<>> /\ d.width = <<>>

Written(d) ==
  LET w == FieldWidth(d.width)
  IN  CASE d.conv \in {"c", "s"} -> LaidOut(<<>>, Body(d), w, Read(d) \ {"ZEROPAD"})
        [] d.conv = "x" -> number(d.arg, 16, w, Read(d) \cup {"SMALL"})
        [] d.conv = "X" -> number(d.arg, 16, w, Read(d))
        [] d.conv \in {"d", "i"} -> number(d.arg, 10, w, Read(d) \cup {"SIGN"})
        [] d.conv = "u" -> number(d.arg, 10, w, Read(d))
        [] OTHER -> Body(d)

\* Which flags have been read.
LEMMA FlagsRead ==
  ASSUME NEW d
  PROVE  /\ "LEFT" \in Read(d) <=> Has(d, "-")
         /\ "ZEROPAD" \in Read(d) <=> Has(d, "0")
         /\ "SIGN" \notin Read(d) /\ "SMALL" \notin Read(d)
<1>1. "LEFT" # "ZEROPAD" /\ "SIGN" \notin {"LEFT", "ZEROPAD"} /\ "SMALL" \notin {"LEFT", "ZEROPAD"}
  OBVIOUS
<1> QED
  BY <1>1, Zenon DEF Read, FlagsOf, Has

\* The flags that the conversions give on stand for those of the directive.
LEMMA FlagsStand ==
  ASSUME NEW d
  PROVE  /\ d.conv = "x" => StandFor(Read(d) \cup {"SMALL"}, d)
         /\ d.conv \in {"X", "u"} => StandFor(Read(d), d)
         /\ d.conv \in {"d", "i"} => StandFor(Read(d) \cup {"SIGN"}, d)
         /\ d.conv \in {"c", "s"} => StandFor(Read(d) \ {"ZEROPAD"}, d)
<1>1. /\ "LEFT" # "ZEROPAD" /\ "LEFT" # "SIGN" /\ "LEFT" # "SMALL"
      /\ "ZEROPAD" # "SIGN" /\ "ZEROPAD" # "SMALL" /\ "SIGN" # "SMALL"
  OBVIOUS
<1>2. CASE d.conv = "x"
  <2>1. Number(d) /\ ~Signed(d)
    BY <1>2 DEF Number, Signed
  <2>2. d.conv \notin {"X", "u"} /\ d.conv \notin {"d", "i"} /\ d.conv \notin {"c", "s"}
    BY <1>2
  <2> QED
    BY <1>1, <1>2, <2>1, <2>2, FlagsRead, Zenon DEF StandFor
<1>3. CASE d.conv \in {"X", "u"}
  <2>1. Number(d) /\ ~Signed(d) /\ d.conv # "x"
    BY <1>3 DEF Number, Signed
  <2>2. d.conv \notin {"d", "i"} /\ d.conv \notin {"c", "s"}
    BY <1>3
  <2> QED
    BY <1>1, <2>1, <2>2, FlagsRead, Zenon DEF StandFor
<1>4. CASE d.conv \in {"d", "i"}
  <2>1. Number(d) /\ Signed(d) /\ d.conv # "x"
    BY <1>4 DEF Number, Signed
  <2>2. d.conv \notin {"X", "u"} /\ d.conv \notin {"c", "s"}
    BY <1>4
  <2> QED
    BY <1>1, <2>1, <2>2, FlagsRead, Zenon DEF StandFor
<1>5. CASE d.conv \in {"c", "s"}
  <2>1. ~Number(d) /\ ~Signed(d) /\ d.conv # "x"
    BY <1>5 DEF Number, Signed
  <2>2. d.conv \notin {"X", "u"} /\ d.conv \notin {"d", "i"}
    BY <1>5
  <2> QED
    BY <1>1, <2>1, <2>2, FlagsRead, Zenon DEF StandFor
<1> QED
  BY <1>2, <1>3, <1>4, <1>5, Zenon

\* All that may be written.
Marks == Cells \cup Letters \cup {"<", "N", "U", "L", ">", "z", "%", "q"}

\* Marks has all that number writes.
LEMMA MarksFill == Filled(Marks) /\ Cells \subseteq Marks /\ NumberChars \subseteq Marks
  BY MarkChars, Zenon DEF Filled, Marks, Cells

\* A sequence over a set is one over a larger set.
LEMMA Wider ==
  ASSUME NEW S, NEW T, S \subseteq T, NEW s \in Seq(S)
  PROVE  s \in Seq(T)
  OBVIOUS

\* Laying out keeps to the characters of the text.
LEMMA LaidOutIsText ==
  ASSUME NEW M, Filled(M), NEW p \in Seq(M), NEW q \in Seq(M), NEW w \in Int, NEW f
  PROVE  LaidOut(p, q, w, f) \in Seq(M)
<1> DEFINE n == w - Len(p) - Len(q)
           s == Times(n, " ")
           t == Times(n, "0")
<1>1. n \in Int
  <2>1. Len(p) \in Nat /\ Len(q) \in Nat
    OBVIOUS
  <2> QED
    BY <2>1
<1>2. LaidOut(p, q, w, f) \in {p \o q \o s, p \o q \o t, p \o s \o q, p \o t \o q}
  BY Zenon DEF LaidOut
<1>3. s \in Seq(M) /\ t \in Seq(M)
  <2> HIDE DEF n
  <2>1. \A c \in M : Times(n, c) \in Seq(M)
    BY <1>1, TimesIs
  <2> QED
    BY <2>1, Zenon DEF Filled
<1> HIDE DEF n, s, t
<1>4. /\ p \o q \o s \in Seq(M) /\ p \o q \o t \in Seq(M)
      /\ p \o s \o q \in Seq(M) /\ p \o t \o q \in Seq(M)
  <2>1. \A a \in Seq(M), c \in Seq(M), e \in Seq(M) : a \o c \o e \in Seq(M)
    BY Three
  <2> QED
    BY <1>3, <2>1, Zenon
<1> QED
  BY <1>2, <1>4, Zenon

\* number writes such characters, Junk among them.
LEMMA NumberIsText ==
  ASSUME NEW num \in Ints, NEW b \in Bases, NEW w \in Int, NEW f
  PROVE  number(num, b, w, f) \in Seq(Marks)
<1> DEFINE neg == "SIGN" \in f /\ num < 0
           m == IF neg /\ num # -Half THEN -num ELSE num
           p == Sign(num, f) \o Mark(b, f)
           q == Converted(m, b, Table(f))
<1>1. m \in Ints
  BY PrintAssumption DEF Ints
<1>2. number(num, b, w, f) = LaidOut(p, q, w, f)
  BY DEF number, LaidOut, Sign, Mark, Table, room
<1>3. Table(f) \in Tables
  BY Zenon DEF Table, Tables
<1> HIDE DEF m
<1>4. q \in Seq(Cells)
  <2>1. PICK g : /\ Converts(g, Ints, b, Table(f))
                 /\ \A n \in Ints : Converted(n, b, Table(f)) = IF n = 0 THEN <<"0">> ELSE g[n]
    BY <1>3, ConvertedIs
  <2>2. g[m] \in Seq(Cells)
    BY <1>1, <2>1 DEF Converts
  <2>3. <<"0">> \in Seq(Cells)
    BY MarkChars, Singles, Zenon DEF Cells
  <2>4. q = IF m = 0 THEN <<"0">> ELSE g[m]
    BY <1>1, <2>1
  <2> QED
    BY <2>2, <2>3, <2>4, Zenon
<1>5. p \in Seq(NumberChars)
  BY MarksAreText
<1> HIDE DEF p, q
<1>6. p \in Seq(Marks) /\ q \in Seq(Marks)
  BY <1>4, <1>5, Wider, MarksFill
<1> QED
  BY <1>2, <1>6, LaidOutIsText, MarksFill, Zenon

\* Some flags stand for those of a number.
LEMMA NumberStands ==
  ASSUME NEW d, Number(d)
  PROVE  \E f : StandFor(f, d)
<1>1. d.conv = "x" \/ d.conv \in {"X", "u"} \/ d.conv \in {"d", "i"}
  BY DEF Number
<1> QED
  BY <1>1, FlagsStand, Zenon

\* Which conversion it is, for the cases of Prefix and Body.
LEMMA OneKind ==
  ASSUME NEW d, IsAsked(d)
  PROVE  /\ d.conv = "s" \/ d.conv = "c" \/ d.conv \in Others =>
              ~Number(d) /\ ~Signed(d) /\ d.conv \notin {"x", "X"}
         /\ d.conv = "s" => d.conv # "c" /\ d.conv \notin Others
         /\ d.conv = "c" => d.conv # "s" /\ d.conv \notin Others
         /\ d.conv \in Others => d.conv # "s" /\ d.conv # "c"
         /\ Number(d) => d.conv # "s" /\ d.conv # "c" /\ d.conv \notin Others
  BY DEF Number, Signed, Others

\* The texts that are constant.
LEMMA SomeText ==
  /\ <<>> \in Seq(Marks) /\ <<"%">> \in Seq(Marks) /\ <<"%", "q">> \in Seq(Marks)
  /\ <<"z">> \in Seq(Marks) /\ <<"<", "N", "U", "L", "L", ">">> \in Seq(Marks)
<1>1. /\ "%" \in Marks /\ "q" \in Marks /\ "z" \in Marks /\ "<" \in Marks /\ "N" \in Marks
      /\ "U" \in Marks /\ "L" \in Marks /\ ">" \in Marks
  BY Zenon DEF Marks
<1>2. ASSUME NEW M, NEW a \in M, NEW b \in M, NEW c \in M, NEW d \in M, NEW e \in M
      PROVE  <<a, b, c, d, d, e>> \in Seq(M)
  OBVIOUS
<1> QED
  BY <1>1, <1>2, Singles, Zenon

\* The prefix and the body of a directive.
LEMMA PartsAreText ==
  ASSUME NEW d, IsAsked(d)
  PROVE  /\ Prefix(d) \in Seq(Marks) /\ Body(d) \in Seq(Marks)
         /\ ~Number(d) => Prefix(d) = <<>>
         /\ Room(d) \in Int /\ FieldWidth(d.width) \in Int
         /\ d.conv = "s" => Body(d) = Chars(d.arg)
         /\ d.conv = "c" => Body(d) = <<d.arg>>
         /\ d.conv \in {"%", "none"} => Body(d) = <<"%">>
         /\ d.conv = "q" => Body(d) = <<"%", "q">>
<1>1. Number(d) => Prefix(d) \in Seq(Marks) /\ Body(d) \in Seq(Marks)
  <2> SUFFICES ASSUME Number(d) PROVE Prefix(d) \in Seq(Marks) /\ Body(d) \in Seq(Marks)
    OBVIOUS
  <2> DEFINE num == d.arg
             b == IF d.conv \in {"x", "X"} THEN 16 ELSE 10
  <2>1. num \in Ints
    BY OneKind, Zenon DEF IsAsked
  <2>2. PICK f : StandFor(f, d)
    BY NumberStands
  <2>3. b \in Bases
    BY BaseOf
  <2>4. Prefix(d) \in Seq(NumberChars)
    BY <2>2, HeadOfNumber, Zenon
  <2>5. PICK v \in 0 .. 2 * Half - 1 : Body(d) = Numeral(v, b, Table(f))
    BY <2>1, <2>2, BodyOfNumber
  <2>6. Table(f) \in Tables
    BY Zenon DEF Table, Tables
  <2> HIDE DEF b
  <2>7. Body(d) \in Seq(NumberChars)
    BY <2>3, <2>5, <2>6, NumeralIs, Zenon
  <2> QED
    BY <2>4, <2>7, MarksFill, Wider, Zenon
<1>2. ~Number(d) => Prefix(d) = <<>>
  <2> SUFFICES ASSUME ~Number(d) PROVE Prefix(d) = <<>>
    OBVIOUS
  <2>1. ~Signed(d) /\ d.conv \notin {"x", "X"}
    BY OneKind, Zenon DEF IsAsked
  <2> QED
    BY <2>1, Zenon DEF Prefix
<1>3. d.conv = "s" => Body(d) = Chars(d.arg) /\ Body(d) \in Seq(Marks)
  <2> SUFFICES ASSUME d.conv = "s" PROVE Body(d) = Chars(d.arg) /\ Body(d) \in Seq(Marks)
    OBVIOUS
  <2>1. Body(d) = Chars(d.arg)
    BY DEF Body
  <2>2. d.arg \in Strings
    BY OneKind, Zenon DEF IsAsked
  <2>3. d.arg = NULL \/ d.arg \in Seq(Letters)
    BY <2>2, PrintAssumption, Zenon
  <2>4. Letters \subseteq Marks
    BY Zenon DEF Marks
  <2>5. Chars(d.arg) \in Seq(Marks)
    BY <2>3, <2>4, Wider, SomeText, Zenon DEF Chars
  <2> QED
    BY <2>1, <2>5, Zenon
<1>4. d.conv = "c" => Body(d) = <<d.arg>> /\ Body(d) \in Seq(Marks)
  <2> SUFFICES ASSUME d.conv = "c" PROVE Body(d) = <<d.arg>> /\ Body(d) \in Seq(Marks)
    OBVIOUS
  <2>1. Body(d) = <<d.arg>>
    BY DEF Body
  <2>2. d.arg = "z"
    BY OneKind, Zenon DEF IsAsked
  <2> QED
    BY <2>1, <2>2, SomeText, Zenon
<1>5. d.conv \in {"%", "none"} => Body(d) = <<"%">> /\ Body(d) \in Seq(Marks)
  <2> SUFFICES ASSUME d.conv \in {"%", "none"} PROVE Body(d) = <<"%">> /\ Body(d) \in Seq(Marks)
    OBVIOUS
  <2>1. Body(d) = <<"%">>
    BY DEF Body
  <2> QED
    BY <2>1, SomeText, Zenon
<1>6. d.conv = "q" => Body(d) = <<"%", "q">> /\ Body(d) \in Seq(Marks)
  <2> SUFFICES ASSUME d.conv = "q" PROVE Body(d) = <<"%", "q">> /\ Body(d) \in Seq(Marks)
    OBVIOUS
  <2>1. Body(d) = <<"%", "q">>
    BY DEF Body
  <2> QED
    BY <2>1, SomeText, Zenon
<1>7. Number(d) \/ d.conv = "s" \/ d.conv = "c" \/ d.conv \in {"%", "none"} \/ d.conv = "q"
  BY Zenon DEF IsAsked, Others
<1>8. Prefix(d) \in Seq(Marks) /\ Body(d) \in Seq(Marks)
  BY <1>1, <1>2, <1>3, <1>4, <1>5, <1>6, <1>7, SomeText, Zenon
<1>9. Room(d) \in Int /\ FieldWidth(d.width) \in Int
  <2> DEFINE p == Prefix(d)
             q == Body(d)
             wd == d.width
  <2>1. IsWidth(wd) /\ Room(d) = Value(wd) - Len(p) - Len(q)
    BY Zenon DEF IsAsked, Room
  <2>2. p \in Seq(Marks) /\ q \in Seq(Marks)
    BY <1>8
  <2> HIDE DEF p, q, wd
  <2>3. Value(wd) \in Nat /\ FieldWidth(wd) \in Int
    BY <2>1, FieldWidthIs DEF IsWidth
  <2>4. Len(p) \in Nat /\ Len(q) \in Nat
    BY <2>2
  <2>5. Room(d) \in Int
    BY <2>1, <2>3, <2>4
  <2> QED
    BY <2>3, <2>5 DEF wd
<1> QED
  BY <1>2, <1>3, <1>4, <1>5, <1>6, <1>8, <1>9, Zenon

\* What is written for each conversion.
LEMMA WrittenIs ==
  ASSUME NEW d
  PROVE  /\ d.conv \in {"c", "s"} =>
              Written(d) = LaidOut(<<>>, Body(d), FieldWidth(d.width), Read(d) \ {"ZEROPAD"})
         /\ d.conv = "x" => Written(d) = number(d.arg, 16, FieldWidth(d.width), Read(d) \cup {"SMALL"})
         /\ d.conv = "X" => Written(d) = number(d.arg, 16, FieldWidth(d.width), Read(d))
         /\ d.conv \in {"d", "i"} =>
              Written(d) = number(d.arg, 10, FieldWidth(d.width), Read(d) \cup {"SIGN"})
         /\ d.conv = "u" => Written(d) = number(d.arg, 10, FieldWidth(d.width), Read(d))
         /\ d.conv \in Others => Written(d) = Body(d)
<1>1. CASE d.conv \in {"c", "s"}
  BY <1>1 DEF Written, Others
<1>2. CASE d.conv = "x"
  BY <1>2 DEF Written, Others
<1>3. CASE d.conv = "X"
  BY <1>3 DEF Written, Others
<1>4. CASE d.conv \in {"d", "i"}
  BY <1>4 DEF Written, Others
<1>5. CASE d.conv = "u"
  BY <1>5 DEF Written, Others
<1>6. CASE d.conv \in Others
  BY <1>6 DEF Written, Others
<1> QED
  BY <1>1, <1>2, <1>3, <1>4, <1>5, <1>6, Zenon

\* The conversions of a number call number with flags that stand for theirs.
LEMMA WrittenNumber ==
  ASSUME NEW d, Number(d)
  PROVE  \E f, b : /\ StandFor(f, d) /\ b = (IF d.conv \in {"x", "X"} THEN 16 ELSE 10)
                   /\ Written(d) = number(d.arg, b, FieldWidth(d.width), f)
<1>1. CASE d.conv = "x"
  <2>1. StandFor(Read(d) \cup {"SMALL"}, d)
    BY <1>1, FlagsStand, Zenon
  <2>2. Written(d) = number(d.arg, 16, FieldWidth(d.width), Read(d) \cup {"SMALL"})
    BY <1>1, WrittenIs, Zenon
  <2> QED
    BY <1>1, <2>1, <2>2, Zenon
<1>2. CASE d.conv = "X"
  <2>1. StandFor(Read(d), d)
    BY <1>2, FlagsStand, Zenon
  <2>2. Written(d) = number(d.arg, 16, FieldWidth(d.width), Read(d))
    BY <1>2, WrittenIs, Zenon
  <2> QED
    BY <1>2, <2>1, <2>2, Zenon
<1>3. CASE d.conv \in {"d", "i"}
  <2>1. StandFor(Read(d) \cup {"SIGN"}, d) /\ d.conv \notin {"x", "X"}
    <3>1. d.conv \notin {"x", "X"}
      BY <1>3
    <3> QED
      BY <1>3, <3>1, FlagsStand, Zenon
  <2>2. Written(d) = number(d.arg, 10, FieldWidth(d.width), Read(d) \cup {"SIGN"})
    BY <1>3, WrittenIs, Zenon
  <2> QED
    BY <2>1, <2>2, Zenon
<1>4. CASE d.conv = "u"
  <2>1. StandFor(Read(d), d) /\ d.conv \notin {"x", "X"}
    <3>1. d.conv \notin {"x", "X"}
      BY <1>4
    <3> QED
      BY <1>4, <3>1, FlagsStand, Zenon
  <2>2. Written(d) = number(d.arg, 10, FieldWidth(d.width), Read(d))
    BY <1>4, WrittenIs, Zenon
  <2> QED
    BY <2>1, <2>2, Zenon
<1> QED
  BY <1>1, <1>2, <1>3, <1>4, Zenon DEF Number

\* Nothing to fill where there is no width.
LEMMA NoRoom ==
  ASSUME NEW d, NEW M, Body(d) \in Seq(M), Prefix(d) = <<>>, d.width = <<>>, d.flags = <<>>,
         ~Number(d)
  PROVE  InC(d) = Body(d) /\ Agrees(d)
<1> DEFINE q == Body(d)
           r == Room(d)
           t == Times(r, " ")
<1>1. Value(<<>>) = 0
  <2>1. <<>> \in Seq(DOMAIN Digits) /\ Len(<<>>) = 0
    OBVIOUS
  <2> QED
    BY <2>1, ValueIs
<1>2. r = Value(<<>>) - Len(<<>>) - Len(q) /\ q \in Seq(M)
  BY Zenon DEF Room
<1>3. ~Has(d, "-")
  <2>1. 1 .. Len(<<>>) = {}
    OBVIOUS
  <2> QED
    BY <2>1, Zenon DEF Has
<1>4. InC(d) = t \o Prefix(d) \o q
  BY <1>3, Zenon DEF InC
<1> HIDE DEF q, r
<1>5. r \in Int /\ r <= 0
  <2>1. Len(q) \in Nat
    BY <1>2
  <2> QED
    BY <1>1, <1>2, <2>1
<1>6. t = <<>>
  <2>1. \A c : c \in {c}
    OBVIOUS
  <2> QED
    BY <1>5, <2>1, PadNothing
<1> HIDE DEF t
<1>7. InC(d) = q
  <2>1. <<>> \o <<>> \o q = q
    BY <1>2
  <2> QED
    BY <1>4, <1>6, <2>1, Zenon
<1>8. ~(r > 0)
  BY <1>5
<1>9. Agrees(d)
  BY <1>8, Zenon DEF Agrees, r
<1> QED
  BY <1>7, <1>9 DEF q

\* What is written is text ...
LEMMA WrittenIsText ==
  ASSUME NEW d, IsAsked(d)
  PROVE  Written(d) \in Seq(Marks)
<1>1. CASE Number(d) /\ d.arg \in Ints
  <2>1. PICK f, b : /\ StandFor(f, d) /\ b = (IF d.conv \in {"x", "X"} THEN 16 ELSE 10)
                    /\ Written(d) = number(d.arg, b, FieldWidth(d.width), f)
    BY <1>1, WrittenNumber
  <2>2. b \in Bases
    BY <2>1, BaseOf, Zenon
  <2>3. FieldWidth(d.width) \in Int
    BY PartsAreText, Zenon
  <2> QED
    BY <1>1, <2>1, <2>2, <2>3, NumberIsText, Zenon
<1>2. CASE d.conv \in {"c", "s"}
  <2>1. Body(d) \in Seq(Marks) /\ FieldWidth(d.width) \in Int
    BY PartsAreText, Zenon
  <2> QED
    <3>1. LaidOut(<<>>, Body(d), FieldWidth(d.width), Read(d) \ {"ZEROPAD"}) \in Seq(Marks)
      <4>1. Filled(Marks) /\ <<>> \in Seq(Marks)
        BY MarksFill, SomeText, Zenon
      <4> QED
        BY <2>1, <4>1, LaidOutIsText
    <3> QED
      BY <1>2, <3>1, WrittenIs, Zenon
<1>3. CASE d.conv \in Others
  BY <1>3, WrittenIs, PartsAreText, Zenon
<1> QED
  BY <1>1, <1>2, <1>3, Zenon DEF IsAsked

\* What is written is what C writes exactly where Agrees says so.
LEMMA WrittenAgrees ==
  ASSUME NEW d, IsAsked(d)
  PROVE  Written(d) = InC(d) <=> Agrees(d)
<1>1. CASE Number(d) /\ d.arg \in Ints
  <2>1. PICK f, b : /\ StandFor(f, d) /\ b = (IF d.conv \in {"x", "X"} THEN 16 ELSE 10)
                    /\ Written(d) = number(d.arg, b, FieldWidth(d.width), f)
    BY <1>1, WrittenNumber
  <2>2. IsWidth(d.width)
    BY Zenon DEF IsAsked
  <2>3. number(d.arg, b, FieldWidth(d.width), f) = InC(d) <=> Agrees(d)
    BY <1>1, <2>1, <2>2, NumberAgrees
  <2> QED
    BY <2>1, <2>3, Zenon
<1>2. CASE d.conv \in {"c", "s"}
  <2>1. /\ Body(d) \in Seq(Marks) /\ Prefix(d) = <<>> /\ ~Number(d) /\ IsWidth(d.width)
        /\ StandFor(Read(d) \ {"ZEROPAD"}, d)
    BY <1>2, PartsAreText, OneKind, FlagsStand, Zenon DEF IsAsked
  <2>2. LaidOut(<<>>, Body(d), FieldWidth(d.width), Read(d) \ {"ZEROPAD"}) = InC(d) <=> Agrees(d)
    BY <2>1, MarksFill, TextAgrees
  <2> QED
    BY <1>2, <2>2, WrittenIs, Zenon
<1>3. CASE d.conv \in Others
  <2>1. ~Number(d) /\ d.flags = <<>> /\ d.width = <<>> /\ Prefix(d) = <<>> /\ Body(d) \in Seq(Marks)
    BY <1>3, PartsAreText, OneKind, Zenon DEF IsAsked
  <2>2. InC(d) = Body(d) /\ Agrees(d)
    BY <2>1, NoRoom, Zenon
  <2> QED
    BY <1>3, <2>2, WrittenIs, Zenon
<1> QED
  BY <1>1, <1>2, <1>3, Zenon DEF IsAsked

\* ... and so is what C writes.
LEMMA InCIsText ==
  ASSUME NEW d, IsAsked(d)
  PROVE  InC(d) \in Seq(Marks)
<1>1. CASE Number(d)
  <2>1. PICK f : StandFor(f, d)
    BY <1>1, NumberStands
  <2>2. Prefix(d) \in Seq(Marks) /\ Body(d) \in Seq(Marks) /\ Room(d) \in Int
    BY PartsAreText, Zenon
  <2>3. PaddedInC(Prefix(d), Body(d), Room(d), f) \in Seq(Marks)
    BY <2>2, MarksFill, PaddedIsText
  <2>4. InC(d) = PaddedInC(Prefix(d), Body(d), Room(d), f)
    BY <2>1, InCIs, Zenon
  <2> QED
    BY <2>3, <2>4, Zenon
<1>2. CASE d.conv \in {"c", "s"}
  <2>1. PICK f : StandFor(f, d)
    BY <1>2, FlagsStand, Zenon
  <2>2. Prefix(d) \in Seq(Marks) /\ Body(d) \in Seq(Marks) /\ Room(d) \in Int
    BY PartsAreText, Zenon
  <2>3. PaddedInC(Prefix(d), Body(d), Room(d), f) \in Seq(Marks)
    BY <2>2, MarksFill, PaddedIsText
  <2>4. InC(d) = PaddedInC(Prefix(d), Body(d), Room(d), f)
    BY <2>1, InCIs, Zenon
  <2> QED
    BY <2>3, <2>4, Zenon
<1>3. CASE d.conv \in Others
  <2>1. ~Number(d) /\ d.flags = <<>> /\ d.width = <<>> /\ Prefix(d) = <<>> /\ Body(d) \in Seq(Marks)
    BY <1>3, PartsAreText, OneKind, Zenon DEF IsAsked
  <2> QED
    BY <2>1, NoRoom, Zenon
<1> QED
  BY <1>1, <1>2, <1>3, Zenon DEF IsAsked

---------------------------------------------------------------------------
(* The loop over the format.                                               *)

\* What is left of s when k of its elements are used.
Rest(s, k) == SubSeq(s, k + 1, Len(s))

\* Sequences of the same length and elements are the same.
LEMMA SameSequence ==
  ASSUME NEW M, NEW a \in Seq(M), NEW b \in Seq(M), Len(a) = Len(b),
         \A i \in 1 .. Len(a) : a[i] = b[i]
  PROVE  a = b
  OBVIOUS

\* The rest begins with the next element.
LEMMA RestIs ==
  ASSUME NEW M, NEW s \in Seq(M), NEW k \in 0 .. Len(s)
  PROVE  /\ Rest(s, k) \in Seq(M) /\ Len(Rest(s, k)) = Len(s) - k
         /\ k < Len(s) => Rest(s, k) = <<s[k + 1]>> \o Rest(s, k + 1)
         /\ Rest(s, 0) = s
<1> DEFINE n == Len(s)
<1>1. n \in Nat /\ s \in [1 .. n -> M] /\ k \in 0 .. n
  OBVIOUS
<1>2. Rest(s, k) \in Seq(M) /\ Len(Rest(s, k)) = Len(s) - k
  BY DEF Rest
<1>3. Rest(s, 0) = s
  BY DEF Rest
<1>5. ASSUME k < n
      PROVE  Rest(s, k) = <<s[k + 1]>> \o Rest(s, k + 1)
  <2> DEFINE u == Rest(s, k)
             v == Rest(s, k + 1)
             e == s[k + 1]
  <2>1. u \in Seq(M) /\ Len(u) = n - k /\ \A i \in 1 .. n - k : u[i] = s[k + i]
    BY DEF Rest
  <2>2. v \in Seq(M) /\ Len(v) = n - k - 1 /\ \A i \in 1 .. n - k - 1 : v[i] = s[k + 1 + i]
    BY <1>5 DEF Rest
  <2>3. e \in M
    BY <1>1, <1>5
  <2> HIDE DEF u, v, e
  <2>4. <<e>> \o v \in Seq(M) /\ Len(<<e>> \o v) = n - k
    <3>1. <<e>> \in Seq(M) /\ Len(<<e>>) = 1
      BY <2>3
    <3>2. <<e>> \o v \in Seq(M) /\ Len(<<e>> \o v) = 1 + Len(v)
      BY <2>2, <3>1
    <3>3. 1 + Len(v) = n - k
      BY <1>1, <2>2
    <3> QED
      BY <3>2, <3>3
  <2>5. ASSUME NEW i \in 1 .. n - k
        PROVE  (<<e>> \o v)[i] = u[i]
    <3>1. CASE i = 1
      BY <1>1, <2>1, <2>2, <2>3, <3>1 DEF e
    <3>2. CASE i # 1
      <4>1. i - 1 \in 1 .. n - k - 1
        BY <1>1, <3>2
      <4>2. (<<e>> \o v)[i] = v[i - 1]
        BY <1>1, <2>2, <2>3, <4>1
      <4>3. k + 1 + (i - 1) = k + i
        BY <1>1
      <4> QED
        BY <2>1, <2>2, <4>1, <4>2, <4>3
    <3> QED
      BY <3>1, <3>2
  <2>6. u = <<e>> \o v
    <3> DEFINE x == <<e>> \o v
    <3>1. x \in Seq(M) /\ Len(x) = Len(u) /\ \A i \in 1 .. Len(u) : u[i] = x[i]
      BY <2>1, <2>4, <2>5
    <3> HIDE DEF x
    <3>2. u = x
      BY <2>1, <3>1, SameSequence
    <3> QED
      BY <3>2 DEF x
  <2> QED
    BY <2>6 DEF u, v, e
<1> QED
  BY <1>2, <1>3, <1>5

\* Nothing is left of s when all is used.
LEMMA NoRest ==
  ASSUME NEW M, NEW s \in Seq(M)
  PROVE  Rest(s, Len(s)) = <<>>
  BY DEF Rest

\* The next character, and what is left after it.
LEMMA NextOf ==
  ASSUME NEW M, NEW c \in M, NEW r \in Seq(M)
  PROVE  /\ <<c>> \o r \in Seq(M) /\ <<c>> \o r # <<>>
         /\ Head(<<c>> \o r) = c /\ Tail(<<c>> \o r) = r
<1>1. <<c>> \o r \in Seq(M) /\ Len(<<c>> \o r) = Len(r) + 1
  OBVIOUS
<1>2. Head(<<c>> \o r) = c
  OBVIOUS
<1>3. Tail(<<c>> \o r) = r
  <2> DEFINE t == Tail(<<c>> \o r)
  <2>1. t \in Seq(M) /\ Len(t) = Len(r) /\ \A i \in 1 .. Len(r) : t[i] = (<<c>> \o r)[i + 1]
    OBVIOUS
  <2>2. \A i \in 1 .. Len(r) : (<<c>> \o r)[i + 1] = r[i]
    OBVIOUS
  <2> HIDE DEF t
  <2>3. t = r
    BY <2>1, <2>2
  <2> QED
    BY <2>3 DEF t
<1> QED
  BY <1>1, <1>2, <1>3

\* x is what is left after k elements of s, with r behind.
Splits(x, s, r, k) ==
  /\ k < Len(s) => /\ k + 1 \in 0 .. Len(s)
                   /\ x # <<>> /\ Head(x) = s[k + 1]
                   /\ Tail(x) = Rest(s, k + 1) \o r
  /\ k = Len(s) => x = r
  /\ k < Len(s) \/ k = Len(s)

\* What is left of two sequences begins with what is left of the first.
LEMMA RestSplits ==
  ASSUME NEW M, NEW s \in Seq(M), NEW r \in Seq(M), NEW k \in 0 .. Len(s)
  PROVE  Splits(Rest(s, k) \o r, s, r, k)
<1>1. Len(s) \in Nat /\ (k < Len(s) \/ k = Len(s))
  OBVIOUS
<1>3. k = Len(s) => Rest(s, k) \o r = r
  <2>1. k = Len(s) => Rest(s, k) = <<>>
    BY NoRest, Zenon
  <2>2. <<>> \o r = r
    OBVIOUS
  <2> QED
    BY <2>1, <2>2, Zenon
<1>4. ASSUME k < Len(s)
      PROVE  /\ k + 1 \in 0 .. Len(s)
             /\ Rest(s, k) \o r # <<>> /\ Head(Rest(s, k) \o r) = s[k + 1]
             /\ Tail(Rest(s, k) \o r) = Rest(s, k + 1) \o r
  <2> DEFINE e == s[k + 1]
             v == Rest(s, k + 1)
  <2>1. k + 1 \in 0 .. Len(s) /\ e \in M
    BY <1>1, <1>4
  <2>2. v \in Seq(M)
    BY <2>1, RestIs
  <2>3. Rest(s, k) = <<e>> \o v
    BY <1>4, RestIs
  <2> HIDE DEF e, v
  <2>4. (<<e>> \o v) \o r = <<e>> \o (v \o r) /\ v \o r \in Seq(M)
    BY <2>1, <2>2
  <2> DEFINE w == v \o r
  <2> HIDE DEF w
  <2>5. <<e>> \o w # <<>> /\ Head(<<e>> \o w) = e /\ Tail(<<e>> \o w) = w
    BY <2>1, <2>4, NextOf DEF w
  <2>6. Rest(s, k) \o r = <<e>> \o w
    BY <2>3, <2>4 DEF w
  <2> QED
    BY <2>1, <2>5, <2>6 DEF e, v, w
<1> QED
  BY <1>1, <1>3, <1>4, Zenon DEF Splits

\* What follows the width, and the whole directive.
After(d) == IF d.conv = "none" THEN <<>> ELSE <<d.conv, "b">>
Whole(d) == IF d.conv = "none" THEN <<>> ELSE d.flags \o d.width \o <<d.conv, "b">>
Last(d) == IF d.conv = "none" THEN <<>> ELSE <<"b">>

\* The characters of a format.
Symbols == {"-", "a", "b", "%", "x", "X", "d", "i", "u", "s", "c", "q"} \cup DOMAIN Digits

\* No conversion is a flag or a digit.
LEMMA DigitChars ==
  /\ "0" \in DOMAIN Digits /\ "-" \notin DOMAIN Digits
  /\ \A c \in {"x", "X", "d", "i", "u", "s", "c", "q", "%"} :
       c \notin DOMAIN Digits /\ c # "-" /\ c # "0" /\ c # "none" /\ c \in Symbols
  BY DEF Digits, Symbols

\* What follows the width: the conversion and a character.
LEMMA AskedConversion ==
  ASSUME NEW d, IsAsked(d), d.conv # "none"
  PROVE  /\ d.conv \in Symbols /\ d.conv \notin DOMAIN Digits /\ d.conv \notin {"-", "0"}
         /\ After(d) \in Seq(Symbols) /\ After(d) # <<>>
         /\ Head(After(d)) = d.conv /\ Tail(After(d)) = <<"b">>
<1>1. d.conv \in {"x", "X", "d", "i", "u", "s", "c", "q", "%"}
  BY DEF IsAsked, Number, Others
<1>2. /\ d.conv \in Symbols /\ d.conv \notin DOMAIN Digits /\ d.conv \notin {"-", "0"}
  BY <1>1, DigitChars, Zenon
<1>3. "b" \in Symbols
  BY Zenon DEF Symbols
<1>4. ASSUME NEW M, NEW c \in M, NEW e \in M
      PROVE  /\ <<c, e>> \in Seq(M) /\ <<c, e>> # <<>>
             /\ Head(<<c, e>>) = c /\ Tail(<<c, e>>) = <<e>>
  OBVIOUS
<1>5. After(d) = <<d.conv, "b">>
  BY Zenon DEF After
<1>6. /\ <<d.conv, "b">> \in Seq(Symbols) /\ <<d.conv, "b">> # <<>>
      /\ Head(<<d.conv, "b">>) = d.conv /\ Tail(<<d.conv, "b">>) = <<"b">>
  BY <1>2, <1>3, <1>4, Zenon
<1> QED
  BY <1>2, <1>5, <1>6, Zenon

\* The parts of a format: flags, digits, conversion.
LEMMA FormatParts ==
  ASSUME NEW d, IsAsked(d)
  PROVE  /\ d.flags \in Seq(Symbols) /\ d.width \in Seq(Symbols)
         /\ After(d) \in Seq(Symbols) /\ d.width \o After(d) \in Seq(Symbols)
         /\ \A i \in 1 .. Len(d.flags) : d.flags[i] \in {"-", "0"}
         /\ \A i \in 1 .. Len(d.width) : d.width[i] \in DOMAIN Digits
         /\ d.width # <<>> => d.width[1] \notin {"-", "0"}
         /\ Whole(d) = d.flags \o (d.width \o After(d)) /\ Whole(d) \in Seq(Symbols)
<1> DEFINE f == d.flags
           w == d.width
           a == After(d)
           F == {"-", "0"}
           D == DOMAIN Digits
<1>1. f \in Seq(F) /\ w \in Seq(D) /\ (w # <<>> => w[1] # "0")
  BY Zenon DEF IsAsked, IsWidth
<1>2. F \subseteq Symbols /\ D \subseteq Symbols
  BY DigitChars, Zenon DEF Symbols
<1>3. a \in Seq(Symbols)
  <2>1. <<>> \in Seq(Symbols)
    OBVIOUS
  <2>2. CASE d.conv = "none"
    BY <2>1, <2>2, Zenon DEF After
  <2>3. CASE d.conv # "none"
    BY <2>3, AskedConversion, Zenon
  <2> QED
    BY <2>2, <2>3, Zenon
<1>4. Whole(d) = (f \o w) \o a \/ (f = <<>> /\ w = <<>> /\ a = <<>> /\ Whole(d) = <<>>)
  <2>1. CASE d.conv = "none"
    <3>1. d.conv \in Others
      BY <2>1, Zenon DEF Others
    <3>2. f = <<>> /\ w = <<>>
      BY <2>1, <3>1, OneKind, Zenon DEF IsAsked
    <3> QED
      BY <2>1, <3>2, Zenon DEF After, Whole
  <2>2. CASE d.conv # "none"
    BY <2>2, Zenon DEF After, Whole
  <2> QED
    BY <2>1, <2>2, Zenon
<1>5. w # <<>> => w[1] \notin F
  <2> SUFFICES ASSUME w # <<>> PROVE w[1] \notin F
    OBVIOUS
  <2> HIDE DEF D, F
  <2>1. 1 \in 1 .. Len(w)
    <3> HIDE DEF w
    <3> QED
      BY <1>1
  <2>2. w[1] \in D /\ w[1] # "0"
    BY <1>1, <2>1
  <2> QED
    BY <2>2, DigitChars, Zenon DEF D, F
<1> HIDE DEF f, w, a, F, D
<1>6. f \in Seq(Symbols) /\ w \in Seq(Symbols)
  BY <1>1, <1>2, Wider
<1>7. w \o a \in Seq(Symbols) /\ f \o (w \o a) \in Seq(Symbols) /\ (f \o w) \o a = f \o (w \o a)
  BY <1>3, <1>6
<1>8. /\ \A i \in 1 .. Len(f) : f[i] \in F
      /\ \A i \in 1 .. Len(w) : w[i] \in D
  BY <1>1
<1>9. <<>> \o (<<>> \o <<>>) = <<>>
  OBVIOUS
<1>10. Whole(d) = f \o (w \o a)
  BY <1>4, <1>7, <1>9, Zenon
<1>11. Whole(d) \in Seq(Symbols)
  BY <1>7, <1>10, Zenon
<1> QED
  BY <1>3, <1>5, <1>6, <1>7, <1>8, <1>10, <1>11, Zenon DEF f, w, a, F, D

\* One more flag is one more character read.
LEMMA FlagsGrow ==
  ASSUME NEW fl, NEW k \in Nat
  PROVE  /\ FlagsOf(fl, 0) = {}
         /\ fl[k + 1] \in {"-", "0"} =>
              FlagsOf(fl, k + 1)
                = FlagsOf(fl, k) \cup {IF fl[k + 1] = "-" THEN "LEFT" ELSE "ZEROPAD"}
<1>1. 1 .. 0 = {} /\ 1 .. k + 1 = (1 .. k) \cup {k + 1}
  OBVIOUS
<1>2. FlagsOf(fl, 0) = {}
  BY <1>1, Zenon DEF FlagsOf
<1>3. ASSUME fl[k + 1] \in {"-", "0"}
      PROVE  FlagsOf(fl, k + 1)
               = FlagsOf(fl, k) \cup {IF fl[k + 1] = "-" THEN "LEFT" ELSE "ZEROPAD"}
  <2>1. "LEFT" # "ZEROPAD" /\ "-" # "0"
    OBVIOUS
  <2> DEFINE new == IF fl[k + 1] = "-" THEN "LEFT" ELSE "ZEROPAD"
  <2>2. new \in {"LEFT", "ZEROPAD"}
    BY Zenon
  <2>3. ASSUME NEW x \in {"LEFT", "ZEROPAD"}
        PROVE  fl[k + 1] = (IF x = "LEFT" THEN "-" ELSE "0") <=> x = new
    BY <1>3, <2>1, <2>3, Zenon
  <2> HIDE DEF new
  <2> DEFINE Stands(i, x) == fl[i] = IF x = "LEFT" THEN "-" ELSE "0"
  <2>4. \A x \in {"LEFT", "ZEROPAD"} : Stands(k + 1, x) <=> x = new
    BY <2>3
  <2>5. /\ FlagsOf(fl, k) = {x \in {"LEFT", "ZEROPAD"} : \E i \in 1 .. k : Stands(i, x)}
        /\ FlagsOf(fl, k + 1) = {x \in {"LEFT", "ZEROPAD"} : \E i \in 1 .. k + 1 : Stands(i, x)}
    BY Zenon DEF FlagsOf
  <2> HIDE DEF Stands
  <2> DEFINE Both == {"LEFT", "ZEROPAD"}
  <2>6. new \in Both
    BY <2>2
  <2> HIDE DEF Both
  <2>7. FlagsOf(fl, k + 1) = FlagsOf(fl, k) \cup {new}
    BY <1>1, <2>4, <2>5, <2>6, Zenon DEF Both
  <2> QED
    BY <2>7 DEF new
<1> QED
  BY <1>2, <1>3

---------------------------------------------------------------------------
(* The invariant.                                                          *)

\* Before the first character, before the %, among the flags, in the width, after
\* the conversion, after the last character.
Begins ==
  /\ at = "text" /\ fmt = <<"a">> \o (<<"%">> \o Whole(asked)) /\ buf = <<>>
  /\ arg_addr = <<asked.arg, 0>>

Opens ==
  /\ at = "text" /\ fmt = <<"%">> \o Whole(asked) /\ buf = <<"a">>
  /\ arg_addr = <<asked.arg, 0>>

InFlags(k) ==
  /\ at = "flags" /\ k \in 0 .. Len(asked.flags)
  /\ fmt = Rest(asked.flags, k) \o (asked.width \o After(asked))
  /\ flags = FlagsOf(asked.flags, k)
  /\ buf = <<"a">> /\ arg_addr = <<asked.arg, 0>>

InWidth(k) ==
  /\ at = "width" /\ k \in 0 .. Len(asked.width)
  /\ fmt = Rest(asked.width, k) \o After(asked)
  /\ flags = Read(asked)
  /\ field_width = IF k = 0 THEN -1 ELSE Digits[asked.width[k]]
  /\ buf = <<"a">> /\ arg_addr = <<asked.arg, 0>>

Through ==
  /\ at = "text" /\ fmt = Last(asked) /\ buf = <<"a">> \o Written(asked)

Over ==
  /\ at = "text" /\ fmt = <<>> /\ asked.conv # "none"
  /\ buf = <<"a">> \o Written(asked) \o <<"b">>

PrintInv ==
  /\ IsAsked(asked)
  /\ \/ Begins \/ Opens \/ Through \/ Over
     \/ \E k \in Nat : InFlags(k)
     \/ \E k \in Nat : InWidth(k)

\* The character before the directive is copied.
LEMMA TextOfBegins ==
  ASSUME IsAsked(asked), Begins, Text
  PROVE  Opens'
<1> DEFINE r == <<"%">> \o Whole(asked)
           c == "a"
<1>1. Whole(asked) \in Seq(Symbols)
  BY FormatParts, Zenon
<1>2. "a" \in Symbols /\ "%" \in Symbols
  BY Zenon DEF Symbols
<1>3. r \in Seq(Symbols)
  BY <1>1, <1>2, NextOf
<1>4. fmt = <<c>> \o r /\ at = "text" /\ buf = <<>> /\ arg_addr = <<asked.arg, 0>>
  BY Zenon DEF Begins
<1> HIDE DEF r, c
<1>5. Head(fmt) = c /\ Tail(fmt) = r
  BY <1>2, <1>3, <1>4, NextOf DEF c
<1>6. ~Is({"%"})
  <2>1. "a" \notin {"%"}
    OBVIOUS
  <2> QED
    BY <1>5, <2>1, Zenon DEF Is, c
<1>7. fmt' = r /\ at' = "text" /\ buf' = Append(<<>>, c) /\ arg_addr' = <<asked.arg, 0>> /\ asked' = asked
  BY <1>4, <1>5, <1>6, Zenon DEF Text
<1>8. Append(<<>>, c) = <<c>>
  OBVIOUS
<1> QED
  BY <1>7, <1>8, Zenon DEF Opens, r, c

\* The % opens it.
LEMMA TextOfOpens ==
  ASSUME IsAsked(asked), Opens, Text
  PROVE  InFlags(0)'
<1> DEFINE r == Whole(asked)
           c == "%"
<1>1. r \in Seq(Symbols) /\ c \in Symbols
  BY FormatParts, Zenon DEF Symbols
<1>2. fmt = <<c>> \o r /\ at = "text" /\ buf = <<"a">> /\ arg_addr = <<asked.arg, 0>>
  BY Zenon DEF Opens
<1> HIDE DEF r, c
<1>3. Head(fmt) = c /\ Tail(fmt) = r /\ fmt # <<>>
  BY <1>1, <1>2, NextOf
<1>4. Is({"%"})
  BY <1>3, Zenon DEF Is, c
<1>5. /\ fmt' = r /\ at' = "flags" /\ flags' = {} /\ buf' = <<"a">>
      /\ arg_addr' = <<asked.arg, 0>> /\ asked' = asked
  BY <1>2, <1>3, <1>4, Zenon DEF Text
<1>6. r = Rest(asked.flags, 0) \o (asked.width \o After(asked))
  <2>1. /\ asked.flags \in Seq(Symbols) /\ asked.width \o After(asked) \in Seq(Symbols)
        /\ Whole(asked) = asked.flags \o (asked.width \o After(asked))
    BY FormatParts, Zenon
  <2>2. Rest(asked.flags, 0) = asked.flags
    <3>1. 0 \in 0 .. Len(asked.flags)
      BY <2>1
    <3> QED
      BY <2>1, <3>1, RestIs
  <2> QED
    BY <2>1, <2>2, Zenon DEF r
<1>7. FlagsOf(asked.flags, 0) = {} /\ 0 \in 0 .. Len(asked.flags)
  <2>1. asked.flags \in Seq(Symbols)
    BY FormatParts, Zenon
  <2>2. 0 \in 0 .. Len(asked.flags)
    BY <2>1
  <2> QED
    BY <2>2, FlagsGrow
<1> QED
  BY <1>5, <1>6, <1>7, Zenon DEF InFlags

\* Appending one is writing it behind.
LEMMA OneBehind ==
  ASSUME NEW M, NEW c, NEW e, NEW t \in Seq(M)
  PROVE  Append(<<c>> \o t, e) = <<c>> \o t \o <<e>>
<1>1. ASSUME NEW N, NEW u \in Seq(N)
      PROVE  Append(u, e) = u \o <<e>>
  OBVIOUS
<1>2. <<c>> \o t \in Seq(M \cup {c})
  OBVIOUS
<1> QED
  BY <1>1, <1>2, Zenon

\* The character behind the directive is copied.
LEMMA TextOfThrough ==
  ASSUME IsAsked(asked), Through, Text
  PROVE  Over'
<1>1. at = "text" /\ fmt = Last(asked) /\ buf = <<"a">> \o Written(asked) /\ fmt # <<>>
  BY Zenon DEF Through, Text
<1>2. asked.conv # "none" /\ fmt = <<"b">>
  BY <1>1, Zenon DEF Last
<1>3. Head(<<"b">>) = "b" /\ Tail(<<"b">>) = <<>> /\ "b" \notin {"%"}
  OBVIOUS
<1>4. /\ fmt' = <<>> /\ at' = "text" /\ asked' = asked
      /\ buf' = Append(<<"a">> \o Written(asked), "b")
  BY <1>1, <1>2, <1>3, Zenon DEF Text, Is
<1>5. Append(<<"a">> \o Written(asked), "b") = <<"a">> \o Written(asked) \o <<"b">>
  <2>1. Written(asked) \in Seq(Marks)
    BY WrittenIsText
  <2> QED
    BY <2>1, OneBehind
<1> QED
  BY <1>2, <1>4, <1>5, Zenon DEF Over

\* A flag is taken, or there is none left: the width begins.
LEMMA FlagOfInFlags ==
  ASSUME IsAsked(asked), NEW k \in Nat, InFlags(k), Flag
  PROVE  InFlags(k + 1)' \/ InWidth(0)'
<1> DEFINE fl == asked.flags
           wd == asked.width
           r == wd \o After(asked)
<1>1. /\ fl \in Seq(Symbols) /\ r \in Seq(Symbols) /\ wd \in Seq(Symbols)
      /\ After(asked) \in Seq(Symbols)
      /\ \A i \in 1 .. Len(fl) : fl[i] \in {"-", "0"}
      /\ wd # <<>> => wd[1] \notin {"-", "0"}
  BY FormatParts, Zenon
<1>2. /\ k \in 0 .. Len(fl) /\ fmt = Rest(fl, k) \o r /\ flags = FlagsOf(fl, k)
      /\ buf = <<"a">> /\ arg_addr = <<asked.arg, 0>>
  BY Zenon DEF InFlags
<1> HIDE DEF fl, wd, r
<1>3. /\ k < Len(fl) => /\ k + 1 \in 0 .. Len(fl)
                        /\ fmt # <<>> /\ Head(fmt) = fl[k + 1]
                        /\ Tail(fmt) = Rest(fl, k + 1) \o r
      /\ k = Len(fl) => fmt = r
      /\ k < Len(fl) \/ k = Len(fl)
  <2>1. Splits(Rest(fl, k) \o r, fl, r, k)
    BY <1>1, <1>2, RestSplits
  <2> QED
    BY <1>2, <2>1, Zenon DEF Splits
<1>4. CASE k < Len(fl)
  <2>1. fl[k + 1] \in {"-", "0"}
    <3>1. k + 1 \in 1 .. Len(fl)
      BY <1>2, <1>4
    <3> QED
      BY <1>1, <3>1, Zenon
  <2>2. Is({"-", "0"})
    BY <1>3, <1>4, <2>1, Zenon DEF Is
  <2>3. /\ flags' = flags \cup {IF fl[k + 1] = "-" THEN "LEFT" ELSE "ZEROPAD"}
        /\ fmt' = Rest(fl, k + 1) \o r /\ at' = "flags"
        /\ buf' = <<"a">> /\ arg_addr' = <<asked.arg, 0>> /\ asked' = asked
    <3>1. /\ at = "flags" /\ flags' = flags \cup {IF Head(fmt) = "-" THEN "LEFT" ELSE "ZEROPAD"}
          /\ fmt' = Tail(fmt) /\ at' = at /\ buf' = buf /\ arg_addr' = arg_addr /\ asked' = asked
      BY <2>2, Zenon DEF Flag
    <3> QED
      BY <1>2, <1>3, <1>4, <3>1, Zenon
  <2>4. flags' = FlagsOf(fl, k + 1)
    <3>1. FlagsOf(fl, k + 1) = FlagsOf(fl, k) \cup {IF fl[k + 1] = "-" THEN "LEFT" ELSE "ZEROPAD"}
      BY <2>1, FlagsGrow, Zenon
    <3> QED
      BY <1>2, <2>3, <3>1, Zenon
  <2>5. InFlags(k + 1)'
    BY <1>3, <1>4, <2>3, <2>4, Zenon DEF InFlags, fl, wd, r
  <2> QED
    BY <2>5
<1>5. CASE k = Len(fl)
  <2>1. ~Is({"-", "0"})
    <3> SUFFICES ASSUME r # <<>>, Head(r) \in {"-", "0"} PROVE FALSE
      BY <1>3, <1>5, Zenon DEF Is
    <3>1. CASE wd = <<>>
      <4>1. r = After(asked)
        <5>1. <<>> \o After(asked) = After(asked)
          BY <1>1
        <5> QED
          BY <3>1, <5>1, Zenon DEF r
      <4>2. asked.conv # "none"
        BY <4>1, Zenon DEF After
      <4> QED
        BY <4>1, <4>2, AskedConversion, Zenon
    <3>2. CASE wd # <<>>
      <4>1. Head(wd \o After(asked)) = wd[1]
        BY <1>1, <3>2
      <4> QED
        BY <1>1, <3>2, <4>1, Zenon DEF r
    <3> QED
      BY <3>1, <3>2
  <2>2. /\ at' = "width" /\ field_width' = -1 /\ fmt' = r /\ flags' = FlagsOf(fl, Len(fl))
        /\ buf' = <<"a">> /\ arg_addr' = <<asked.arg, 0>> /\ asked' = asked
    <3>1. /\ at' = "width" /\ field_width' = -1 /\ fmt' = fmt /\ flags' = flags
          /\ buf' = buf /\ arg_addr' = arg_addr /\ asked' = asked
      BY <2>1, Zenon DEF Flag
    <3> QED
      BY <1>2, <1>3, <1>5, <3>1, Zenon
  <2>3. 0 \in 0 .. Len(wd) /\ r = Rest(wd, 0) \o After(asked)
    <3>1. 0 \in 0 .. Len(wd)
      BY <1>1
    <3>2. Rest(wd, 0) = wd
      BY <1>1, <3>1, RestIs
    <3> QED
      BY <3>1, <3>2, Zenon DEF r
  <2>4. InWidth(0)'
    BY <2>2, <2>3, Zenon DEF InWidth, Read, fl, wd
  <2> QED
    BY <2>4
<1> QED
  BY <1>3, <1>4, <1>5

\* A digit of the width is taken.
LEMMA WidthOfInWidth ==
  ASSUME IsAsked(asked), NEW k \in Nat, InWidth(k), Width
  PROVE  InWidth(k + 1)'
<1> DEFINE wd == asked.width
           r == After(asked)
<1>1. /\ wd \in Seq(Symbols) /\ r \in Seq(Symbols)
      /\ \A i \in 1 .. Len(wd) : wd[i] \in DOMAIN Digits
  BY FormatParts, Zenon
<1>2. /\ k \in 0 .. Len(wd) /\ fmt = Rest(wd, k) \o r /\ flags = Read(asked)
      /\ buf = <<"a">> /\ arg_addr = <<asked.arg, 0>> /\ at = "width"
  BY Zenon DEF InWidth
<1>3. Is(DOMAIN Digits) /\ field_width' = Digits[Head(fmt)] /\ fmt' = Tail(fmt)
      /\ at' = at /\ flags' = flags /\ arg_addr' = arg_addr /\ buf' = buf /\ asked' = asked
  BY Zenon DEF Width
<1> HIDE DEF wd, r
<1>4. /\ k < Len(wd) => /\ k + 1 \in 0 .. Len(wd)
                        /\ fmt # <<>> /\ Head(fmt) = wd[k + 1]
                        /\ Tail(fmt) = Rest(wd, k + 1) \o r
      /\ k = Len(wd) => fmt = r
      /\ k < Len(wd) \/ k = Len(wd)
  <2>1. Splits(Rest(wd, k) \o r, wd, r, k)
    BY <1>1, <1>2, RestSplits
  <2> QED
    BY <1>2, <2>1, Zenon DEF Splits
<1>5. k < Len(wd)
  <2> SUFFICES ASSUME k = Len(wd) PROVE FALSE
    BY <1>4
  <2>1. r # <<>> /\ Head(r) \in DOMAIN Digits
    BY <1>3, <1>4, Zenon DEF Is
  <2>2. asked.conv # "none"
    BY <2>1, Zenon DEF After, r
  <2> QED
    BY <2>1, <2>2, AskedConversion, Zenon DEF r
<1>6. k + 1 # 0
  OBVIOUS
<1> QED
  BY <1>2, <1>3, <1>4, <1>5, <1>6, Zenon DEF InWidth, wd, r

\* The padding of %c and %s is that of number without ZEROPAD and mark.
LEMMA PaddedIs ==
  ASSUME NEW s \in Seq(Marks), field_width \in Int
  PROVE  Padded(s) = LaidOut(<<>>, s, field_width, flags \ {"ZEROPAD"})
<1> DEFINE n == field_width - Len(s)
           pad == Times(n, " ")
           f == flags \ {"ZEROPAD"}
<1>1. n \in Int /\ field_width - Len(<<>>) - Len(s) = n
  <2>1. Len(s) \in Nat /\ Len(<<>>) = 0
    OBVIOUS
  <2> QED
    BY <2>1
<1>2. "LEFT" \in f <=> "LEFT" \in flags
  OBVIOUS
<1>3. "ZEROPAD" \notin f
  BY Zenon
<1>4. Padded(s) = IF "LEFT" \in f THEN s \o pad ELSE pad \o s
  BY <1>2, Zenon DEF Padded
<1>5. LaidOut(<<>>, s, field_width, f) = IF "LEFT" \in f THEN <<>> \o s \o pad ELSE <<>> \o pad \o s
  BY <1>1, <1>3, Zenon DEF LaidOut
<1>6. pad \in Seq(Marks)
  <2> HIDE DEF n
  <2>1. \A c \in Marks : Times(n, c) \in Seq(Marks)
    BY <1>1, TimesIs
  <2> QED
    BY <2>1, MarksFill, Zenon DEF Filled
<1> HIDE DEF pad, f
<1>7. <<>> \o s = s /\ <<>> \o pad = pad
  BY <1>6
<1> QED
  BY <1>4, <1>5, <1>7, Zenon DEF f

\* When the width is read, the conversion writes Written.
LEMMA ConvertOfInWidth ==
  ASSUME IsAsked(asked), NEW k \in Nat, InWidth(k), Convert
  PROVE  Through'
<1> DEFINE wd == asked.width
           r == After(asked)
           c == asked.conv
<1>1. /\ wd \in Seq(Symbols) /\ r \in Seq(Symbols)
      /\ \A i \in 1 .. Len(wd) : wd[i] \in DOMAIN Digits
  BY FormatParts, Zenon
<1>2. /\ k \in 0 .. Len(wd) /\ fmt = Rest(wd, k) \o r /\ flags = Read(asked)
      /\ buf = <<"a">> /\ arg_addr = <<asked.arg, 0>>
      /\ field_width = IF k = 0 THEN -1 ELSE Digits[wd[k]]
  BY Zenon DEF InWidth
<1>3. /\ ~Is(DOMAIN Digits) /\ at' = "text" /\ asked' = asked
      /\ fmt' = IF fmt = <<>> THEN fmt ELSE Tail(fmt)
  BY Zenon DEF Convert
<1> HIDE DEF wd, r, c
<1>4. /\ k < Len(wd) => fmt # <<>> /\ Head(fmt) = wd[k + 1]
      /\ k = Len(wd) => fmt = r
      /\ k < Len(wd) \/ k = Len(wd)
  <2>1. Splits(Rest(wd, k) \o r, wd, r, k)
    BY <1>1, <1>2, RestSplits
  <2> QED
    BY <1>2, <2>1, Zenon DEF Splits
<1>5. k = Len(wd)
  <2> SUFFICES ASSUME k < Len(wd) PROVE FALSE
    BY <1>4
  <2>1. k + 1 \in 1 .. Len(wd)
    BY <1>2
  <2> QED
    BY <1>1, <1>3, <1>4, <2>1, Zenon DEF Is
<1>6. fmt = r
  BY <1>4, <1>5
<1>7. field_width = FieldWidth(wd)
  <2>1. k = 0 <=> wd = <<>>
    BY <1>1, <1>5
  <2> QED
    BY <1>2, <1>5, <2>1, Zenon DEF FieldWidth
<1>8. Head(arg_addr) = asked.arg
  <2>1. \A x, y : Head(<<x, y>>) = x
    OBVIOUS
  <2> QED
    BY <1>2, <2>1, Zenon
<1>9. /\ c # "none" => fmt # <<>> /\ Head(fmt) = c /\ Tail(fmt) = <<"b">>
      /\ c = "none" => fmt = <<>>
  BY <1>6, AskedConversion, Zenon DEF r, c, After
<1>10. fmt' = Last(asked)
  BY <1>3, <1>9, Zenon DEF Last, c
<1>11. \A chars : Is(chars) <=> c # "none" /\ c \in chars
  BY <1>9, Zenon DEF Is
<1>12. /\ IsWidth(wd) /\ field_width \in Int /\ Body(asked) \in Seq(Marks)
       /\ Written(asked) \in Seq(Marks)
  BY <1>7, PartsAreText, WrittenIsText, Zenon DEF IsAsked, wd
<1>13. buf' = <<"a">> \o Written(asked)
  <2>1. CASE Is({"c"}) /\ AddText(Padded(<<asked.arg>>))
    <3>1. c = "c"
      BY <1>11, <2>1, Zenon
    <3>2. Body(asked) = <<asked.arg>>
      BY <3>1, PartsAreText, Zenon DEF c
    <3>3. Padded(Body(asked)) = LaidOut(<<>>, Body(asked), field_width, flags \ {"ZEROPAD"})
      BY <1>12, PaddedIs
    <3>4. Written(asked) = LaidOut(<<>>, Body(asked), FieldWidth(wd), Read(asked) \ {"ZEROPAD"})
      BY <3>1, WrittenIs, Zenon DEF c, wd
    <3> QED
      BY <1>2, <1>7, <2>1, <3>2, <3>3, <3>4, Zenon DEF AddText
  <2>2. CASE Is({"s"}) /\ AddText(Padded(Chars(asked.arg)))
    <3>1. c = "s"
      BY <1>11, <2>2, Zenon
    <3>2. Body(asked) = Chars(asked.arg)
      BY <3>1, PartsAreText, Zenon DEF c
    <3>3. Padded(Body(asked)) = LaidOut(<<>>, Body(asked), field_width, flags \ {"ZEROPAD"})
      BY <1>12, PaddedIs
    <3>4. Written(asked) = LaidOut(<<>>, Body(asked), FieldWidth(wd), Read(asked) \ {"ZEROPAD"})
      BY <3>1, WrittenIs, Zenon DEF c, wd
    <3> QED
      BY <1>2, <1>7, <2>2, <3>2, <3>3, <3>4, Zenon DEF AddText
  <2>3. CASE Is({"x"}) /\ AddText(number(asked.arg, 16, field_width, flags \cup {"SMALL"}))
    BY <1>2, <1>7, <1>11, <2>3, WrittenIs, Zenon DEF AddText, c, wd
  <2>4. CASE Is({"X"}) /\ AddText(number(asked.arg, 16, field_width, flags))
    BY <1>2, <1>7, <1>11, <2>4, WrittenIs, Zenon DEF AddText, c, wd
  <2>5. CASE Is({"d", "i"}) /\ AddText(number(asked.arg, 10, field_width, flags \cup {"SIGN"}))
    BY <1>2, <1>7, <1>11, <2>5, WrittenIs, Zenon DEF AddText, c, wd
  <2>6. CASE Is({"u"}) /\ AddText(number(asked.arg, 10, field_width, flags))
    BY <1>2, <1>7, <1>11, <2>6, WrittenIs, Zenon DEF AddText, c, wd
  <2>7. CASE /\ ~Is({"c", "s", "x", "X", "d", "i", "u"})
             /\ buf' = buf \o (IF Is({"%"}) THEN <<>> ELSE <<"%">>)
                           \o (IF fmt = <<>> THEN <<>> ELSE <<Head(fmt)>>)
    <3>1. c \in Others
      BY <1>11, <2>7, Zenon DEF IsAsked, Number, Others, c
    <3>2. Written(asked) = Body(asked)
      BY <3>1, WrittenIs, Zenon DEF c
    <3>3. /\ <<"a">> \o <<"%">> \o <<>> = <<"a">> \o <<"%">>
          /\ <<"a">> \o <<>> \o <<"%">> = <<"a">> \o <<"%">>
          /\ <<"a">> \o <<"%">> \o <<"q">> = <<"a">> \o <<"%", "q">>
      OBVIOUS
    <3>4. CASE c = "none"
      <4>1. Body(asked) = <<"%">>
        BY <3>4, PartsAreText, Zenon DEF c
      <4> QED
        BY <1>2, <1>9, <1>11, <2>7, <3>2, <3>3, <3>4, <4>1, Zenon
    <3>5. CASE c = "%"
      <4>1. Body(asked) = <<"%">> /\ c # "none"
        BY <3>5, PartsAreText, DigitChars, Zenon DEF c
      <4> QED
        BY <1>2, <1>9, <1>11, <2>7, <3>2, <3>3, <3>5, <4>1, Zenon
    <3>6. CASE c = "q"
      <4>1. Body(asked) = <<"%", "q">> /\ c # "none" /\ c \notin {"%"}
        <5>1. "q" # "%"
          OBVIOUS
        <5> QED
          BY <3>6, <5>1, PartsAreText, DigitChars, Zenon DEF c
      <4> QED
        BY <1>2, <1>9, <1>11, <2>7, <3>2, <3>3, <3>6, <4>1, Zenon
    <3> QED
      BY <3>1, <3>4, <3>5, <3>6, Zenon DEF Others
  <2>8. \/ Is({"c"}) /\ AddText(Padded(<<asked.arg>>))
        \/ Is({"s"}) /\ AddText(Padded(Chars(asked.arg)))
        \/ Is({"x"}) /\ AddText(number(asked.arg, 16, field_width, flags \cup {"SMALL"}))
        \/ Is({"X"}) /\ AddText(number(asked.arg, 16, field_width, flags))
        \/ Is({"d", "i"}) /\ AddText(number(asked.arg, 10, field_width, flags \cup {"SIGN"}))
        \/ Is({"u"}) /\ AddText(number(asked.arg, 10, field_width, flags))
        \/ /\ ~Is({"c", "s", "x", "X", "d", "i", "u"})
           /\ buf' = buf \o (IF Is({"%"}) THEN <<>> ELSE <<"%">>)
                         \o (IF fmt = <<>> THEN <<>> ELSE <<Head(fmt)>>)
    BY <1>8, Zenon DEF Convert
  <2> QED
    BY <2>1, <2>2, <2>3, <2>4, <2>5, <2>6, <2>7, <2>8, Zenon
<1> QED
  BY <1>3, <1>10, <1>13, Zenon DEF Through

\* The parts of a directive.
LEMMA DirectiveIs ==
  ASSUME NEW f, NEW w, NEW c, NEW a
  PROVE  /\ Directive(f, w, c, a).flags = f /\ Directive(f, w, c, a).width = w
         /\ Directive(f, w, c, a).conv = c /\ Directive(f, w, c, a).arg = a
  BY DEF Directive

\* Every call is one of those asked.
LEMMA InitAsked ==
  ASSUME PrintInit
  PROVE  IsAsked(asked)
<1>1. ASSUME NEW f \in Flags, NEW w \in Widths
      PROVE  f \in Seq({"-", "0"}) /\ IsWidth(w)
  BY PrintAssumption, Zenon DEF IsWidth
<1>2. CASE \E f \in Flags, w \in Widths, c \in {"x", "X", "d", "i", "u"}, n \in Numbers :
             asked = Directive(f, w, c, n)
  <2>1. PICK f \in Flags, w \in Widths, c \in {"x", "X", "d", "i", "u"}, n \in Numbers :
               asked = Directive(f, w, c, n)
    BY <1>2
  <2>2. n \in Ints
    BY PrintAssumption DEF Ints
  <2>3. asked.flags = f /\ asked.width = w /\ asked.conv = c /\ asked.arg = n
    BY <2>1, DirectiveIs
  <2>4. asked.flags \in Seq({"-", "0"}) /\ IsWidth(asked.width) /\ Number(asked) /\ asked.arg \in Ints
    BY <1>1, <2>2, <2>3, Zenon DEF Number
  <2> QED
    BY <2>4, Zenon DEF IsAsked
<1>3. CASE \E f \in Flags, w \in Widths, t \in Strings : asked = Directive(f, w, "s", t)
  <2>1. PICK f \in Flags, w \in Widths, t \in Strings : asked = Directive(f, w, "s", t)
    BY <1>3
  <2>2. asked.flags = f /\ asked.width = w /\ asked.conv = "s" /\ asked.arg = t
    BY <2>1, DirectiveIs
  <2> QED
    BY <1>1, <2>2, Zenon DEF IsAsked
<1>4. CASE \E f \in Flags, w \in Widths : asked = Directive(f, w, "c", "z")
  <2>1. PICK f \in Flags, w \in Widths : asked = Directive(f, w, "c", "z")
    BY <1>4
  <2>2. asked.flags = f /\ asked.width = w /\ asked.conv = "c" /\ asked.arg = "z"
    BY <2>1, DirectiveIs
  <2> QED
    BY <1>1, <2>2, Zenon DEF IsAsked
<1>5. CASE \E c \in {"%", "q", "none"} : asked = Directive(<<>>, <<>>, c, 0)
  <2>1. <<>> \in Seq({"-", "0"}) /\ <<>> \in Seq(DOMAIN Digits)
    OBVIOUS
  <2>2. PICK c \in {"%", "q", "none"} : asked = Directive(<<>>, <<>>, c, 0)
    BY <1>5
  <2>3. asked.flags = <<>> /\ asked.width = <<>> /\ asked.conv = c
    BY <2>2, DirectiveIs
  <2> QED
    BY <2>1, <2>3, Zenon DEF IsAsked, IsWidth, Others
<1> QED
  BY <1>2, <1>3, <1>4, <1>5, Zenon DEF PrintInit

\* Two characters in front are one and one.
LEMMA TwoInFront ==
  ASSUME NEW M, NEW s \in Seq(M), NEW c \in M, NEW e \in M
  PROVE  <<c, e>> \o s = <<c>> \o (<<e>> \o s)
<1>1. <<c>> \in Seq(M) /\ <<e>> \in Seq(M) /\ <<c, e>> = <<c>> \o <<e>>
  <2>1. <<c>> \in Seq(M) /\ <<e>> \in Seq(M)
    BY Singles
  <2>2. <<c, e>> = <<c>> \o <<e>>
    <3> DEFINE x == <<c>> \o <<e>>
               y == <<c, e>>
    <3>1. y \in Seq(M) /\ Len(y) = 2 /\ y[1] = c /\ y[2] = e
      OBVIOUS
    <3>2. x \in Seq(M) /\ Len(x) = 2 /\ x[1] = c /\ x[2] = e
      BY <2>1
    <3> HIDE DEF x, y
    <3>3. \A i \in 1 .. Len(y) : y[i] = x[i]
      BY <3>1, <3>2
    <3>4. y = x
      BY <3>1, <3>2, <3>3, SameSequence
    <3> QED
      BY <3>4 DEF x, y
  <2> QED
    BY <2>1, <2>2
<1>2. ASSUME NEW x \in Seq(M), NEW y \in Seq(M)
      PROVE  (x \o y) \o s = x \o (y \o s)
  OBVIOUS
<1> QED
  BY <1>1, <1>2, Zenon

\* The call begins.
LEMMA InitBegins ==
  ASSUME PrintInit
  PROVE  Begins
<1>1. Whole(asked) \in Seq(Symbols)
  BY InitAsked, FormatParts, Zenon
<1>2. fmt = <<"a", "%">> \o Whole(asked)
  BY Zenon DEF PrintInit, Whole
<1>4. "a" \in Symbols /\ "%" \in Symbols
  BY Zenon DEF Symbols
<1>5. <<"a", "%">> \o Whole(asked) = <<"a">> \o (<<"%">> \o Whole(asked))
  BY <1>1, <1>4, TwoInFront
<1> QED
  BY <1>2, <1>5, Zenon DEF PrintInit, Begins

\* Every step keeps the invariant.
LEMMA StepPrintInv ==
  ASSUME PrintInv, PrintNext
  PROVE  PrintInv'
<1>1. IsAsked(asked) /\ asked' = asked
  BY Zenon DEF PrintInv, PrintNext, Text, Flag, Width, Convert
<1>2. IsAsked(asked)'
  BY <1>1, Zenon
<1>3. "text" # "flags" /\ "text" # "width" /\ "flags" # "width"
  OBVIOUS
<1>4. CASE Begins
  <2>1. Text
    BY <1>3, <1>4, Zenon DEF Begins, PrintNext, Flag, Width, Convert
  <2> QED
    BY <1>1, <1>2, <1>4, <2>1, TextOfBegins, Zenon DEF PrintInv
<1>5. CASE Opens
  <2>1. Text
    BY <1>3, <1>5, Zenon DEF Opens, PrintNext, Flag, Width, Convert
  <2>2. InFlags(0)'
    BY <1>1, <1>5, <2>1, TextOfOpens
  <2>3. 0 \in Nat
    OBVIOUS
  <2> QED
    BY <1>2, <2>2, <2>3, Zenon DEF PrintInv
<1>6. CASE Through
  <2>1. Text
    BY <1>3, <1>6, Zenon DEF Through, PrintNext, Flag, Width, Convert
  <2> QED
    BY <1>1, <1>2, <1>6, <2>1, TextOfThrough, Zenon DEF PrintInv
<1>7. CASE Over
  BY <1>3, <1>7, Zenon DEF Over, PrintNext, Text, Flag, Width, Convert
<1>8. ASSUME NEW k \in Nat, InFlags(k)
      PROVE  PrintInv'
  <2>1. Flag
    BY <1>3, <1>8, Zenon DEF InFlags, PrintNext, Text, Width, Convert
  <2>2. InFlags(k + 1)' \/ InWidth(0)'
    BY <1>1, <1>8, <2>1, FlagOfInFlags
  <2>3. k + 1 \in Nat /\ 0 \in Nat
    OBVIOUS
  <2> QED
    BY <1>2, <2>2, <2>3, Zenon DEF PrintInv
<1>9. ASSUME NEW k \in Nat, InWidth(k)
      PROVE  PrintInv'
  <2>1. Width \/ Convert
    BY <1>3, <1>9, Zenon DEF InWidth, PrintNext, Text, Flag
  <2>2. CASE Width
    <3>1. InWidth(k + 1)'
      BY <1>1, <1>9, <2>2, WidthOfInWidth
    <3>2. k + 1 \in Nat
      OBVIOUS
    <3> QED
      BY <1>2, <3>1, <3>2, Zenon DEF PrintInv
  <2>3. CASE Convert
    <3>1. Through'
      BY <1>1, <1>9, <2>3, ConvertOfInWidth
    <3> QED
      BY <1>2, <3>1, Zenon DEF PrintInv
  <2> QED
    BY <2>1, <2>2, <2>3
<1> QED
  BY <1>4, <1>5, <1>6, <1>7, <1>8, <1>9, Zenon DEF PrintInv

\* What stands between the same characters is the same.
LEMMA Between ==
  ASSUME NEW M, NEW s \in Seq(M), NEW t \in Seq(M), NEW c \in M, NEW e \in M
  PROVE  <<c>> \o s \o <<e>> = <<c>> \o t \o <<e>> <=> s = t
<1>1. <<c>> \o s \in Seq(M) /\ <<c>> \o t \in Seq(M)
  OBVIOUS
<1>3. ASSUME <<c>> \o s = <<c>> \o t
      PROVE  s = t
  <2>1. Tail(<<c>> \o s) = s /\ Tail(<<c>> \o t) = t
    BY NextOf
  <2> QED
    BY <1>3, <2>1, Zenon
<1>4. ASSUME NEW a \in Seq(M), NEW b \in Seq(M), a \o <<e>> = b \o <<e>>
      PROVE  a = b
  <2>1. Len(a \o <<e>>) = Len(a) + 1 /\ Len(b \o <<e>>) = Len(b) + 1
    OBVIOUS
  <2>2. Len(a) = Len(b) /\ Len(a) \in Nat
    <3>1. Len(a) \in Nat /\ Len(b) \in Nat
      OBVIOUS
    <3>2. Len(a) + 1 = Len(b) + 1
      BY <1>4, <2>1, Zenon
    <3> QED
      BY <3>1, <3>2
  <2>3. \A i \in 1 .. Len(a) : (a \o <<e>>)[i] = a[i]
    OBVIOUS
  <2>4. \A i \in 1 .. Len(b) : (b \o <<e>>)[i] = b[i]
    OBVIOUS
  <2>5. \A i \in 1 .. Len(a) : a[i] = b[i]
    BY <1>4, <2>2, <2>3, <2>4, Zenon
  <2> QED
    BY <2>2, <2>5, SameSequence
<1>5. <<c>> \o s \o <<e>> = <<c>> \o t \o <<e>> => <<c>> \o s = <<c>> \o t
  BY <1>1, <1>4, Zenon
<1> QED
  BY <1>3, <1>5, Zenon

\* What stands behind the same character is the same.
LEMMA Behind ==
  ASSUME NEW M, NEW s \in Seq(M), NEW t \in Seq(M), NEW c \in M
  PROVE  <<c>> \o s = <<c>> \o t \o <<>> <=> s = t
<1>1. <<c>> \in Seq(M)
  BY Singles
<1>2. <<c>> \o t \o <<>> = <<c>> \o t
  BY <1>1, Nothing
<1>3. Tail(<<c>> \o s) = s /\ Tail(<<c>> \o t) = t
  BY NextOf
<1> QED
  BY <1>2, <1>3, Zenon

\* The invariant says at the end what C says.
LEMMA InvPrintsAsC ==
  ASSUME PrintInv
  PROVE  PrintsAsC
<1> SUFFICES ASSUME at = "text", fmt = <<>>
             PROVE  buf = <<"a">> \o InC(asked)
                            \o (IF asked.conv = "none" THEN <<>> ELSE <<"b">>)
                      <=> Agrees(asked)
  BY Zenon DEF PrintsAsC
<1>1. IsAsked(asked)
  BY Zenon DEF PrintInv
<1>2. /\ Written(asked) \in Seq(Marks \cup {"a", "b"}) /\ InC(asked) \in Seq(Marks \cup {"a", "b"})
      /\ "a" \in Marks \cup {"a", "b"} /\ "b" \in Marks \cup {"a", "b"}
  <2>1. Marks \subseteq Marks \cup {"a", "b"}
    BY Zenon
  <2>2. Written(asked) \in Seq(Marks) /\ InC(asked) \in Seq(Marks)
    BY <1>1, WrittenIsText, InCIsText
  <2> QED
    BY <2>1, <2>2, Wider, Zenon
<1>3. Written(asked) = InC(asked) <=> Agrees(asked)
  BY <1>1, WrittenAgrees
<1>4. "text" # "flags" /\ "text" # "width"
  OBVIOUS
<1>5. Whole(asked) \in Seq(Symbols) /\ "a" \in Symbols /\ "%" \in Symbols
  BY <1>1, FormatParts, Zenon DEF Symbols
<1>6. ~Begins /\ ~Opens
  <2>1. <<"%">> \o Whole(asked) \in Seq(Symbols) /\ <<"%">> \o Whole(asked) # <<>>
    BY <1>5, NextOf
  <2>2. <<"a">> \o (<<"%">> \o Whole(asked)) # <<>>
    BY <1>5, <2>1, NextOf
  <2> QED
    BY <2>1, <2>2, Zenon DEF Begins, Opens
<1>7. Through \/ Over
  BY <1>4, <1>6, Zenon DEF PrintInv, InFlags, InWidth
<1>8. CASE asked.conv = "none"
  <2>1. buf = <<"a">> \o Written(asked)
    BY <1>7, <1>8, Zenon DEF Through, Over
  <2>2. <<"a">> \o Written(asked) = <<"a">> \o InC(asked) \o <<>> <=> Written(asked) = InC(asked)
    BY <1>2, Behind
  <2> QED
    BY <1>3, <1>8, <2>1, <2>2, Zenon
<1>9. CASE asked.conv # "none"
  <2>1. <<"b">> # <<>>
    OBVIOUS
  <2>2. buf = <<"a">> \o Written(asked) \o <<"b">>
    BY <1>7, <1>9, <2>1, Zenon DEF Through, Over, Last
  <2>3. <<"a">> \o Written(asked) \o <<"b">> = <<"a">> \o InC(asked) \o <<"b">>
          <=> Written(asked) = InC(asked)
    BY <1>2, Between
  <2> QED
    BY <1>3, <1>9, <2>2, <2>3, Zenon
<1> QED
  BY <1>8, <1>9

\* What vsprintf has written at the end of the format is what C's printf writes
\* exactly in the cases of Agrees, for every width of int, every sequence of flags
\* and digits of the width, every number and every string.
THEOREM PrintsAsCAlways == PrintInit /\ [][PrintNext]_printVars => []PrintsAsC
<1>1. PrintInit => PrintInv
  BY InitAsked, InitBegins, Zenon DEF PrintInv
<1>2. PrintInv /\ [PrintNext]_printVars => PrintInv'
  <2>1. ASSUME PrintInv, UNCHANGED printVars
        PROVE  PrintInv'
    BY <2>1, Zenon DEF PrintInv, printVars, Begins, Opens, Through, Over, InFlags, InWidth
  <2> QED
    BY <2>1, StepPrintInv, Zenon
<1>3. PrintInv => PrintsAsC
  BY InvPrintsAsC
<1> QED
  BY <1>1, <1>2, <1>3, PTL
=============================================================================
