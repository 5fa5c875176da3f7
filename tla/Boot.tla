-------------------------------- MODULE Boot --------------------------------
(***************************************************************************)
(* Loading a file from the FAT12 floppy: boot/boot.asm loads SETUP.BIN and *)
(* boot/setup.asm KERNEL.BIN, both with readFATValue of lib/floppylib.inc. *)
(*                                                                         *)
(* The sector with number c of a file is c itself.  A segment register     *)
(* counts 64 KB, an offset sectors.  The disk is external: what the tables *)
(* of a file system contain that has the file.  A read that fails is       *)
(* repeated until it succeeds, and what it prints is left out.             *)
(***************************************************************************)
EXTENDS Integers, Sequences, FiniteSets

CONSTANTS BPB_BytsPerSec,
          SectorEntries,        \* THE_SECTOR_FILE_COUNT
          RootSectors,          \* RootDirctoryCount
          SegmentSectors,       \* 64 KB in sectors
          BASE,                 \* BASE_OF_KERNEL or BASE_OF_SETUP
          Clusters,             \* numbers of the data clusters
          MaxFile               \* bound: clusters of the file

ASSUME BootAssumption ==
  /\ {BPB_BytsPerSec, SectorEntries, RootSectors, SegmentSectors, MaxFile} \subseteq Nat \ {0}
  /\ Clusters \subseteq 2 .. 4086 /\ IsFiniteSet(Clusters)
  /\ BASE \in Nat \ {0, 1}

VARIABLES loader,       \* "boot" or "setup"
          file,         \* what the disk holds: the clusters of the file in order
          entry,        \* and its place in the root directory, 0 for nowhere
          stage,        \* "root", "data", or how it ended
          sector,       \* ax: root sectors done, or the cluster to load
          es, bx,       \* where the next one goes
          memory        \* what was loaded to each segment and offset

OFFSET == 0     \* OFFSET_OF_KERNEL, OFFSET_OF_SETUP

bootVars == <<loader, file, entry, stage, sector, es, bx, memory>>

---------------------------------------------------------------------------
(* The disk.                                                               *)

\* The table of file f: the successor of each cluster, FFF behind the last.
Successor(f, c) ==
  IF \E i \in 1 .. Len(f) : f[i] = c
    THEN LET i == CHOOSE i \in 1 .. Len(f) : f[i] = c
         IN  IF i = Len(f) THEN 4095 ELSE f[i + 1]
    ELSE 0

\* Two entries are packed into three bytes.
FatByte(f, n) ==
  LET c == 2 * (n \div 3)
  IN  CASE n % 3 = 0 -> Successor(f, c) % 256
        [] n % 3 = 1 -> Successor(f, c) \div 256 + 16 * (Successor(f, c + 1) % 16)
        [] OTHER     -> Successor(f, c + 1) \div 16

---------------------------------------------------------------------------

Files == UNION {{f \in [1 .. n -> Clusters] : \A i, j \in 1 .. n : f[i] = f[j] => i = j} :
                  n \in 1 .. MaxFile}

BootInit ==
  /\ loader \in {"boot", "setup"}
  /\ file \in Files /\ entry \in 0 .. RootSectors * SectorEntries
  /\ stage = "root" /\ sector = 0
  /\ es = BASE /\ bx = OFFSET
  /\ memory = [a \in {} |-> 0]

\* findTheLoaer, findTheKernel: is the entry in this sector of the directory?
Found == entry \in sector * SectorEntries + 1 .. (sector + 1) * SectorEntries

TraverseRoot ==
  /\ stage = "root"
  /\ \/ Found /\ stage' = "data" /\ sector' = file[1]
     \/ /\ ~Found /\ sector' = sector + 1
        /\ stage' = IF sector + 1 = RootSectors THEN "not found" ELSE stage
  /\ UNCHANGED <<loader, file, entry, es, bx, memory>>

\* Mutant: one sector of the table is read, so the byte behind it is not.
readShort(n, first) ==
  IF n \div BPB_BytsPerSec = first THEN FatByte(file, n) ELSE 0

\* The byte n of the table, two sectors of which, from the given one on, are read.
readSector(n, first) ==
  IF n \div BPB_BytsPerSec \in {first, first + 1} THEN FatByte(file, n) ELSE 0

readFATValue(c) ==
  LET offset == (3 * c) \div 2
      first  == offset \div BPB_BytsPerSec
      word   == readSector(offset, first) + 256 * readSector(offset + 1, first)
  IN  IF (3 * c) % 2 = 0 THEN word % 4096 ELSE word \div 16

\* Where the sector behind bx goes.  At the end of a segment setup.asm takes
\* the next one after the offset, not after es; boot.asm begins again.
Advance ==
  /\ bx' = (bx + 1) % SegmentSectors
  /\ es' = IF loader = "setup" /\ bx' = OFFSET THEN OFFSET + 1 ELSE es

LoadSector ==
  /\ stage = "data"
  /\ memory' = [a \in DOMAIN memory \cup {<<es, bx>>} |->
                  IF a = <<es, bx>> THEN sector ELSE memory[a]]
  /\ sector' = readFATValue(sector)
  /\ \/ sector' >= 4087 /\ stage' = "loaded" /\ UNCHANGED <<es, bx>>
     \/ sector' < 4087 /\ Advance /\ UNCHANGED stage
  /\ UNCHANGED <<loader, file, entry>>

BootNext == TraverseRoot \/ LoadSector

---------------------------------------------------------------------------

\* The place of the i-th sector when a file lies in one piece from BASE on.
Place(i) == <<BASE + (i - 1) \div SegmentSectors, (i - 1) % SegmentSectors>>

InOnePiece == /\ DOMAIN memory = {Place(i) : i \in 1 .. Len(file)}
              /\ \A i \in 1 .. Len(file) : memory[Place(i)] = file[i]

\* A file that the root directory names is found, another one is not; no sector
\* but its own is ever loaded; and when one that fits in a segment has been loaded
\* (LOOP_LOADING_SETUP_FILE, LOOP_LOADING_KERNEL_FILE), it lies in order and in
\* one piece.
FileLoaded ==
  /\ stage = "not found" => entry = 0
  /\ stage = "data" => \E i \in 1 .. Len(file) : sector = file[i]
  /\ stage = "loaded" => entry # 0 /\ (Len(file) <= SegmentSectors => InOnePiece)

\* What setup.asm says of a kernel that is longer than a segment (lines 90 to
\* 95): "if a segment is used up", "the segment value plus 0x1000", "the offset
\* goes on with OFFSET_OF_KERNEL"; so it lies in one piece too.
KernelLoaded == loader = "setup" /\ stage = "loaded" => InOnePiece
=============================================================================
