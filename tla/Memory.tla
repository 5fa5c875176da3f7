------------------------------- MODULE Memory -------------------------------
(***************************************************************************)
(* Physical pages and copy-on-write: mm/memory.c and the memory part of    *)
(* copyProcess in kernel/process.c.                                        *)
(*                                                                         *)
(* A process is a page of its own for the PROCESS structure, one page      *)
(* table (a data segment of 0xA0 pages fits in one) and a mapping of its   *)
(* virtual pages to page frames.  fork runs with interrupts off and is one *)
(* step.  The page fault handler prints first and the console ends by      *)
(* enabling interrupts: from there each of its accesses to shared state is *)
(* a step, and another process may be scheduled in between.                *)
(***************************************************************************)
EXTENDS Integers, FiniteSets

CONSTANTS Procs,       \* process slots, 0 is the first
          PAGES_SIZE,  \* entries of MEM_MAP
          KERNEL_MEM,  \* frames below this one are never counted or freed
          MainStart,   \* first frame of main memory: a quarter of the memory
          MemPages,    \* frames that are really installed
          NrVPages,    \* virtual pages of a process; task 0 maps v to frame v
          Vals,        \* contents of a page, 0 among them
          Image,       \* contents of the pages of task 0
          Preemptible, \* may the fault handler lose the processor?
          Nil

Frames == 0 .. PAGES_SIZE - 1
VPages == 0 .. NrVPages - 1
Offered == MainStart .. PAGES_SIZE - 1

ASSUME MemoryAssumption ==
  /\ PAGES_SIZE \in Nat /\ KERNEL_MEM \in Nat /\ MainStart \in Nat
  /\ MemPages \in Nat /\ NrVPages \in Nat
  /\ NrVPages <= KERNEL_MEM /\ KERNEL_MEM <= MainStart
  /\ MainStart <= MemPages /\ MemPages <= PAGES_SIZE
  /\ 0 \in Procs /\ 0 \in Vals
  /\ Image \in [VPages -> Vals]
  /\ Preemptible \in BOOLEAN
  /\ Nil \notin Frames \cup VPages

VARIABLES MEM_MAP,  \* uses of each frame
          content,  \* what each frame holds
          live,     \* processes that exist
          pcb,      \* frame of the PROCESS structure
          table,    \* frame of the page table
          pte,      \* page table entries: frame and read/write bit
          cow       \* the fault handler of each process

vars == <<MEM_MAP, content, live, pcb, table, pte, cow>>

Idle == [at |-> "idle", v |-> Nil, old |-> Nil, new |-> Nil]

\* initMemory counts the frames up to a quarter of the memory as used for
\* ever.  Frames beyond the installed memory keep the 0 of the static array.
MapAfterInit == [p \in Frames |-> IF p < MainStart THEN 100 ELSE 0]

Init ==
  /\ MEM_MAP = MapAfterInit
  /\ content = [p \in Frames |-> IF p \in VPages THEN Image[p] ELSE 0]
  /\ live = {0}
  /\ pcb = [s \in Procs |-> Nil]
  /\ table = [s \in Procs |-> Nil]
  /\ pte = [s \in Procs |-> [v \in VPages |-> [frame |-> v, rw |-> s = 0]]]
  /\ cow = [s \in Procs |-> Idle]

---------------------------------------------------------------------------

\* getFreePage takes the lowest frame with no use.
IsFree(p) == MEM_MAP[p] = 0
IsLowestFree(p) == IsFree(p) /\ \A q \in Frames : IsFree(q) => p <= q
NoFree == \A p \in Frames : ~IsFree(p)

\* The processor stays with a fault handler that cannot be preempted; one
\* that found no page spins with interrupts enabled.
Scheduled(s) ==
  \/ Preemptible
  \/ \A u \in Procs \ {s} : cow[u].at \in {"idle", "hang"}

Running(s) == s \in live /\ cow[s].at = "idle" /\ Scheduled(s)

\* Mutant: the child's entries keep the write bit.
ReadOnlyForgotten(t) == t

\* Mutant: the parent's entries keep the write bit.
ProtectedForgotten(t) == t

\* copyPageTables: the child's entries are read-only, and so are the parent's
\* from now on when the frame is not the kernel's; then it counts one more use.
ReadOnly(t) == [v \in VPages |-> [t[v] EXCEPT !.rw = FALSE]]
Protected(t) == [v \in VPages |-> [t[v] EXCEPT !.rw = @ /\ t[v].frame < KERNEL_MEM]]

Shared(t, m) ==
  [p \in Frames |->
     IF p >= KERNEL_MEM THEN m[p] + Cardinality({v \in VPages : t[v].frame = p})
                        ELSE m[p]]

\* copyProcess with the first free frame for the PROCESS structure and the
\* next one for the page table; getFreePage clears what it returns.
Fork(s, c) ==
  /\ Running(s) /\ c \in Procs \ live
  /\ \E p, q \in Frames :
       /\ IsLowestFree(p)
       /\ IsFree(q) /\ q # p /\ \A r \in Frames : IsFree(r) /\ r # p => q <= r
       /\ MEM_MAP' = [Shared(pte[s], MEM_MAP) EXCEPT ![p] = 1, ![q] = 1]
       /\ content' = [content EXCEPT ![p] = 0, ![q] = 0]
       /\ pcb' = [pcb EXCEPT ![c] = p]
       /\ table' = [table EXCEPT ![c] = q]
  /\ live' = live \cup {c}
  /\ pte' = [pte EXCEPT ![c] = ReadOnly(pte[s]), ![s] = Protected(pte[s])]
  /\ UNCHANGED cow

\* Mutant: the page of the PROCESS structure is not given back.
ForkFailsLeak(s) ==
  /\ Running(s)
  /\ \E p \in Frames :
       /\ IsLowestFree(p) /\ \A q \in Frames : IsFree(q) => q = p
       /\ MEM_MAP' = [MEM_MAP EXCEPT ![p] = 1]
  /\ UNCHANGED <<content, live, pcb, table, pte, cow>>

\* Only the page of the PROCESS structure could be had: freePage gives it back.
ForkFails(s) ==
  /\ Running(s)
  /\ \E p \in Frames :
       /\ IsLowestFree(p) /\ \A q \in Frames : IsFree(q) => q = p
       /\ content' = [content EXCEPT ![p] = 0]
  /\ UNCHANGED <<MEM_MAP, live, pcb, table, pte, cow>>

---------------------------------------------------------------------------
(* A write by user code, and the page fault it raises on a read-only page. *)
(* Task 0 maps the kernel's own frames read/write and only pauses after    *)
(* its fork: its writes are not modelled.                                  *)

Write(s, v, x) ==
  /\ Running(s) /\ s # 0 /\ pte[s][v].rw
  /\ content' = [content EXCEPT ![pte[s][v].frame] = x]
  /\ UNCHANGED <<MEM_MAP, live, pcb, table, pte, cow>>

\* unWriteProtectPage: the only user of a frame gets the write bit back, any
\* other process goes on to copy the frame.
WriteFault(s, v) ==
  /\ Running(s) /\ s # 0 /\ ~pte[s][v].rw
  /\ LET old == pte[s][v].frame
     IN  IF old >= KERNEL_MEM /\ MEM_MAP[old] = 1
           THEN pte' = [pte EXCEPT ![s][v].rw = TRUE] /\ UNCHANGED cow
           ELSE /\ cow' = [cow EXCEPT ![s] = [at |-> "find", v |-> v,
                                              old |-> old, new |-> Nil]]
                /\ UNCHANGED pte
  /\ UNCHANGED <<MEM_MAP, content, live, pcb, table>>

At(s, phase) == cow[s].at = phase /\ Scheduled(s)
Goto(s, phase) == cow' = [cow EXCEPT ![s].at = phase]

\* getFreePage finds a frame; without one the handler loops for ever.
FindPage(s) ==
  /\ At(s, "find")
  /\ \/ \E p \in Frames :
          IsLowestFree(p) /\ cow' = [cow EXCEPT ![s].at = "claim", ![s].new = p]
     \/ NoFree /\ Goto(s, "hang")
  /\ UNCHANGED <<MEM_MAP, content, live, pcb, table, pte>>

\* getFreePage marks the frame it found and clears it.
ClaimPage(s) ==
  /\ At(s, "claim")
  /\ MEM_MAP' = [MEM_MAP EXCEPT ![cow[s].new] = 1]
  /\ content' = [content EXCEPT ![cow[s].new] = 0]
  /\ Goto(s, "drop")
  /\ UNCHANGED <<live, pcb, table, pte>>

\* Mutant: the old frame is released twice.
DropOldTwice(s) ==
  /\ At(s, "drop")
  /\ MEM_MAP' = IF cow[s].old >= KERNEL_MEM
                  THEN [MEM_MAP EXCEPT ![cow[s].old] = @ - 2] ELSE MEM_MAP
  /\ Goto(s, "map")
  /\ UNCHANGED <<content, live, pcb, table, pte>>

DropOld(s) ==
  /\ At(s, "drop")
  /\ MEM_MAP' = IF cow[s].old >= KERNEL_MEM
                  THEN [MEM_MAP EXCEPT ![cow[s].old] = @ - 1] ELSE MEM_MAP
  /\ Goto(s, "map")
  /\ UNCHANGED <<content, live, pcb, table, pte>>

MapNew(s) ==
  /\ At(s, "map")
  /\ pte' = [pte EXCEPT ![s][cow[s].v] = [frame |-> cow[s].new, rw |-> TRUE]]
  /\ Goto(s, "copy")
  /\ UNCHANGED <<MEM_MAP, content, live, pcb, table>>

\* Mutant: the new frame is mapped but not filled.
CopyPageForgotten(s) ==
  /\ At(s, "copy")
  /\ cow' = [cow EXCEPT ![s] = Idle]
  /\ UNCHANGED <<MEM_MAP, content, live, pcb, table, pte>>

CopyPage(s) ==
  /\ At(s, "copy")
  /\ content' = [content EXCEPT ![cow[s].new] = content[cow[s].old]]
  /\ cow' = [cow EXCEPT ![s] = Idle]
  /\ UNCHANGED <<MEM_MAP, live, pcb, table, pte>>

Next ==
  \E s \in Procs :
    \/ \E c \in Procs : Fork(s, c)
    \/ ForkFails(s)
    \/ \E v \in VPages, x \in Vals : Write(s, v, x)
    \/ \E v \in VPages : WriteFault(s, v)
    \/ FindPage(s) \/ ClaimPage(s) \/ DropOld(s) \/ MapNew(s) \/ CopyPage(s)

Spec == Init /\ [][Next]_vars

---------------------------------------------------------------------------
(* Properties.                                                             *)

\* The types; a count stays within the signed char that MEM_MAP stores and
\* never goes below zero, however many processes share a frame.
TypeOK ==
  /\ MEM_MAP \in [Frames -> 0 .. 127]
  /\ content \in [Frames -> Vals]
  /\ live \in SUBSET Procs
  /\ pcb \in [Procs -> Frames \cup {Nil}]
  /\ table \in [Procs -> Frames \cup {Nil}]
  /\ pte \in [Procs -> [VPages -> [frame : Frames, rw : BOOLEAN]]]
  /\ cow \in [Procs -> [at  : {"idle", "find", "claim", "drop", "map", "copy", "hang"},
                        v   : VPages \cup {Nil},
                        old : Frames \cup {Nil},
                        new : Frames \cup {Nil}]]

Mapped(p) == {sv \in live \X VPages : pte[sv[1]][sv[2]].frame = p}

\* The count of a frame of main memory is the number of page table entries,
\* page tables and PROCESS structures that use it: no page leaks and none is
\* given out while it is still in use.
CountsAreUses ==
  (\A s \in live : cow[s].at \in {"idle", "find", "hang"}) =>
    \A p \in Offered :
      MEM_MAP[p] = Cardinality(Mapped(p))
                   + Cardinality({s \in live : pcb[s] = p})
                   + Cardinality({s \in live : table[s] = p})

\* A frame that one process may write is mapped by no other entry.
WritableIsPrivate ==
  \A s \in live \ {0}, v \in VPages :
    pte[s][v].rw => Mapped(pte[s][v].frame) = {<<s, v>>}

\* No process but task 0 ever gets write access to a frame of the kernel.
KernelNotWritable ==
  \A s \in live \ {0}, v \in VPages :
    pte[s][v].rw => pte[s][v].frame >= KERNEL_MEM

\* A page that is in use exists.
UsedPagesExist == \A p \in Offered : MEM_MAP[p] > 0 => p < MemPages

\* The frame a fault handler copies from is neither free nor written by
\* another process before the copy is made.
CopySourceKept ==
  \A s \in live : cow[s].at \in {"map", "copy"} /\ cow[s].old >= KERNEL_MEM =>
    /\ MEM_MAP[cow[s].old] > 0
    /\ \A u \in live \ {s}, v \in VPages :
         pte[u][v].frame = cow[s].old => ~pte[u][v].rw

\* While its page is being copied a process still sees the old frame.
Seen(s, v) == IF cow[s].at = "copy" /\ cow[s].v = v THEN cow[s].old
                                                    ELSE pte[s][v].frame

View == [s \in live |-> [v \in VPages |-> content[Seen(s, v)]]]

\* No step of the page fault handler changes what any process reads.
FaultsKeepMemory == [][cow' # cow => View' = View]_vars

Cow == INSTANCE CowSpec WITH view <- View

\* Processes share frames but not memory: fork copies and writes are private.
ImplementsCow == Cow!Spec
===========================================================================
