---------------------------- MODULE MemoryProofs ----------------------------
(***************************************************************************)
(* Physical pages and copy-on-write, for any number of processes, frames   *)
(* and pages.  The first part holds with the fault handler preempted       *)
(* anywhere: the kernel's own frames stay out of reach.  The second is     *)
(* about a handler that keeps the processor: the counts of MEM_MAP are the *)
(* uses of the frames, a frame that can be written is private, and the     *)
(* memories the processes see are those of CowSpec.                        *)
(***************************************************************************)
EXTENDS Memory, FiniteSetTheorems, TLAPS

\* A frame a process may map: the kernel's, or one of main memory.
Mappable == {p \in Frames : p < KERNEL_MEM \/ p >= MainStart}

\* The frames up to a quarter of the memory are never free.
Reserved == \A p \in Frames : p < MainStart => MEM_MAP[p] \in Nat \ {0}

\* What the entries map, and which of them may be written.
Entries ==
  \A s \in Procs, v \in VPages :
    /\ pte[s][v].frame \in Mappable
    /\ s # 0 /\ pte[s][v].rw => pte[s][v].frame >= MainStart

\* The frames a fault handler works on.
Handler ==
  \A s \in Procs :
    /\ cow[s].at # "idle" => cow[s].old \in Mappable /\ cow[s].v \in VPages
    /\ cow[s].at \in {"claim", "drop", "map", "copy"} =>
         cow[s].new \in Frames /\ cow[s].new >= MainStart

\* The states of a fault handler.
Phases == {"idle", "find", "claim", "drop", "map", "copy", "hang"}
Handlers == [at  : Phases,
             v   : VPages \cup {Nil},
             old : Frames \cup {Nil},
             new : Frames \cup {Nil}]

Types ==
  /\ MEM_MAP \in [Frames -> Int]
  /\ live \in SUBSET Procs
  /\ pte \in [Procs -> [VPages -> [frame : Frames, rw : BOOLEAN]]]
  /\ cow \in [Procs -> Handlers]

Inv == Types /\ Reserved /\ Entries /\ Handler

\* The bounds of the frames, as integers.
LEMMA Bounds ==
  /\ Frames \subseteq Int /\ VPages \subseteq Int /\ VPages \subseteq Frames
  /\ KERNEL_MEM \in Nat /\ MainStart \in Nat /\ KERNEL_MEM <= MainStart
  /\ \A v \in VPages : v < KERNEL_MEM
  /\ 0 \in Procs /\ Nil \notin Frames /\ Nil \notin VPages
  BY MemoryAssumption DEF Frames, VPages

\* A free frame is one of main memory.
LEMMA FreeIsOffered ==
  ASSUME Inv, NEW p \in Frames, IsFree(p)
  PROVE  p >= MainStart
  BY Bounds DEF Inv, Reserved, IsFree

\* A mappable frame is the kernel's or one of main memory.
LEMMA MappableSplits ==
  ASSUME NEW p \in Mappable
  PROVE  p >= KERNEL_MEM <=> p >= MainStart
<1>1. p \in Int /\ (p < KERNEL_MEM \/ p >= MainStart)
  BY Bounds DEF Mappable
<1> QED
  BY <1>1, Bounds

\* Counting the entries of a table that map a frame gives a natural number.
LEMMA CountType ==
  ASSUME NEW t, NEW p
  PROVE  Cardinality({v \in VPages : t[v].frame = p}) \in Nat
<1>1. IsFiniteSet(VPages)
  BY FS_Interval, MemoryAssumption DEF VPages
<1>2. IsFiniteSet({v \in VPages : t[v].frame = p})
  BY <1>1, FS_Subset
<1> QED
  BY <1>2, FS_CardinalityType

\* fork only adds uses.
LEMMA SharedType ==
  ASSUME NEW t, NEW m \in [Frames -> Int]
  PROVE  /\ Shared(t, m) \in [Frames -> Int]
         /\ \A p \in Frames : Shared(t, m)[p] >= m[p]
<1> DEFINE n(p) == Cardinality({v \in VPages : t[v].frame = p})
<1>1. \A p \in Frames : n(p) \in Nat
  BY CountType
<1>2. Shared(t, m) = [p \in Frames |-> IF p >= KERNEL_MEM THEN m[p] + n(p) ELSE m[p]]
  BY DEF Shared
<1>3. \A p \in Frames : m[p] \in Int
  OBVIOUS
<1> HIDE DEF n
<1> QED
  BY <1>1, <1>2, <1>3

\* Going on to another phase changes nothing else of a handler.
LEMMA GotoType ==
  ASSUME cow \in [Procs -> Handlers], NEW s \in Procs, NEW phase \in Phases,
         Goto(s, phase)
  PROVE  /\ cow' \in [Procs -> Handlers]
         /\ cow'[s].at = phase /\ cow'[s].v = cow[s].v
         /\ cow'[s].old = cow[s].old /\ cow'[s].new = cow[s].new
         /\ \A u \in Procs \ {s} : cow'[u] = cow[u]
<1>1. cow' = [cow EXCEPT ![s] = [cow[s] EXCEPT !.at = phase]]
  BY DEF Goto
<1>2. cow[s] \in Handlers
  OBVIOUS
<1>3. [cow[s] EXCEPT !.at = phase] \in Handlers
  BY <1>2 DEF Handlers
<1> QED
  BY <1>1, <1>2, <1>3 DEF Handlers

\* The invariant of the first state.
LEMMA InitMemInv == Init => Inv
<1> SUFFICES ASSUME Init PROVE Inv
  OBVIOUS
<1>1. Types
  BY Bounds DEF Init, Types, MapAfterInit, Idle, Handlers, Phases
<1>2. Reserved
  BY DEF Init, Reserved, MapAfterInit
<1>3. Entries
  BY Bounds DEF Init, Entries, Mappable
<1>4. Handler
  BY DEF Init, Handler, Idle
<1> QED
  BY <1>1, <1>2, <1>3, <1>4 DEF Inv

\* copyPageTables changes nothing but write bits: the child gets none, and the
\* parent keeps those on frames of the kernel.
LEMMA ProtectedEntries ==
  ASSUME NEW t \in [VPages -> [frame : Frames, rw : BOOLEAN]]
  PROVE  /\ ReadOnly(t) \in [VPages -> [frame : Frames, rw : BOOLEAN]]
         /\ Protected(t) \in [VPages -> [frame : Frames, rw : BOOLEAN]]
         /\ \A v \in VPages : /\ ReadOnly(t)[v].frame = t[v].frame
                              /\ ~ReadOnly(t)[v].rw
                              /\ Protected(t)[v].frame = t[v].frame
                              /\ Protected(t)[v].rw = (t[v].rw /\ t[v].frame < KERNEL_MEM)
<1>1. \A v \in VPages : t[v] \in [frame : Frames, rw : BOOLEAN]
  OBVIOUS
<1>2. ASSUME NEW e \in [frame : Frames, rw : BOOLEAN], NEW w \in BOOLEAN
      PROVE  /\ [e EXCEPT !.rw = w] \in [frame : Frames, rw : BOOLEAN]
             /\ [e EXCEPT !.rw = w].frame = e.frame
             /\ [e EXCEPT !.rw = w].rw = w
  OBVIOUS
<1>3. \A v \in VPages :
        Protected(t)[v] =
          [t[v] EXCEPT !.rw = t[v].rw /\ t[v].frame < KERNEL_MEM]
  BY <1>1 DEF Protected
<1>4. \A v \in VPages : ReadOnly(t)[v] = [t[v] EXCEPT !.rw = FALSE]
  BY DEF ReadOnly
<1>5. \A v \in VPages :
        /\ Protected(t)[v] \in [frame : Frames, rw : BOOLEAN]
        /\ Protected(t)[v].frame = t[v].frame
        /\ Protected(t)[v].rw = (t[v].rw /\ t[v].frame < KERNEL_MEM)
  <2> SUFFICES ASSUME NEW v \in VPages
               PROVE  /\ Protected(t)[v] \in [frame : Frames, rw : BOOLEAN]
                      /\ Protected(t)[v].frame = t[v].frame
                      /\ Protected(t)[v].rw
                           = (t[v].rw /\ t[v].frame < KERNEL_MEM)
    OBVIOUS
  <2> DEFINE w == t[v].rw /\ t[v].frame < KERNEL_MEM
  <2>1. w \in BOOLEAN /\ t[v] \in [frame : Frames, rw : BOOLEAN]
    BY <1>1
  <2>2. Protected(t)[v] = [t[v] EXCEPT !.rw = w]
    BY <1>3
  <2> HIDE DEF w
  <2>3. /\ Protected(t)[v] \in [frame : Frames, rw : BOOLEAN]
        /\ Protected(t)[v].frame = t[v].frame
        /\ Protected(t)[v].rw = w
    BY <1>2, <2>1, <2>2
  <2> QED
    BY <2>3 DEF w
<1>6. \A v \in VPages :
        /\ ReadOnly(t)[v] \in [frame : Frames, rw : BOOLEAN]
        /\ ReadOnly(t)[v].frame = t[v].frame
        /\ ~ReadOnly(t)[v].rw
  BY <1>1, <1>2, <1>4, ZenonT(60)
<1>7. /\ ReadOnly(t) \in [VPages -> [frame : Frames, rw : BOOLEAN]]
      /\ Protected(t) \in [VPages -> [frame : Frames, rw : BOOLEAN]]
  BY <1>5, <1>6 DEF ReadOnly, Protected
<1> QED
  BY <1>5, <1>6, <1>7

\* fork: the child's entries are read-only copies of the parent's.
LEMMA ForkInv ==
  ASSUME Inv, NEW s \in Procs, NEW c \in Procs, Fork(s, c)
  PROVE  Inv'
<1> USE Bounds
<1>1. PICK p \in Frames, q \in Frames :
        /\ IsFree(p) /\ IsFree(q)
        /\ MEM_MAP' = [Shared(pte[s], MEM_MAP) EXCEPT ![p] = 1, ![q] = 1]
  BY DEF Fork, IsLowestFree
<1>2. p >= MainStart /\ q >= MainStart
  BY <1>1, FreeIsOffered
<1>3. /\ Shared(pte[s], MEM_MAP) \in [Frames -> Int]
      /\ \A r \in Frames : Shared(pte[s], MEM_MAP)[r] >= MEM_MAP[r]
  BY SharedType DEF Inv, Types
<1>4. /\ pte' = [pte EXCEPT ![c] = ReadOnly(pte[s]), ![s] = Protected(pte[s])]
      /\ live' = live \cup {c} /\ cow' = cow /\ c # s
  BY DEF Fork, Running
<1>5. /\ ReadOnly(pte[s]) \in [VPages -> [frame : Frames, rw : BOOLEAN]]
      /\ Protected(pte[s]) \in [VPages -> [frame : Frames, rw : BOOLEAN]]
      /\ \A v \in VPages : /\ ReadOnly(pte[s])[v].frame = pte[s][v].frame
                           /\ ~ReadOnly(pte[s])[v].rw
                           /\ Protected(pte[s])[v].frame = pte[s][v].frame
                           /\ Protected(pte[s])[v].rw => pte[s][v].rw
  BY ProtectedEntries DEF Inv, Types
<1>6. Types'
  BY <1>1, <1>3, <1>4, <1>5 DEF Inv, Types
<1>7. Reserved'
  <2> SUFFICES ASSUME NEW r \in Frames, r < MainStart
               PROVE  MEM_MAP'[r] \in Nat \ {0}
    BY DEF Reserved
  <2>1. r # p /\ r # q
    BY <1>2
  <2>2. MEM_MAP'[r] = Shared(pte[s], MEM_MAP)[r]
    BY <1>1, <1>3, <2>1
  <2> QED
    BY <1>3, <2>2 DEF Inv, Reserved
<1>8. Entries'
  BY <1>4, <1>5, SMTT(60) DEF Inv, Types, Entries, Mappable
<1>9. Handler'
  BY <1>4 DEF Inv, Handler, Mappable
<1> QED
  BY <1>6, <1>7, <1>8, <1>9 DEF Inv

\* A step of a fault handler.
LEMMA HandlerInv ==
  ASSUME Inv, NEW s \in Procs,
         FindPage(s) \/ ClaimPage(s) \/ DropOld(s) \/ MapNew(s) \/ CopyPage(s)
  PROVE  Inv'
<1> USE Bounds
<1>1. CASE FindPage(s)
  <2>1. UNCHANGED <<MEM_MAP, live, pte>>
    BY <1>1 DEF FindPage
  <2>2. cow[s].at = "find"
    BY <1>1 DEF FindPage, At
  <2>3. CASE NoFree /\ Goto(s, "hang")
    <3>1. Types'
      BY <2>1, <2>3, GotoType DEF Inv, Types, Phases
    <3>2. Reserved' /\ Entries'
      BY <2>1 DEF Inv, Reserved, Entries, Mappable
    <3>3. Handler'
      BY <2>2, <2>3, GotoType DEF Inv, Types, Handler, Mappable, Phases
    <3> QED
      BY <3>1, <3>2, <3>3 DEF Inv
  <2>4. ASSUME NEW p \in Frames, IsLowestFree(p),
               cow' = [cow EXCEPT ![s].at = "claim", ![s].new = p]
        PROVE  Inv'
    <3>1. p >= MainStart
      BY <2>4, FreeIsOffered DEF IsLowestFree
    <3>2. Types'
      BY <2>1, <2>4, ZenonT(60) DEF Inv, Types, Handlers, Phases
    <3>3. Reserved' /\ Entries'
      BY <2>1 DEF Inv, Reserved, Entries, Mappable
    <3>4. Handler'
      BY <2>2, <2>4, <3>1 DEF Inv, Types, Handlers, Handler, Mappable
    <3> QED
      BY <3>2, <3>3, <3>4 DEF Inv
  <2> QED
    BY <1>1, <2>3, <2>4 DEF FindPage
<1>2. CASE ClaimPage(s)
  <2>1. /\ cow[s].at = "claim" /\ cow[s].new \in Frames /\ cow[s].new >= MainStart
        /\ UNCHANGED <<live, pte>>
        /\ MEM_MAP' = [MEM_MAP EXCEPT ![cow[s].new] = 1]
        /\ cow' = [cow EXCEPT ![s].at = "drop"]
    BY <1>2 DEF ClaimPage, At, Goto, Inv, Handler
  <2>2. Types'
    <3>1. cow' \in [Procs -> Handlers]
      BY <2>1, GotoType DEF Inv, Types, Goto, Phases
    <3>2. MEM_MAP' \in [Frames -> Int]
      BY <2>1, Bounds DEF Inv, Types
    <3> QED
      BY <2>1, <3>1, <3>2 DEF Inv, Types
  <2>3. Entries'
    BY <2>1 DEF Inv, Entries, Mappable
  <2>4. Reserved'
    BY <2>1 DEF Inv, Types, Reserved
  <2>5. Handler'
    BY <2>1, GotoType DEF Inv, Types, Handler, Mappable, Goto, Phases
  <2> QED
    BY <2>2, <2>3, <2>4, <2>5 DEF Inv
<1>3. CASE DropOld(s)
  <2>1. /\ cow[s].at = "drop" /\ cow[s].old \in Mappable
        /\ UNCHANGED <<live, pte>>
        /\ cow' = [cow EXCEPT ![s].at = "map"]
        /\ \/ MEM_MAP' = MEM_MAP
           \/ /\ cow[s].old >= KERNEL_MEM
              /\ MEM_MAP' = [MEM_MAP EXCEPT ![cow[s].old] = @ - 1]
    BY <1>3 DEF DropOld, At, Goto, Inv, Handler
  <2>2. Types'
    <3>1. cow' \in [Procs -> Handlers]
      BY <2>1, GotoType DEF Inv, Types, Goto, Phases
    <3>2. MEM_MAP' \in [Frames -> Int]
      BY <2>1, Bounds DEF Inv, Types
    <3> QED
      BY <2>1, <3>1, <3>2 DEF Inv, Types
  <2>3. Entries'
    BY <2>1 DEF Inv, Entries, Mappable
  <2>4. Reserved'
    BY <2>1 DEF Inv, Types, Reserved, Mappable
  <2>5. Handler'
    BY <2>1, GotoType DEF Inv, Types, Handler, Mappable, Goto, Phases
  <2> QED
    BY <2>2, <2>3, <2>4, <2>5 DEF Inv
<1>4. CASE MapNew(s)
  <2>1. /\ cow[s].at = "map" /\ cow[s].new \in Frames /\ cow[s].new >= MainStart
        /\ cow[s].v \in VPages
        /\ UNCHANGED <<MEM_MAP, live>>
        /\ cow' = [cow EXCEPT ![s].at = "copy"]
        /\ pte' = [pte EXCEPT ![s][cow[s].v] = [frame |-> cow[s].new, rw |-> TRUE]]
    BY <1>4 DEF MapNew, At, Goto, Inv, Handler
  <2>2. Types'
    <3>1. cow' \in [Procs -> Handlers]
      BY <2>1, GotoType DEF Inv, Types, Goto, Phases
    <3> QED
      BY <2>1, <3>1 DEF Inv, Types
  <2>3. Reserved'
    BY <2>1 DEF Inv, Reserved
  <2>4. Entries'
    BY <2>1 DEF Inv, Types, Entries, Mappable
  <2>5. Handler'
    BY <2>1, GotoType, SMTT(60) DEF Inv, Types, Handler, Mappable, Goto, Phases
  <2> QED
    BY <2>2, <2>3, <2>4, <2>5 DEF Inv
<1>5. CASE CopyPage(s)
  <2>1. cow' = [cow EXCEPT ![s] = Idle] /\ UNCHANGED <<MEM_MAP, live, pte>>
    BY <1>5 DEF CopyPage
  <2>2. Types'
    BY <2>1 DEF Idle, Inv, Types, Handlers, Phases
  <2>3. Reserved' /\ Entries'
    BY <2>1 DEF Inv, Reserved, Entries, Mappable
  <2>4. Handler'
    BY <2>1 DEF Idle, Inv, Types, Handler, Mappable
  <2> QED
    BY <2>2, <2>3, <2>4 DEF Inv
<1> QED
  BY <1>1, <1>2, <1>3, <1>4, <1>5

\* A write fault: the write bit comes back only for a counted frame.
LEMMA FaultInv ==
  ASSUME Inv, NEW s \in Procs, NEW v \in VPages, WriteFault(s, v)
  PROVE  Inv'
<1> USE Bounds
<1>1. /\ pte[s][v].frame \in Mappable /\ pte[s][v].frame \in Frames
      /\ UNCHANGED <<MEM_MAP, live>>
  BY DEF WriteFault, Inv, Entries, Mappable
<1>2. CASE pte[s][v].frame >= KERNEL_MEM /\ MEM_MAP[pte[s][v].frame] = 1
  <2>1. pte' = [pte EXCEPT ![s][v].rw = TRUE] /\ cow' = cow
    BY <1>2 DEF WriteFault
  <2>2. pte[s][v].frame >= MainStart
    BY <1>1, <1>2, MappableSplits
  <2>3. Types'
    <3>1. pte[s] \in [VPages -> [frame : Frames, rw : BOOLEAN]]
      BY DEF Inv, Types
    <3>2. [pte[s][v] EXCEPT !.rw = TRUE] \in [frame : Frames, rw : BOOLEAN]
      BY <3>1
    <3>3. pte' = [pte EXCEPT ![s] = [pte[s] EXCEPT ![v] =
                                       [pte[s][v] EXCEPT !.rw = TRUE]]]
      BY <2>1
    <3>4. pte' \in [Procs -> [VPages -> [frame : Frames, rw : BOOLEAN]]]
      BY <3>1, <3>2, <3>3 DEF Inv, Types
    <3> QED
      BY <1>1, <2>1, <3>4 DEF Inv, Types
  <2>4. Reserved' /\ Handler'
    BY <1>1, <2>1 DEF Inv, Reserved, Handler, Mappable
  <2>5. Entries'
    BY <2>1, <2>2 DEF Inv, Types, Entries, Mappable
  <2> QED
    BY <2>3, <2>4, <2>5 DEF Inv
<1>3. CASE ~(pte[s][v].frame >= KERNEL_MEM /\ MEM_MAP[pte[s][v].frame] = 1)
  <2>1. /\ pte' = pte
        /\ cow' = [cow EXCEPT ![s] = [at |-> "find", v |-> v,
                                      old |-> pte[s][v].frame, new |-> Nil]]
    BY <1>3 DEF WriteFault
  <2>2. Types'
    BY <1>1, <2>1 DEF Inv, Types, Handlers, Phases
  <2>3. Reserved' /\ Entries'
    BY <1>1, <2>1 DEF Inv, Reserved, Entries, Mappable
  <2>4. Handler'
    BY <1>1, <2>1 DEF Inv, Types, Handler, Mappable
  <2> QED
    BY <2>2, <2>3, <2>4 DEF Inv
<1> QED
  BY <1>2, <1>3

\* Every step keeps the invariant.
LEMMA NextMemInv == Inv /\ [Next]_vars => Inv'
<1> SUFFICES ASSUME Inv, [Next]_vars PROVE Inv'
  OBVIOUS
<1>1. CASE \E s \in Procs : ForkFails(s) \/ \E v \in VPages, x \in Vals : Write(s, v, x)
  BY <1>1 DEF ForkFails, Write, Inv, Types, Reserved, Entries, Handler, Mappable
<1>2. CASE \E s, c \in Procs : Fork(s, c)
  BY <1>2, ForkInv
<1>3. CASE \E s \in Procs, v \in VPages : WriteFault(s, v)
  BY <1>3, FaultInv
<1>4. CASE \E s \in Procs : \/ FindPage(s) \/ ClaimPage(s) \/ DropOld(s)
                            \/ MapNew(s) \/ CopyPage(s)
  BY <1>4, HandlerInv
<1>5. CASE UNCHANGED vars
  BY <1>5 DEF vars, Inv, Types, Reserved, Entries, Handler, Mappable
<1> QED
  BY <1>1, <1>2, <1>3, <1>4, <1>5 DEF Next

\* Whatever is forked, faulted and preempted, no process but task 0 can write
\* to a frame of the kernel.
THEOREM KernelFramesSafe == Spec => []KernelNotWritable
<1>1. Inv => KernelNotWritable
  <2> SUFFICES ASSUME Inv, NEW s \in live \ {0}, NEW v \in VPages, pte[s][v].rw
               PROVE  pte[s][v].frame >= KERNEL_MEM
    BY DEF KernelNotWritable
  <2>1. s \in Procs /\ pte[s][v].frame \in Mappable
    BY DEF Inv, Types, Entries
  <2>2. pte[s][v].frame >= MainStart
    BY <2>1 DEF Inv, Entries
  <2> QED
    BY <2>1, <2>2, MappableSplits
<1> QED
  BY <1>1, InitMemInv, NextMemInv, PTL DEF Spec

---------------------------------------------------------------------------
(* Copy-on-write: what is counted, and what the handler at work holds.     *)


\* The steps of a fault handler that nobody may come between.
Busy == {"find", "claim", "drop", "map", "copy"}

\* The number of uses of a frame.
PcbUsers(p) == {s \in live : pcb[s] = p}
TableUsers(p) == {s \in live : table[s] = p}
Count(p) == Cardinality(Mapped(p)) + Cardinality(PcbUsers(p)) + Cardinality(TableUsers(p))
Unused(p) == Mapped(p) = {} /\ PcbUsers(p) = {} /\ TableUsers(p) = {}

DataTypes ==
  /\ content \in [Frames -> Vals]
  /\ pcb \in [Procs -> Frames \cup {Nil}] /\ table \in [Procs -> Frames \cup {Nil}]
  /\ IsFiniteSet(live) /\ 0 \in live

\* Only one handler is at work, on behalf of a live process that is not the
\* first; one that found no page stays where it is.
Alone ==
  /\ \A s \in Procs : cow[s].at # "idle" => s \in live /\ s # 0
  /\ \A s, u \in Procs : cow[s].at \in Busy /\ cow[u].at \in Busy => s = u

\* What the frames of the handler at work are: the old one is mapped until the
\* new one takes its place, and nobody has a use for that before.
Working ==
  \A s \in Procs :
    /\ cow[s].at \in {"find", "claim", "drop", "map"} => pte[s][cow[s].v].frame = cow[s].old
    /\ cow[s].at = "claim" => IsFree(cow[s].new)
    /\ cow[s].at \in {"drop", "map"} => Unused(cow[s].new)
    /\ cow[s].at = "copy" => pte[s][cow[s].v].frame = cow[s].new /\ pte[s][cow[s].v].rw

\* Between ClaimPage and MapNew the new frame is counted and not yet used,
\* and after DropOld the old one is used and not counted any more.
Counted ==
  \A p \in Offered :
    /\ (\A s \in Procs : cow[s].at \notin {"drop", "map"}) => MEM_MAP[p] = Count(p)
    /\ \A s \in Procs : cow[s].at \in {"drop", "map"} =>
         MEM_MAP[p] = Count(p) + (IF p = cow[s].new THEN 1 ELSE 0)
                               - (IF cow[s].at = "map" /\ p = cow[s].old THEN 1 ELSE 0)

\* A process has at most one use for a frame of main memory.
UsedOnce ==
  \A s \in live, p \in Offered :
    /\ \A v, w \in VPages : pte[s][v].frame = p /\ pte[s][w].frame = p => v = w
    /\ ~(pcb[s] = p /\ table[s] = p)
    /\ \A v \in VPages : pte[s][v].frame = p => pcb[s] # p /\ table[s] # p

CowInv == /\ Inv /\ DataTypes /\ Alone /\ Working /\ Counted /\ UsedOnce
          /\ WritableIsPrivate

\* What CowInv adds to Inv.
CowPart == /\ DataTypes /\ Alone /\ Working /\ Counted /\ UsedOnce /\ WritableIsPrivate

---------------------------------------------------------------------------
(* Uses.                                                                   *)

\* Everything that is counted is finite.
LEMMA Finite ==
  ASSUME Types, DataTypes, NEW p
  PROVE  /\ IsFiniteSet(VPages)
         /\ IsFiniteSet(Mapped(p)) /\ Cardinality(Mapped(p)) \in Nat
         /\ IsFiniteSet(PcbUsers(p)) /\ Cardinality(PcbUsers(p)) \in Nat
         /\ IsFiniteSet(TableUsers(p)) /\ Cardinality(TableUsers(p)) \in Nat
         /\ Count(p) \in Nat
<1>1. IsFiniteSet(VPages) /\ IsFiniteSet(live)
  BY FS_Interval, MemoryAssumption DEF VPages, DataTypes
<1>2. IsFiniteSet(live \X VPages)
  BY <1>1, FS_Product
<1>3. IsFiniteSet(Mapped(p)) /\ IsFiniteSet(PcbUsers(p)) /\ IsFiniteSet(TableUsers(p))
  <2>1. Mapped(p) \in SUBSET (live \X VPages)
    BY DEF Mapped
  <2>2. PcbUsers(p) \in SUBSET live /\ TableUsers(p) \in SUBSET live
    BY DEF PcbUsers, TableUsers
  <2> QED
    BY <1>1, <1>2, <2>1, <2>2, FS_Subset
<1>4. /\ Cardinality(Mapped(p)) \in Nat /\ Cardinality(PcbUsers(p)) \in Nat
      /\ Cardinality(TableUsers(p)) \in Nat
  BY <1>3, FS_CardinalityType
<1> QED
  BY <1>1, <1>3, <1>4 DEF Count

\* A count of 0 says that there is no use at all.
LEMMA CountZero ==
  ASSUME Types, DataTypes, NEW p
  PROVE  Count(p) = 0 <=> Unused(p)
<1>1. /\ Cardinality(Mapped(p)) \in Nat /\ Cardinality(PcbUsers(p)) \in Nat
      /\ Cardinality(TableUsers(p)) \in Nat
      /\ IsFiniteSet(Mapped(p)) /\ IsFiniteSet(PcbUsers(p)) /\ IsFiniteSet(TableUsers(p))
  BY Finite
<1>2. /\ Cardinality(Mapped(p)) = 0 <=> Mapped(p) = {}
      /\ Cardinality(PcbUsers(p)) = 0 <=> PcbUsers(p) = {}
      /\ Cardinality(TableUsers(p)) = 0 <=> TableUsers(p) = {}
  BY <1>1, FS_EmptySet
<1> QED
  BY <1>1, <1>2 DEF Count, Unused

\* An entry that maps p is one of its uses.
LEMMA MappedBy ==
  ASSUME NEW s \in live, NEW v \in VPages
  PROVE  <<s, v>> \in Mapped(pte[s][v].frame)
  BY DEF Mapped

\* Steps that leave the entries' frames, the structures and the tables alone.
LEMMA SameUses ==
  ASSUME live' = live, pcb' = pcb, table' = table,
         \A s \in live, v \in VPages : pte'[s][v].frame = pte[s][v].frame
  PROVE  \A p : Mapped(p)' = Mapped(p) /\ Count(p)' = Count(p) /\ (Unused(p)' <=> Unused(p))
<1> SUFFICES ASSUME NEW p
             PROVE  Mapped(p)' = Mapped(p) /\ Count(p)' = Count(p) /\ (Unused(p)' <=> Unused(p))
  OBVIOUS
<1>1. Mapped(p)' = Mapped(p)
  BY DEF Mapped
<1>2. PcbUsers(p)' = PcbUsers(p) /\ TableUsers(p)' = TableUsers(p)
  BY DEF PcbUsers, TableUsers
<1> QED
  BY <1>1, <1>2 DEF Count, Unused

\* Who runs without preemption: all other handlers are idle or hang.
LEMMA OthersRest ==
  ASSUME ~Preemptible, NEW s, Scheduled(s)
  PROVE  \A u \in Procs \ {s} : cow[u].at \in {"idle", "hang"}
  BY DEF Scheduled

\* With nobody between ClaimPage and MapNew a free frame has no use.
LEMMA FreeIsUnused ==
  ASSUME CowInv, NEW p \in Frames, IsFree(p),
         \A s \in Procs : cow[s].at \notin {"drop", "map"}
  PROVE  p \in Offered /\ Unused(p)
<1>1. p >= MainStart /\ p \in Offered
  BY FreeIsOffered, Bounds DEF CowInv, Frames, Offered
<1>2. Count(p) = 0
  BY <1>1 DEF CowInv, Counted, IsFree
<1> QED
  BY <1>1, <1>2, CountZero DEF CowInv, Inv

---------------------------------------------------------------------------
(* The invariant of the first state.                                       *)

\* After initMemory task 0 lives in frames of the kernel, and main memory is free.
LEMMA InitCow == Init => CowInv
<1> SUFFICES ASSUME Init PROVE CowInv
  OBVIOUS
<1>1. Inv /\ Types
  BY InitMemInv DEF Inv
<1>2. DataTypes
  BY FS_Singleton, FS_EmptySet, MemoryAssumption DEF Init, DataTypes
<1>3. Alone /\ Working
  BY DEF Init, Alone, Working, Idle, Busy
<1>4. \A p \in Offered : Unused(p) /\ MEM_MAP[p] = 0
  <2> SUFFICES ASSUME NEW p \in Offered PROVE Unused(p) /\ MEM_MAP[p] = 0
    OBVIOUS
  <2>1. p \in Frames /\ p \in Int /\ p >= MainStart /\ p # Nil
    BY MemoryAssumption DEF Offered, Frames
  <2>2. \A v \in VPages : v # p
    BY <2>1, Bounds
  <2> QED
    BY <2>1, <2>2, Bounds DEF Init, MapAfterInit, Unused, Mapped, PcbUsers, TableUsers
<1>5. Counted
  BY <1>1, <1>2, <1>4, CountZero DEF Counted, Init, Idle
<1>6. UsedOnce
  BY <1>4, MappedBy DEF UsedOnce, Unused, PcbUsers, TableUsers
<1>7. WritableIsPrivate
  BY DEF Init, WritableIsPrivate
<1> QED
  BY <1>1, <1>2, <1>3, <1>5, <1>6, <1>7 DEF CowInv

---------------------------------------------------------------------------
(* The fault handler.                                                      *)

\* A step of the handler that maps nothing.
LEMMA HandlerKeeps ==
  ASSUME CowInv, ~Preemptible, NEW s \in Procs, cow[s].at \in Busy, Scheduled(s),
         UNCHANGED <<live, pcb, table, pte>>, content' \in [Frames -> Vals],
         \A u \in Procs \ {s} : cow'[u] = cow[u]
  PROVE  /\ DataTypes' /\ Alone' /\ UsedOnce' /\ WritableIsPrivate'
         /\ \A p : Mapped(p)' = Mapped(p) /\ Count(p)' = Count(p) /\ (Unused(p)' <=> Unused(p))
         /\ \A u \in Procs \ {s} : cow[u].at \in {"idle", "hang"} /\ cow'[u].at \in {"idle", "hang"}
<1>1. \A p : Mapped(p)' = Mapped(p) /\ Count(p)' = Count(p) /\ (Unused(p)' <=> Unused(p))
  BY SameUses
<1>2. \A u \in Procs \ {s} : cow[u].at \in {"idle", "hang"} /\ cow'[u].at \in {"idle", "hang"}
  BY OthersRest
<1>3. DataTypes' /\ UsedOnce'
  BY DEF CowInv, DataTypes, UsedOnce
<1>4. Alone'
  BY <1>2 DEF CowInv, Alone, Busy
<1>5. WritableIsPrivate'
  BY <1>1 DEF CowInv, WritableIsPrivate
<1> QED
  BY <1>1, <1>2, <1>3, <1>4, <1>5

\* Finding a free frame changes nothing but the handler.
LEMMA FindCow ==
  ASSUME CowInv, ~Preemptible, NEW s \in Procs, FindPage(s)
  PROVE  CowPart'
<1>1. /\ cow[s].at = "find" /\ Scheduled(s) /\ UNCHANGED <<MEM_MAP, content, live, pcb, table, pte>>
      /\ cow \in [Procs -> Handlers] /\ cow[s] \in Handlers /\ DataTypes
  BY DEF FindPage, At, CowInv, Inv, Types
<1>2. /\ \A u \in Procs \ {s} : cow'[u] = cow[u]
      /\ \/ cow'[s].at = "hang"
         \/ /\ cow'[s].at = "claim" /\ cow'[s].v = cow[s].v /\ cow'[s].old = cow[s].old
            /\ cow'[s].new \in Frames /\ IsFree(cow'[s].new)
  <2>1. CASE Goto(s, "hang")
    BY <1>1, <2>1, GotoType DEF Phases
  <2>2. ASSUME NEW p \in Frames, IsFree(p), cow' = [cow EXCEPT ![s].at = "claim", ![s].new = p]
        PROVE  /\ \A u \in Procs \ {s} : cow'[u] = cow[u]
               /\ cow'[s].at = "claim" /\ cow'[s].v = cow[s].v /\ cow'[s].old = cow[s].old
               /\ cow'[s].new = p
    <3>1. cow' = [cow EXCEPT ![s] = [cow[s] EXCEPT !.at = "claim", !.new = p]]
      BY <1>1, <2>2
    <3> QED
      BY <1>1, <3>1 DEF Handlers
  <2> QED
    BY <2>1, <2>2 DEF FindPage, IsLowestFree
<1>3. /\ DataTypes' /\ Alone' /\ UsedOnce' /\ WritableIsPrivate'
      /\ \A p : Mapped(p)' = Mapped(p) /\ Count(p)' = Count(p) /\ (Unused(p)' <=> Unused(p))
      /\ \A u \in Procs \ {s} : cow[u].at \in {"idle", "hang"} /\ cow'[u].at \in {"idle", "hang"}
  BY <1>1, <1>2, HandlerKeeps DEF Busy, DataTypes
<1>4. Working'
  BY <1>1, <1>2, <1>3 DEF CowInv, Working, IsFree
<1>5. Counted'
  BY <1>1, <1>2, <1>3 DEF CowInv, Counted
<1> QED
  BY <1>3, <1>4, <1>5 DEF CowPart

\* The frame that was found is still free when it is claimed.
LEMMA ClaimCow ==
  ASSUME CowInv, ~Preemptible, NEW s \in Procs, ClaimPage(s)
  PROVE  CowPart'
<1> DEFINE new == cow[s].new
<1>1. /\ cow[s].at = "claim" /\ Scheduled(s) /\ UNCHANGED <<live, pcb, table, pte>>
      /\ MEM_MAP' = [MEM_MAP EXCEPT ![new] = 1] /\ content' = [content EXCEPT ![new] = 0]
      /\ Goto(s, "drop") /\ cow \in [Procs -> Handlers] /\ new \in Frames
      /\ MEM_MAP \in [Frames -> Int]
  BY DEF ClaimPage, At, CowInv, Inv, Types, Handler
<1>2. /\ \A u \in Procs \ {s} : cow'[u] = cow[u]
      /\ cow'[s].at = "drop" /\ cow'[s].v = cow[s].v /\ cow'[s].old = cow[s].old
      /\ cow'[s].new = new
  BY <1>1, GotoType DEF Phases
<1>3. content' \in [Frames -> Vals]
  BY <1>1, MemoryAssumption DEF CowInv, DataTypes
<1>4. /\ DataTypes' /\ Alone' /\ UsedOnce' /\ WritableIsPrivate'
      /\ \A p : Mapped(p)' = Mapped(p) /\ Count(p)' = Count(p) /\ (Unused(p)' <=> Unused(p))
      /\ \A u \in Procs \ {s} : cow[u].at \in {"idle", "hang"} /\ cow'[u].at \in {"idle", "hang"}
  BY <1>1, <1>2, <1>3, HandlerKeeps DEF Busy
<1>5. \A u \in Procs : cow[u].at \notin {"drop", "map"}
  BY <1>1, <1>4
<1>6. new \in Offered /\ Unused(new) /\ Count(new) = 0
  <2>1. IsFree(new)
    BY <1>1 DEF CowInv, Working
  <2> QED
    BY <1>1, <1>5, <2>1, FreeIsUnused, CountZero DEF CowInv, Inv
<1>7. Working'
  <2>1. pte'[s][cow[s].v].frame = cow[s].old
    BY <1>1 DEF CowInv, Working
  <2>2. \A p : p = new => Unused(p)'
    BY <1>4, <1>6
  <2> QED
    BY <1>1, <1>2, <1>4, <2>1, <2>2 DEF Working
<1>8. Counted'
  <2> SUFFICES ASSUME NEW p \in Offered
               PROVE  MEM_MAP'[p] = Count(p) + (IF p = new THEN 1 ELSE 0)
    <3>1. \A p \in Offered : Count(p) \in Nat
      BY Finite DEF CowInv, Inv
    <3> QED
      BY <1>2, <1>4, <3>1 DEF Counted
  <2>1. p \in Frames /\ MEM_MAP[p] = Count(p) /\ Count(p) \in Nat
    BY <1>5, Finite, MemoryAssumption DEF CowInv, Counted, Inv, Offered, Frames
  <2> QED
    BY <1>1, <1>6, <2>1
<1> QED
  BY <1>4, <1>7, <1>8 DEF CowPart

\* The old frame is given up while its entry still maps it.
LEMMA DropCow ==
  ASSUME CowInv, ~Preemptible, NEW s \in Procs, DropOld(s)
  PROVE  CowPart'
<1> DEFINE old == cow[s].old
           new == cow[s].new
<1>1. /\ cow[s].at = "drop" /\ Scheduled(s) /\ UNCHANGED <<content, live, pcb, table, pte>>
      /\ MEM_MAP' = IF old >= KERNEL_MEM THEN [MEM_MAP EXCEPT ![old] = @ - 1] ELSE MEM_MAP
      /\ Goto(s, "map") /\ cow \in [Procs -> Handlers] /\ old \in Mappable
      /\ MEM_MAP \in [Frames -> Int] /\ DataTypes
  BY DEF DropOld, At, CowInv, Inv, Types, Handler
<1>2. /\ \A u \in Procs \ {s} : cow'[u] = cow[u]
      /\ cow'[s].at = "map" /\ cow'[s].v = cow[s].v /\ cow'[s].old = old
      /\ cow'[s].new = new
  BY <1>1, GotoType DEF Phases
<1>3. /\ DataTypes' /\ Alone' /\ UsedOnce' /\ WritableIsPrivate'
      /\ \A p : Mapped(p)' = Mapped(p) /\ Count(p)' = Count(p) /\ (Unused(p)' <=> Unused(p))
      /\ \A u \in Procs \ {s} : cow[u].at \in {"idle", "hang"} /\ cow'[u].at \in {"idle", "hang"}
  BY <1>1, <1>2, HandlerKeeps DEF Busy, DataTypes
<1>4. Working'
  <2>1. pte[s][cow[s].v].frame = old /\ Unused(new)
    BY <1>1 DEF CowInv, Working
  <2>2. \A p : p = new => Unused(p)'
    BY <1>3, <2>1
  <2> QED
    BY <1>1, <1>2, <1>3, <2>1, <2>2 DEF Working
<1>5. Counted'
  <2>1. ASSUME NEW p \in Offered
        PROVE  MEM_MAP'[p] = Count(p) + (IF p = new THEN 1 ELSE 0) - (IF p = old THEN 1 ELSE 0)
    <3>1. p \in Frames /\ p \in Int /\ p >= MainStart /\ Count(p) \in Nat
      BY Finite, MemoryAssumption DEF CowInv, Inv, Offered, Frames
    <3>2. MEM_MAP[p] = Count(p) + (IF p = new THEN 1 ELSE 0)
      BY <1>1, <3>1 DEF CowInv, Counted
    <3>3. p = old => old >= KERNEL_MEM
      BY <1>1, <3>1, MappableSplits
    <3>4. MEM_MAP'[p] = IF p = old THEN MEM_MAP[p] - 1 ELSE MEM_MAP[p]
      BY <1>1, <3>1, <3>3
    <3> QED
      BY <3>1, <3>2, <3>4
  <2> QED
    BY <1>2, <1>3, <2>1 DEF Counted
<1> QED
  BY <1>3, <1>4, <1>5 DEF CowPart

\* The copy goes to a frame that only the entry uses.
LEMMA CopyCow ==
  ASSUME CowInv, ~Preemptible, NEW s \in Procs, CopyPage(s)
  PROVE  CowPart'
<1>1. /\ cow[s].at = "copy" /\ Scheduled(s) /\ UNCHANGED <<MEM_MAP, live, pcb, table, pte>>
      /\ content' = [content EXCEPT ![cow[s].new] = content[cow[s].old]]
      /\ cow' = [cow EXCEPT ![s] = Idle] /\ cow \in [Procs -> Handlers]
      /\ cow[s].old \in Frames
  BY DEF CopyPage, At, CowInv, Inv, Types, Handler, Mappable
<1>2. (\A u \in Procs \ {s} : cow'[u] = cow[u]) /\ cow'[s].at = "idle"
  BY <1>1 DEF Idle
<1>3. content' \in [Frames -> Vals]
  BY <1>1 DEF CowInv, DataTypes
<1>4. /\ DataTypes' /\ Alone' /\ UsedOnce' /\ WritableIsPrivate'
      /\ \A p : Mapped(p)' = Mapped(p) /\ Count(p)' = Count(p) /\ (Unused(p)' <=> Unused(p))
      /\ \A u \in Procs \ {s} : cow[u].at \in {"idle", "hang"} /\ cow'[u].at \in {"idle", "hang"}
  BY <1>1, <1>2, <1>3, HandlerKeeps DEF Busy
<1>5. Working'
  BY <1>2, <1>4 DEF Working
<1>6. Counted'
  BY <1>1, <1>2, <1>4 DEF CowInv, Counted
<1> QED
  BY <1>4, <1>5, <1>6 DEF CowPart

\* The new frame takes the place of the old one.
LEMMA MapCow ==
  ASSUME CowInv, ~Preemptible, NEW s \in Procs, MapNew(s)
  PROVE  CowPart'
<1> DEFINE v == cow[s].v
           old == cow[s].old
           new == cow[s].new
           e == [frame |-> new, rw |-> TRUE]
<1>1. /\ cow[s].at = "map" /\ Scheduled(s) /\ UNCHANGED <<MEM_MAP, content, live, pcb, table>>
      /\ pte' = [pte EXCEPT ![s][v] = e] /\ Goto(s, "copy") /\ cow \in [Procs -> Handlers]
      /\ v \in VPages /\ old \in Frames /\ new \in Frames
      /\ pte \in [Procs -> [VPages -> [frame : Frames, rw : BOOLEAN]]]
      /\ MEM_MAP \in [Frames -> Int] /\ live \subseteq Procs
  BY DEF MapNew, At, CowInv, Inv, Types, Handler, Mappable
<1>2. /\ \A u \in Procs \ {s} : cow'[u] = cow[u]
      /\ cow'[s].at = "copy" /\ cow'[s].v = v /\ cow'[s].new = new
  BY <1>1, GotoType DEF Phases
<1>3. \A u \in Procs \ {s} : cow[u].at \in {"idle", "hang"}
  BY <1>1, OthersRest
<1>4. s \in live /\ s # 0 /\ pte[s][v].frame = old /\ Unused(new)
  BY <1>1 DEF CowInv, Alone, Working
<1>5. <<s, v>> \in Mapped(old) /\ old # new
  <2>1. <<s, v>> \in Mapped(pte[s][v].frame)
    BY <1>1, <1>4, MappedBy
  <2> QED
    BY <1>4, <2>1 DEF Unused
<1>6. /\ pte'[s][v].frame = new /\ pte'[s][v].rw
      /\ \A u \in Procs, w \in VPages : u # s \/ w # v => pte'[u][w] = pte[u][w]
  BY <1>1
<1> HIDE DEF v, old, new, e
<1>7. \A p : Mapped(p)' = IF p = new THEN {<<s, v>>} ELSE Mapped(p) \ {<<s, v>>}
  <2> SUFFICES ASSUME NEW p
               PROVE  Mapped(p)' = IF p = new THEN {<<s, v>>} ELSE Mapped(p) \ {<<s, v>>}
    OBVIOUS
  <2>1. Mapped(p)' = {x \in live \X VPages : pte'[x[1]][x[2]].frame = p}
    BY <1>1 DEF Mapped
  <2>2. ASSUME NEW x \in live \X VPages
        PROVE  pte'[x[1]][x[2]].frame = IF x = <<s, v>> THEN new ELSE pte[x[1]][x[2]].frame
    <3>1. x[1] \in Procs /\ x[2] \in VPages /\ x = <<x[1], x[2]>>
      BY <1>1
    <3> QED
      BY <1>6, <3>1
  <2>3. <<s, v>> \in live \X VPages
    BY <1>1, <1>4
  <2>4. CASE p = new
    <3>1. {x \in live \X VPages : pte[x[1]][x[2]].frame = p} = {}
      BY <1>4, <2>4 DEF Unused, Mapped
    <3> QED
      BY <2>1, <2>2, <2>3, <2>4, <3>1
  <2>5. CASE p # new
    BY <2>1, <2>2, <2>3, <2>5 DEF Mapped
  <2> QED
    BY <2>4, <2>5
<1>8. \A p : PcbUsers(p)' = PcbUsers(p) /\ TableUsers(p)' = TableUsers(p)
  BY <1>1 DEF PcbUsers, TableUsers
<1>9. DataTypes' /\ Alone'
  BY <1>1, <1>2, <1>3, <1>4 DEF CowInv, DataTypes, Alone, Busy
<1>10. Working'
  BY <1>2, <1>3, <1>6 DEF Working
<1>11. UsedOnce'
  <2> SUFFICES ASSUME NEW u \in live, NEW p \in Offered
               PROVE  /\ \A w, x \in VPages : pte'[u][w].frame = p /\ pte'[u][x].frame = p => w = x
                      /\ ~(pcb[u] = p /\ table[u] = p)
                      /\ \A w \in VPages : pte'[u][w].frame = p => pcb[u] # p /\ table[u] # p
    BY <1>1 DEF UsedOnce
  <2>1. CASE u # s
    BY <1>1, <1>6, <2>1 DEF CowInv, UsedOnce
  <2>2. CASE u = s /\ p # new
    BY <1>1, <1>6, <2>2 DEF CowInv, UsedOnce
  <2>3. CASE u = s /\ p = new
    <3>1. \A w \in VPages : <<s, w>> \notin Mapped(new)
      BY <1>4 DEF Unused
    <3>2. \A w \in VPages : pte[s][w].frame # new
      BY <1>4, <3>1, MappedBy
    <3>3. \A w \in VPages : pte'[s][w].frame = new => w = v
      BY <1>1, <1>6, <3>2
    <3>4. pcb[s] # new /\ table[s] # new
      BY <1>4 DEF Unused, PcbUsers, TableUsers
    <3> QED
      BY <2>3, <3>3, <3>4
  <2> QED
    BY <2>1, <2>2, <2>3
<1>12. WritableIsPrivate'
  <2> SUFFICES ASSUME NEW u \in live \ {0}, NEW w \in VPages, pte'[u][w].rw
               PROVE  \A p : p = pte'[u][w].frame => Mapped(p)' = {<<u, w>>}
    BY <1>1 DEF WritableIsPrivate
  <2>1. CASE u = s /\ w = v
    BY <1>6, <1>7, <2>1
  <2>2. CASE ~(u = s /\ w = v)
    <3>1. pte'[u][w] = pte[u][w]
      BY <1>1, <1>6, <2>2
    <3>2. Mapped(pte[u][w].frame) = {<<u, w>>}
      BY <3>1 DEF CowInv, WritableIsPrivate
    <3>3. pte[u][w].frame # new
      BY <1>4, <3>2 DEF Unused
    <3> QED
      BY <1>7, <2>2, <3>1, <3>2, <3>3
  <2> QED
    BY <2>1, <2>2
<1>13. Counted'
  <2>1. ASSUME NEW p \in Offered PROVE MEM_MAP[p] = Count(p)'
    <3>1. /\ Count(p) = Cardinality(Mapped(p)) + Cardinality(PcbUsers(p)) + Cardinality(TableUsers(p))
          /\ Count(p)' = Cardinality(Mapped(p)') + Cardinality(PcbUsers(p)) + Cardinality(TableUsers(p))
      BY <1>8 DEF Count
    <3>2. /\ IsFiniteSet(Mapped(p)) /\ Cardinality(Mapped(p)) \in Nat
          /\ Cardinality(PcbUsers(p)) \in Nat /\ Cardinality(TableUsers(p)) \in Nat
      BY Finite DEF CowInv, Inv
    <3>3. MEM_MAP[p] = Count(p) + (IF p = new THEN 1 ELSE 0) - (IF p = old THEN 1 ELSE 0)
      BY <1>1 DEF CowInv, Counted, new, old
    <3>4. CASE p = new
      <4>1. Cardinality(Mapped(p)) = 0 /\ Cardinality(Mapped(p)') = 1
        BY <1>4, <1>7, <3>4, FS_EmptySet, FS_Singleton DEF Unused
      <4> QED
        BY <1>5, <3>1, <3>2, <3>3, <3>4, <4>1
    <3>5. CASE p = old
      <4>1. Cardinality(Mapped(p)') = Cardinality(Mapped(p)) - 1
        BY <1>5, <1>7, <3>2, <3>5, FS_RemoveElement
      <4> QED
        BY <1>5, <3>1, <3>2, <3>3, <3>5, <4>1
    <3>6. CASE p # new /\ p # old
      <4>1. <<s, v>> \notin Mapped(p)
        BY <1>5, <3>6 DEF Mapped
      <4>2. Mapped(p)' = Mapped(p)
        BY <1>7, <3>6, <4>1
      <4> QED
        BY <3>1, <3>2, <3>3, <3>6, <4>2
    <3> QED
      BY <3>4, <3>5, <3>6
  <2> QED
    BY <1>1, <1>2, <1>3, <2>1 DEF Counted
<1> QED
  BY <1>9, <1>10, <1>11, <1>12, <1>13 DEF CowPart

---------------------------------------------------------------------------
(* User code.                                                              *)

\* A fault on a frame with one use is over at once; on another the handler is
\* at work from now on.
LEMMA FaultCow ==
  ASSUME CowInv, ~Preemptible, NEW s \in Procs, NEW v \in VPages, WriteFault(s, v)
  PROVE  CowPart'
<1> DEFINE old == pte[s][v].frame
<1>1. /\ s \in live /\ s # 0 /\ cow[s].at = "idle" /\ Scheduled(s) /\ old \in Mappable
      /\ UNCHANGED <<MEM_MAP, content, live, pcb, table>> /\ live \subseteq Procs
      /\ pte \in [Procs -> [VPages -> [frame : Frames, rw : BOOLEAN]]]
      /\ cow \in [Procs -> Handlers]
  BY DEF WriteFault, Running, CowInv, Inv, Types, Entries
<1>2. \A u \in Procs : cow[u].at \in {"idle", "hang"}
  BY <1>1, OthersRest
<1>3. CASE old >= KERNEL_MEM /\ MEM_MAP[old] = 1
  <2>1. pte' = [pte EXCEPT ![s][v].rw = TRUE] /\ cow' = cow
    BY <1>3 DEF WriteFault
  <2>2. /\ \A u \in Procs, w \in VPages : pte'[u][w].frame = pte[u][w].frame
        /\ \A u \in Procs, w \in VPages : u # s \/ w # v => pte'[u][w] = pte[u][w]
    BY <1>1, <2>1
  <2>3. \A p : Mapped(p)' = Mapped(p) /\ Count(p)' = Count(p) /\ (Unused(p)' <=> Unused(p))
    BY <1>1, <2>2, SameUses
  <2>4. DataTypes' /\ Alone' /\ Working'
    BY <1>1, <1>2, <2>1 DEF CowInv, DataTypes, Alone, Working, Busy
  <2>5. Counted'
    BY <1>1, <1>2, <2>1, <2>3 DEF CowInv, Counted
  <2>6. UsedOnce'
    BY <1>1, <2>2 DEF CowInv, UsedOnce
  <2>7. Mapped(old) = {<<s, v>>}
    <3>1. old \in Offered
      BY <1>1, <1>3, MappableSplits, Bounds DEF Offered, Mappable, Frames
    <3>2. Count(old) = 1
      BY <1>2, <1>3, <3>1 DEF CowInv, Counted
    <3>3. /\ IsFiniteSet(Mapped(old)) /\ Cardinality(Mapped(old)) \in Nat
          /\ Cardinality(PcbUsers(old)) \in Nat /\ Cardinality(TableUsers(old)) \in Nat
      BY Finite DEF CowInv, Inv
    <3>4. <<s, v>> \in Mapped(old)
      BY <1>1, MappedBy
    <3>5. Cardinality(Mapped(old)) # 0
      BY <3>3, <3>4, FS_EmptySet
    <3>6. Cardinality(Mapped(old)) = 1
      BY <3>2, <3>3, <3>5 DEF Count
    <3> QED
      BY <3>3, <3>4, <3>6, FS_Singleton
  <2>8. WritableIsPrivate'
    <3> SUFFICES ASSUME NEW u \in live \ {0}, NEW w \in VPages, pte'[u][w].rw
                 PROVE  Mapped(pte[u][w].frame) = {<<u, w>>}
      BY <1>1, <2>2, <2>3 DEF WritableIsPrivate
    <3>1. CASE u = s /\ w = v
      BY <2>7, <3>1
    <3>2. CASE ~(u = s /\ w = v)
      BY <1>1, <2>2, <3>2 DEF CowInv, WritableIsPrivate
    <3> QED
      BY <3>1, <3>2
  <2> QED
    BY <2>4, <2>5, <2>6, <2>8 DEF CowPart
<1>4. CASE ~(old >= KERNEL_MEM /\ MEM_MAP[old] = 1)
  <2>1. /\ pte' = pte
        /\ cow' = [cow EXCEPT ![s] = [at |-> "find", v |-> v, old |-> old, new |-> Nil]]
    BY <1>4 DEF WriteFault
  <2>2. /\ cow'[s].at = "find" /\ cow'[s].v = v /\ cow'[s].old = old
        /\ \A u \in Procs \ {s} : cow'[u] = cow[u]
    BY <1>1, <2>1
  <2>3. \A p : Mapped(p)' = Mapped(p) /\ Count(p)' = Count(p) /\ (Unused(p)' <=> Unused(p))
    BY <1>1, <2>1, SameUses
  <2>4. DataTypes' /\ Alone'
    BY <1>1, <1>2, <2>2, ZenonT(60) DEF CowInv, DataTypes, Alone, Busy
  <2>5. Working'
    BY <1>2, <2>1, <2>2 DEF Working
  <2>6. Counted'
    BY <1>1, <1>2, <2>2, <2>3 DEF CowInv, Counted
  <2>7. UsedOnce' /\ WritableIsPrivate'
    BY <1>1, <2>1, <2>3 DEF CowInv, UsedOnce, WritableIsPrivate
  <2> QED
    BY <2>4, <2>5, <2>6, <2>7 DEF CowPart
<1> QED
  BY <1>3, <1>4

\* A write by user code, and a fork that finds no page for the table, change
\* contents only.
LEMMA ContentCow ==
  ASSUME CowInv, UNCHANGED <<MEM_MAP, live, pcb, table, pte, cow>>,
         content' \in [Frames -> Vals]
  PROVE  CowPart'
<1>1. \A p : Mapped(p)' = Mapped(p) /\ Count(p)' = Count(p) /\ (Unused(p)' <=> Unused(p))
  BY SameUses
<1>2. DataTypes' /\ Alone' /\ UsedOnce' /\ WritableIsPrivate'
  BY <1>1 DEF CowInv, DataTypes, Alone, UsedOnce, WritableIsPrivate
<1>3. Counted'
  BY <1>1 DEF CowInv, Counted
<1>4. Working'
  <2>1. \A s \in Procs : Unused(cow[s].new)' <=> Unused(cow[s].new)
    BY <1>1
  <2> QED
    BY <2>1 DEF CowInv, Working, IsFree
<1> QED
  BY <1>2, <1>3, <1>4 DEF CowPart

\* A write changes what a frame holds and nobody's use of it.
LEMMA WriteCow ==
  ASSUME CowInv, NEW s \in Procs, NEW v \in VPages, NEW x \in Vals, Write(s, v, x)
  PROVE  CowPart'
<1>1. content' \in [Frames -> Vals]
  BY DEF Write, CowInv, DataTypes
<1> QED
  BY <1>1, ContentCow DEF Write

\* A fork that finds no frame has changed no table.
LEMMA ForkFailsCow ==
  ASSUME CowInv, NEW s \in Procs, ForkFails(s)
  PROVE  CowPart'
<1>1. content' \in [Frames -> Vals]
  BY MemoryAssumption DEF ForkFails, CowInv, DataTypes
<1> QED
  BY <1>1, ContentCow DEF ForkFails

---------------------------------------------------------------------------
(* fork.                                                                   *)

\* There are as many entries of a process as pages of them.
LEMMA EntriesOf ==
  ASSUME NEW V, IsFiniteSet(V), NEW c
  PROVE  /\ IsFiniteSet({<<c, v>> : v \in V})
         /\ Cardinality({<<c, v>> : v \in V}) = Cardinality(V)
<1> DEFINE T == {<<c, v>> : v \in V}
           f == [v \in V |-> <<c, v>>]
<1>1. f \in [V -> T] /\ (\A v \in V : f[v] = <<c, v>>) /\ \A t \in T : \E v \in V : f[v] = t
  OBVIOUS
<1>2. \A v, w \in V : f[v] = f[w] => v = w
  OBVIOUS
<1> HIDE DEF f, T
<1>3. f \in Bijection(V, T)
  BY <1>1, <1>2 DEF Bijection, Injection, Surjection, IsInjective
<1>4. ExistsBijection(V, T)
  BY <1>3 DEF ExistsBijection
<1>5. IsFiniteSet(T) /\ Cardinality(T) = Cardinality(V)
  BY <1>4, FS_Bijection
<1> QED
  BY <1>5 DEF T

\* The pages of a process that a frame holds.
PagesOn(s, p) == {v \in VPages : pte[s][v].frame = p}

\* What fork does to the entries of parent and child.
ForkEntries(s, c) ==
  /\ s \in live /\ c \notin live /\ s # c /\ live' = live \cup {c} /\ cow' = cow
  /\ \A u \in Procs : cow[u].at \in {"idle", "hang"}
  /\ cow[s].at = "idle" /\ cow[c].at = "idle"
  /\ \A v \in VPages : /\ pte'[c][v].frame = pte[s][v].frame /\ ~pte'[c][v].rw
                       /\ pte'[s][v].frame = pte[s][v].frame
                       /\ pte'[s][v].rw = (pte[s][v].rw /\ pte[s][v].frame < KERNEL_MEM)
  /\ \A u \in Procs \ {s, c} : pte'[u] = pte[u]

\* The two pages fork takes had no use before.
ForkPages(s, c, p, q) ==
  /\ p # q /\ Unused(p) /\ Unused(q)
  /\ MEM_MAP' = [Shared(pte[s], MEM_MAP) EXCEPT ![p] = 1, ![q] = 1]
  /\ content' = [content EXCEPT ![p] = 0, ![q] = 0]
  /\ pcb' = [pcb EXCEPT ![c] = p] /\ table' = [table EXCEPT ![c] = q]

\* What a fork does to the entries, and which two frames it takes.
LEMMA ForkFacts ==
  ASSUME CowInv, ~Preemptible, NEW s \in Procs, NEW c \in Procs, Fork(s, c)
  PROVE  ForkEntries(s, c) /\ \E p, q \in Offered : ForkPages(s, c, p, q)
<1>1. /\ s \in live /\ c \notin live /\ s # c /\ live' = live \cup {c} /\ cow' = cow
      /\ cow[s].at = "idle" /\ Scheduled(s)
      /\ pte' = [pte EXCEPT ![c] = ReadOnly(pte[s]), ![s] = Protected(pte[s])]
      /\ pte \in [Procs -> [VPages -> [frame : Frames, rw : BOOLEAN]]]
  BY DEF Fork, Running, CowInv, Inv, Types
<1>2. \A u \in Procs : cow[u].at \in {"idle", "hang"}
  BY <1>1, OthersRest
<1>3. cow[c].at = "idle"
  BY <1>1 DEF CowInv, Alone
<1>4. pte'[c] = ReadOnly(pte[s]) /\ pte'[s] = Protected(pte[s])
      /\ \A u \in Procs \ {s, c} : pte'[u] = pte[u]
  BY <1>1
<1>5. \A v \in VPages : /\ pte'[c][v].frame = pte[s][v].frame /\ ~pte'[c][v].rw
                        /\ pte'[s][v].frame = pte[s][v].frame
                        /\ pte'[s][v].rw = (pte[s][v].rw /\ pte[s][v].frame < KERNEL_MEM)
  <2>1. pte[s] \in [VPages -> [frame : Frames, rw : BOOLEAN]]
    BY <1>1
  <2> QED
    BY <1>4, <2>1, ProtectedEntries
<1>6. PICK p \in Frames, q \in Frames :
        /\ IsFree(p) /\ IsFree(q) /\ p # q
        /\ MEM_MAP' = [Shared(pte[s], MEM_MAP) EXCEPT ![p] = 1, ![q] = 1]
        /\ content' = [content EXCEPT ![p] = 0, ![q] = 0]
        /\ pcb' = [pcb EXCEPT ![c] = p] /\ table' = [table EXCEPT ![c] = q]
  BY DEF Fork, IsLowestFree
<1>7. p \in Offered /\ q \in Offered /\ Unused(p) /\ Unused(q)
  BY <1>2, <1>6, FreeIsUnused
<1> QED
  BY <1>1, <1>2, <1>3, <1>4, <1>5, <1>6, <1>7 DEF ForkEntries, ForkPages

\* The uses of a frame after a fork.
LEMMA ForkUses ==
  ASSUME CowInv, NEW s \in Procs, NEW c \in Procs, NEW p \in Offered, NEW q \in Offered,
         ForkEntries(s, c), ForkPages(s, c, p, q), NEW r
  PROVE  /\ Mapped(r)' = Mapped(r) \cup {<<c, v>> : v \in PagesOn(s, r)}
         /\ PcbUsers(r)' = IF r = p THEN {c} ELSE PcbUsers(r)
         /\ TableUsers(r)' = IF r = q THEN {c} ELSE TableUsers(r)
         /\ r = p \/ r = q => PagesOn(s, r) = {}
<1>1. /\ live' = live \cup {c} /\ live \subseteq Procs /\ c \notin live
      /\ pcb' = [pcb EXCEPT ![c] = p] /\ table' = [table EXCEPT ![c] = q]
      /\ pcb \in [Procs -> Frames \cup {Nil}] /\ table \in [Procs -> Frames \cup {Nil}]
      /\ Unused(p) /\ Unused(q)
  BY DEF ForkEntries, ForkPages, CowInv, DataTypes, Inv, Types
<1>2. \A u \in Procs, v \in VPages :
        pte'[u][v].frame = IF u = c THEN pte[s][v].frame ELSE pte[u][v].frame
  BY DEF ForkEntries
<1>3. Mapped(r)' = Mapped(r) \cup {<<c, v>> : v \in PagesOn(s, r)}
  <2> DEFINE M == Mapped(r) \cup {<<c, v>> : v \in PagesOn(s, r)}
  <2>1. Mapped(r)' = {x \in (live \cup {c}) \X VPages : pte'[x[1]][x[2]].frame = r}
    BY <1>1 DEF Mapped
  <2>2. ASSUME NEW x \in (live \cup {c}) \X VPages
        PROVE  pte'[x[1]][x[2]].frame = r <=> x \in M
    <3>1. x[1] \in live \cup {c} /\ x[1] \in Procs /\ x[2] \in VPages /\ x = <<x[1], x[2]>>
      BY <1>1
    <3>2. CASE x[1] = c
      <4>1. x \notin Mapped(r)
        BY <1>1, <3>2 DEF Mapped
      <4>2. x \in {<<c, v>> : v \in PagesOn(s, r)} <=> pte[s][x[2]].frame = r
        BY <3>1, <3>2 DEF PagesOn
      <4> QED
        BY <1>2, <3>1, <3>2, <4>1, <4>2
    <3>3. CASE x[1] # c
      <4>1. x \notin {<<c, v>> : v \in PagesOn(s, r)}
        BY <3>1, <3>3
      <4>2. x \in live \X VPages
        BY <3>1, <3>3
      <4> QED
        BY <1>2, <3>1, <3>3, <4>1, <4>2 DEF Mapped
    <3> QED
      BY <3>2, <3>3
  <2>3. M \subseteq (live \cup {c}) \X VPages
    BY DEF Mapped, PagesOn
  <2> HIDE DEF M
  <2>4. Mapped(r)' = M
    BY <2>1, <2>2, <2>3
  <2> QED
    BY <2>4 DEF M
<1>4. /\ PcbUsers(r)' = IF r = p THEN {c} ELSE PcbUsers(r)
      /\ TableUsers(r)' = IF r = q THEN {c} ELSE TableUsers(r)
  BY <1>1 DEF PcbUsers, TableUsers, Unused
<1>5. r = p \/ r = q => PagesOn(s, r) = {}
  <2>1. s \in live
    BY DEF ForkEntries
  <2> QED
    BY <1>1, <2>1, MappedBy DEF Unused, PagesOn
<1> QED
  BY <1>3, <1>4, <1>5

\* A fork counts one more use of each frame of the parent, and one of each it takes.
LEMMA ForkCounts ==
  ASSUME CowInv, NEW s \in Procs, NEW c \in Procs, NEW p \in Offered, NEW q \in Offered,
         ForkEntries(s, c), ForkPages(s, c, p, q)
  PROVE  Counted'
<1>1. \A u \in Procs : cow'[u].at \notin {"drop", "map"}
  BY DEF ForkEntries
<1> SUFFICES ASSUME NEW r \in Offered
             PROVE  MEM_MAP'[r] = Count(r)'
  BY <1>1 DEF Counted
<1>2. /\ Mapped(r)' = Mapped(r) \cup {<<c, v>> : v \in PagesOn(s, r)}
      /\ PcbUsers(r)' = IF r = p THEN {c} ELSE PcbUsers(r)
      /\ TableUsers(r)' = IF r = q THEN {c} ELSE TableUsers(r)
      /\ r = p \/ r = q => PagesOn(s, r) = {}
  BY ForkUses
<1>3. /\ IsFiniteSet(VPages) /\ IsFiniteSet(Mapped(r)) /\ Cardinality(Mapped(r)) \in Nat
      /\ Cardinality(PcbUsers(r)) \in Nat /\ Cardinality(TableUsers(r)) \in Nat
  BY Finite DEF CowInv, Inv
<1>4. /\ IsFiniteSet(PagesOn(s, r)) /\ Cardinality(PagesOn(s, r)) \in Nat
  BY <1>3, FS_Subset, FS_CardinalityType DEF PagesOn
<1>5. Cardinality(Mapped(r)') = Cardinality(Mapped(r)) + Cardinality(PagesOn(s, r))
  <2> DEFINE T == {<<c, v>> : v \in PagesOn(s, r)}
  <2>1. IsFiniteSet(T) /\ Cardinality(T) = Cardinality(PagesOn(s, r))
    BY <1>4, EntriesOf
  <2>2. Mapped(r) \cap T = {}
    BY DEF ForkEntries, Mapped
  <2>3. Mapped(r)' = Mapped(r) \cup T
    BY <1>2
  <2> HIDE DEF T
  <2>4. Cardinality(Mapped(r) \cap T) = 0
    BY <2>2, FS_EmptySet
  <2> QED
    BY <1>3, <1>4, <2>1, <2>3, <2>4, FS_Union, SMTT(60)
<1>6. Count(r)' = Cardinality(Mapped(r)') + Cardinality(PcbUsers(r)') + Cardinality(TableUsers(r)')
  BY DEF Count
<1>7. /\ r \in Frames /\ p \in Frames /\ q \in Frames /\ r >= KERNEL_MEM
      /\ MEM_MAP \in [Frames -> Int]
      /\ MEM_MAP' = [Shared(pte[s], MEM_MAP) EXCEPT ![p] = 1, ![q] = 1] /\ p # q
      /\ Unused(p) /\ Unused(q)
  BY MemoryAssumption DEF Offered, Frames, CowInv, Inv, Types, ForkPages
<1>8. Shared(pte[s], MEM_MAP) \in [Frames -> Int]
  BY <1>7, SharedType
<1>9. Cardinality({c}) = 1 /\ Cardinality({}) = 0
  BY FS_Singleton, FS_EmptySet
<1>10. CASE r = p
  <2>1. Mapped(r) = {} /\ TableUsers(r) = {} /\ MEM_MAP'[r] = 1
    BY <1>7, <1>8, <1>10 DEF Unused
  <2>2. PcbUsers(r)' = {c} /\ TableUsers(r)' = {} /\ PagesOn(s, r) = {}
    BY <1>2, <1>7, <1>10, <2>1
  <2>3. /\ Cardinality(Mapped(r)') = 0 /\ Cardinality(PcbUsers(r)') = 1
        /\ Cardinality(TableUsers(r)') = 0
    BY <1>5, <1>9, <2>1, <2>2
  <2> QED
    BY <1>6, <2>1, <2>3
<1>11. CASE r = q
  <2>1. Mapped(r) = {} /\ PcbUsers(r) = {} /\ MEM_MAP'[r] = 1
    BY <1>7, <1>8, <1>11 DEF Unused
  <2>2. PcbUsers(r)' = {} /\ TableUsers(r)' = {c} /\ PagesOn(s, r) = {}
    BY <1>2, <1>7, <1>11, <2>1
  <2>3. /\ Cardinality(Mapped(r)') = 0 /\ Cardinality(PcbUsers(r)') = 0
        /\ Cardinality(TableUsers(r)') = 1
    BY <1>5, <1>9, <2>1, <2>2
  <2> QED
    BY <1>6, <2>1, <2>3
<1>12. CASE r # p /\ r # q
  <2>1. MEM_MAP'[r] = MEM_MAP[r] + Cardinality(PagesOn(s, r))
    BY <1>7, <1>8, <1>12 DEF Shared, PagesOn
  <2>2. MEM_MAP[r] = Count(r)
    BY DEF CowInv, Counted, ForkEntries
  <2> QED
    BY <1>2, <1>3, <1>4, <1>5, <1>6, <1>12, <2>1, <2>2 DEF Count
<1> QED
  BY <1>10, <1>11, <1>12

\* A fork leaves every entry of both processes read-only, so nobody writes to what is shared.
LEMMA ForkCow ==
  ASSUME CowInv, ~Preemptible, NEW s \in Procs, NEW c \in Procs, Fork(s, c)
  PROVE  CowPart'
<1>1. ForkEntries(s, c)
  BY ForkFacts
<1>2. PICK p \in Offered, q \in Offered : ForkPages(s, c, p, q)
  BY ForkFacts
<1>3. Counted'
  BY <1>1, <1>2, ForkCounts
<1>4. /\ s \in live /\ c \notin live /\ s # c /\ live' = live \cup {c} /\ cow' = cow
      /\ \A u \in Procs : cow[u].at \in {"idle", "hang"}
      /\ live \subseteq Procs /\ DataTypes
      /\ p \in Frames /\ q \in Frames /\ p # q /\ Unused(p) /\ Unused(q)
      /\ content' = [content EXCEPT ![p] = 0, ![q] = 0]
      /\ pcb' = [pcb EXCEPT ![c] = p] /\ table' = [table EXCEPT ![c] = q]
  BY <1>1, <1>2, MemoryAssumption DEF ForkEntries, ForkPages, CowInv, Inv, Types, Offered, Frames
<1>5. DataTypes'
  BY <1>4, FS_AddElement, MemoryAssumption DEF DataTypes
<1>6. Alone' /\ Working'
  BY <1>4 DEF CowInv, Alone, Working, Busy
<1>7. UsedOnce'
  <2> SUFFICES ASSUME NEW u \in live \cup {c}, NEW r \in Offered
               PROVE  /\ \A v, w \in VPages : pte'[u][v].frame = r /\ pte'[u][w].frame = r => v = w
                      /\ ~(pcb'[u] = r /\ table'[u] = r)
                      /\ \A v \in VPages : pte'[u][v].frame = r => pcb'[u] # r /\ table'[u] # r
    BY <1>4 DEF UsedOnce
  <2>1. CASE u = c
    <3>1. /\ \A v \in VPages : pte'[u][v].frame = pte[s][v].frame
          /\ pcb'[u] = p /\ table'[u] = q
      BY <1>1, <1>4, <2>1 DEF ForkEntries, DataTypes
    <3>2. \A v \in VPages : pte[s][v].frame # p /\ pte[s][v].frame # q
      BY <1>4, MappedBy DEF Unused
    <3> QED
      BY <1>4, <3>1, <3>2 DEF CowInv, UsedOnce
  <2>2. CASE u # c
    <3>1. /\ u \in live /\ \A v \in VPages : pte'[u][v].frame = pte[u][v].frame
          /\ pcb'[u] = pcb[u] /\ table'[u] = table[u]
      BY <1>1, <1>4, <2>2 DEF ForkEntries, DataTypes
    <3> QED
      BY <3>1 DEF CowInv, UsedOnce
  <2> QED
    BY <2>1, <2>2
<1>8. WritableIsPrivate'
  <2> SUFFICES ASSUME NEW u \in (live \cup {c}) \ {0}, NEW v \in VPages, pte'[u][v].rw
               PROVE  \A r : r = pte'[u][v].frame => Mapped(r)' = {<<u, v>>}
    BY <1>4 DEF WritableIsPrivate
  <2>1. u # c /\ u \in live
    BY <1>1 DEF ForkEntries
  <2>2. u # s
    <3>1. ASSUME u = s PROVE FALSE
      <4>1. pte[s][v].rw /\ pte[s][v].frame < KERNEL_MEM
        BY <1>1, <3>1 DEF ForkEntries
      <4>2. pte[s][v].frame \in Mappable /\ pte[s][v].frame >= MainStart
        BY <3>1, <4>1 DEF CowInv, Inv, Entries
      <4>3. pte[s][v].frame \in Int /\ pte[s][v].frame >= KERNEL_MEM
        BY <4>2, MappableSplits, Bounds DEF Mappable
      <4> QED
        BY <4>1, <4>3, Bounds
    <3> QED
      BY <3>1
  <2>3. pte'[u] = pte[u] /\ Mapped(pte[u][v].frame) = {<<u, v>>}
    BY <1>1, <1>4, <2>1, <2>2 DEF ForkEntries, CowInv, WritableIsPrivate
  <2>4. PagesOn(s, pte[u][v].frame) = {}
    <3> SUFFICES ASSUME NEW w \in PagesOn(s, pte[u][v].frame) PROVE FALSE
      OBVIOUS
    <3>1. w \in VPages /\ pte[s][w].frame = pte[u][v].frame
      BY DEF PagesOn
    <3>2. <<s, w>> \in Mapped(pte[s][w].frame)
      BY <1>4, <3>1, MappedBy
    <3> QED
      BY <2>2, <2>3, <3>1, <3>2
  <2>5. \A r : Mapped(r)' = Mapped(r) \cup {<<c, w>> : w \in PagesOn(s, r)}
    BY <1>1, <1>2, ForkUses
  <2> QED
    BY <2>3, <2>4, <2>5
<1> QED
  BY <1>3, <1>5, <1>6, <1>7, <1>8 DEF CowPart

---------------------------------------------------------------------------
(* The invariant.                                                          *)

\* Every step keeps it when the handler keeps the processor.
LEMMA NextCow == CowInv /\ ~Preemptible /\ [Next]_vars => CowInv'
<1> SUFFICES ASSUME CowInv, ~Preemptible, [Next]_vars PROVE CowInv'
  OBVIOUS
<1>1. Inv'
  BY NextMemInv DEF CowInv
<1>2. CowPart'
  <2>1. CASE UNCHANGED vars
    <3>1. content' \in [Frames -> Vals]
      BY <2>1 DEF vars, CowInv, DataTypes
    <3> QED
      BY <2>1, <3>1, ContentCow DEF vars
  <2>2. ASSUME NEW s \in Procs, NEW c \in Procs, Fork(s, c) PROVE CowPart'
    BY <2>2, ForkCow
  <2>3. ASSUME NEW s \in Procs, ForkFails(s) PROVE CowPart'
    BY <2>3, ForkFailsCow
  <2>4. ASSUME NEW s \in Procs, NEW v \in VPages, NEW x \in Vals, Write(s, v, x) PROVE CowPart'
    BY <2>4, WriteCow
  <2>5. ASSUME NEW s \in Procs, NEW v \in VPages, WriteFault(s, v) PROVE CowPart'
    BY <2>5, FaultCow
  <2>6. ASSUME NEW s \in Procs,
               FindPage(s) \/ ClaimPage(s) \/ DropOld(s) \/ MapNew(s) \/ CopyPage(s)
        PROVE  CowPart'
    BY <2>6, FindCow, ClaimCow, DropCow, MapCow, CopyCow
  <2> QED
    BY <2>1, <2>2, <2>3, <2>4, <2>5, <2>6 DEF Next
<1> QED
  BY <1>1, <1>2 DEF CowInv, CowPart

\* Without preemption in the fault handler, doWpPage, freePage and the copying of page
\* tables keep the counts of MEM_MAP equal to the uses, and a writable frame has one use.
THEOREM CowInvariant == Spec => [](~Preemptible => CowInv)
<1>1. Init => (~Preemptible => CowInv)
  BY InitCow
<1>2. (~Preemptible => CowInv) /\ [Next]_vars => (~Preemptible => CowInv)'
  BY NextCow
<1> QED
  BY <1>1, <1>2, PTL DEF Spec

\* No page leaks and none is given out while it is in use.
THEOREM PagesAreCounted == Spec => [](~Preemptible => CountsAreUses)
<1>1. CowInv => CountsAreUses
  <2> SUFFICES ASSUME CowInv, \A s \in live : cow[s].at \in {"idle", "find", "hang"},
                      NEW p \in Offered
               PROVE  MEM_MAP[p] = Count(p)
    BY DEF CountsAreUses, Count, PcbUsers, TableUsers
  <2>1. \A s \in Procs : cow[s].at \notin {"drop", "map"}
    BY DEF CowInv, Alone
  <2> QED
    BY <2>1 DEF CowInv, Counted
<1> QED
  BY <1>1, CowInvariant, PTL

\* A frame that a process may write is mapped by no other entry of any process.
THEOREM WritersAreAlone == Spec => [](~Preemptible => WritableIsPrivate)
<1>1. CowInv => WritableIsPrivate
  BY DEF CowInv
<1> QED
  BY <1>1, CowInvariant, PTL

---------------------------------------------------------------------------
(* The signed char of MEM_MAP.                                             *)

\* A frame of main memory has no more uses than there are processes.
LEMMA CountBound ==
  ASSUME CowInv, IsFiniteSet(Procs), NEW p \in Offered
  PROVE  Count(p) \in Nat /\ Count(p) <= Cardinality(Procs)
<1> DEFINE A == {s \in live : \E v \in VPages : pte[s][v].frame = p}
           f == [x \in Mapped(p) |-> x[1]]
           B == PcbUsers(p)
           C == TableUsers(p)
<1>1. /\ IsFiniteSet(live) /\ live \subseteq Procs
      /\ \A s \in live : /\ \A v, w \in VPages : pte[s][v].frame = p /\ pte[s][w].frame = p => v = w
                         /\ ~(pcb[s] = p /\ table[s] = p)
                         /\ \A v \in VPages : pte[s][v].frame = p => pcb[s] # p /\ table[s] # p
  BY DEF CowInv, DataTypes, Inv, Types, UsedOnce
<1>2. /\ IsFiniteSet(Mapped(p)) /\ Cardinality(Mapped(p)) \in Nat
      /\ IsFiniteSet(B) /\ Cardinality(B) \in Nat
      /\ IsFiniteSet(C) /\ Cardinality(C) \in Nat /\ Count(p) \in Nat
  BY Finite DEF CowInv, Inv
<1>3. A \cap B = {} /\ (A \cup B) \cap C = {} /\ (A \cup B) \cup C \subseteq Procs
  BY <1>1 DEF PcbUsers, TableUsers
<1>4. IsFiniteSet(A) /\ Cardinality(A) = Cardinality(Mapped(p))
  <2>1. \A x \in Mapped(p) : /\ x[1] \in live /\ x[2] \in VPages /\ x = <<x[1], x[2]>>
                             /\ pte[x[1]][x[2]].frame = p
    BY DEF Mapped
  <2>2. f \in [Mapped(p) -> A]
    BY <2>1
  <2>3. \A x, y \in Mapped(p) : f[x] = f[y] => x = y
    BY <1>1, <2>1
  <2>4. \A s \in A : \E x \in Mapped(p) : f[x] = s
    <3> SUFFICES ASSUME NEW s \in A PROVE \E x \in Mapped(p) : f[x] = s
      OBVIOUS
    <3>1. PICK v \in VPages : pte[s][v].frame = p
      OBVIOUS
    <3>2. <<s, v>> \in Mapped(p) /\ f[<<s, v>>] = s
      BY <3>1 DEF Mapped
    <3> QED
      BY <3>2
  <2> HIDE DEF f, A
  <2>5. f \in Bijection(Mapped(p), A)
    BY <2>2, <2>3, <2>4 DEF Bijection, Injection, Surjection, IsInjective
  <2>6. ExistsBijection(Mapped(p), A)
    BY <2>5 DEF ExistsBijection
  <2> QED
    BY <1>2, <2>6, FS_Bijection
<1> HIDE DEF A, B, C, f
<1>5. /\ Cardinality(A \cap B) = 0 /\ Cardinality((A \cup B) \cap C) = 0
      /\ Cardinality(A) \in Nat
  BY <1>2, <1>3, <1>4, FS_EmptySet
<1>6. /\ IsFiniteSet(A \cup B) /\ Cardinality(A \cup B) = Cardinality(A) + Cardinality(B)
  <2>1. /\ IsFiniteSet(A \cup B)
        /\ Cardinality(A \cup B) = Cardinality(A) + Cardinality(B) - Cardinality(A \cap B)
    BY <1>2, <1>4, FS_Union
  <2> QED
    BY <1>2, <1>5, <2>1
<1>7. /\ IsFiniteSet((A \cup B) \cup C)
      /\ Cardinality((A \cup B) \cup C) = Cardinality(A) + Cardinality(B) + Cardinality(C)
  <2> DEFINE D == A \cup B
  <2>1. IsFiniteSet(D) /\ Cardinality(D \cap C) = 0 /\ Cardinality(D) = Cardinality(A) + Cardinality(B)
    BY <1>5, <1>6
  <2> HIDE DEF D
  <2>2. /\ IsFiniteSet(D \cup C)
        /\ Cardinality(D \cup C) = Cardinality(D) + Cardinality(C) - Cardinality(D \cap C)
    BY <1>2, <2>1, FS_Union
  <2>3. Cardinality(D \cup C) = Cardinality(A) + Cardinality(B) + Cardinality(C)
    BY <1>2, <1>5, <2>1, <2>2
  <2> QED
    BY <2>2, <2>3 DEF D
<1>8. Cardinality((A \cup B) \cup C) <= Cardinality(Procs)
  BY <1>3, FS_Subset
<1> QED
  BY <1>2, <1>4, <1>7, <1>8 DEF Count, B, C

\* The frames that initMemory counts as used are never counted again: an entry
\* maps a frame below KERNEL_MEM, which is not counted, or one of main memory.
Pinned == \A p \in Frames : p < MainStart => MEM_MAP[p] = 100

\* No step counts a use of a frame below main memory.
LEMMA NextPinned ==
  ASSUME Inv, Pinned, [Next]_vars
  PROVE  Pinned'
<1>1. CASE UNCHANGED MEM_MAP
  BY <1>1 DEF Pinned
<1>2. ASSUME NEW s \in Procs, NEW c \in Procs, Fork(s, c) PROVE Pinned'
  <2>1. PICK p \in Frames, q \in Frames :
          /\ IsFree(p) /\ IsFree(q)
          /\ MEM_MAP' = [Shared(pte[s], MEM_MAP) EXCEPT ![p] = 1, ![q] = 1]
    BY <1>2 DEF Fork, IsLowestFree
  <2>2. p >= MainStart /\ q >= MainStart
    BY <2>1, FreeIsOffered
  <2>3. Shared(pte[s], MEM_MAP) \in [Frames -> Int]
    BY SharedType DEF Inv, Types
  <2> SUFFICES ASSUME NEW r \in Frames, r < MainStart PROVE MEM_MAP'[r] = 100
    BY DEF Pinned
  <2>4. r # p /\ r # q /\ MEM_MAP[r] = 100
    BY <2>2, Bounds DEF Pinned
  <2>5. MEM_MAP'[r] = Shared(pte[s], MEM_MAP)[r]
    BY <2>1, <2>3, <2>4
  <2>6. CASE r < KERNEL_MEM
    <3>1. ~(r >= KERNEL_MEM)
      BY <2>6, Bounds
    <3> QED
      BY <2>4, <2>5, <3>1 DEF Shared
  <2>7. CASE r >= KERNEL_MEM
    <3>1. \A v \in VPages : pte[s][v].frame # r
      <4>1. r \notin Mappable
        BY <2>7, Bounds DEF Mappable
      <4> QED
        BY <4>1 DEF Inv, Entries
    <3>2. {v \in VPages : pte[s][v].frame = r} = {}
      BY <3>1
    <3>3. Cardinality({v \in VPages : pte[s][v].frame = r}) = 0
      BY <3>2, FS_EmptySet
    <3> QED
      BY <2>4, <2>5, <2>7, <3>3 DEF Shared
  <2> QED
    BY <2>6, <2>7, Bounds
<1>3. ASSUME NEW s \in Procs, ClaimPage(s) PROVE Pinned'
  <2>1. /\ cow[s].new \in Frames /\ cow[s].new >= MainStart
        /\ MEM_MAP' = [MEM_MAP EXCEPT ![cow[s].new] = 1] /\ MEM_MAP \in [Frames -> Int]
    BY <1>3 DEF ClaimPage, At, Inv, Handler, Types
  <2>2. \A p \in Frames : p < MainStart => p # cow[s].new
    BY <2>1, Bounds
  <2> QED
    BY <2>1, <2>2 DEF Pinned
<1>4. ASSUME NEW s \in Procs, DropOld(s) PROVE Pinned'
  <2>1. /\ cow[s].old \in Mappable /\ MEM_MAP \in [Frames -> Int]
        /\ MEM_MAP' = IF cow[s].old >= KERNEL_MEM
                        THEN [MEM_MAP EXCEPT ![cow[s].old] = @ - 1] ELSE MEM_MAP
    BY <1>4 DEF DropOld, At, Inv, Handler, Types
  <2>2. cow[s].old >= KERNEL_MEM => cow[s].old >= MainStart
    BY <2>1, MappableSplits
  <2> QED
    BY <2>1, <2>2, Bounds DEF Pinned
<1> QED
  BY <1>1, <1>2, <1>3, <1>4
     DEF Next, ForkFails, Write, WriteFault, FindPage, MapNew, CopyPage, vars

\* With at most 127 processes (the code has 64) a count fits in the signed char
\* of MEM_MAP and is never negative.
LEMMA CountsFit ==
  ASSUME CowInv, Pinned, IsFiniteSet(Procs), Cardinality(Procs) <= 127
  PROVE  TypeOK
<1>1. MEM_MAP \in [Frames -> 0 .. 127]
  <2>1. MEM_MAP \in [Frames -> Int]
    BY DEF CowInv, Inv, Types
  <2> SUFFICES ASSUME NEW p \in Frames PROVE MEM_MAP[p] \in 0 .. 127
    BY <2>1
  <2>2. CASE p < MainStart
    BY <2>2 DEF Pinned
  <2>3. CASE p >= MainStart
    <3>1. p \in Offered
      BY <2>3, MemoryAssumption DEF Offered, Frames
    <3>2. Count(p) \in Nat /\ Count(p) <= 127
      BY <3>1, CountBound, FS_CardinalityType
    <3>3. CASE \A s \in Procs : cow[s].at \notin {"drop", "map"}
      BY <3>1, <3>2, <3>3 DEF CowInv, Counted
    <3>4. ASSUME NEW s \in Procs, cow[s].at \in {"drop", "map"} PROVE MEM_MAP[p] \in 0 .. 127
      <4>1. MEM_MAP[p] = Count(p) + (IF p = cow[s].new THEN 1 ELSE 0)
                         - (IF cow[s].at = "map" /\ p = cow[s].old THEN 1 ELSE 0)
        BY <3>1, <3>4 DEF CowInv, Counted
      <4>2. Unused(cow[s].new) /\ pte[s][cow[s].v].frame = cow[s].old
            /\ s \in live /\ cow[s].v \in VPages
        BY <3>4 DEF CowInv, Working, Alone, Inv, Handler
      <4>3. p = cow[s].new => Count(p) = 0
        BY <4>2, CountZero DEF CowInv, Inv
      <4>4. p = cow[s].old => Count(p) # 0
        <5>1. p = cow[s].old => ~Unused(p)
          BY <4>2, MappedBy DEF Unused
        <5> QED
          BY <5>1, CountZero DEF CowInv, Inv
      <4> QED
        BY <3>2, <4>1, <4>3, <4>4
    <3> QED
      BY <3>3, <3>4
  <2> QED
    BY <2>2, <2>3, Bounds
<1>2. /\ pcb \in [Procs -> Frames \cup {Nil}] /\ table \in [Procs -> Frames \cup {Nil}]
      /\ content \in [Frames -> Vals] /\ live \in SUBSET Procs
      /\ pte \in [Procs -> [VPages -> [frame : Frames, rw : BOOLEAN]]]
      /\ cow \in [Procs -> Handlers]
  BY DEF CowInv, DataTypes, Inv, Types
<1> QED
  BY <1>1, <1>2 DEF TypeOK, Handlers, Phases

\* The counts of MEM_MAP, which are signed chars, neither overflow nor get negative, as
\* long as there are at most 127 processes; the table of tasks holds 64.
THEOREM CountsFitInAChar ==
  ASSUME IsFiniteSet(Procs), Cardinality(Procs) <= 127
  PROVE  Spec => [](~Preemptible => TypeOK)
<1>1. Init => Inv /\ Pinned
  BY InitMemInv DEF Init, Pinned, MapAfterInit
<1>2. Inv /\ Pinned /\ [Next]_vars => (Inv /\ Pinned)'
  BY NextMemInv, NextPinned
<1>3. Spec => [](Inv /\ Pinned)
  BY <1>1, <1>2, PTL DEF Spec
<1>4. (~Preemptible => CowInv) /\ Inv /\ Pinned => (~Preemptible => TypeOK)
  BY CountsFit
<1> QED
  BY <1>3, <1>4, CowInvariant, PTL

---------------------------------------------------------------------------
(* What the processes see.                                                 *)

\* A step that keeps the contents of what everybody sees changes no memory.
LEMMA SameView ==
  ASSUME live' = live,
         \A u \in live, w \in VPages : content'[Seen(u, w)'] = content[Seen(u, w)]
  PROVE  View' = View
  BY DEF View

\* Outside a copy a process sees the frames it maps, and a frame without use
\* is seen by nobody.
LEMMA SeenFrames ==
  ASSUME CowInv, NEW u \in live, NEW w \in VPages
  PROVE  /\ cow[u].at # "copy" => Seen(u, w) = pte[u][w].frame
         /\ Seen(u, w) \in Frames
         /\ \A p : Unused(p) => pte[u][w].frame # p
<1>1. u \in Procs /\ pte[u][w].frame \in Frames
  BY DEF CowInv, Inv, Types
<1>2. cow[u].at = "copy" => cow[u].old \in Frames
  BY <1>1 DEF CowInv, Inv, Handler, Mappable
<1>3. \A p : Unused(p) => pte[u][w].frame # p
  BY MappedBy DEF Unused
<1> QED
  BY <1>1, <1>2, <1>3 DEF Seen

\* A step of the handler before the new frame is mapped.
LEMMA FindView ==
  ASSUME CowInv, ~Preemptible, NEW s \in Procs, cow[s].at \in Busy \ {"copy"}, Scheduled(s),
         UNCHANGED <<live, pte>>, \A u \in Procs \ {s} : cow'[u] = cow[u], cow'[s].at # "copy",
         \A p \in Frames : ~Unused(p) => content'[p] = content[p]
  PROVE  View' = View
<1> SUFFICES ASSUME NEW u \in live, NEW w \in VPages
             PROVE  content'[Seen(u, w)'] = content[Seen(u, w)]
  BY SameView
<1>1. u \in Procs /\ cow[u].at # "copy" /\ cow'[u].at # "copy"
  BY OthersRest, ZenonT(60) DEF CowInv, Inv, Types
<1>2. Seen(u, w) = pte[u][w].frame /\ Seen(u, w)' = pte[u][w].frame
  BY <1>1 DEF Seen
<1>3. pte[u][w].frame \in Frames /\ ~Unused(pte[u][w].frame)
  BY <1>2, SeenFrames
<1> QED
  BY <1>2, <1>3

\* The new frame is mapped before it is filled: until then the process is taken to see
\* the old one.
LEMMA MapView ==
  ASSUME CowInv, ~Preemptible, NEW s \in Procs, MapNew(s)
  PROVE  View' = View
<1> DEFINE v == cow[s].v
<1>1. /\ cow[s].at = "map" /\ Scheduled(s) /\ UNCHANGED <<content, live>> /\ live \subseteq Procs
      /\ pte' = [pte EXCEPT ![s][v] = [frame |-> cow[s].new, rw |-> TRUE]]
      /\ Goto(s, "copy") /\ cow \in [Procs -> Handlers]
      /\ pte \in [Procs -> [VPages -> [frame : Frames, rw : BOOLEAN]]]
  BY DEF MapNew, At, CowInv, Inv, Types
<1>2. /\ \A u \in Procs \ {s} : cow'[u] = cow[u]
      /\ cow'[s].at = "copy" /\ cow'[s].v = v /\ cow'[s].old = cow[s].old
  BY <1>1, GotoType DEF Phases
<1>3. \A u \in Procs \ {s} : cow[u].at \in {"idle", "hang"}
  BY <1>1, OthersRest
<1>4. pte[s][v].frame = cow[s].old
  BY <1>1 DEF CowInv, Working
<1>5. \A u \in Procs, w \in VPages : u # s \/ w # v => pte'[u][w] = pte[u][w]
  BY <1>1
<1> HIDE DEF v
<1>6. ASSUME NEW u \in live, NEW w \in VPages
      PROVE  Seen(u, w)' = Seen(u, w)
  <2>1. Seen(u, w) = pte[u][w].frame
    BY <1>1, <1>3 DEF Seen
  <2>2. CASE u = s /\ w = v
    BY <1>2, <1>4, <2>1, <2>2 DEF Seen
  <2>3. CASE ~(u = s /\ w = v)
    <3>1. ~(cow'[u].at = "copy" /\ cow'[u].v = w)
      BY <1>1, <1>2, <1>3, <2>3
    <3> QED
      BY <1>1, <1>5, <2>1, <2>3, <3>1 DEF Seen
  <2> QED
    BY <2>2, <2>3
<1> QED
  BY <1>1, <1>6, SameView

\* The copy gives the new frame, which nobody else maps, what the process sees
\* of the old one.
LEMMA CopyView ==
  ASSUME CowInv, ~Preemptible, NEW s \in Procs, CopyPage(s)
  PROVE  View' = View
<1> DEFINE v == cow[s].v
           old == cow[s].old
           new == cow[s].new
<1>1. /\ cow[s].at = "copy" /\ Scheduled(s) /\ UNCHANGED <<live, pte>> /\ live \subseteq Procs
      /\ content' = [content EXCEPT ![new] = content[old]] /\ content \in [Frames -> Vals]
      /\ cow' = [cow EXCEPT ![s] = Idle] /\ cow \in [Procs -> Handlers] /\ new \in Frames
  BY DEF CopyPage, At, CowInv, Inv, Types, Handler, DataTypes
<1>2. \A u \in Procs \ {s} : cow[u].at \in {"idle", "hang"} /\ cow'[u] = cow[u]
  BY <1>1, OthersRest
<1>3. cow'[s].at = "idle"
  BY <1>1 DEF Idle
<1>4. pte[s][v].frame = new /\ pte[s][v].rw /\ s \in live /\ s # 0 /\ v \in VPages
  BY <1>1 DEF CowInv, Working, Alone, Inv, Handler
<1>5. Mapped(new) = {<<s, v>>}
  BY <1>4 DEF CowInv, WritableIsPrivate
<1> HIDE DEF v, old, new
<1>6. ASSUME NEW u \in live, NEW w \in VPages
      PROVE  content'[Seen(u, w)'] = content[Seen(u, w)]
  <2>1. Seen(u, w)' = pte[u][w].frame
    BY <1>1, <1>2, <1>3 DEF Seen
  <2>2. CASE u = s /\ w = v
    <3>1. Seen(u, w) = old
      BY <1>1, <2>2 DEF Seen, v, old
    <3> QED
      BY <1>1, <1>4, <2>1, <2>2, <3>1
  <2>3. CASE ~(u = s /\ w = v)
    <3>1. Seen(u, w) = pte[u][w].frame
      BY <1>1, <1>2, <2>3 DEF Seen, v
    <3>2. pte[u][w].frame # new
      <4>1. <<u, w>> \in Mapped(pte[u][w].frame) /\ <<u, w>> # <<s, v>>
        BY <2>3, MappedBy
      <4> QED
        BY <1>5, <4>1
    <3> QED
      BY <1>1, <2>1, <3>1, <3>2
  <2> QED
    BY <2>2, <2>3
<1> QED
  BY <1>1, <1>6, SameView

\* No step of the fault handler, and no failing fork, changes a memory.
LEMMA HandlerView ==
  ASSUME CowInv, ~Preemptible, NEW s \in Procs,
         \/ FindPage(s) \/ ClaimPage(s) \/ DropOld(s) \/ MapNew(s) \/ CopyPage(s)
  PROVE  View' = View
<1>1. cow \in [Procs -> Handlers]
  BY DEF CowInv, Inv, Types
<1>2. CASE FindPage(s)
  <2>1. cow[s].at = "find" /\ Scheduled(s) /\ UNCHANGED <<content, live, pte>>
    BY <1>2 DEF FindPage, At
  <2>2. (\A u \in Procs \ {s} : cow'[u] = cow[u]) /\ cow'[s].at # "copy"
    <3>1. CASE Goto(s, "hang")
      BY <1>1, <3>1, GotoType DEF Phases
    <3>2. ASSUME NEW p \in Frames, cow' = [cow EXCEPT ![s].at = "claim", ![s].new = p]
          PROVE  (\A u \in Procs \ {s} : cow'[u] = cow[u]) /\ cow'[s].at = "claim"
      BY <1>1, <3>2 DEF Handlers
    <3> QED
      BY <1>2, <3>1, <3>2 DEF FindPage
  <2> QED
    BY <2>1, <2>2, FindView DEF Busy
<1>3. CASE ClaimPage(s)
  <2>1. /\ cow[s].at = "claim" /\ Scheduled(s) /\ UNCHANGED <<live, pte>> /\ Goto(s, "drop")
        /\ content' = [content EXCEPT ![cow[s].new] = 0] /\ content \in [Frames -> Vals]
        /\ cow[s].new \in Frames /\ IsFree(cow[s].new)
    BY <1>3 DEF ClaimPage, At, CowInv, Inv, Handler, DataTypes, Working
  <2>2. (\A u \in Procs \ {s} : cow'[u] = cow[u]) /\ cow'[s].at = "drop"
    BY <1>1, <2>1, GotoType DEF Phases
  <2>3. \A u \in Procs : cow[u].at \notin {"drop", "map"}
    BY <2>1, OthersRest
  <2>4. Unused(cow[s].new)
    BY <2>1, <2>3, FreeIsUnused
  <2>5. \A p \in Frames : ~Unused(p) => content'[p] = content[p]
    BY <2>1, <2>4
  <2> QED
    BY <2>1, <2>2, <2>5, FindView DEF Busy
<1>4. CASE DropOld(s)
  <2>1. cow[s].at = "drop" /\ Scheduled(s) /\ UNCHANGED <<content, live, pte>> /\ Goto(s, "map")
    BY <1>4 DEF DropOld, At
  <2>2. (\A u \in Procs \ {s} : cow'[u] = cow[u]) /\ cow'[s].at = "map"
    BY <1>1, <2>1, GotoType DEF Phases
  <2> QED
    BY <2>1, <2>2, FindView DEF Busy
<1> QED
  BY <1>2, <1>3, <1>4, MapView, CopyView

\* A fault itself changes no process's memory.
LEMMA FaultView ==
  ASSUME CowInv, ~Preemptible, NEW s \in Procs, NEW v \in VPages, WriteFault(s, v)
  PROVE  View' = View
<1>1. /\ Scheduled(s) /\ cow[s].at = "idle" /\ UNCHANGED <<content, live>> /\ live \subseteq Procs
      /\ cow \in [Procs -> Handlers] /\ pte \in [Procs -> [VPages -> [frame : Frames, rw : BOOLEAN]]]
  BY DEF WriteFault, Running, CowInv, Inv, Types
<1>2. \A u \in Procs : cow[u].at \in {"idle", "hang"}
  BY <1>1, OthersRest
<1>3. /\ \A u \in Procs, w \in VPages : pte'[u][w].frame = pte[u][w].frame
      /\ \A u \in Procs : cow'[u].at # "copy"
  <2>1. ASSUME pte' = [pte EXCEPT ![s][v].rw = TRUE], cow' = cow
        PROVE  /\ \A u \in Procs, w \in VPages : pte'[u][w].frame = pte[u][w].frame
               /\ \A u \in Procs : cow'[u].at # "copy"
    <3>1. \A u \in Procs, w \in VPages : pte'[u][w].frame = pte[u][w].frame
      BY <1>1, <2>1
    <3> QED
      BY <1>2, <2>1, <3>1
  <2>2. ASSUME pte' = pte, NEW f,
               cow' = [cow EXCEPT ![s] = [at |-> "find", v |-> v, old |-> f, new |-> Nil]]
        PROVE  /\ \A u \in Procs, w \in VPages : pte'[u][w].frame = pte[u][w].frame
               /\ \A u \in Procs : cow'[u].at # "copy"
    BY <1>1, <1>2, <2>2
  <2> QED
    BY <2>1, <2>2 DEF WriteFault
<1>4. \A u \in live, w \in VPages : Seen(u, w)' = Seen(u, w)
  BY <1>1, <1>2, <1>3 DEF Seen
<1> QED
  BY <1>1, <1>4, SameView

\* A fork that fails changes no process's memory.
LEMMA ForkFailsView ==
  ASSUME CowInv, ~Preemptible, NEW s \in Procs, ForkFails(s)
  PROVE  View' = View
<1>1. PICK p \in Frames : IsFree(p) /\ content' = [content EXCEPT ![p] = 0]
  BY DEF ForkFails, IsLowestFree
<1>2. /\ Scheduled(s) /\ cow[s].at = "idle" /\ UNCHANGED <<live, pte, cow>> /\ live \subseteq Procs
      /\ content \in [Frames -> Vals]
  BY DEF ForkFails, Running, CowInv, Inv, Types, DataTypes
<1>3. \A u \in Procs : cow[u].at \in {"idle", "hang"}
  BY <1>2, OthersRest
<1>4. Unused(p)
  BY <1>1, <1>3, FreeIsUnused
<1> SUFFICES ASSUME NEW u \in live, NEW w \in VPages
             PROVE  content'[Seen(u, w)'] = content[Seen(u, w)]
  BY <1>2, SameView
<1>5. Seen(u, w)' = pte[u][w].frame /\ Seen(u, w) = pte[u][w].frame
  BY <1>2, <1>3 DEF Seen
<1>6. pte[u][w].frame # p /\ pte[u][w].frame \in Frames
  BY <1>4, <1>5, SeenFrames
<1> QED
  BY <1>1, <1>2, <1>5, <1>6

\* fork gives the child the parent's memory.
LEMMA ForkView ==
  ASSUME CowInv, ~Preemptible, NEW s \in Procs, NEW c \in Procs, Fork(s, c)
  PROVE  Cow!Fork(s, c)
<1>1. ForkEntries(s, c)
  BY ForkFacts
<1>2. PICK p \in Offered, q \in Offered : ForkPages(s, c, p, q)
  BY ForkFacts
<1>3. /\ s \in live /\ c \notin live /\ live' = live \cup {c} /\ cow' = cow /\ live \subseteq Procs
      /\ \A u \in Procs : cow[u].at \in {"idle", "hang"}
      /\ content \in [Frames -> Vals] /\ content' = [content EXCEPT ![p] = 0, ![q] = 0]
      /\ Unused(p) /\ Unused(q)
      /\ \A u \in Procs, w \in VPages :
           pte'[u][w].frame = IF u = c THEN pte[s][w].frame ELSE pte[u][w].frame
  BY <1>1, <1>2 DEF ForkEntries, ForkPages, CowInv, DataTypes, Inv, Types
<1>4. ASSUME NEW u \in live \cup {c}, NEW w \in VPages
      PROVE  content'[Seen(u, w)'] = IF u = c THEN content[Seen(s, w)] ELSE content[Seen(u, w)]
  <2> DEFINE o == IF u = c THEN s ELSE u
  <2>1. o \in live /\ Seen(u, w)' = pte[o][w].frame /\ Seen(o, w) = pte[o][w].frame
    BY <1>3 DEF Seen
  <2>2. pte[o][w].frame \in Frames /\ pte[o][w].frame # p /\ pte[o][w].frame # q
    BY <1>3, <2>1, SeenFrames
  <2>3. content'[Seen(u, w)'] = content[Seen(o, w)]
    BY <1>3, <2>1, <2>2
  <2> QED
    BY <2>3
<1>5. DOMAIN View = live /\ \A u \in live : View[u] = [w \in VPages |-> content[Seen(u, w)]]
  BY DEF View
<1>6. View' = [u \in live \cup {c} |-> IF u = c THEN View[s] ELSE View[u]]
  <2>1. View' = [u \in live \cup {c} |-> [w \in VPages |-> content'[Seen(u, w)']]]
    BY <1>3 DEF View
  <2>2. ASSUME NEW u \in live \cup {c}
        PROVE  [w \in VPages |-> content'[Seen(u, w)']] = IF u = c THEN View[s] ELSE View[u]
    <3>1. CASE u = c
      <4>1. \A w \in VPages : content'[Seen(u, w)'] = content[Seen(s, w)]
        BY <1>4, <3>1
      <4>2. [w \in VPages |-> content'[Seen(u, w)']] = [w \in VPages |-> content[Seen(s, w)]]
        BY <4>1
      <4> QED
        BY <1>3, <1>5, <3>1, <4>2
    <3>2. CASE u # c
      BY <1>4, <1>5, <3>2
    <3> QED
      BY <3>1, <3>2
  <2> QED
    BY <2>1, <2>2
<1> QED
  BY <1>3, <1>5, <1>6 DEF Cow!Fork

\* A write is seen by the process that made it and by nobody else.
LEMMA WriteView ==
  ASSUME CowInv, ~Preemptible, NEW s \in Procs, NEW v \in VPages, NEW x \in Vals, Write(s, v, x)
  PROVE  Cow!Write(s, v, x)
<1> DEFINE f == pte[s][v].frame
<1>1. /\ s \in live /\ Scheduled(s) /\ cow[s].at = "idle" /\ UNCHANGED <<live, pte, cow>>
      /\ live \subseteq Procs /\ content \in [Frames -> Vals] /\ content' = [content EXCEPT ![f] = x]
      /\ Mapped(f) = {<<s, v>>} /\ f \in Frames
  BY DEF Write, Running, CowInv, Inv, Types, DataTypes, WritableIsPrivate
<1>2. \A u \in Procs : cow[u].at \in {"idle", "hang"}
  BY <1>1, OthersRest
<1>3. ASSUME NEW u \in live, NEW w \in VPages
      PROVE  content'[Seen(u, w)'] = IF u = s /\ w = v THEN x ELSE content[Seen(u, w)]
  <2>1. Seen(u, w)' = pte[u][w].frame /\ Seen(u, w) = pte[u][w].frame
    BY <1>1, <1>2 DEF Seen
  <2>2. CASE u = s /\ w = v
    BY <1>1, <2>1, <2>2
  <2>3. CASE ~(u = s /\ w = v)
    <3>1. <<u, w>> \in Mapped(pte[u][w].frame) /\ <<u, w>> # <<s, v>>
      BY <2>3, MappedBy
    <3>2. pte[u][w].frame # f
      BY <1>1, <3>1
    <3> QED
      BY <1>1, <2>1, <2>3, <3>2
  <2> QED
    BY <2>2, <2>3
<1>4. View = [u \in live |-> [w \in VPages |-> content[Seen(u, w)]]]
  BY DEF View
<1>5. View' = [View EXCEPT ![s][v] = x]
  <2>1. View' = [u \in live |-> [w \in VPages |-> content'[Seen(u, w)']]]
    BY <1>1 DEF View
  <2>2. ASSUME NEW u \in live
        PROVE  [w \in VPages |-> content'[Seen(u, w)']]
                 = IF u = s THEN [View[s] EXCEPT ![v] = x] ELSE View[u]
    <3>1. View[u] = [w \in VPages |-> content[Seen(u, w)]]
      BY <1>4
    <3>2. CASE u = s
      BY <1>3, <3>1, <3>2
    <3>3. CASE u # s
      BY <1>3, <3>1, <3>3
    <3> QED
      BY <3>2, <3>3
  <2>3. [View EXCEPT ![s][v] = x]
          = [u \in live |-> IF u = s THEN [View[s] EXCEPT ![v] = x] ELSE View[u]]
    BY <1>4
  <2> QED
    BY <2>1, <2>2, <2>3
<1>6. s \in DOMAIN View
  BY <1>1, <1>4
<1> QED
  BY <1>5, <1>6 DEF Cow!Write

\* No step of the page fault handler changes what any process reads.
THEOREM FaultsAreInvisible == ~Preemptible /\ Spec => FaultsKeepMemory
<1> SUFFICES ASSUME ~Preemptible PROVE Spec => FaultsKeepMemory
  OBVIOUS
<1>1. (~Preemptible => CowInv) /\ [Next]_vars => [cow' # cow => View' = View]_vars
  <2> SUFFICES ASSUME CowInv, Next, cow' # cow PROVE View' = View
    BY DEF vars
  <2>1. ASSUME NEW s \in Procs PROVE /\ \A c \in Procs : ~Fork(s, c)
                                     /\ ~ForkFails(s)
                                     /\ \A v \in VPages, x \in Vals : ~Write(s, v, x)
    BY DEF Fork, ForkFails, Write
  <2> QED
    BY <2>1, FaultView, HandlerView DEF Next
<1> QED
  BY <1>1, CowInvariant, PTL DEF Spec, FaultsKeepMemory

\* The processes have memories of their own: a fork copies one, a write changes
\* one page of one, and nothing else changes any.
THEOREM MemoriesArePrivate == ~Preemptible /\ Spec => ImplementsCow
<1> SUFFICES ASSUME ~Preemptible PROVE Spec => ImplementsCow
  OBVIOUS
<1>1. Init => Cow!Init
  <2> SUFFICES ASSUME Init PROVE View = [s \in {0} |-> Image]
    BY DEF Cow!Init
  <2>1. \A w \in VPages : Seen(0, w) = w /\ content[w] = Image[w]
    BY Bounds DEF Init, Seen, Idle
  <2>2. View = [s \in {0} |-> [w \in VPages |-> content[Seen(s, w)]]]
    BY DEF View, Init
  <2>3. [w \in VPages |-> content[Seen(0, w)]] = Image
    BY <2>1, MemoryAssumption
  <2> QED
    BY <2>2, <2>3
<1>2. (~Preemptible => CowInv) /\ [Next]_vars => [Cow!Next]_View
  <2> SUFFICES ASSUME CowInv, [Next]_vars PROVE [Cow!Next]_View
    OBVIOUS
  <2>1. CASE UNCHANGED vars
    BY <2>1 DEF vars, View, Seen
  <2>2. ASSUME NEW s \in Procs, NEW c \in Procs, Fork(s, c) PROVE [Cow!Next]_View
    BY <2>2, ForkView DEF Cow!Next
  <2>3. ASSUME NEW s \in Procs, NEW v \in VPages, NEW x \in Vals, Write(s, v, x)
        PROVE  [Cow!Next]_View
    BY <2>3, WriteView DEF Cow!Next
  <2> QED
    BY <2>1, <2>2, <2>3, ForkFailsView, FaultView, HandlerView DEF Next
<1> QED
  BY <1>1, <1>2, CowInvariant, PTL DEF Spec, ImplementsCow, Cow!Spec
=============================================================================
