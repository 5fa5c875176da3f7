---------------------------- MODULE BufferCache ----------------------------
(***************************************************************************)
(* The buffer cache of fs/buffer.c for the blocks of one device: bread,    *)
(* getblk with its search and its retries, brelse and syncDev, as the      *)
(* clients' calls go through them, and what they use of ll_rw_blk.c: the   *)
(* buffer's lock, which a transfer holds until endRequest.                 *)
(*                                                                         *)
(* The steps of a call are the stretches between the places where it looks *)
(* at what others can change.  Without Preemptible a call keeps the        *)
(* processor until it sleeps; with it the clock may take it away between   *)
(* two of these steps, as it can in the code, from the first enableInt of  *)
(* waitOnBuffer on, between any two instructions.  A transfer may complete *)
(* at any time and in any order; the request table and the queue of the    *)
(* driver are not modelled here: a call finds a slot in the table or has   *)
(* to wait for one.  Nor are the queues of the sleepers (see Sched, where  *)
(* they lose some): who sleeps may go on as soon as it can, or never.  No  *)
(* code fills the i-node table, so syncInodes has nothing to write.        *)
(***************************************************************************)
EXTENDS Integers, Sequences, FiniteSets

CONSTANTS NR_BUFFERS,
          Clients,      \* processes that use the cache
          Blocks,       \* blocks of the device
          HashFn,       \* _HASHFN: the chain of each block
          Vals,         \* contents of a block
          Contents,     \* what is on the device at first
          Failures,     \* commands that may fail: subset of READ, WRITE
          Preemptible,  \* may the clock take the processor from a call?
          MaxCalls,     \* bound: calls of bread
          Nil

Bufs == 1 .. NR_BUFFERS
Chains == {HashFn[k] : k \in Blocks}

ASSUME CacheAssumption ==
  /\ NR_BUFFERS \in Nat \ {0, 1} /\ IsFiniteSet(Clients)
  /\ Contents \in [Blocks -> Vals] /\ Vals # {}
  /\ Failures \subseteq {"READ", "WRITE"}
  /\ Preemptible \in BOOLEAN /\ MaxCalls \in Nat
  /\ Nil \notin Bufs \cup Blocks \cup Clients
  /\ Nil \notin {"READ", "WRITE"}

VARIABLES b_block_nr, b_count, b_dirt, b_uptodate, b_lock, b_data,
          queues,   \* the hash chains and the free list
          request,  \* the transfer that holds the lock of a buffer, or Nil
          disk,     \* what is on the device
          call,     \* each client's call: where it is, what it works on
          cpu,      \* the client whose call has the processor, or Nil
          calls     \* how many calls of bread there were

heads == <<b_block_nr, b_count, b_dirt, b_uptodate, b_lock, b_data>>
device == <<request, disk>>
vars == <<heads, queues, device, call, cpu, calls>>

NoCall == [at |-> "idle", block |-> Nil, bh |-> Nil, i |-> 0]

\* initBuffer: every head is empty and on the free list, in a ring.
InitQueues ==
  [hash      |-> [h \in Chains |-> Nil],
   next      |-> [b \in Bufs |-> Nil],
   prev      |-> [b \in Bufs |-> Nil],
   free      |-> 1,
   next_free |-> [b \in Bufs |-> (b % NR_BUFFERS) + 1],
   prev_free |-> [b \in Bufs |-> IF b = 1 THEN NR_BUFFERS ELSE b - 1]]

Init ==
  /\ b_block_nr = [b \in Bufs |-> Nil]
  /\ b_count = [b \in Bufs |-> 0]
  /\ b_dirt = [b \in Bufs |-> FALSE]
  /\ b_uptodate = [b \in Bufs |-> FALSE]
  /\ b_lock = [b \in Bufs |-> FALSE]
  /\ b_data \in [Bufs -> {CHOOSE v \in Vals : TRUE}]
  /\ queues = InitQueues
  /\ request = [b \in Bufs |-> Nil]
  /\ disk = Contents
  /\ call = [p \in Clients |-> NoCall]
  /\ cpu = Nil /\ calls = 0

---------------------------------------------------------------------------
(* The queues.                                                             *)

\* The buffers from the given one on, along the pointers.
Follow(first, pointer) ==
  LET walk[n \in 0 .. NR_BUFFERS - 1] ==
        IF n = 0 THEN first ELSE pointer[walk[n - 1]]
  IN  walk

\* The buffers of a chain, first to last, with Nil behind its end; and the
\* free list from its head.
Chain(h) == Follow(queues.hash[h],
                   [b \in Bufs \cup {Nil} |-> IF b = Nil THEN Nil ELSE queues.next[b]])
FreeList == Follow(queues.free, queues.next_free)

\* The place where a search along a queue ends.
First(places) == CHOOSE n \in places : \A m \in places : n <= m

\* findBuffer: the first buffer of the chain that holds the block.
findBuffer(k) ==
  LET c  == Chain(HashFn[k])
      at == {n \in DOMAIN c : c[n] # Nil /\ b_block_nr[c[n]] = k}
  IN  IF at = {} THEN Nil ELSE c[First(at)]

\* A pointer field of what b points to, which may be nothing.
Point(field, b, to) == IF b = Nil THEN field ELSE [field EXCEPT ![b] = to]

\* Mutant: the successor keeps pointing back to the removed buffer.
removeForgetsPrev(q, b) ==
  LET k == b_block_nr[b]
  IN  [hash |-> IF k # Nil /\ q.hash[HashFn[k]] = b
                  THEN [q.hash EXCEPT ![HashFn[k]] = q.next[b]] ELSE q.hash,
       next |-> Point(q.next, q.prev[b], q.next[b]),
       prev |-> q.prev,
       free |-> IF q.free = b THEN q.next_free[b] ELSE q.free,
       next_free |-> [q.next_free EXCEPT ![q.prev_free[b]] = q.next_free[b]],
       prev_free |-> [q.prev_free EXCEPT ![q.next_free[b]] = q.prev_free[b]]]

removeFromQueues(q, b) ==
  LET k == b_block_nr[b]
  IN  [hash |-> IF k # Nil /\ q.hash[HashFn[k]] = b
                  THEN [q.hash EXCEPT ![HashFn[k]] = q.next[b]] ELSE q.hash,
       next |-> Point(q.next, q.prev[b], q.next[b]),
       prev |-> Point(q.prev, q.next[b], q.prev[b]),
       free |-> IF q.free = b THEN q.next_free[b] ELSE q.free,
       next_free |-> [q.next_free EXCEPT ![q.prev_free[b]] = q.next_free[b]],
       prev_free |-> [q.prev_free EXCEPT ![q.next_free[b]] = q.prev_free[b]]]

\* To the end of the free list and the front of the chain of block k.  The
\* write through b_next of an empty chain goes to no buffer.
insertIntoQueues(q, b, k) ==
  LET first == q.hash[HashFn[k]]
      last  == q.prev_free[q.free]
  IN  [hash |-> [q.hash EXCEPT ![HashFn[k]] = b],
       next |-> [q.next EXCEPT ![b] = first],
       prev |-> Point([q.prev EXCEPT ![b] = Nil], first, b),
       free |-> q.free,
       next_free |-> [q.next_free EXCEPT ![b] = q.free, ![last] = b],
       prev_free |-> [q.prev_free EXCEPT ![b] = last, ![q.free] = b]]

---------------------------------------------------------------------------
(* Who runs.                                                               *)

\* The buffer that syncDev has come to.
Visited(i) == ((i - 1) % NR_BUFFERS) + 1

\* Mutant: getblk does not wait for the buffer it has chosen.
WaitsForLess(p) ==
  LET c == call[p]
  IN  CASE c.at \in {"hashed", "wait", "release"} -> {c.bh}
        [] c.at = "got" -> {b \in {c.bh} : ~b_uptodate[b]}
        [] c.at = "sync" -> {b \in {Visited(c.i)} :
                               c.i <= 2 * NR_BUFFERS /\ b_block_nr[b] # Nil}
        [] OTHER -> {}

\* The buffer whose lock the call waits for at this place.
WaitsFor(p) ==
  LET c == call[p]
  IN  CASE c.at \in {"hashed", "chosen", "wait", "release"} -> {c.bh}
        [] c.at = "got" -> {b \in {c.bh} : ~b_uptodate[b]}
        [] c.at = "sync" -> {b \in {Visited(c.i)} :
                               c.i <= 2 * NR_BUFFERS /\ b_block_nr[b] # Nil}
        [] OTHER -> {}

Blocked(p) == \E b \in WaitsFor(p) : b_lock[b]

\* Outside a call, between bread and brelse, or asleep.
OffProcessor(p) == call[p].at \in {"idle", "space", "slot", "hold"} \/ Blocked(p)

At(p, place) ==
  /\ call[p].at = place /\ ~Blocked(p)
  /\ Preemptible \/ cpu \in {p, Nil}

\* A call that sleeps, has returned or holds its buffer gives up the processor.
Runs(p) == cpu' = IF OffProcessor(p)' THEN Nil ELSE p

Goto(p, c) == call' = [call EXCEPT ![p] = c]
GotoAt(p, place) == call' = [call EXCEPT ![p].at = place]

---------------------------------------------------------------------------
(* getblk.                                                                 *)

bread(p, k) ==
  /\ At(p, "idle") /\ calls < MaxCalls
  /\ Goto(p, [NoCall EXCEPT !.at = "find", !.block = k])
  /\ calls' = calls + 1
  /\ UNCHANGED <<heads, queues, device>>

\* Mutant: getHashTable does not count itself before it waits.
FindUncounted(p) ==
  /\ At(p, "find")
  /\ LET b == findBuffer(call[p].block)
     IN  IF b = Nil
           THEN GotoAt(p, "scan")
           ELSE Goto(p, [call[p] EXCEPT !.at = "hashed", !.bh = b])
  /\ UNCHANGED <<heads, queues, device, calls>>

\* getHashTable counts the buffer it finds before it waits for it.
Find(p) ==
  /\ At(p, "find")
  /\ LET b == findBuffer(call[p].block)
     IN  IF b = Nil
           THEN GotoAt(p, "scan") /\ UNCHANGED b_count
           ELSE /\ Goto(p, [call[p] EXCEPT !.at = "hashed", !.bh = b])
                /\ b_count' = [b_count EXCEPT ![b] = @ + 1]
  /\ UNCHANGED <<b_block_nr, b_dirt, b_uptodate, b_lock, b_data, queues, device, calls>>

\* After the wait the buffer may hold another block.
Hashed(p) ==
  /\ At(p, "hashed")
  /\ IF b_block_nr[call[p].bh] = call[p].block
       THEN GotoAt(p, "got") /\ UNCHANGED b_count
       ELSE /\ Goto(p, [call[p] EXCEPT !.at = "find", !.bh = Nil])
            /\ b_count' = [b_count EXCEPT ![call[p].bh] = @ - 1]
  /\ UNCHANGED <<b_block_nr, b_dirt, b_uptodate, b_lock, b_data, queues, device, calls>>

BADNESS(b) == (IF b_dirt[b] THEN 2 ELSE 0) + (IF b_lock[b] THEN 1 ELSE 0)

\* The places of unused buffers in the free list, and the first of those with
\* the least badness.
Unused == {n \in 0 .. NR_BUFFERS - 1 : b_count[FreeList[n]] = 0}
Best == First({n \in Unused : \A m \in Unused :
                 BADNESS(FreeList[n]) <= BADNESS(FreeList[m])})

Scan(p) ==
  /\ At(p, "scan")
  /\ IF Unused = {}
       THEN GotoAt(p, "space")
       ELSE Goto(p, [call[p] EXCEPT !.at = "chosen", !.bh = FreeList[Best]])
  /\ UNCHANGED <<heads, queues, device, calls>>

\* Mutant: b_count is not looked at again after the wait.
ChosenUnchecked(p) ==
  /\ At(p, "chosen")
  /\ IF b_dirt[call[p].bh]
       THEN Goto(p, [call[p] EXCEPT !.at = "sync", !.i = 1])
       ELSE GotoAt(p, "claim")
  /\ UNCHANGED <<heads, queues, device, calls>>

\* The buffer was waited for: it may be in use by now, or must be written.
Chosen(p) ==
  /\ At(p, "chosen")
  /\ LET b == call[p].bh
     IN  CASE b_count[b] > 0 -> Goto(p, [call[p] EXCEPT !.at = "find", !.bh = Nil])
           [] b_count[b] = 0 /\ b_dirt[b] -> Goto(p, [call[p] EXCEPT !.at = "sync", !.i = 1])
           [] OTHER -> GotoAt(p, "claim")
  /\ UNCHANGED <<heads, queues, device, calls>>

\* sleepOn(&BUFFER_WAIT) has returned.
LookAgain(p) ==
  /\ At(p, "space")
  /\ GotoAt(p, "find")
  /\ UNCHANGED <<heads, queues, device, calls>>

\* makeRequest has the lock and a slot: the request takes the modified mark.
Submit(b, cmd) ==
  /\ request' = [request EXCEPT ![b] = cmd]
  /\ b_lock' = [b_lock EXCEPT ![b] = TRUE]
  /\ b_dirt' = [b_dirt EXCEPT ![b] = FALSE]

\* No slot is free: the call sleeps with the lock it took.
AwaitSlot(p, b) ==
  /\ GotoAt(p, "slot")
  /\ b_lock' = [b_lock EXCEPT ![b] = TRUE]
  /\ UNCHANGED <<b_dirt, request>>

\* syncDev goes twice over all buffers and then back to the chosen one.
Sync(p) ==
  /\ At(p, "sync")
  /\ LET i == call[p].i
         b == Visited(i)
     IN  \/ /\ i > 2 * NR_BUFFERS
            /\ Goto(p, [call[p] EXCEPT !.at = "chosen", !.i = 0])
            /\ UNCHANGED <<b_dirt, b_lock, request>>
         \/ /\ i <= 2 * NR_BUFFERS /\ ~(b_block_nr[b] # Nil /\ b_dirt[b])
            /\ Goto(p, [call[p] EXCEPT !.i = i + 1])
            /\ UNCHANGED <<b_dirt, b_lock, request>>
         \/ /\ i <= 2 * NR_BUFFERS /\ b_block_nr[b] # Nil /\ b_dirt[b]
            /\ \/ Goto(p, [call[p] EXCEPT !.i = i + 1]) /\ Submit(b, "WRITE")
               \/ AwaitSlot(p, b)
  /\ UNCHANGED <<b_block_nr, b_count, b_uptodate, b_data, queues, disk, calls>>

\* A slot is free for the call that sleeps: bread's, or that of syncDev.
Slot(p) ==
  /\ At(p, "slot")
  /\ LET i == call[p].i
     IN  IF i = 0
           THEN GotoAt(p, "wait") /\ Submit(call[p].bh, "READ")
           ELSE /\ Goto(p, [call[p] EXCEPT !.at = "sync", !.i = i + 1])
                /\ Submit(Visited(i), "WRITE")
  /\ UNCHANGED <<b_block_nr, b_count, b_uptodate, b_data, queues, disk, calls>>

\* Mutant: the block is not looked for again.
ClaimUnchecked(p) ==
  /\ At(p, "claim")
  /\ GotoAt(p, "mark")
  /\ UNCHANGED <<heads, queues, device, calls>>

\* Has somebody else brought the block in?
Claim(p) ==
  /\ At(p, "claim")
  /\ IF findBuffer(call[p].block) # Nil
       THEN Goto(p, [call[p] EXCEPT !.at = "find", !.bh = Nil])
       ELSE GotoAt(p, "mark")
  /\ UNCHANGED <<heads, queues, device, calls>>

\* Mutant: the contents of the old block pass for those of the new one.
MarkUptodate(p) ==
  /\ At(p, "mark")
  /\ GotoAt(p, "remove")
  /\ b_count' = [b_count EXCEPT ![call[p].bh] = 1]
  /\ b_dirt' = [b_dirt EXCEPT ![call[p].bh] = FALSE]
  /\ UNCHANGED <<b_block_nr, b_uptodate, b_lock, b_data, queues, device, calls>>

\* The buffer is taken, and empty.
Mark(p) ==
  /\ At(p, "mark")
  /\ GotoAt(p, "remove")
  /\ b_count' = [b_count EXCEPT ![call[p].bh] = 1]
  /\ b_dirt' = [b_dirt EXCEPT ![call[p].bh] = FALSE]
  /\ b_uptodate' = [b_uptodate EXCEPT ![call[p].bh] = FALSE]
  /\ UNCHANGED <<b_block_nr, b_lock, b_data, queues, device, calls>>

Remove(p) ==
  /\ At(p, "remove")
  /\ GotoAt(p, "insert")
  /\ queues' = removeFromQueues(queues, call[p].bh)
  /\ UNCHANGED <<heads, device, calls>>

Insert(p) ==
  /\ At(p, "insert")
  /\ GotoAt(p, "got")
  /\ LET b == call[p].bh
         k == call[p].block
     IN  /\ b_block_nr' = [b_block_nr EXCEPT ![b] = k]
         /\ queues' = insertIntoQueues(queues, b, k)
  /\ UNCHANGED <<b_count, b_dirt, b_uptodate, b_lock, b_data, device, calls>>

---------------------------------------------------------------------------
(* bread, the client, brelse, and the end of a transfer.                   *)

Got(p) ==
  /\ At(p, "got")
  /\ LET b == call[p].bh
     IN  \/ b_uptodate[b] /\ GotoAt(p, "hold") /\ UNCHANGED <<b_dirt, b_lock, request>>
         \/ ~b_uptodate[b] /\ GotoAt(p, "wait") /\ Submit(b, "READ")
         \/ ~b_uptodate[b] /\ AwaitSlot(p, b)
  /\ UNCHANGED <<b_block_nr, b_count, b_uptodate, b_data, queues, disk, calls>>

\* Without the contents bread releases the buffer and returns NULL.
Wait(p) ==
  /\ At(p, "wait")
  /\ GotoAt(p, IF b_uptodate[call[p].bh] THEN "hold" ELSE "release")
  /\ UNCHANGED <<heads, queues, device, calls>>

\* What writeInode does with the buffer.
Modify(p, v) ==
  /\ At(p, "hold")
  /\ b_data' = [b_data EXCEPT ![call[p].bh] = v]
  /\ b_dirt' = [b_dirt EXCEPT ![call[p].bh] = TRUE]
  /\ UNCHANGED <<b_block_nr, b_count, b_uptodate, b_lock, queues, device, call, calls>>

brelse(p) ==
  /\ At(p, "hold")
  /\ GotoAt(p, "release")
  /\ UNCHANGED <<heads, queues, device, calls>>

\* Mutant: all uses are dropped.
ReleaseAll(p) ==
  /\ At(p, "release")
  /\ b_count' = [b_count EXCEPT ![call[p].bh] = 0]
  /\ Goto(p, NoCall)
  /\ UNCHANGED <<b_block_nr, b_dirt, b_uptodate, b_lock, b_data, queues, device, calls>>

\* Which sleepers look again then, Sched shows: LookAgain leaves it open.
Release(p) ==
  /\ At(p, "release")
  /\ b_count' = [b_count EXCEPT ![call[p].bh] = @ - 1]
  /\ Goto(p, NoCall)
  /\ UNCHANGED <<b_block_nr, b_dirt, b_uptodate, b_lock, b_data, queues, device, calls>>

\* The driver moves the data and ends the request; endRequest sets b_uptodate
\* and unlocks the buffer.
Complete(b, ok) ==
  /\ request[b] # Nil /\ (ok \/ request[b] \in Failures)
  /\ b_data' = IF ok /\ request[b] = "READ"
                 THEN [b_data EXCEPT ![b] = disk[b_block_nr[b]]] ELSE b_data
  /\ disk' = IF ok /\ request[b] = "WRITE"
               THEN [disk EXCEPT ![b_block_nr[b]] = b_data[b]] ELSE disk
  /\ b_uptodate' = [b_uptodate EXCEPT ![b] = ok]
  /\ b_lock' = [b_lock EXCEPT ![b] = FALSE]
  /\ request' = [request EXCEPT ![b] = Nil]
  /\ UNCHANGED <<b_block_nr, b_count, b_dirt, queues, call, cpu, calls>>

Step(p) ==
  /\ \/ Find(p) \/ Hashed(p) \/ Scan(p) \/ LookAgain(p) \/ Chosen(p) \/ Sync(p) \/ Slot(p)
     \/ Claim(p) \/ Mark(p) \/ Remove(p) \/ Insert(p)
     \/ Got(p) \/ Wait(p) \/ brelse(p) \/ Release(p)
  /\ Runs(p)

Use(p) ==
  /\ (\E k \in Blocks : bread(p, k)) \/ (\E v \in Vals : Modify(p, v))
  /\ Runs(p)

Next ==
  \/ \E p \in Clients : Step(p) \/ Use(p)
  \/ \E b \in Bufs, ok \in BOOLEAN : Complete(b, ok)

Spec == Init /\ [][Next]_vars

---------------------------------------------------------------------------
(* Properties.                                                             *)

Places == {"idle", "find", "hashed", "scan", "space", "chosen", "sync", "slot", "claim",
           "mark", "remove", "insert", "got", "wait", "hold", "release"}

\* The types.
TypeOK ==
  /\ b_block_nr \in [Bufs -> Blocks \cup {Nil}]
  /\ b_count \in [Bufs -> 0 .. Cardinality(Clients)]
  /\ b_dirt \in [Bufs -> BOOLEAN] /\ b_uptodate \in [Bufs -> BOOLEAN]
  /\ b_lock \in [Bufs -> BOOLEAN] /\ b_data \in [Bufs -> Vals]
  /\ request \in [Bufs -> {"READ", "WRITE", Nil}] /\ disk \in [Blocks -> Vals]
  /\ call \in [Clients -> [at : Places, block : Blocks \cup {Nil},
                           bh : Bufs \cup {Nil}, i : 0 .. 2 * NR_BUFFERS + 1]]
  /\ cpu \in Clients \cup {Nil}

\* The places where a call has counted itself as a user of its buffer, and those
\* of them where the buffer has its block.
Using == {"hashed", "remove", "insert", "got", "wait", "hold", "release"}
InUse(c) == c.at \in Using \/ (c.at = "slot" /\ c.i = 0)
HasBlock(c) == InUse(c) /\ c.at \notin {"hashed", "remove", "insert"}

\* b_count is the number of users: getblk never takes a buffer from somebody
\* and brelse never finds a free one.
CountsAreUsers ==
  \A b \in Bufs : b_count[b] = Cardinality({p \in Clients : InUse(call[p]) /\ call[p].bh = b})

\* A client that got its buffer finds its block in it as long as it uses it.
BufferKeepsBlock ==
  \A p \in Clients : HasBlock(call[p]) => b_block_nr[call[p].bh] = call[p].block

\* A buffer that getblk chose while it is being transferred, or while another call
\* sleeps with its lock, is given to no other block before the lock is free.
LockedKeepsBlock ==
  [][\A b \in Bufs : b_lock[b] => b_block_nr'[b] = b_block_nr[b]]_vars

\* No block is in two buffers.
OneBufferPerBlock ==
  \A b, c \in Bufs : b_block_nr[b] # Nil /\ b_block_nr[b] = b_block_nr[c] => b = c

\* Each buffer with a block is on the chain of that block, the backward links
\* mirror the forward ones, and the free list is a ring of all buffers.
Whole ==
  /\ \A h \in Chains :
       LET c == Chain(h)
       IN  /\ {c[n] : n \in DOMAIN c} \ {Nil}
                = {b \in Bufs : b_block_nr[b] # Nil /\ HashFn[b_block_nr[b]] = h}
           /\ \A n \in DOMAIN c : c[n] # Nil =>
                queues.prev[c[n]] = IF n = 0 THEN Nil ELSE c[n - 1]
  /\ {FreeList[n] : n \in DOMAIN FreeList} = Bufs
  /\ \A b \in Bufs : queues.prev_free[queues.next_free[b]] = b

\* Whoever walks along the queues finds them whole: they are only between
\* removeFromQueues and insertIntoQueues not, and there no other call may run.
QueuesIntact ==
  \/ Whole
  \/ \E p \in Clients : call[p].at = "insert" /\ cpu = p

\* What the cache and the device hold together: the contents of each block.
Store ==
  [k \in Blocks |->
     LET cached == {b \in Bufs : b_block_nr[b] = k /\ b_uptodate[b]}
     IN  IF cached = {} THEN disk[k] ELSE b_data[CHOOSE b \in cached : TRUE]]

Device == INSTANCE BlockStore
            WITH store <- Store,
                 open <- [p \in Clients |->
                            IF call[p].at = "hold" THEN call[p].block ELSE Nil]

\* No eviction, write-back or re-read loses or revives the contents of a block, as
\* long as no write fails: endRequest unlocks the buffer of a failed write clean and
\* without b_uptodate, and what the client wrote is read over.
ImplementsBlockStore == Device!Spec

=============================================================================
