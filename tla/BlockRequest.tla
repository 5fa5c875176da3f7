---------------------------- MODULE BlockRequest ----------------------------
(***************************************************************************)
(* The block requests of kernel/blk_drv/ll_rw_blk.c: ll_rw_block as its    *)
(* callers go through it, the table REQUEST_INFO, the queue addRequest     *)
(* keeps sorted, endRequest, and the buffer's lock.  HardDisk adds the     *)
(* driver that serves the queue.                                           *)
(*                                                                         *)
(* A step of a call is a stretch between two looks at what others change.  *)
(* Without Preemptible nobody comes between the search of the table and    *)
(* what makeRequest does with its result, neither another call nor the     *)
(* disk's interrupt, and no call between the two halves of endRequest; the *)
(* code does nothing to keep them out: printk, in endRequest, even lets    *)
(* interrupts in.  A task that sleeps for a lock or a slot may be resumed  *)
(* at any time or never: that covers the wake-ups which the queues of      *)
(* Sched pass on, lose, or make without need.                              *)
(***************************************************************************)
EXTENDS Integers, Sequences, FiniteSets

CONSTANTS NR_REQUEST,
          Bufs,         \* buffers of the cache, each with a block of its own
          BlockOf,      \* b_block_nr of each
          Clients,      \* processes in ll_rw_block
          Commands,     \* what ll_rw_block is called with
          Preemptible,  \* may others run between search and claim?
          Nil           \* the NULL pointer

Slots == 0 .. NR_REQUEST - 1
Hd == 768               \* device 0x300, the whole disk: all the code opens

\* Values of cmd, in the order of include/fs.h.
READ == 0
WRITE == 1
READA == 2
WRITEA == 3

ASSUME BlockAssumption ==
  /\ NR_REQUEST \in Nat \ {0}
  /\ BlockOf \in [Bufs -> Nat]
  /\ Commands \subseteq READ .. WRITEA
  /\ Preemptible \in BOOLEAN
  /\ Nil \notin Slots \cup Bufs

VARIABLES REQUEST_INFO,     \* the table; buffer is an offset in sectors
          current_request,  \* head of the queue of the disk
          b_lock, b_dirt, b_uptodate,
          call,             \* each client: where it is, with what
          driver            \* harddiskRequest is to go on ("request"), endRequest
                            \* is half done ("ending"), neither ("idle"), or the
                            \* interrupt has left the kernel's code ("lost")

NoCall == [at |-> "idle", rw |-> READ, ahead |-> FALSE, bh |-> Nil, req |-> Nil]
NoRequest == [dev |-> -1, cmd |-> READ, errors |-> 0, sector |-> 0,
              nr_sectors |-> 0, buffer |-> 0, bh |-> Nil, next |-> Nil]

\* initBlkDev
InitRequests ==
  /\ REQUEST_INFO = [s \in Slots |-> NoRequest]
  /\ current_request = Nil

InitBuffers ==
  /\ b_lock = [b \in Bufs |-> FALSE]
  /\ b_dirt = [b \in Bufs |-> FALSE]
  /\ b_uptodate = [b \in Bufs |-> FALSE]

InitCalls == call = [p \in Clients |-> NoCall]

Live(s) == REQUEST_INFO[s].dev >= 0

---------------------------------------------------------------------------
(* The queue.                                                              *)

IN_ORDER(r, q) ==
  \/ r.cmd < q.cmd
  \/ /\ r.cmd = q.cmd
     /\ \/ r.dev < q.dev
        \/ r.dev = q.dev /\ r.sector < q.sector

\* The requests from the current one on, as far as the links lead without
\* coming back to one of them.
Chain(info) ==
  LET walk[n \in 0 .. NR_REQUEST] ==
        IF n = 0 THEN <<current_request>>
        ELSE LET w == walk[n - 1]
                 t == info[w[Len(w)]].next
             IN  IF t = Nil \/ \E i \in 1 .. Len(w) : w[i] = t
                   THEN w ELSE Append(w, t)
  IN  IF current_request = Nil THEN <<>> ELSE walk[NR_REQUEST]

\* Mutant: a request goes behind the first that precedes it.
StopsAtFirst(info, t, s) ==
  info[t].next = Nil \/ IN_ORDER(info[t], info[s])

\* The loop of addRequest stops at t: s goes between t and its successor.
StopsAt(info, t, s) ==
  LET next == info[t].next
  IN  \/ next = Nil
      \/ /\ IN_ORDER(info[t], info[s]) \/ ~IN_ORDER(info[t], info[next])
         /\ IN_ORDER(info[s], info[next])

\* Where it stops: on links that form a ring perhaps nowhere.
Stops(info, s) ==
  LET goOn == [t \in Slots |-> IF StopsAt(info, t, s) THEN t ELSE info[t].next]
      tmp[n \in 0 .. NR_REQUEST] == IF n = 0 THEN current_request ELSE goOn[tmp[n - 1]]
  IN  {t \in {tmp[NR_REQUEST]} : StopsAt(info, t, s)}

---------------------------------------------------------------------------
(* Who runs.                                                               *)

\* addRequest spins with interrupts off: nothing ever happens again.
Frozen == \E p \in Clients : call[p].at = "spin"

\* Nobody is in the middle of a stretch that must not be interrupted.
Undisturbed(places) ==
  Preemptible \/ \A q \in Clients : call[q].at \notin places

\* The processor still runs the kernel.
Runs == ~Frozen /\ driver # "lost"

\* Nobody is in the middle of endRequest.
NotEnding == Preemptible \/ driver # "ending"

At(p, place) ==
  /\ call[p].at = place /\ Runs /\ NotEnding
  /\ place \in {"found", "full", "add"} \/ Undisturbed({"found", "full", "add"})

\* The driver and the disk's interrupt
NotBetween == Runs /\ Undisturbed({"found", "full"})

---------------------------------------------------------------------------
(* ll_rw_block and makeRequest.                                            *)

NothingToDo(c) == \/ c.rw = WRITE /\ ~b_dirt[c.bh]
                  \/ c.rw = READ /\ b_uptodate[c.bh]

\* Mutant: the return with nothing to do keeps the lock.
lockOnReturn(p, c) ==
  IF b_lock[c.bh]
    THEN call' = [call EXCEPT ![p] = [c EXCEPT !.at = "lock"]] /\ UNCHANGED b_lock
    ELSE /\ b_lock' = [b_lock EXCEPT ![c.bh] = TRUE]
         /\ call' = [call EXCEPT ![p] = IF NothingToDo(c) THEN NoCall
                                        ELSE [c EXCEPT !.at = "search"]]

\* lockBuffer for the call c, and the test behind it.
lockBuffer(p, c) ==
  \/ /\ b_lock[c.bh]
     /\ call' = [call EXCEPT ![p] = [c EXCEPT !.at = "lock"]]
     /\ UNCHANGED b_lock
  \/ /\ ~b_lock[c.bh] /\ NothingToDo(c)
     /\ call' = [call EXCEPT ![p] = NoCall]
     /\ UNCHANGED b_lock
  \/ /\ ~b_lock[c.bh] /\ ~NothingToDo(c)
     /\ call' = [call EXCEPT ![p] = [c EXCEPT !.at = "search"]]
     /\ b_lock' = [b_lock EXCEPT ![c.bh] = TRUE]

\* A call for b; a call ahead gives up at once if the buffer is locked.
ll_rw_block(p, rw, b) ==
  /\ At(p, "idle")
  /\ rw \in {READA, WRITEA} => ~b_lock[b]
  /\ lockBuffer(p, [at |-> "lock", rw |-> IF rw \in {READ, READA} THEN READ ELSE WRITE,
                    ahead |-> rw \in {READA, WRITEA}, bh |-> b, req |-> Nil])
  /\ UNCHANGED <<REQUEST_INFO, current_request, b_dirt, b_uptodate>>

\* p sleeps until it finds the buffer unlocked.
Woken(p) ==
  /\ At(p, "lock") /\ ~b_lock[call[p].bh]
  /\ lockBuffer(p, call[p])
  /\ UNCHANGED <<REQUEST_INFO, current_request, b_dirt, b_uptodate>>

\* Mutant: a write may use the whole table.
FreeForAll(rw) == {s \in Slots : ~Live(s)}

\* The slots a call may use: a write leaves the last third alone.
Free(rw) == {s \in Slots : /\ ~Live(s)
                           /\ rw = WRITE => s < (NR_REQUEST * 2) \div 3}

Search(p) ==
  LET free == Free(call[p].rw)
  IN  /\ At(p, "search")
      /\ call' = [call EXCEPT ![p] =
           IF free = {} THEN [@ EXCEPT !.at = "full"]
           ELSE [@ EXCEPT !.at = "found",
                          !.req = CHOOSE s \in free : \A t \in free : t <= s]]
      /\ UNCHANGED <<REQUEST_INFO, current_request, b_lock, b_dirt, b_uptodate>>

\* No slot: a call ahead gives the buffer back, another sleeps with it.
NoSlot(p) ==
  /\ At(p, "full")
  /\ IF call[p].ahead
       THEN /\ call' = [call EXCEPT ![p] = NoCall]
            /\ b_lock' = [b_lock EXCEPT ![call[p].bh] = FALSE]
       ELSE call' = [call EXCEPT ![p].at = "asleep"] /\ UNCHANGED b_lock
  /\ UNCHANGED <<REQUEST_INFO, current_request, b_dirt, b_uptodate>>

\* It is resumed and looks again.
Resumed(p) ==
  /\ At(p, "asleep")
  /\ call' = [call EXCEPT ![p].at = "search"]
  /\ UNCHANGED <<REQUEST_INFO, current_request, b_lock, b_dirt, b_uptodate>>

Filled(c) == [dev |-> Hd, cmd |-> c.rw, errors |-> 0, sector |-> 2 * BlockOf[c.bh],
              nr_sectors |-> 2, buffer |-> 0, bh |-> c.bh, next |-> Nil]

Fill(p) ==
  /\ At(p, "found")
  /\ REQUEST_INFO' = [REQUEST_INFO EXCEPT ![call[p].req] = Filled(call[p])]
  /\ call' = [call EXCEPT ![p] = [NoCall EXCEPT !.at = "add", !.req = call[p].req]]
  /\ UNCHANGED <<current_request, b_lock, b_dirt, b_uptodate>>

\* addRequest.  The buffer whose b_dirt it clears is that of the request.
\* The first request is handed to request_fn (HardDisk).
Add(p) ==
  LET s    == call[p].req
      info == [REQUEST_INFO EXCEPT ![s].next = Nil]
  IN  /\ At(p, "add")
      /\ b_dirt' = [b_dirt EXCEPT ![info[s].bh] = FALSE]
      /\ \/ /\ current_request = Nil
            /\ current_request' = s
            /\ REQUEST_INFO' = info
            /\ call' = [call EXCEPT ![p] = [NoCall EXCEPT !.at = "request"]]
         \/ /\ current_request # Nil
            /\ \E tmp \in Stops(info, s) :
                 REQUEST_INFO' = [info EXCEPT ![s].next = info[tmp].next, ![tmp].next = s]
            /\ call' = [call EXCEPT ![p] = NoCall]
            /\ UNCHANGED current_request
         \/ /\ current_request # Nil /\ Stops(info, s) = {}
            /\ REQUEST_INFO' = info
            /\ call' = [call EXCEPT ![p].at = "spin"]
            /\ UNCHANGED current_request
  /\ UNCHANGED <<b_lock, b_uptodate>>

\* endRequest for the current request up to its messages, info being the table
\* its caller leaves.
endRequest(info, uptodate) ==
  LET bh == info[current_request].bh
  IN  /\ REQUEST_INFO' = info
      /\ b_uptodate' = [b_uptodate EXCEPT ![bh] = uptodate]
      /\ b_lock' = [b_lock EXCEPT ![bh] = FALSE]
      /\ driver' = "ending"
      /\ UNCHANGED <<current_request, b_dirt, call>>

\* Its end.  It advances a local variable: current_request stays.
GiveUpSlot ==
  /\ driver = "ending" /\ NotBetween
  /\ REQUEST_INFO' = [REQUEST_INFO EXCEPT ![current_request].dev = -1]
  /\ driver' = "request"
  /\ UNCHANGED <<current_request, b_lock, b_dirt, b_uptodate, call>>

\* A user of an up-to-date buffer changes it.
Modify(b) ==
  /\ NotBetween /\ NotEnding /\ b_uptodate[b]
  /\ b_dirt' = [b_dirt EXCEPT ![b] = TRUE]
  /\ UNCHANGED <<REQUEST_INFO, current_request, b_lock, b_uptodate, call>>
=============================================================================
