------------------------------ MODULE HardDisk ------------------------------
(***************************************************************************)
(* The hard disk driver, kernel/blk_drv/harddisk.c, over the requests of   *)
(* BlockRequest: harddiskRequest, which gives the drive a command for the  *)
(* current request, and the functions DEVICE_INTR names, which the drive's *)
(* interrupt runs: a sector is moved, the request ends, or it is tried     *)
(* again, from MAX_ERRORS \div 2 errors on after a reset and recalibration.*)
(*                                                                         *)
(* A round of harddiskRequest's `repeat' is one step up to endRequest,     *)
(* and so is an interrupt up to its call of harddiskRequest; all of it runs*)
(* with interrupts on, so the steps of the clients fall between.  Two      *)
(* things keep the driver from what is written here for writes: endRequest *)
(* leaves current_request where it is, at the slot of the first request,   *)
(* and no write may use that slot.  OnlyReadsServed says so, and the branch*)
(* for WRITE with writeIntr, which it makes unreachable, is left out.      *)
(*                                                                         *)
(* initHarddisk registers the value DEVICE_INTR has then, which is NULL,   *)
(* and nothing registers another: hwint14 calls address 0, and what the    *)
(* processor does from there on is not defined by the code ("lost").  That *)
(* is Handlers = {"NULL"}.  The functions of the driver are written for a  *)
(* vector that runs what DEVICE_INTR names when the interrupt comes; the   *)
(* handler "DEVICE_INTR" stands for it, so that what they do can be        *)
(* examined under the assumption they make.                                *)
(*                                                                         *)
(* A sector is its number: cylinder, head and sector of hdOut are the      *)
(* digits of it.  The panics of hdOut are left out.  The drive is external:*)
(* it answers a command with an interrupt, one per sector when it reads,   *)
(* and may fail at any of them.                                            *)
(***************************************************************************)
EXTENDS BlockRequest

CONSTANTS MAX_ERRORS,
          CntSectors,   \* HD_INFO[0].cnt_sectors
          Handlers,     \* what initHarddisk may register: {"NULL"} in the code
          MaxCalls      \* bound: calls of ll_rw_block

ASSUME DiskAssumption ==
  /\ MAX_ERRORS \in Nat \ {0} /\ CntSectors \in Nat /\ MaxCalls \in Nat
  /\ Handlers \subseteq {"NULL", "DEVICE_INTR"}

VARIABLES irq_handler,          \* IRQ_TABLE[AT_WINI_IRQ]
          DEVICE_INTR,          \* the function for the next interrupt
          reset, recalibrate,
          drive,                \* the last command and how far it is
          b_data,               \* the sector last read into each half of b
          calls                 \* how many calls there were

requestVars == <<REQUEST_INFO, current_request, b_lock, b_dirt, b_uptodate, call>>
driverVars == <<irq_handler, DEVICE_INTR, reset, recalibrate, driver, drive, b_data>>
vars == <<requestVars, driverVars, calls>>

current == REQUEST_INFO[current_request]
Pending == current_request # Nil /\ Live(current_request)

\* initHarddisk.  Nothing has been read.
Init ==
  /\ InitRequests /\ InitBuffers /\ InitCalls
  /\ irq_handler \in Handlers
  /\ DEVICE_INTR = "NULL" /\ reset = FALSE /\ recalibrate = FALSE
  /\ driver = "idle"
  /\ drive = [cmd |-> "none", busy |-> FALSE, sector |-> 0, left |-> 0]
  /\ b_data = [b \in Bufs |-> [h \in {0, 1} |-> Nil]]
  /\ calls = 0

---------------------------------------------------------------------------
(* harddiskRequest.                                                        *)

hdOut(cmd, nsect, sector, intr) ==
  /\ DEVICE_INTR' = intr
  /\ drive' = [cmd |-> cmd, busy |-> TRUE, sector |-> sector, left |-> nsect]

\* The minor number of a request without device is 255.  The test leaves
\* out the last block, and on a retry looks one sector further.
OutOfRange == \/ current.dev < 0
              \/ current.sector + 2 > CntSectors - 1

InRange == driver = "request" /\ NotBetween /\ ~OutOfRange

Refuse ==
  /\ driver = "request" /\ NotBetween /\ OutOfRange
  /\ endRequest(REQUEST_INFO, FALSE)
  /\ UNCHANGED <<irq_handler, DEVICE_INTR, reset, recalibrate, drive, b_data, calls>>

\* endRequest goes on, after Refuse or in an interrupt.
GiveUp ==
  /\ GiveUpSlot
  /\ UNCHANGED <<irq_handler, DEVICE_INTR, reset, recalibrate, drive, b_data, calls>>

\* The controller's reset itself writes to port 4 and has no effect.
resetHd ==
  /\ InRange /\ reset
  /\ reset' = FALSE /\ recalibrate' = TRUE
  /\ hdOut("SPECIFY", 0, 0, "recalIntr")
  /\ driver' = "idle"
  /\ UNCHANGED <<requestVars, irq_handler, b_data, calls>>

Recalibrate ==
  /\ InRange /\ ~reset /\ recalibrate
  /\ recalibrate' = FALSE
  /\ hdOut("RESTORE", 0, 0, "recalIntr")
  /\ driver' = "idle"
  /\ UNCHANGED <<requestVars, irq_handler, reset, b_data, calls>>

\* Mutant: the reset is asked for one error later.
badRwLate ==
  LET errors == current.errors + 1
      info   == [REQUEST_INFO EXCEPT ![current_request].errors = errors]
  IN  /\ reset' = (reset \/ errors > MAX_ERRORS \div 2 + 1)
      /\ IF errors >= MAX_ERRORS
           THEN endRequest(info, FALSE)
           ELSE /\ REQUEST_INFO' = info /\ driver' = "request"
                /\ UNCHANGED <<current_request, b_lock, b_dirt, b_uptodate, call>>

badRwIntr ==
  LET errors == current.errors + 1
      info   == [REQUEST_INFO EXCEPT ![current_request].errors = errors]
  IN  /\ reset' = (reset \/ errors > MAX_ERRORS \div 2)
      /\ IF errors >= MAX_ERRORS
           THEN endRequest(info, FALSE)
           ELSE /\ REQUEST_INFO' = info /\ driver' = "request"
                /\ UNCHANGED <<current_request, b_lock, b_dirt, b_uptodate, call>>

Ready == InRange /\ ~reset /\ ~recalibrate

Read ==
  /\ Ready /\ current.cmd = READ
  /\ hdOut("READ", current.nr_sectors, current.sector, "readIntr")
  /\ driver' = "idle"
  /\ UNCHANGED <<requestVars, irq_handler, reset, recalibrate, b_data, calls>>

harddiskRequest ==
  Refuse \/ GiveUp \/ resetHd \/ Recalibrate \/ Read

---------------------------------------------------------------------------
(* The drive's interrupt.                                                  *)

\* hwint14 calls what is registered; f is the function it gets to.
Interrupt(f) ==
  drive.busy /\ NotBetween /\ irq_handler = "DEVICE_INTR" /\ DEVICE_INTR = f

\* It calls NULL.
CallsNull ==
  /\ drive.busy /\ NotBetween /\ irq_handler = "NULL"
  /\ driver' = "lost"
  /\ UNCHANGED <<requestVars, irq_handler, DEVICE_INTR, reset, recalibrate, drive,
                 b_data, calls>>

\* The drive has done what it was asked, up to the next sector.
DriveGoesOn ==
  drive' = IF drive.left > 1 THEN [drive EXCEPT !.sector = @ + 1, !.left = @ - 1]
           ELSE [drive EXCEPT !.busy = FALSE, !.sector = 0, !.left = 0]

\* winResult is not 0: the command is over, the request is tried again.
Fails(f) ==
  /\ Interrupt(f)
  /\ drive' = [drive EXCEPT !.busy = FALSE, !.sector = 0, !.left = 0]
  /\ badRwIntr
  /\ UNCHANGED <<irq_handler, DEVICE_INTR, recalibrate, b_data, calls>>

\* Mutant: the second sector is read over the first.
readInPlace(c) == [c EXCEPT !.errors = 0, !.sector = @ + 1, !.nr_sectors = @ - 1]

\* Mutant: the sector is not counted.
readStays(c) == [c EXCEPT !.errors = 0, !.buffer = @ + 1, !.nr_sectors = @ - 1]

\* What readIntr does to the request once a sector has been read.
OneRead(c) == [c EXCEPT !.errors = 0, !.buffer = @ + 1, !.sector = @ + 1,
                        !.nr_sectors = @ - 1]

readIntr ==
  LET info == [REQUEST_INFO EXCEPT ![current_request] = OneRead(@)]
  IN  /\ Interrupt("readIntr")
      /\ DriveGoesOn
      /\ b_data' = [b_data EXCEPT ![current.bh][current.buffer] = drive.sector]
      /\ IF info[current_request].nr_sectors > 0
           THEN /\ REQUEST_INFO' = info
                /\ UNCHANGED <<current_request, b_lock, b_dirt, b_uptodate, call, driver>>
           ELSE endRequest(info, TRUE)
      /\ UNCHANGED <<irq_handler, DEVICE_INTR, reset, recalibrate, calls>>

recalIntr ==
  /\ Interrupt("recalIntr")
  /\ DriveGoesOn
  /\ driver' = "request"
  /\ UNCHANGED <<requestVars, irq_handler, DEVICE_INTR, reset, recalibrate, b_data, calls>>

DeviceInterrupt ==
  \/ readIntr \/ recalIntr \/ CallsNull
  \/ \E f \in {"readIntr", "recalIntr"} : Fails(f)

---------------------------------------------------------------------------

\* addRequest calls harddiskRequest for the first request, and returns to
\* its caller when that does.
AddToQueue(p) ==
  /\ Add(p)
  /\ driver' = IF current_request = Nil THEN "request" ELSE driver
  /\ UNCHANGED <<irq_handler, DEVICE_INTR, reset, recalibrate, drive, b_data, calls>>

Return(p) ==
  /\ At(p, "request") /\ driver = "idle"
  /\ call' = [call EXCEPT ![p] = NoCall]
  /\ UNCHANGED <<REQUEST_INFO, current_request, b_lock, b_dirt, b_uptodate,
                 driverVars, calls>>

Call(p) ==
  /\ calls < MaxCalls /\ calls' = calls + 1
  /\ \E rw \in Commands, b \in Bufs : ll_rw_block(p, rw, b)
  /\ UNCHANGED driverVars

GoOn(p) ==
  \/ /\ Woken(p) \/ Search(p) \/ NoSlot(p) \/ Resumed(p) \/ Fill(p)
     /\ UNCHANGED <<driverVars, calls>>
  \/ AddToQueue(p)
  \/ Return(p)

Next == \/ \E p \in Clients : Call(p) \/ GoOn(p)
        \/ \E b \in Bufs : Modify(b) /\ UNCHANGED <<driverVars, calls>>
        \/ harddiskRequest
        \/ DeviceInterrupt

\* The processor comes back to the driver and to the calls, and the drive
\* answers its commands with an interrupt.
Fairness == /\ WF_vars(harddiskRequest \/ DeviceInterrupt)
            /\ WF_vars(\E p \in Clients : GoOn(p))

Spec == Init /\ [][Next]_vars /\ Fairness

---------------------------------------------------------------------------
(* Properties.                                                             *)

Requests == [dev : {-1, Hd}, cmd : {READ, WRITE}, errors : 0 .. MAX_ERRORS,
             sector : Nat, nr_sectors : 0 .. 2, buffer : 0 .. 2,
             bh : Bufs \cup {Nil}, next : Slots \cup {Nil}]
Calls == [at : {"idle", "lock", "search", "found", "full", "asleep", "add",
                "request", "spin"},
          rw : {READ, WRITE}, ahead : BOOLEAN, bh : Bufs \cup {Nil},
          req : Slots \cup {Nil}]

\* The type of the variables: among others, a request has at most MAX_ERRORS
\* errors and its buffer pointer stays within the block.
TypeOK ==
  /\ REQUEST_INFO \in [Slots -> Requests]
  /\ current_request \in Slots \cup {Nil}
  /\ b_lock \in [Bufs -> BOOLEAN] /\ b_dirt \in [Bufs -> BOOLEAN]
  /\ b_uptodate \in [Bufs -> BOOLEAN]
  /\ call \in [Clients -> Calls]
  /\ irq_handler \in Handlers /\ DEVICE_INTR \in {"NULL", "readIntr", "recalIntr"}
  /\ reset \in BOOLEAN /\ recalibrate \in BOOLEAN
  /\ driver \in {"idle", "request", "ending", "lost"}
  /\ drive \in [cmd : {"none", "SPECIFY", "RESTORE", "READ"},
                busy : BOOLEAN, sector : Nat, left : 0 .. 2]
  /\ b_data \in [Bufs -> [{0, 1} -> Nat \cup {Nil}]]
  /\ calls \in 0 .. MaxCalls

\* While the drive works, the current request is not ended, has failed fewer times
\* than MAX_ERRORS, and its buffer pointer is at its sector; and while it reads, the
\* interrupt will run readIntr and the drive is at the sector and the count of the
\* request, whatever failed, was repeated, reset or cut short before (readIntr,
\* badRwIntr and harddiskRequest keep five counters in step).
DriveServesCurrent ==
  drive.busy =>
    /\ Pending /\ current.errors < MAX_ERRORS
    /\ current.buffer = current.sector - 2 * BlockOf[current.bh]
    /\ current.buffer + current.nr_sectors = 2
    /\ drive.cmd = "READ" =>
         /\ DEVICE_INTR = "readIntr"
         /\ drive.sector = current.sector /\ drive.left = current.nr_sectors

\* No write is ever served: the first request is a read in the last slot, which
\* stays current, and makeRequest keeps writes out of the last third.
OnlyReadsServed == Pending => current.cmd = READ

\* A buffer that is up to date holds both sectors of its block, each in its
\* place (readIntr, endRequest), however its reads were interrupted, failed or
\* taken up again.
UptodateIsWhole ==
  \A b \in Bufs : b_uptodate[b] => \A h \in {0, 1} : b_data[b][h] = 2 * BlockOf[b] + h

\* No way out of makeRequest, and no end of a request, leaves a buffer locked
\* behind it: whatever is locked belongs to a call in makeRequest or to a
\* request in the table.  It does not say that the lock is ever given back: a
\* call that sleeps for a slot, or a request behind the ended one, may keep it.
LockedHasOwner ==
  \A b \in Bufs : b_lock[b] =>
    \/ \E p \in Clients : /\ call[p].at \in {"search", "found", "full", "asleep"}
                          /\ call[p].bh = b
    \/ \E s \in Slots : Live(s) /\ REQUEST_INFO[s].bh = b

\* The elevator of addRequest: along the queue the order goes down at most once,
\* so the drive sweeps to the end and begins again, whatever the order in
\* which the requests came and however far the current one has got.
QueueSweepsOnce ==
  LET q == Chain(REQUEST_INFO)
      Turns == {i \in 1 .. Len(q) - 1 :
                  IN_ORDER(REQUEST_INFO[q[i + 1]], REQUEST_INFO[q[i]])}
  IN  Cardinality(Turns) <= 1

\* A request that failed more than half its attempts is not tried again before
\* the drive was moved back to cylinder 0, and that is not done before the drive
\* was specified anew (badRwIntr asks for it, harddiskRequest and recalIntr carry
\* it out over three interrupts, any of which may fail).
RetriesRecalibrate ==
  [][~drive.busy /\ drive'.busy =>
       /\ drive'.cmd = "READ" /\ current.errors > MAX_ERRORS \div 2 => drive.cmd = "RESTORE"
       /\ drive'.cmd = "RESTORE" => drive.cmd = "SPECIFY"]_vars

\* The current request comes to an end, by success or by MAX_ERRORS failures,
\* unless addRequest has stopped the machine: the functions that are to be called
\* by the disk's interrupt (harddisk.c:144) see to it.
CurrentEnds == Pending ~> (Frozen \/ ~Pending)

\* addRequest always finds a place for a request and comes back.
NeverFrozen == ~Frozen

\* What harddiskRequest says when it is not so (line 234): the request it
\* serves is one of this disk.
ListNotDestroyed == driver = "request" => Live(current_request)
=============================================================================
