--------------------------- MODULE HardDiskProofs ---------------------------
(***************************************************************************)
(* The hard disk driver over the block requests, for any number of slots,  *)
(* buffers, clients and attempts.  As long as nobody comes between the     *)
(* search of the table and what makeRequest does with its result, the      *)
(* first request is a read in the last slot, where current_request stays,  *)
(* and the driver, the drive and the request agree about its progress.     *)
(* The second part is about the order in which addRequest keeps the queue. *)
(***************************************************************************)
EXTENDS HardDisk, FiniteSetTheorems, WellFoundedInduction, TLAPS

\* The slot of the first request.
LastSlot == NR_REQUEST - 1

\* The places between the search of the table and the queue.
Claiming == {"found", "full", "add"}

\* The places where a call has its buffer with it.
WithBuffer == {"lock", "search", "found", "full", "asleep"}

\* What a call has in its hands at each place.
Shapes ==
  \A p \in Clients :
    /\ call[p].at \in WithBuffer => call[p].bh \in Bufs
    /\ call[p].at \in {"found", "add"} => call[p].req \in Slots

\* Only one call at a time is between the search and the queue.
OneClaims ==
  \A p, q \in Clients : call[p].at \in Claiming /\ call[q].at \in Claiming => p = q

\* A slot that was found is free, and not for a write if it is one of the last
\* third.
FoundFree ==
  \A p \in Clients : call[p].at = "found" =>
    /\ ~Live(call[p].req)
    /\ call[p].rw = WRITE => call[p].req < (NR_REQUEST * 2) \div 3

\* The writes that are in the table leave the last third to the reads.
WritesApart ==
  \A s \in Slots : Live(s) /\ REQUEST_INFO[s].cmd = WRITE => s < (NR_REQUEST * 2) \div 3

\* Until the first request is queued nothing has been read, so nothing can have
\* been modified, and that request is a read in the last slot, not tried yet.
FirstIsRead ==
  /\ current_request \in {Nil, LastSlot}
  /\ current_request = Nil =>
       /\ \A b \in Bufs : ~b_uptodate[b] /\ ~b_dirt[b]
       /\ \A p \in Clients :
            /\ call[p].at \in {"search", "found", "full", "asleep"} => call[p].rw = READ
            /\ call[p].at \in {"found", "add"} => call[p].req = LastSlot
       /\ \A s \in Slots : Live(s) =>
            /\ REQUEST_INFO[s].errors = 0
            /\ \E p \in Clients : call[p].at = "add" /\ call[p].req = s

\* What is left of a request, and what it has brought.
InProgress(s) ==
  LET r == REQUEST_INFO[s]
  IN  /\ r.bh \in Bufs /\ r.errors < MAX_ERRORS
      /\ r.buffer = r.sector - 2 * BlockOf[r.bh]
      /\ r.buffer + r.nr_sectors = 2 /\ r.nr_sectors >= 1
      /\ \A h \in {0, 1} : h < r.buffer => b_data[r.bh][h] = 2 * BlockOf[r.bh] + h

Progress == \A s \in Slots : Live(s) => InProgress(s)

\* A drive that works leaves the driver waiting for the function that the
\* command names.
Commanded ==
  /\ driver # "ending"
  /\ current_request = Nil => driver = "idle" /\ ~drive.busy
  /\ drive.busy => driver \in {"idle", "lost"}
  /\ drive.busy /\ drive.cmd # "READ" => DEVICE_INTR = "recalIntr" /\ drive.left = 0

\* Whatever has been read is in its place.
DataInPlace ==
  \A b \in Bufs, h \in {0, 1} : b_data[b][h] # Nil => b_data[b][h] = 2 * BlockOf[b] + h

\* A request that failed often waits for the reset, the recalibration that
\* follows it, or its last attempt after them.
Recalibrates ==
  /\ recalibrate => drive.cmd = "SPECIFY"
  /\ Pending /\ current.errors > MAX_ERRORS \div 2 =>
       \/ reset \/ recalibrate \/ drive.cmd = "RESTORE"
       \/ drive.busy /\ drive.cmd = "READ"

Inv == /\ TypeOK /\ Shapes /\ OneClaims /\ FoundFree /\ WritesApart /\ FirstIsRead
       /\ Progress /\ Commanded /\ DataInPlace /\ DriveServesCurrent /\ UptodateIsWhole
       /\ LockedHasOwner /\ Recalibrates

\* In the middle of endRequest the buffer of the current request is unlocked; the
\* rest is as ever for the other requests.
Ended ==
  /\ TypeOK /\ Shapes /\ OneClaims /\ WritesApart /\ FirstIsRead /\ DataInPlace
  /\ UptodateIsWhole
  /\ driver = "ending" /\ ~drive.busy /\ current_request # Nil
  /\ recalibrate => drive.cmd = "SPECIFY"
  /\ \A p \in Clients : call[p].at \notin {"found", "full"}
  /\ \A s \in Slots : Live(s) /\ s # current_request => InProgress(s)
  /\ \A b \in Bufs : b_lock[b] =>
       \/ \E p \in Clients : /\ call[p].at \in {"search", "found", "full", "asleep"}
                             /\ call[p].bh = b
       \/ \E s \in Slots : Live(s) /\ s # current_request /\ REQUEST_INFO[s].bh = b

---------------------------------------------------------------------------

\* What the assumptions say of the table and the last slot.
LEMMA DiskSizes ==
  /\ NR_REQUEST \in Nat /\ NR_REQUEST >= 1 /\ Slots = 0 .. NR_REQUEST - 1
  /\ LastSlot \in Slots /\ LastSlot \in Nat /\ \A s \in Slots : s <= LastSlot
  /\ (NR_REQUEST * 2) \div 3 <= LastSlot /\ (NR_REQUEST * 2) \div 3 \in Int
  /\ MAX_ERRORS \in Nat /\ MAX_ERRORS >= 1
  /\ Nil \notin Slots /\ Nil \notin Bufs
  /\ \A b \in Bufs : BlockOf[b] \in Nat
  BY BlockAssumption, DiskAssumption DEF Slots, LastSlot

\* What the guards say without preemption.
LEMMA Alone ==
  ASSUME ~Preemptible
  PROVE  /\ \A p, place : At(p, place) /\ place \notin Claiming =>
              \A q \in Clients : call[q].at \notin Claiming
         /\ \A p, place : At(p, place) => driver # "ending"
         /\ NotBetween => \A q \in Clients : call[q].at \notin {"found", "full"}
  BY DEF At, NotBetween, Undisturbed, Claiming, NotEnding

\* After initHarddisk the table is empty and nobody has called.
LEMMA InitInv == Init => Inv
<1> SUFFICES ASSUME Init PROVE Inv
  OBVIOUS
<1>1. TypeOK
  <2>1. NoRequest \in Requests
    BY DiskSizes DEF NoRequest, Requests, READ
  <2>2. NoCall \in Calls
    BY DEF NoCall, Calls, READ
  <2>3. drive \in [cmd : {"none", "SPECIFY", "RESTORE", "READ"},
                   busy : BOOLEAN, sector : Nat, left : 0 .. 2]
    BY DEF Init
  <2>4. calls \in 0 .. MaxCalls
    BY DiskAssumption DEF Init
  <2> QED
    BY <2>1, <2>2, <2>3, <2>4 DEF Init, InitRequests, InitBuffers, InitCalls, TypeOK
<1>2. \A s \in Slots : ~Live(s)
  BY DEF Init, InitRequests, Live, NoRequest
<1>3. Shapes /\ OneClaims /\ FoundFree /\ WritesApart /\ FirstIsRead
  BY <1>2 DEF Init, InitRequests, InitBuffers, InitCalls, NoCall, Shapes, OneClaims, FoundFree,
              WritesApart, FirstIsRead, WithBuffer, Claiming
<1>4. Progress /\ Commanded /\ DataInPlace /\ DriveServesCurrent /\ UptodateIsWhole
  BY <1>2 DEF Init, InitRequests, InitBuffers, Progress, InProgress, Commanded, DataInPlace,
              DriveServesCurrent, UptodateIsWhole
<1>5. LockedHasOwner /\ Recalibrates
  BY DEF Init, InitRequests, InitBuffers, LockedHasOwner, Recalibrates, Pending
<1> QED
  BY <1>1, <1>3, <1>4, <1>5 DEF Inv

\* A step that leaves the table and the driver alone.
LEMMA TableStays ==
  ASSUME Inv, UNCHANGED <<REQUEST_INFO, current_request, b_uptodate, driverVars>>
  PROVE  /\ WritesApart' /\ Progress' /\ Commanded' /\ DataInPlace' /\ DriveServesCurrent'
         /\ UptodateIsWhole' /\ Recalibrates'
<1>1. /\ REQUEST_INFO' = REQUEST_INFO /\ current_request' = current_request
      /\ b_uptodate' = b_uptodate /\ DEVICE_INTR' = DEVICE_INTR /\ reset' = reset
      /\ recalibrate' = recalibrate /\ driver' = driver /\ drive' = drive /\ b_data' = b_data
  BY DEF driverVars
<1>2. Pending' = Pending /\ current' = current /\ \A s \in Slots : Live(s)' = Live(s)
  BY <1>1 DEF Pending, current, Live
<1>3. WritesApart' /\ Progress' /\ Commanded' /\ DataInPlace' /\ UptodateIsWhole'
  BY <1>1, <1>2 DEF Inv, WritesApart, Progress, InProgress, Commanded, DataInPlace, UptodateIsWhole
<1>4. DriveServesCurrent' /\ Recalibrates'
  BY <1>1, <1>2 DEF Inv, DriveServesCurrent, Recalibrates
<1> QED
  BY <1>3, <1>4

\* The lock is taken, waited for, or not needed.
LEMMA LockInv ==
  ASSUME Inv, NEW p \in Clients, NEW c \in Calls, lockBuffer(p, c),
         call[p].at \in {"idle", "lock"}, c.at = "lock", c.bh \in Bufs,
         UNCHANGED <<REQUEST_INFO, current_request, b_dirt, b_uptodate, driverVars>>,
         calls' \in 0 .. MaxCalls
  PROVE  Inv'
<1> DEFINE d == [c EXCEPT !.at = "search"]
<1>1. TypeOK /\ Shapes /\ call \in [Clients -> Calls] /\ b_lock \in [Bufs -> BOOLEAN]
  BY DEF Inv, TypeOK
<1>2. NoCall \in Calls /\ d \in Calls /\ [c EXCEPT !.at = "lock"] = c
  <2>1. NoCall \in Calls
    BY DEF NoCall, Calls, READ
  <2>2. d \in Calls /\ [c EXCEPT !.at = "lock"] = c
    BY DEF Calls
  <2> QED
    BY <2>1, <2>2
<1>3. d.at = "search" /\ d.bh = c.bh /\ d.rw = c.rw
  BY DEF Calls
<1>4. \/ call' = [call EXCEPT ![p] = c] /\ b_lock' = b_lock
      \/ call' = [call EXCEPT ![p] = NoCall] /\ b_lock' = b_lock
      \/ /\ call' = [call EXCEPT ![p] = d] /\ b_lock' = [b_lock EXCEPT ![c.bh] = TRUE]
         /\ ~NothingToDo(c)
  BY <1>2 DEF lockBuffer
<1> HIDE DEF d
<1>5. /\ call' \in [Clients -> Calls] /\ \A q \in Clients \ {p} : call'[q] = call[q]
      /\ call'[p] \in {c, NoCall, d}
  BY <1>1, <1>2, <1>4
<1>6. NoCall.at = "idle"
  BY DEF NoCall
<1>7. TypeOK'
  <2>1. b_lock' \in [Bufs -> BOOLEAN]
    BY <1>1, <1>4
  <2> QED
    BY <1>1, <1>5, <2>1 DEF TypeOK, driverVars
<1>8. Shapes' /\ OneClaims' /\ FoundFree'
  BY <1>1, <1>3, <1>5, <1>6 DEF Inv, Shapes, OneClaims, FoundFree, WithBuffer, Claiming, Live
<1>9. FirstIsRead'
  <2>1. current_request = Nil /\ call'[p] = d => d.rw = READ
    <3>1. call'[p] = d => ~NothingToDo(c)
      BY <1>1, <1>3, <1>4, <1>6
    <3>2. c.rw \in {READ, WRITE}
      BY DEF Calls
    <3> QED
      BY <1>3, <3>1, <3>2 DEF Inv, FirstIsRead, NothingToDo
  <2>2. \A s \in Slots : Live(s)' = Live(s) /\ REQUEST_INFO'[s] = REQUEST_INFO[s]
    BY DEF Live
  <2>3. call[p].at # "add" /\ call'[p].at \notin {"found", "full", "asleep", "add"}
    BY <1>3, <1>5, <1>6
  <2>4. current_request = Nil /\ call'[p].at = "search" => call'[p].rw = READ
    BY <1>3, <1>5, <1>6, <2>1
  <2> QED
    BY <1>5, <2>2, <2>3, <2>4 DEF Inv, FirstIsRead
<1>10. LockedHasOwner'
  <2> SUFFICES ASSUME NEW b \in Bufs, b_lock'[b]
               PROVE  \/ \E q \in Clients : /\ call'[q].at \in {"search", "found", "full", "asleep"}
                                            /\ call'[q].bh = b
                      \/ \E s \in Slots : Live(s) /\ REQUEST_INFO[s].bh = b
    BY DEF LockedHasOwner, Live
  <2>1. CASE b_lock[b]
    BY <1>5, <2>1 DEF Inv, LockedHasOwner
  <2>2. CASE ~b_lock[b]
    <3>1. b = c.bh /\ call'[p] = d
      BY <1>1, <1>4, <2>2
    <3> QED
      BY <1>3, <3>1
  <2> QED
    BY <2>1, <2>2
<1> QED
  BY <1>7, <1>8, <1>9, <1>10, TableStays DEF Inv

\* ll_rw_block begins, and goes on when its buffer is unlocked.
LEMMA CallInv ==
  ASSUME Inv, NEW p \in Clients,
         Call(p) \/ (Woken(p) /\ UNCHANGED <<driverVars, calls>>)
  PROVE  Inv'
<1>1. CASE Call(p)
  <2>1. PICK rw \in Commands, b \in Bufs : ll_rw_block(p, rw, b)
    BY <1>1 DEF Call
  <2> DEFINE c == [at |-> "lock", rw |-> IF rw \in {READ, READA} THEN READ ELSE WRITE,
                   ahead |-> rw \in {READA, WRITEA}, bh |-> b, req |-> Nil]
  <2>2. c \in Calls
    BY DEF Calls
  <2>3. lockBuffer(p, c) /\ call[p].at = "idle"
    BY <2>1 DEF ll_rw_block, At
  <2>4. calls' \in 0 .. MaxCalls
    <3>1. calls \in 0 .. MaxCalls /\ MaxCalls \in Nat
      BY DiskAssumption DEF Inv, TypeOK
    <3>2. calls < MaxCalls /\ calls' = calls + 1
      BY <1>1 DEF Call
    <3> QED
      BY <3>1, <3>2
  <2>5. UNCHANGED <<REQUEST_INFO, current_request, b_dirt, b_uptodate, driverVars>>
    BY <1>1, <2>1 DEF Call, ll_rw_block
  <2> QED
    BY <2>2, <2>3, <2>4, <2>5, LockInv
<1>2. CASE Woken(p) /\ UNCHANGED <<driverVars, calls>>
  <2>1. call[p] \in Calls /\ call[p].at = "lock" /\ call[p].bh \in Bufs
    BY <1>2 DEF Woken, At, Inv, TypeOK, Shapes, WithBuffer
  <2>2. calls' \in 0 .. MaxCalls
    BY <1>2 DEF Inv, TypeOK
  <2> QED
    BY <1>2, <2>1, <2>2, LockInv DEF Woken
<1> QED
  BY <1>1, <1>2

\* makeRequest finds the last free slot that the command may use.
LEMMA SearchInv ==
  ASSUME Inv, ~Preemptible, NEW p \in Clients, Search(p), UNCHANGED <<driverVars, calls>>
  PROVE  Inv'
<1> DEFINE c == call[p]
           free == Free(c.rw)
           s == CHOOSE x \in free : \A t \in free : t <= x
           d == [c EXCEPT !.at = "found", !.req = s]
           e == [c EXCEPT !.at = "full"]
<1>1. TypeOK /\ Shapes /\ call \in [Clients -> Calls] /\ c \in Calls /\ c.at = "search"
  BY DEF Inv, TypeOK, Search, At
<1>2. UNCHANGED <<REQUEST_INFO, current_request, b_lock, b_dirt, b_uptodate>>
  BY DEF Search
<1>3. \A q \in Clients : call[q].at \notin Claiming
  BY Alone DEF Search, Claiming
<1>4. free \subseteq Slots /\ free \subseteq Nat
  BY DiskSizes DEF Free
<1>5. free # {} => s \in free /\ \A t \in free : t <= s
  <2>1. SUFFICES ASSUME free # {} PROVE \E x \in free : \A t \in free : t <= x
    OBVIOUS
  <2> DEFINE up == {LastSlot - x : x \in free}
  <2>2. up \subseteq Nat /\ up # {}
    BY <1>4, <2>1, DiskSizes
  <2> HIDE DEF free
  <2>3. PICK m \in up : \A n \in up : ~(<<n, m>> \in OpToRel(<, Nat))
    BY <2>2, NatLessThanWellFounded, WFMin
  <2>4. PICK x \in free : m = LastSlot - x
    BY <2>3
  <2>5. \A t \in free : ~(LastSlot - t < LastSlot - x)
    BY <2>2, <2>3, <2>4 DEF OpToRel
  <2> QED
    BY <1>4, <2>4, <2>5, DiskSizes
<1>6. call' = [call EXCEPT ![p] = IF free = {} THEN e ELSE d]
  BY DEF Search
<1> HIDE DEF s
<1>7. /\ d.at = "found" /\ d.req = s /\ d.bh = c.bh /\ d.rw = c.rw
      /\ e.at = "full" /\ e.bh = c.bh /\ e.rw = c.rw /\ e \in Calls
      /\ free # {} => d \in Calls
  BY <1>1, <1>4, <1>5 DEF Calls
<1>8. free # {} => /\ s \in Slots /\ ~Live(s)
                   /\ c.rw = WRITE => s < (NR_REQUEST * 2) \div 3
  BY <1>5 DEF Free
<1> HIDE DEF d, e, free
<1>9. /\ call' \in [Clients -> Calls] /\ \A q \in Clients \ {p} : call'[q] = call[q]
      /\ \/ free = {} /\ call'[p] = e
         \/ free # {} /\ call'[p] = d
  BY <1>1, <1>6, <1>7
<1>10. TypeOK'
  BY <1>1, <1>2, <1>9 DEF TypeOK, driverVars
<1>11. \A x \in Slots : Live(x)' = Live(x)
  BY <1>2 DEF Live
<1>12. Shapes' /\ OneClaims' /\ FoundFree'
  BY <1>1, <1>3, <1>7, <1>8, <1>9, <1>11
     DEF Shapes, OneClaims, FoundFree, WithBuffer, Claiming
<1>13. FirstIsRead'
  <2>1. CASE current_request # Nil
    BY <1>2, <2>1 DEF Inv, FirstIsRead
  <2>2. CASE current_request = Nil
    <3>1. \A x \in Slots : ~Live(x)
      BY <1>3, <2>2 DEF Inv, FirstIsRead, Claiming
    <3>2. c.rw = READ
      BY <1>1, <2>2 DEF Inv, FirstIsRead
    <3>3. free = Slots
      BY <3>1, <3>2 DEF free, Free, READ, WRITE
    <3>4. s = LastSlot
      BY <1>4, <1>5, <3>3, DiskSizes
    <3>5. \A x \in Slots : ~Live(x)'
      BY <1>11, <3>1
    <3> QED
      BY <1>2, <1>3, <1>7, <1>9, <2>2, <3>2, <3>3, <3>4, <3>5 DEF Inv, FirstIsRead, Claiming
  <2> QED
    BY <2>1, <2>2
<1>14. LockedHasOwner'
  <2> SUFFICES ASSUME NEW b \in Bufs, b_lock'[b]
               PROVE  \/ \E q \in Clients : /\ call'[q].at \in {"search", "found", "full", "asleep"}
                                            /\ call'[q].bh = b
                      \/ \E x \in Slots : Live(x) /\ REQUEST_INFO[x].bh = b
    BY <1>2 DEF LockedHasOwner, Live
  <2> QED
    BY <1>2, <1>7, <1>9 DEF Inv, LockedHasOwner
<1> QED
  BY <1>2, <1>10, <1>12, <1>13, <1>14, TableStays DEF Inv

\* Without a slot, a call ahead gives up and another goes to sleep.
LEMMA NoSlotInv ==
  ASSUME Inv, NEW p \in Clients, NoSlot(p), UNCHANGED <<driverVars, calls>>
  PROVE  Inv'
<1> DEFINE c == call[p]
<1>1. /\ TypeOK /\ Shapes /\ call \in [Clients -> Calls] /\ c \in Calls /\ c.at = "full"
      /\ c.bh \in Bufs /\ b_lock \in [Bufs -> BOOLEAN]
  BY DEF Inv, TypeOK, NoSlot, At, Shapes, WithBuffer
<1>2. UNCHANGED <<REQUEST_INFO, current_request, b_dirt, b_uptodate>>
  BY DEF NoSlot
<1>3. \/ call' = [call EXCEPT ![p] = NoCall] /\ b_lock' = [b_lock EXCEPT ![c.bh] = FALSE]
      \/ call' = [call EXCEPT ![p].at = "asleep"] /\ b_lock' = b_lock
  BY DEF NoSlot
<1>4. NoCall \in Calls /\ NoCall.at = "idle"
  BY DEF NoCall, Calls, READ
<1>5. /\ call' \in [Clients -> Calls] /\ \A q \in Clients \ {p} : call'[q] = call[q]
      /\ \/ call'[p].at = "idle" /\ b_lock' = [b_lock EXCEPT ![c.bh] = FALSE]
         \/ /\ call'[p].at = "asleep" /\ call'[p].bh = c.bh /\ call'[p].rw = c.rw
            /\ b_lock' = b_lock
  <2>1. CASE call' = [call EXCEPT ![p] = NoCall] /\ b_lock' = [b_lock EXCEPT ![c.bh] = FALSE]
    BY <1>1, <1>4, <2>1
  <2>2. CASE call' = [call EXCEPT ![p].at = "asleep"] /\ b_lock' = b_lock
    BY <1>1, <2>2 DEF Calls
  <2> QED
    BY <1>3, <2>1, <2>2
<1>6. TypeOK'
  <2>1. b_lock' \in [Bufs -> BOOLEAN]
    BY <1>1, <1>5
  <2> QED
    BY <1>1, <1>2, <1>5, <2>1 DEF TypeOK, driverVars
<1>7. \A x \in Slots : Live(x)' = Live(x)
  BY <1>2 DEF Live
<1>8. Shapes' /\ OneClaims' /\ FoundFree'
  BY <1>1, <1>5, <1>7 DEF Inv, Shapes, OneClaims, FoundFree, WithBuffer, Claiming
<1>9. FirstIsRead'
  BY <1>1, <1>2, <1>5, <1>7 DEF Inv, FirstIsRead
<1>10. LockedHasOwner'
  <2> SUFFICES ASSUME NEW b \in Bufs, b_lock'[b]
               PROVE  \/ \E q \in Clients : /\ call'[q].at \in {"search", "found", "full", "asleep"}
                                            /\ call'[q].bh = b
                      \/ \E x \in Slots : Live(x) /\ REQUEST_INFO[x].bh = b
    BY <1>2 DEF LockedHasOwner, Live
  <2>1. b_lock[b] /\ (call'[p].at = "idle" => b # c.bh)
    BY <1>1, <1>5
  <2> QED
    BY <1>1, <1>5, <2>1 DEF Inv, LockedHasOwner
<1> QED
  BY <1>2, <1>6, <1>8, <1>9, <1>10, TableStays DEF Inv

\* A call that slept for a slot looks again.
LEMMA ResumedInv ==
  ASSUME Inv, NEW p \in Clients, Resumed(p), UNCHANGED <<driverVars, calls>>
  PROVE  Inv'
<1> DEFINE c == call[p]
<1>1. /\ TypeOK /\ Shapes /\ call \in [Clients -> Calls] /\ c \in Calls /\ c.at = "asleep"
      /\ c.bh \in Bufs
  BY DEF Inv, TypeOK, Resumed, At, Shapes, WithBuffer
<1>2. UNCHANGED <<REQUEST_INFO, current_request, b_lock, b_dirt, b_uptodate>>
  BY DEF Resumed
<1>3. /\ call' \in [Clients -> Calls] /\ \A q \in Clients \ {p} : call'[q] = call[q]
      /\ call'[p].at = "search" /\ call'[p].bh = c.bh /\ call'[p].rw = c.rw
  <2>1. call' = [call EXCEPT ![p].at = "search"]
    BY DEF Resumed
  <2> QED
    BY <1>1, <2>1 DEF Calls
<1>4. TypeOK'
  BY <1>1, <1>2, <1>3 DEF TypeOK, driverVars
<1>5. \A x \in Slots : Live(x)' = Live(x)
  BY <1>2 DEF Live
<1>6. Shapes' /\ OneClaims' /\ FoundFree'
  BY <1>1, <1>3, <1>5 DEF Inv, Shapes, OneClaims, FoundFree, WithBuffer, Claiming
<1>7. FirstIsRead'
  BY <1>1, <1>2, <1>3, <1>5 DEF Inv, FirstIsRead
<1>8. LockedHasOwner'
  <2> SUFFICES ASSUME NEW b \in Bufs, b_lock[b]
               PROVE  \/ \E q \in Clients : /\ call'[q].at \in {"search", "found", "full", "asleep"}
                                            /\ call'[q].bh = b
                      \/ \E x \in Slots : Live(x) /\ REQUEST_INFO[x].bh = b
    BY <1>2 DEF LockedHasOwner, Live
  <2> QED
    BY <1>1, <1>3 DEF Inv, LockedHasOwner
<1> QED
  BY <1>2, <1>4, <1>6, <1>7, <1>8, TableStays DEF Inv

\* Filling a slot that was found free makes it a live request of which nothing
\* has been done.
LEMMA FillInv ==
  ASSUME Inv, ~Preemptible, NEW p \in Clients, Fill(p), UNCHANGED <<driverVars, calls>>
  PROVE  Inv'
<1> DEFINE c == call[p]
           s == c.req
           r == Filled(c)
           d == [NoCall EXCEPT !.at = "add", !.req = s]
<1>1. /\ TypeOK /\ Shapes /\ call \in [Clients -> Calls] /\ c \in Calls /\ c.at = "found"
      /\ c.bh \in Bufs /\ s \in Slots /\ REQUEST_INFO \in [Slots -> Requests]
  BY DEF Inv, TypeOK, Fill, At, Shapes, WithBuffer
<1>2. /\ UNCHANGED <<current_request, b_lock, b_dirt, b_uptodate>>
      /\ REQUEST_INFO' = [REQUEST_INFO EXCEPT ![s] = r]
      /\ call' = [call EXCEPT ![p] = d]
      /\ irq_handler' = irq_handler /\ DEVICE_INTR' = DEVICE_INTR
      /\ reset' = reset /\ recalibrate' = recalibrate
      /\ driver' = driver /\ drive' = drive /\ b_data' = b_data /\ calls' = calls
  BY DEF Fill, driverVars
<1>3. ~Live(s) /\ (c.rw = WRITE => s < (NR_REQUEST * 2) \div 3)
  BY <1>1 DEF Inv, FoundFree
<1>4. /\ r.dev = Hd /\ r.cmd = c.rw /\ r.errors = 0 /\ r.sector = 2 * BlockOf[c.bh]
      /\ r.nr_sectors = 2 /\ r.buffer = 0 /\ r.bh = c.bh /\ r \in Requests
  <2>1. 2 * BlockOf[c.bh] \in Nat /\ 0 \in 0 .. MAX_ERRORS
    BY <1>1, DiskSizes
  <2> QED
    BY <1>1, <2>1 DEF Filled, Requests, Calls
<1>5. d.at = "add" /\ d.req = s /\ d \in Calls
  BY <1>1 DEF NoCall, Calls, READ
<1> HIDE DEF r, d
<1>6. /\ call' \in [Clients -> Calls] /\ call'[p] = d
      /\ \A q \in Clients \ {p} : call'[q] = call[q]
  BY <1>1, <1>2, <1>5
<1>7. /\ REQUEST_INFO' \in [Slots -> Requests] /\ REQUEST_INFO'[s] = r
      /\ \A x \in Slots \ {s} : REQUEST_INFO'[x] = REQUEST_INFO[x]
  BY <1>1, <1>2, <1>4
<1>8. /\ \A x \in Slots \ {s} : Live(x)' = Live(x)
      /\ \A x \in Slots : x = s => Live(x)'
  <2>1. REQUEST_INFO'[s].dev >= 0
    BY <1>4, <1>7 DEF Hd
  <2> QED
    BY <1>7, <2>1 DEF Live
<1>9. TypeOK'
  BY <1>1, <1>2, <1>6, <1>7 DEF TypeOK
<1>10. Shapes' /\ OneClaims' /\ FoundFree'
  BY <1>1, <1>5, <1>6, <1>8 DEF Inv, Shapes, OneClaims, FoundFree, WithBuffer, Claiming
<1>11. WritesApart'
  BY <1>3, <1>4, <1>7, <1>8 DEF Inv, WritesApart
<1>12. FirstIsRead'
  <2>1. CASE current_request # Nil
    BY <1>2, <2>1 DEF Inv, FirstIsRead
  <2>2. CASE current_request = Nil
    <3>1. s = LastSlot
      BY <1>1, <2>2 DEF Inv, FirstIsRead
    <3>2. \A q \in Clients \ {p} : call[q].at # "add"
      BY <1>1 DEF Inv, OneClaims, Claiming
    <3>3. \A x \in Slots \ {s} : ~Live(x)
      BY <1>1, <2>2, <3>2 DEF Inv, FirstIsRead
    <3>4. \A x \in Slots : Live(x)' => /\ REQUEST_INFO'[x].errors = 0
                                        /\ call'[p].at = "add" /\ call'[p].req = x
      BY <1>4, <1>5, <1>6, <1>7, <1>8, <3>3
    <3>5. \A q \in Clients : /\ call'[q].at \in {"search", "found", "full", "asleep"} => call'[q].rw = READ
                             /\ call'[q].at \in {"found", "add"} => call'[q].req = LastSlot
      BY <1>5, <1>6, <2>2, <3>1 DEF Inv, FirstIsRead
    <3> QED
      BY <1>2, <2>2, <3>4, <3>5 DEF Inv, FirstIsRead
  <2> QED
    BY <2>1, <2>2
<1>13. Progress'
  <2> SUFFICES ASSUME NEW x \in Slots, Live(x)'
               PROVE  LET y == REQUEST_INFO'[x]
                      IN  /\ y.bh \in Bufs /\ y.errors < MAX_ERRORS
                          /\ y.buffer = y.sector - 2 * BlockOf[y.bh]
                          /\ y.buffer + y.nr_sectors = 2 /\ y.nr_sectors >= 1
                          /\ \A h \in {0, 1} : h < y.buffer => b_data'[y.bh][h] = 2 * BlockOf[y.bh] + h
    BY DEF Progress, InProgress
  <2>1. CASE x = s
    BY <1>1, <1>4, <1>7, <2>1, DiskSizes
  <2>2. CASE x # s
    BY <1>2, <1>7, <1>8, <2>2 DEF Inv, Progress, InProgress
  <2> QED
    BY <2>1, <2>2
<1>14. Commanded' /\ DataInPlace' /\ UptodateIsWhole'
  BY <1>2 DEF Inv, Commanded, DataInPlace, UptodateIsWhole
<1>15. drive.busy => current_request # s
  BY <1>3 DEF Inv, DriveServesCurrent, Pending
<1>16. current_request \in {Nil} \cup Slots
  BY <1>1 DEF TypeOK
<1>17. current_request # s => Pending' = Pending /\ (Pending => current' = current)
  BY <1>2, <1>7, <1>8, <1>16 DEF Pending, current
<1>18. DriveServesCurrent'
  BY <1>2, <1>15, <1>17 DEF Inv, DriveServesCurrent
<1>19. Recalibrates'
  <2>1. CASE current_request = s
    <3>1. current'.errors = 0 /\ ~(0 > MAX_ERRORS \div 2)
      BY <1>2, <1>4, <1>7, <2>1, DiskSizes DEF current
    <3> QED
      BY <1>2, <3>1 DEF Inv, Recalibrates
  <2>2. CASE current_request # s
    BY <1>2, <1>17, <2>2 DEF Inv, Recalibrates
  <2> QED
    BY <2>1, <2>2
<1>20. LockedHasOwner'
  <2> SUFFICES ASSUME NEW b \in Bufs, b_lock[b]
               PROVE  \/ \E q \in Clients : /\ call'[q].at \in {"search", "found", "full", "asleep"}
                                            /\ call'[q].bh = b
                      \/ \E x \in Slots : Live(x)' /\ REQUEST_INFO'[x].bh = b
    BY <1>2 DEF LockedHasOwner
  <2>1. CASE b = c.bh
    BY <1>1, <1>4, <1>7, <1>8, <2>1
  <2>2. CASE \E q \in Clients \ {p} : /\ call[q].at \in {"search", "found", "full", "asleep"}
                                      /\ call[q].bh = b
    BY <1>6, <2>2
  <2>3. CASE \E x \in Slots : Live(x) /\ REQUEST_INFO[x].bh = b
    BY <1>3, <1>7, <1>8, <2>3
  <2> QED
    BY <2>1, <2>2, <2>3 DEF Inv, LockedHasOwner
<1> QED
  BY <1>9, <1>10, <1>11, <1>12, <1>13, <1>14, <1>18, <1>19, <1>20 DEF Inv

---------------------------------------------------------------------------
(* The queue.                                                              *)

\* A walk of n steps from a place in S.
Walks(f, n, S, start, step) ==
  /\ f \in [0 .. n -> S] /\ f[0] = start
  /\ \A i \in 1 .. n : f[i] = step[f[i - 1]]

\* There is a walk of every length.
LEMMA WalkExists ==
  ASSUME NEW n \in Nat, NEW S, NEW start \in S, NEW step \in [S -> S]
  PROVE  \E f : Walks(f, n, S, start, step)
<1> DEFINE Path(f, m) == /\ f \in [0 .. m -> S] /\ f[0] = start
                         /\ \A i \in 1 .. m : f[i] = step[f[i - 1]]
           None == {m \in 0 .. n : ~ \E f : Path(f, m)}
<1>1. None = {}
  <2> SUFFICES ASSUME None # {} PROVE FALSE
    OBVIOUS
  <2> DEFINE N == None
  <2>1. N \subseteq Nat /\ N # {}
    OBVIOUS
  <2> HIDE DEF N
  <2>2. PICK m \in N : \A k \in N : ~(<<k, m>> \in OpToRel(<, Nat))
    BY <2>1, NatLessThanWellFounded, WFMin
  <2>3. m \in None /\ m \in 0 .. n /\ \A k \in None : ~(k < m)
    BY <2>1, <2>2 DEF OpToRel, N
  <2>4. m # 0
    <3>1. Path([k \in 0 .. 0 |-> start], 0)
      OBVIOUS
    <3> QED
      BY <2>3, <3>1
  <2>5. m - 1 \in 0 .. n /\ m - 1 \notin None
    <3> HIDE DEF None
    <3> QED
      BY <2>3, <2>4
  <2>6. PICK f : Path(f, m - 1)
    BY <2>5
  <2>7. Path([k \in 0 .. m |-> IF k = m THEN step[f[m - 1]] ELSE f[k]], m)
    BY <2>3, <2>4, <2>5, <2>6
  <2> QED
    BY <2>3, <2>7
<1> QED
  BY <1>1 DEF Walks

\* A walk that never leaves S in one step ends in S.
LEMMA WalkStays ==
  ASSUME NEW n \in Nat, NEW S, NEW w, w[0] \in S,
         \A i \in 1 .. n : w[i - 1] \in S => w[i] \in S
  PROVE  w[n] \in S
<1> DEFINE Off == {i \in 0 .. n : w[i] \notin S}
<1>1. Off = {}
  <2> SUFFICES ASSUME Off # {} PROVE FALSE
    OBVIOUS
  <2>1. Off \subseteq Nat
    OBVIOUS
  <2>2. PICK m \in Off : \A i \in Off : ~(<<i, m>> \in OpToRel(<, Nat))
    BY <2>1, NatLessThanWellFounded, WFMin
  <2>3. \A i \in Off : ~(i < m)
    BY <2>1, <2>2 DEF OpToRel
  <2>4. m \in 1 .. n /\ m - 1 \in 0 .. n /\ m - 1 < m
    OBVIOUS
  <2>5. w[m - 1] \in S
    BY <2>3, <2>4
  <2> QED
    BY <2>4, <2>5
<1> QED
  BY <1>1

\* The loop of addRequest: a walk from the first request that stays where it may
\* stop.
LEMMA StopsWalk ==
  ASSUME NEW info \in [Slots -> Requests], NEW s \in Slots, current_request \in Slots
  PROVE  \E tmp :
           /\ tmp[0] = current_request
           /\ \A i \in 1 .. NR_REQUEST : tmp[i - 1] \in Slots =>
                tmp[i] = IF StopsAt(info, tmp[i - 1], s) THEN tmp[i - 1]
                         ELSE info[tmp[i - 1]].next
           /\ Stops(info, s) = {t \in {tmp[NR_REQUEST]} : StopsAt(info, t, s)}
<1> DEFINE goOn == [x \in Slots |-> IF StopsAt(info, x, s) THEN x ELSE info[x].next]
           Eqn(w) == w = [n \in 0 .. NR_REQUEST |->
                            IF n = 0 THEN current_request ELSE goOn[w[n - 1]]]
<1>1. goOn \in [Slots -> Slots]
  BY DEF StopsAt, Requests
<1>2. NR_REQUEST \in Nat
  BY DiskSizes
<1> HIDE DEF goOn
<1>3. PICK f : Walks(f, NR_REQUEST, Slots, current_request, goOn)
  BY <1>1, <1>2, WalkExists
<1>4. Eqn(f)
  <2>1. \A n \in 0 .. NR_REQUEST : n # 0 => n \in 1 .. NR_REQUEST
    BY <1>2
  <2>2. \A n \in 0 .. NR_REQUEST : f[n] = IF n = 0 THEN current_request ELSE goOn[f[n - 1]]
    BY <1>3, <2>1 DEF Walks
  <2> QED
    BY <1>3, <2>2 DEF Walks
<1> DEFINE tmp == CHOOSE w : Eqn(w)
<1>5. Eqn(tmp)
  BY <1>4
<1>6. Stops(info, s) = {t \in {tmp[NR_REQUEST]} : StopsAt(info, t, s)}
  BY DEF Stops, goOn
<1> HIDE DEF tmp
<1>7. tmp[0] = current_request /\ \A i \in 1 .. NR_REQUEST : tmp[i] = goOn[tmp[i - 1]]
  BY <1>2, <1>5
<1>8. \A x \in Slots : goOn[x] = IF StopsAt(info, x, s) THEN x ELSE info[x].next
  BY DEF goOn
<1> QED
  BY <1>6, <1>7, <1>8

\* The loop of addRequest stops at a slot, where it may stop.
LEMMA StopsAreSlots ==
  ASSUME NEW info \in [Slots -> Requests], NEW s \in Slots, current_request \in Slots,
         NEW t \in Stops(info, s)
  PROVE  t \in Slots
<1>1. PICK tmp :
           /\ tmp[0] = current_request
           /\ \A i \in 1 .. NR_REQUEST : tmp[i - 1] \in Slots =>
                tmp[i] = IF StopsAt(info, tmp[i - 1], s) THEN tmp[i - 1]
                         ELSE info[tmp[i - 1]].next
           /\ Stops(info, s) = {x \in {tmp[NR_REQUEST]} : StopsAt(info, x, s)}
  BY StopsWalk
<1>2. \A x \in Slots : (IF StopsAt(info, x, s) THEN x ELSE info[x].next) \in Slots
  BY DEF StopsAt, Requests
<1>3. \A i \in 1 .. NR_REQUEST : tmp[i - 1] \in Slots => tmp[i] \in Slots
  BY <1>1, <1>2
<1>4. tmp[NR_REQUEST] \in Slots
  BY <1>1, <1>3, WalkStays, DiskSizes, ZenonT(60)
<1> QED
  BY <1>1, <1>4

\* What a request is to the disk, whatever its link.
Alike(r, q) ==
  /\ r.dev = q.dev /\ r.cmd = q.cmd /\ r.errors = q.errors /\ r.sector = q.sector
  /\ r.nr_sectors = q.nr_sectors /\ r.buffer = q.buffer /\ r.bh = q.bh

\* What addRequest begins with, and what it leaves alone.
LEMMA AddTells ==
  ASSUME NEW p \in Clients, Add(p)
  PROVE  call[p].at = "add" /\ b_lock' = b_lock /\ b_uptodate' = b_uptodate
<1>1. At(p, "add") /\ UNCHANGED <<b_lock, b_uptodate>>
  BY Zenon DEF Add
<1> QED
  BY <1>1 DEF At

\* addRequest changes links, and nothing else of a request.
LEMMA AddLinks ==
  ASSUME Inv, NEW p \in Clients, Add(p)
  PROVE  /\ REQUEST_INFO' \in [Slots -> Requests]
         /\ \A x \in Slots : Alike(REQUEST_INFO'[x], REQUEST_INFO[x])
<1> DEFINE s == call[p].req
           info == [REQUEST_INFO EXCEPT ![s].next = Nil]
<1>1. s \in Slots /\ REQUEST_INFO \in [Slots -> Requests] /\ current_request \in Slots \cup {Nil}
  BY AddTells DEF Inv, TypeOK, Shapes
<1>2. /\ info \in [Slots -> Requests]
      /\ \A x \in Slots : Alike(info[x], REQUEST_INFO[x])
  BY <1>1 DEF Requests, Alike
<1>3. \/ REQUEST_INFO' = info
      \/ /\ current_request # Nil
         /\ \E tmp \in Stops(info, s) :
              REQUEST_INFO' = [info EXCEPT ![s].next = info[tmp].next, ![tmp].next = s]
  BY DEF Add
<1> HIDE DEF s, info
<1>4. CASE REQUEST_INFO' = info
  BY <1>2, <1>4
<1>5. ASSUME current_request # Nil, NEW tmp \in Stops(info, s),
             REQUEST_INFO' = [info EXCEPT ![s].next = info[tmp].next, ![tmp].next = s]
      PROVE  /\ REQUEST_INFO' \in [Slots -> Requests]
             /\ \A x \in Slots : Alike(REQUEST_INFO'[x], info[x])
  <2>1. tmp \in Slots
    BY <1>1, <1>2, <1>5, StopsAreSlots
  <2> DEFINE between == [info EXCEPT ![s].next = info[tmp].next]
  <2>2. info[tmp].next \in Slots \cup {Nil}
    BY <1>2, <2>1 DEF Requests
  <2>3. between \in [Slots -> Requests] /\ \A x \in Slots : Alike(between[x], info[x])
    BY <1>1, <1>2, <2>2 DEF Requests, Alike
  <2>4. REQUEST_INFO' = [between EXCEPT ![tmp].next = s]
    BY <1>5
  <2> HIDE DEF between
  <2>5. /\ REQUEST_INFO' \in [Slots -> Requests]
        /\ \A x \in Slots : Alike(REQUEST_INFO'[x], between[x])
    BY <1>1, <2>1, <2>3, <2>4 DEF Requests, Alike
  <2> QED
    BY <2>3, <2>5 DEF Alike
<1> QED
  BY <1>2, <1>3, <1>4, <1>5, ZenonT(60) DEF Alike

\* Steps after which every request is still what it was to the disk.
LEMMA RequestsStay ==
  ASSUME Inv, \A x \in Slots : Alike(REQUEST_INFO'[x], REQUEST_INFO[x]),
         UNCHANGED <<b_uptodate, drive, b_data, DEVICE_INTR>>
  PROVE  /\ \A x \in Slots : Live(x)' = Live(x)
         /\ WritesApart' /\ Progress' /\ DataInPlace' /\ UptodateIsWhole'
<1>1. \A x \in Slots : Live(x)' = Live(x)
  BY DEF Live, Alike
<1>2. WritesApart' /\ DataInPlace' /\ UptodateIsWhole'
  BY <1>1 DEF Inv, WritesApart, DataInPlace, UptodateIsWhole, Alike
<1>3. Progress'
  <2> SUFFICES ASSUME NEW x \in Slots, Live(x)
               PROVE  LET y == REQUEST_INFO'[x]
                      IN  /\ y.bh \in Bufs /\ y.errors < MAX_ERRORS
                          /\ y.buffer = y.sector - 2 * BlockOf[y.bh]
                          /\ y.buffer + y.nr_sectors = 2 /\ y.nr_sectors >= 1
                          /\ \A h \in {0, 1} : h < y.buffer => b_data'[y.bh][h] = 2 * BlockOf[y.bh] + h
    BY <1>1 DEF Progress, InProgress
  <2> QED
    BY DEF Inv, Progress, InProgress, Alike
<1> QED
  BY <1>1, <1>2, <1>3

\* addRequest makes the request the first, puts it in its place, or spins.
LEMMA AddInv ==
  ASSUME Inv, ~Preemptible, NEW p \in Clients, AddToQueue(p)
  PROVE  Inv'
<1> DEFINE s == call[p].req
<1>1. /\ TypeOK /\ Shapes /\ call[p].at = "add" /\ s \in Slots /\ call[p] \in Calls
      /\ call \in [Clients -> Calls]
  <2>1. TypeOK /\ Shapes
    BY DEF Inv
  <2>2. call[p].at = "add"
    BY AddTells, Zenon DEF AddToQueue
  <2>3. s \in Slots
    BY <2>1, <2>2 DEF Shapes
  <2>4. call \in [Clients -> Calls]
    BY <2>1 DEF TypeOK
  <2> QED
    BY <2>1, <2>2, <2>3, <2>4
<1>2. /\ REQUEST_INFO' \in [Slots -> Requests]
      /\ \A x \in Slots : Alike(REQUEST_INFO'[x], REQUEST_INFO[x])
  BY AddLinks DEF AddToQueue
<1>3. /\ DEVICE_INTR' = DEVICE_INTR /\ reset' = reset /\ recalibrate' = recalibrate
      /\ drive' = drive /\ b_data' = b_data /\ calls' = calls
      /\ irq_handler' = irq_handler /\ b_lock' = b_lock /\ b_uptodate' = b_uptodate
      /\ driver' = IF current_request = Nil THEN "request" ELSE driver
  BY AddTells DEF AddToQueue
<1>4. b_dirt' \in [Bufs -> BOOLEAN]
  BY <1>1 DEF TypeOK, AddToQueue, Add
<1>5. /\ \A x \in Slots : Live(x)' = Live(x)
      /\ WritesApart' /\ Progress' /\ DataInPlace' /\ UptodateIsWhole'
  BY <1>2, <1>3, RequestsStay
<1>6. \/ /\ current_request = Nil /\ current_request' = s
         /\ call' = [call EXCEPT ![p] = [NoCall EXCEPT !.at = "request"]]
      \/ /\ current_request # Nil /\ current_request' = current_request
         /\ call' = [call EXCEPT ![p] = NoCall] \/ call' = [call EXCEPT ![p].at = "spin"]
  BY DEF AddToQueue, Add
<1>7. /\ call' \in [Clients -> Calls] /\ call'[p].at \in {"idle", "request", "spin"}
      /\ \A q \in Clients \ {p} : call'[q] = call[q]
  <2>1. NoCall \in Calls /\ [NoCall EXCEPT !.at = "request"] \in Calls /\ NoCall.at = "idle"
    BY DEF NoCall, Calls, READ
  <2>2. [call[p] EXCEPT !.at = "spin"] \in Calls
    BY <1>1 DEF Calls
  <2>3. [NoCall EXCEPT !.at = "request"].at = "request" /\ [call[p] EXCEPT !.at = "spin"].at = "spin"
    BY <1>1 DEF NoCall, Calls
  <2>4. call'[p] \in {NoCall, [NoCall EXCEPT !.at = "request"], [call[p] EXCEPT !.at = "spin"]}
    BY <1>1, <1>6
  <2> QED
    BY <1>1, <1>6, <2>1, <2>2, <2>3, <2>4
<1>8. current_request' \in Slots /\ (current_request = Nil => s = LastSlot)
  BY <1>1, <1>6 DEF Inv, TypeOK, FirstIsRead
<1>9. TypeOK'
  BY <1>1, <1>2, <1>3, <1>4, <1>7, <1>8 DEF TypeOK
<1>10. Shapes' /\ OneClaims' /\ FoundFree'
  BY <1>1, <1>5, <1>7 DEF Inv, Shapes, OneClaims, FoundFree, WithBuffer, Claiming
<1>11. FirstIsRead'
  BY <1>6, <1>8, DiskSizes DEF Inv, FirstIsRead
<1>12. LockedHasOwner'
  <2> SUFFICES ASSUME NEW b \in Bufs, b_lock[b]
               PROVE  \/ \E q \in Clients : /\ call'[q].at \in {"search", "found", "full", "asleep"}
                                            /\ call'[q].bh = b
                      \/ \E x \in Slots : Live(x)' /\ REQUEST_INFO'[x].bh = b
    BY <1>3 DEF LockedHasOwner
  <2>1. CASE \E q \in Clients : /\ call[q].at \in {"search", "found", "full", "asleep"}
                                /\ call[q].bh = b
    BY <1>1, <1>7, <2>1
  <2>2. CASE \E x \in Slots : Live(x) /\ REQUEST_INFO[x].bh = b
    BY <1>2, <1>5, <2>2 DEF Alike
  <2> QED
    BY <2>1, <2>2 DEF Inv, LockedHasOwner
<1>13. Commanded' /\ DriveServesCurrent' /\ Recalibrates'
  <2>1. CASE current_request = Nil
    <3>1. ~drive.busy
      BY <2>1 DEF Inv, Commanded
    <3>2. Pending' => current'.errors = 0
      <4>1. current_request' = s
        BY <1>6, <2>1
      <4>2. Live(s) => REQUEST_INFO'[s].errors = 0
        BY <1>1, <1>2, <2>1 DEF Inv, FirstIsRead, Alike
      <4> QED
        BY <1>1, <1>5, <4>1, <4>2 DEF Pending, current
    <3>3. ~(0 > MAX_ERRORS \div 2)
      BY DiskSizes
    <3>4. recalibrate => drive.cmd = "SPECIFY"
      BY DEF Inv, Recalibrates
    <3>5. ~(Pending' /\ current'.errors > MAX_ERRORS \div 2)
      BY <3>2, <3>3
    <3>6. current_request' # Nil /\ driver' = "request" /\ ~drive'.busy
      BY <1>3, <1>8, <2>1, <3>1, DiskSizes
    <3> QED
      BY <1>3, <3>4, <3>5, <3>6 DEF Commanded, DriveServesCurrent, Recalibrates
  <2>2. CASE current_request # Nil
    <3>1. driver' = driver /\ current_request' = current_request /\ current_request \in Slots
      BY <1>3, <1>6, <1>8, <2>2
    <3>2. Pending' = Pending /\ Alike(current', current)
      BY <1>2, <1>5, <3>1 DEF Pending, current
    <3> QED
      BY <1>3, <3>1, <3>2 DEF Inv, Commanded, DriveServesCurrent, Recalibrates, Alike
  <2> QED
    BY <2>1, <2>2
<1> QED
  BY <1>5, <1>9, <1>10, <1>11, <1>12, <1>13, SMTT(60) DEF Inv

\* The call that woke the driver comes back.
LEMMA ReturnInv ==
  ASSUME Inv, NEW p \in Clients, Return(p)
  PROVE  Inv'
<1>1. /\ TypeOK /\ call[p].at = "request" /\ call' = [call EXCEPT ![p] = NoCall]
      /\ UNCHANGED <<REQUEST_INFO, current_request, b_lock, b_dirt, b_uptodate,
                     driverVars, calls>>
  BY DEF Inv, Return, At
<1>2. NoCall \in Calls /\ NoCall.at = "idle"
  BY DEF NoCall, Calls, READ
<1>3. /\ call' \in [Clients -> Calls] /\ call'[p].at = "idle"
      /\ \A q \in Clients \ {p} : call'[q] = call[q]
  BY <1>1, <1>2 DEF TypeOK
<1>4. TypeOK'
  BY <1>1, <1>3 DEF TypeOK, driverVars
<1>5. \A x \in Slots : Live(x)' = Live(x)
  BY <1>1 DEF Live
<1>6. Shapes' /\ OneClaims' /\ FoundFree'
  BY <1>1, <1>3, <1>5 DEF Inv, Shapes, OneClaims, FoundFree, WithBuffer, Claiming
<1>7. FirstIsRead'
  BY <1>1, <1>3, <1>5 DEF Inv, FirstIsRead
<1>8. LockedHasOwner'
  BY <1>1, <1>3, <1>5 DEF Inv, LockedHasOwner
<1> QED
  BY <1>1, <1>4, <1>6, <1>7, <1>8, TableStays DEF Inv

\* Only what has been read is modified.
LEMMA ModifyInv ==
  ASSUME Inv, NEW b \in Bufs, Modify(b), UNCHANGED <<driverVars, calls>>
  PROVE  Inv'
<1>1. /\ TypeOK /\ b_uptodate[b] /\ b_dirt' = [b_dirt EXCEPT ![b] = TRUE]
      /\ UNCHANGED <<REQUEST_INFO, current_request, b_lock, b_uptodate, call>>
  BY DEF Inv, Modify
<1>2. TypeOK'
  BY <1>1 DEF TypeOK, driverVars
<1>3. \A x \in Slots : Live(x)' = Live(x)
  BY <1>1 DEF Live
<1>4. Shapes' /\ OneClaims' /\ FoundFree' /\ LockedHasOwner'
  BY <1>1, <1>3 DEF Inv, Shapes, OneClaims, FoundFree, LockedHasOwner
<1>5. FirstIsRead'
  BY <1>1, <1>3 DEF Inv, FirstIsRead
<1> QED
  BY <1>1, <1>2, <1>4, <1>5, TableStays DEF Inv

---------------------------------------------------------------------------
(* The driver.                                                             *)

\* The drive, when its command is over and when it goes on.
Drives == [cmd : {"none", "SPECIFY", "RESTORE", "READ"}, busy : BOOLEAN,
           sector : Nat, left : 0 .. 2]
Over(d) == [d EXCEPT !.busy = FALSE, !.sector = 0, !.left = 0]
Further(d) == [d EXCEPT !.sector = @ + 1, !.left = @ - 1]

\* A drive at the end of its command.
LEMMA DriveOver ==
  ASSUME NEW d \in Drives
  PROVE  Over(d) \in Drives /\ ~Over(d).busy /\ Over(d).cmd = d.cmd
<1> DEFINE a == [d EXCEPT !.busy = FALSE, !.sector = 0]
<1>1. a \in Drives /\ ~a.busy /\ a.cmd = d.cmd
  BY DEF Drives
<1>2. Over(d) = [a EXCEPT !.left = 0]
  BY DEF Over
<1> HIDE DEF a
<1> QED
  BY <1>1, <1>2 DEF Drives

\* A drive that goes on to the second sector.
LEMMA DriveFurther ==
  ASSUME NEW d \in Drives, d.left = 2
  PROVE  /\ Further(d) \in Drives /\ Further(d).cmd = d.cmd
         /\ Further(d).sector = d.sector + 1 /\ Further(d).left = 1
<1> DEFINE a == [d EXCEPT !.sector = d.sector + 1]
<1>1. a \in Drives /\ a.cmd = d.cmd /\ a.sector = d.sector + 1
  BY DEF Drives
<1>2. Further(d) = [a EXCEPT !.left = 1]
  <2>1. d.left - 1 = 1
    OBVIOUS
  <2> QED
    BY <2>1 DEF Further
<1> HIDE DEF a
<1> QED
  BY <1>1, <1>2 DEF Drives

\* readIntr moves the request one sector on.
LEMMA ReadOnce ==
  ASSUME NEW c \in Requests, c.nr_sectors \in {1, 2}, c.buffer \in {0, 1}
  PROVE  LET r == OneRead(c)
         IN  /\ r \in Requests /\ r.dev = c.dev /\ r.cmd = c.cmd /\ r.errors = 0
             /\ r.sector = c.sector + 1 /\ r.nr_sectors = c.nr_sectors - 1
             /\ r.buffer = c.buffer + 1 /\ r.bh = c.bh
<1> DEFINE a == [c EXCEPT !.errors = 0]
           b == [a EXCEPT !.buffer = c.buffer + 1]
           d == [b EXCEPT !.sector = c.sector + 1]
           r == OneRead(c)
<1>1. /\ 0 \in 0 .. MAX_ERRORS /\ c.buffer + 1 \in 0 .. 2 /\ c.sector + 1 \in Nat
      /\ c.nr_sectors - 1 \in 0 .. 2
  BY DiskSizes DEF Requests
<1>2. r = [d EXCEPT !.nr_sectors = c.nr_sectors - 1]
  BY DEF OneRead
<1>3. /\ a \in Requests /\ a.dev = c.dev /\ a.cmd = c.cmd /\ a.errors = 0
      /\ a.sector = c.sector /\ a.bh = c.bh
  BY <1>1 DEF Requests
<1> HIDE DEF a, r
<1>4. /\ b \in Requests /\ b.dev = c.dev /\ b.cmd = c.cmd /\ b.errors = 0
      /\ b.buffer = c.buffer + 1 /\ b.bh = c.bh
  BY <1>1, <1>3 DEF Requests
<1> HIDE DEF b
<1>5. /\ d \in Requests /\ d.dev = c.dev /\ d.cmd = c.cmd /\ d.errors = 0
      /\ d.buffer = c.buffer + 1 /\ d.bh = c.bh /\ d.sector = c.sector + 1
  BY <1>1, <1>4 DEF Requests
<1> HIDE DEF d
<1>6. /\ r \in Requests /\ r.dev = c.dev /\ r.cmd = c.cmd /\ r.errors = 0
      /\ r.sector = c.sector + 1 /\ r.nr_sectors = c.nr_sectors - 1
      /\ r.buffer = c.buffer + 1 /\ r.bh = c.bh
  BY <1>1, <1>2, <1>5 DEF Requests
<1> QED
  BY <1>6 DEF r

\* A round of the driver that gives the drive a command, and an interrupt that
\* does not end the request, change at most its progress.
LEMMA SameHolders ==
  ASSUME Inv, current_request # Nil,
         UNCHANGED <<current_request, b_lock, b_dirt, b_uptodate, call>>,
         \A x \in Slots : /\ REQUEST_INFO'[x].dev = REQUEST_INFO[x].dev
                          /\ REQUEST_INFO'[x].cmd = REQUEST_INFO[x].cmd
                          /\ REQUEST_INFO'[x].bh = REQUEST_INFO[x].bh
  PROVE  /\ \A x \in Slots : Live(x)' = Live(x)
         /\ Shapes' /\ OneClaims' /\ FoundFree' /\ WritesApart' /\ FirstIsRead'
         /\ LockedHasOwner'
<1>1. \A x \in Slots : Live(x)' = Live(x)
  BY DEF Live
<1>2. Shapes' /\ OneClaims' /\ FoundFree' /\ WritesApart'
  BY <1>1 DEF Inv, Shapes, OneClaims, FoundFree, WritesApart
<1>3. FirstIsRead'
  BY DEF Inv, FirstIsRead
<1>4. LockedHasOwner'
  BY <1>1 DEF Inv, LockedHasOwner
<1> QED
  BY <1>1, <1>2, <1>3, <1>4

\* What a command to the drive leaves: the request it serves is as it was.
LEMMA CommandInv ==
  ASSUME Inv, NEW cmd \in {"SPECIFY", "RESTORE", "READ"}, NEW nsect \in 0 .. 2,
         NEW sector \in Nat, NEW intr \in {"readIntr", "recalIntr"},
         InRange, hdOut(cmd, nsect, sector, intr), driver' = "idle",
         reset' \in BOOLEAN, recalibrate' \in BOOLEAN,
         UNCHANGED <<requestVars, irq_handler, b_data, calls>>,
         recalibrate' => cmd = "SPECIFY",
         cmd = "READ" => /\ intr = "readIntr" /\ nsect = current.nr_sectors
                         /\ sector = current.sector,
         cmd # "READ" => intr = "recalIntr" /\ nsect = 0,
         reset' \/ recalibrate' \/ cmd \in {"RESTORE", "READ"}
  PROVE  Inv'
<1>1. /\ UNCHANGED <<REQUEST_INFO, current_request, b_lock, b_dirt, b_uptodate, call, b_data, calls>>
      /\ DEVICE_INTR' = intr /\ irq_handler' = irq_handler
      /\ drive' = [cmd |-> cmd, busy |-> TRUE, sector |-> sector, left |-> nsect]
  BY DEF requestVars, hdOut
<1>2. TypeOK /\ driver = "request" /\ current_request \in Slots
  BY DEF Inv, TypeOK, InRange, Commanded
<1>3. Pending
  <2>1. current.dev \in {-1, Hd} /\ ~(current.dev < 0)
    BY <1>2 DEF TypeOK, InRange, OutOfRange, current, Requests
  <2>2. current.dev >= 0
    BY <2>1 DEF Hd
  <2> QED
    BY <1>2, <2>2, DiskSizes DEF Pending, Live, current
<1>4. TypeOK'
  BY <1>1, <1>2 DEF TypeOK
<1>5. /\ Shapes' /\ OneClaims' /\ FoundFree' /\ WritesApart' /\ FirstIsRead'
      /\ LockedHasOwner' /\ \A x \in Slots : Live(x)' = Live(x)
  BY <1>1, <1>3, SameHolders DEF Pending
<1>6. Progress' /\ DataInPlace' /\ UptodateIsWhole'
  BY <1>1, <1>5 DEF Inv, Progress, InProgress, DataInPlace, UptodateIsWhole
<1>7. Commanded'
  BY <1>1, <1>3 DEF Commanded, Pending
<1>8. Pending' /\ current' = current
  BY <1>1, <1>2, <1>3, <1>5 DEF Pending, current
<1>9. DriveServesCurrent'
  <2>1. /\ current.errors < MAX_ERRORS
        /\ current.buffer = current.sector - 2 * BlockOf[current.bh]
        /\ current.buffer + current.nr_sectors = 2
    BY <1>2, <1>3 DEF Inv, Progress, InProgress, Pending, current
  <2> QED
    BY <1>1, <1>8, <2>1 DEF DriveServesCurrent
<1>10. Recalibrates'
  BY <1>1 DEF Recalibrates
<1> QED
  BY <1>4, <1>5, <1>6, <1>7, <1>9, <1>10 DEF Inv

\* endRequest unlocks the buffer of the current request; it may say that the buffer
\* is up to date once both sectors have been read.
LEMMA EndInv ==
  ASSUME Inv, ~Preemptible, NotBetween, current_request # Nil,
         NEW info \in [Slots -> Requests], NEW uptodate \in BOOLEAN,
         \A x \in Slots \ {current_request} : info[x] = REQUEST_INFO[x],
         info[current_request].bh = current.bh, info[current_request].dev = current.dev,
         info[current_request].cmd = current.cmd,
         endRequest(info, uptodate),
         DEVICE_INTR' \in {"NULL", "readIntr", "recalIntr"},
         reset' \in BOOLEAN, recalibrate' = recalibrate, irq_handler' = irq_handler,
         drive' \in Drives, ~drive'.busy, drive'.cmd = drive.cmd, calls' = calls,
         b_data' \in [Bufs -> [{0, 1} -> Nat \cup {Nil}]],
         \A b \in Bufs, h \in {0, 1} :
           b_data'[b][h] = b_data[b][h] \/ b_data'[b][h] = 2 * BlockOf[b] + h,
         uptodate => \A h \in {0, 1} :
                       b_data'[current.bh][h] = 2 * BlockOf[current.bh] + h
  PROVE  Ended'
<1> DEFINE bh == current.bh
<1>1. /\ TypeOK /\ Shapes /\ current_request \in Slots /\ call \in [Clients -> Calls]
      /\ REQUEST_INFO \in [Slots -> Requests]
  BY DEF Inv, TypeOK
<1>2. /\ REQUEST_INFO' = info
      /\ b_uptodate' = [b_uptodate EXCEPT ![bh] = uptodate]
      /\ b_lock' = [b_lock EXCEPT ![bh] = FALSE]
      /\ current_request' = current_request /\ b_dirt' = b_dirt /\ call' = call
      /\ driver' = "ending"
  BY DEF endRequest
<1>3. \A x \in Slots : /\ REQUEST_INFO'[x].dev = REQUEST_INFO[x].dev
                       /\ REQUEST_INFO'[x].cmd = REQUEST_INFO[x].cmd
                       /\ REQUEST_INFO'[x].bh = REQUEST_INFO[x].bh
                       /\ x # current_request => REQUEST_INFO'[x] = REQUEST_INFO[x]
  BY <1>2 DEF current
<1>4. \A x \in Slots : Live(x)' = Live(x)
  BY <1>3 DEF Live
<1>5. \A p \in Clients : call[p].at \notin {"found", "full"}
  BY Alone
<1>6. b_uptodate' \in [Bufs -> BOOLEAN] /\ b_lock' \in [Bufs -> BOOLEAN]
  BY <1>1, <1>2 DEF TypeOK
<1>7. TypeOK'
  BY <1>1, <1>2, <1>6 DEF TypeOK, Drives
<1>8. Shapes' /\ OneClaims' /\ WritesApart' /\ FirstIsRead'
  BY <1>2, <1>3, <1>4 DEF Inv, Shapes, OneClaims, WritesApart, FirstIsRead
<1>11. \A b \in Bufs, h \in {0, 1} :
         b_data[b][h] = 2 * BlockOf[b] + h => b_data'[b][h] = 2 * BlockOf[b] + h
  OBVIOUS
<1>12. ASSUME NEW x \in Slots, Live(x), x # current_request PROVE InProgress(x)'
  <2>1. REQUEST_INFO'[x] = REQUEST_INFO[x] /\ InProgress(x)
    BY <1>3, <1>12 DEF Inv, Progress
  <2> QED
    BY <1>11, <2>1 DEF InProgress
<1>13. DataInPlace'
  BY DEF Inv, DataInPlace
<1>14. UptodateIsWhole'
  BY <1>1, <1>2, <1>11 DEF Inv, TypeOK, UptodateIsWhole
<1>15. ASSUME NEW b \in Bufs, b_lock'[b]
       PROVE  \/ \E q \in Clients : /\ call[q].at \in {"search", "found", "full", "asleep"}
                                    /\ call[q].bh = b
              \/ \E x \in Slots : Live(x) /\ x # current_request /\ REQUEST_INFO[x].bh = b
  <2>1. b_lock[b] /\ b # bh
    BY <1>1, <1>2, <1>15 DEF TypeOK
  <2> QED
    BY <2>1 DEF Inv, LockedHasOwner, current
<1>16. recalibrate' => drive'.cmd = "SPECIFY"
  BY DEF Inv, Recalibrates
<1> QED
  BY <1>2, <1>3, <1>4, <1>5, <1>7, <1>8, <1>12, <1>13, <1>14, <1>15, <1>16 DEF Ended

\* It gives up the slot.
LEMMA GiveUpInv ==
  ASSUME Ended, GiveUp
  PROVE  Inv'
<1>1. /\ TypeOK /\ current_request \in Slots /\ ~drive.busy
      /\ REQUEST_INFO' = [REQUEST_INFO EXCEPT ![current_request].dev = -1]
      /\ driver' = "request"
      /\ UNCHANGED <<current_request, b_lock, b_dirt, b_uptodate, call>>
      /\ UNCHANGED <<irq_handler, DEVICE_INTR, reset, recalibrate, drive, b_data, calls>>
  BY DEF Ended, TypeOK, GiveUp, GiveUpSlot
<1>2. /\ REQUEST_INFO' \in [Slots -> Requests]
      /\ REQUEST_INFO'[current_request].dev = -1
      /\ \A x \in Slots \ {current_request} : REQUEST_INFO'[x] = REQUEST_INFO[x]
  <2>1. REQUEST_INFO \in [Slots -> Requests] /\ current_request \in Slots
    BY <1>1 DEF TypeOK
  <2>2. REQUEST_INFO[current_request] \in Requests
    BY <2>1
  <2>3. /\ [REQUEST_INFO[current_request] EXCEPT !.dev = -1] \in Requests
        /\ [REQUEST_INFO[current_request] EXCEPT !.dev = -1].dev = -1
    BY <2>2 DEF Requests
  <2>4. REQUEST_INFO' = [REQUEST_INFO EXCEPT
                           ![current_request] = [REQUEST_INFO[current_request] EXCEPT !.dev = -1]]
    BY <1>1
  <2> QED
    BY <2>1, <2>3, <2>4
<1>3. \A x \in Slots : Live(x)' <=> x # current_request /\ Live(x)
  <2>1. \A x \in Slots : Live(x)' <=> REQUEST_INFO'[x].dev >= 0
    BY DEF Live
  <2> QED
    BY <1>2, <2>1 DEF Live
<1>4. TypeOK'
  BY <1>1, <1>2 DEF TypeOK
<1>5. Shapes' /\ OneClaims' /\ FoundFree' /\ WritesApart' /\ FirstIsRead'
  BY <1>1, <1>2, <1>3 DEF Ended, Shapes, OneClaims, FoundFree, WritesApart, FirstIsRead
<1>6. Progress'
  BY <1>1, <1>2, <1>3 DEF Ended, Progress, InProgress
<1>7. DataInPlace' /\ UptodateIsWhole'
  BY <1>1 DEF Ended, DataInPlace, UptodateIsWhole
<1>8. ~Pending'
  BY <1>1, <1>3 DEF Pending
<1>9. Commanded' /\ DriveServesCurrent' /\ Recalibrates'
  BY <1>1, <1>8 DEF Ended, Commanded, DriveServesCurrent, Recalibrates
<1>10. LockedHasOwner'
  BY <1>1, <1>2, <1>3 DEF Ended, LockedHasOwner
<1> QED
  BY <1>4, <1>5, <1>6, <1>7, <1>9, <1>10 DEF Inv

\* Without preemption nothing else happens in between.
LEMMA OnlyGivesUp ==
  ASSUME Ended, ~Preemptible, Next
  PROVE  GiveUp
<1>1. \A p, place : ~At(p, place)
  BY Alone DEF Ended
<1>2. \A p \in Clients : ~Call(p) /\ ~GoOn(p)
  BY <1>1 DEF Call, GoOn, ll_rw_block, Woken, Search, NoSlot, Resumed, Fill, AddToQueue, Add,
              Return
<1>3. \A b \in Bufs : ~Modify(b)
  BY DEF Ended, Modify, NotEnding
<1>4. ~Refuse /\ ~resetHd /\ ~Recalibrate /\ ~Read
  BY DEF Ended, Refuse, resetHd, Recalibrate, Read, Ready, InRange
<1>5. ~DeviceInterrupt
  BY DEF Ended, DeviceInterrupt, readIntr, recalIntr, CallsNull, Fails, Interrupt
<1> QED
  BY <1>2, <1>3, <1>4, <1>5 DEF Next, harddiskRequest

\* A request out of range, or one that has been ended, is ended (again).
LEMMA RefuseInv ==
  ASSUME Inv, ~Preemptible, Refuse
  PROVE  Ended'
<1>1. /\ NotBetween /\ driver = "request" /\ endRequest(REQUEST_INFO, FALSE)
      /\ DEVICE_INTR' = DEVICE_INTR /\ reset' = reset /\ recalibrate' = recalibrate
      /\ irq_handler' = irq_handler /\ drive' = drive /\ b_data' = b_data /\ calls' = calls
  BY DEF Refuse
<1>2. TypeOK /\ current_request # Nil /\ ~drive.busy
  BY <1>1 DEF Inv, Commanded
<1> QED
  BY <1>1, <1>2, EndInv DEF TypeOK, current, Drives

\* A command for the current request: specify, recalibrate, or read.
LEMMA DriverInv ==
  ASSUME Inv, ~Preemptible, harddiskRequest
  PROVE  Inv' \/ Ended'
<1>1. TypeOK
  BY DEF Inv
<1>2. CASE Refuse
  BY <1>2, RefuseInv
<1>3. CASE resetHd
  <2>1. /\ InRange /\ hdOut("SPECIFY", 0, 0, "recalIntr") /\ driver' = "idle"
        /\ reset' \in BOOLEAN /\ recalibrate' = TRUE
        /\ UNCHANGED <<requestVars, irq_handler, b_data, calls>>
    BY <1>3 DEF resetHd
  <2>2. 0 \in 0 .. 2 /\ 0 \in Nat
    OBVIOUS
  <2> QED
    BY <2>1, <2>2, CommandInv
<1>4. CASE Recalibrate
  <2>1. /\ InRange /\ hdOut("RESTORE", 0, 0, "recalIntr") /\ driver' = "idle"
        /\ reset' \in BOOLEAN /\ recalibrate' = FALSE
        /\ UNCHANGED <<requestVars, irq_handler, b_data, calls>>
    BY <1>1, <1>4 DEF Recalibrate, TypeOK
  <2>2. 0 \in 0 .. 2 /\ 0 \in Nat
    OBVIOUS
  <2> QED
    BY <2>1, <2>2, CommandInv
<1>5. CASE Read
  <2>1. current_request \in Slots /\ current \in Requests
    BY <1>5 DEF Inv, TypeOK, Commanded, Read, Ready, InRange, current
  <2>2. current.nr_sectors \in 0 .. 2 /\ current.sector \in Nat
    BY <2>1 DEF Requests
  <2> QED
    BY <1>1, <1>5, <2>2, CommandInv DEF Read, Ready, TypeOK
<1>6. ~GiveUp
  BY DEF Inv, Commanded, GiveUp, GiveUpSlot
<1> QED
  BY <1>2, <1>3, <1>4, <1>5, <1>6 DEF harddiskRequest

\* What a working drive says about the request it serves.
LEMMA Served ==
  ASSUME Inv, drive.busy
  PROVE  /\ current_request \in Slots /\ current_request # Nil /\ Live(current_request)
         /\ current \in Requests /\ current.bh \in Bufs /\ current.errors < MAX_ERRORS
         /\ current.buffer = current.sector - 2 * BlockOf[current.bh]
         /\ current.buffer + current.nr_sectors = 2 /\ current.nr_sectors >= 1
         /\ \A h \in {0, 1} :
              h < current.buffer => b_data[current.bh][h] = 2 * BlockOf[current.bh] + h
<1>1. current_request \in Slots /\ Live(current_request)
  BY DEF Inv, TypeOK, DriveServesCurrent, Pending
<1> QED
  BY <1>1, DiskSizes DEF Inv, TypeOK, Progress, InProgress, current

\* An attempt failed: the request is tried again, or ends.
LEMMA FailsInv ==
  ASSUME Inv, ~Preemptible, NEW f \in {"readIntr", "recalIntr"}, Fails(f)
  PROVE  Inv' \/ Ended'
<1> DEFINE errors == current.errors + 1
           info == [REQUEST_INFO EXCEPT ![current_request].errors = errors]
<1>1. /\ TypeOK /\ drive.busy /\ NotBetween
      /\ drive' = [drive EXCEPT !.busy = FALSE, !.sector = 0, !.left = 0]
      /\ irq_handler' = irq_handler /\ DEVICE_INTR' = DEVICE_INTR /\ recalibrate' = recalibrate
      /\ b_data' = b_data /\ calls' = calls
  BY DEF Inv, Fails, Interrupt
<1>2. drive' \in Drives /\ ~drive'.busy /\ drive'.cmd = drive.cmd
  <2>1. drive \in Drives /\ drive' = Over(drive)
    BY <1>1 DEF TypeOK, Drives, Over
  <2> QED
    BY <2>1, DriveOver
<1>3. /\ current_request \in Slots /\ current_request # Nil /\ Live(current_request)
      /\ current \in Requests /\ current.errors < MAX_ERRORS
  BY <1>1, Served
<1>4. errors \in 0 .. MAX_ERRORS
  BY <1>3, DiskSizes DEF Requests
<1>5. reset' = (reset \/ errors > MAX_ERRORS \div 2)
  BY DEF Fails, badRwIntr
<1>6. /\ info \in [Slots -> Requests] /\ info[current_request].errors = errors
      /\ \A x \in Slots \ {current_request} : info[x] = REQUEST_INFO[x]
      /\ info[current_request].dev = current.dev /\ info[current_request].cmd = current.cmd
      /\ info[current_request].bh = current.bh /\ info[current_request].sector = current.sector
      /\ info[current_request].nr_sectors = current.nr_sectors
      /\ info[current_request].buffer = current.buffer
  BY <1>1, <1>3, <1>4 DEF TypeOK, Requests, current
<1> HIDE DEF info
<1>7. CASE errors >= MAX_ERRORS
  <2>1. endRequest(info, FALSE)
    BY <1>7 DEF Fails, badRwIntr, info
  <2>2. reset' \in BOOLEAN
    BY <1>5
  <2> QED
    BY <1>1, <1>2, <1>3, <1>6, <2>1, <2>2, EndInv DEF TypeOK
<1>8. CASE ~(errors >= MAX_ERRORS)
  <2>1. /\ REQUEST_INFO' = info /\ current_request' = current_request /\ b_lock' = b_lock
        /\ b_dirt' = b_dirt /\ b_uptodate' = b_uptodate /\ call' = call
        /\ driver' = "request"
    BY <1>8 DEF Fails, badRwIntr, info
  <2>2. TypeOK'
    <3>1. reset' \in BOOLEAN
      BY <1>5
    <3> QED
      BY <1>1, <1>2, <1>6, <2>1, <3>1 DEF TypeOK, Drives
  <2>3. \A x \in Slots : /\ REQUEST_INFO'[x].dev = REQUEST_INFO[x].dev
                         /\ REQUEST_INFO'[x].cmd = REQUEST_INFO[x].cmd
                         /\ REQUEST_INFO'[x].bh = REQUEST_INFO[x].bh
    BY <1>6, <2>1 DEF current
  <2>4. /\ \A x \in Slots : Live(x)' = Live(x)
        /\ Shapes' /\ OneClaims' /\ FoundFree' /\ WritesApart' /\ FirstIsRead'
        /\ LockedHasOwner'
    BY <1>3, <2>1, <2>3, SameHolders
  <2>5. Progress'
    <3> SUFFICES ASSUME NEW x \in Slots, Live(x)
                 PROVE  LET y == info[x]
                        IN  /\ y.bh \in Bufs /\ y.errors < MAX_ERRORS
                            /\ y.buffer = y.sector - 2 * BlockOf[y.bh]
                            /\ y.buffer + y.nr_sectors = 2 /\ y.nr_sectors >= 1
                            /\ \A h \in {0, 1} : h < y.buffer => b_data[y.bh][h] = 2 * BlockOf[y.bh] + h
      BY <1>1, <2>1, <2>4 DEF Progress, InProgress
    <3>1. CASE x = current_request
      <4>1. /\ current.bh \in Bufs /\ current.buffer = current.sector - 2 * BlockOf[current.bh]
            /\ current.buffer + current.nr_sectors = 2 /\ current.nr_sectors >= 1
            /\ \A h \in {0, 1} :
                 h < current.buffer => b_data[current.bh][h] = 2 * BlockOf[current.bh] + h
        BY <1>1, Served
      <4>2. errors < MAX_ERRORS
        BY <1>4, <1>8, DiskSizes
      <4> QED
        BY <1>6, <3>1, <4>1, <4>2
    <3>2. CASE x # current_request
      BY <1>6, <3>2 DEF Inv, Progress, InProgress
    <3> QED
      BY <3>1, <3>2
  <2>6. Commanded' /\ DataInPlace' /\ UptodateIsWhole' /\ DriveServesCurrent'
    BY <1>1, <1>2, <1>3, <2>1
       DEF Inv, Commanded, DataInPlace, UptodateIsWhole, DriveServesCurrent
  <2>7. Recalibrates'
    <3>1. current'.errors = errors
      BY <1>6, <2>1 DEF current
    <3> QED
      BY <1>1, <1>2, <1>5, <3>1 DEF Inv, Recalibrates
  <2> QED
    BY <2>2, <2>4, <2>5, <2>6, <2>7 DEF Inv
<1> QED
  BY <1>7, <1>8

\* A sector arrives in its half of the buffer; with the second the request ends.
LEMMA ReadInv ==
  ASSUME Inv, ~Preemptible, readIntr
  PROVE  Inv' \/ Ended'
<1> DEFINE c == current
           r == OneRead(c)
           info == [REQUEST_INFO EXCEPT ![current_request] = r]
<1>1. /\ TypeOK /\ drive.busy /\ NotBetween /\ DEVICE_INTR = "readIntr" /\ DriveGoesOn
      /\ b_data' = [b_data EXCEPT ![c.bh][c.buffer] = drive.sector]
      /\ DEVICE_INTR' = DEVICE_INTR /\ reset' = reset /\ recalibrate' = recalibrate
      /\ irq_handler' = irq_handler /\ calls' = calls /\ drive \in Drives
  BY DEF Inv, TypeOK, readIntr, Interrupt, Drives
<1>2. /\ current_request \in Slots /\ current_request # Nil /\ Live(current_request)
      /\ c \in Requests /\ c.bh \in Bufs /\ c.errors < MAX_ERRORS
      /\ c.buffer = c.sector - 2 * BlockOf[c.bh]
      /\ c.buffer + c.nr_sectors = 2 /\ c.nr_sectors >= 1
      /\ \A h \in {0, 1} : h < c.buffer => b_data[c.bh][h] = 2 * BlockOf[c.bh] + h
  BY <1>1, Served
<1>3. drive.cmd = "READ" /\ drive.sector = c.sector /\ drive.left = c.nr_sectors
  BY <1>1 DEF Inv, Commanded, DriveServesCurrent
<1>4. /\ c.nr_sectors \in {1, 2} /\ c.buffer = 2 - c.nr_sectors /\ c.sector \in Nat
      /\ BlockOf[c.bh] \in Nat /\ c.sector = 2 * BlockOf[c.bh] + c.buffer
      /\ c.buffer \in {0, 1}
  <2>1. c.nr_sectors \in 0 .. 2 /\ c.buffer \in 0 .. 2 /\ c.sector \in Nat
    BY <1>2 DEF Requests
  <2>2. BlockOf[c.bh] \in Nat
    BY <1>2, DiskSizes
  <2> HIDE DEF c
  <2> QED
    BY <1>2, <2>1, <2>2
<1>5. /\ r.dev = c.dev /\ r.cmd = c.cmd /\ r.errors = 0 /\ r.sector = c.sector + 1
      /\ r.nr_sectors = c.nr_sectors - 1 /\ r.buffer = c.buffer + 1 /\ r.bh = c.bh
      /\ r \in Requests
  BY <1>2, <1>4, ReadOnce
<1>6. /\ r.nr_sectors > 0 =>
           /\ REQUEST_INFO' = info
           /\ UNCHANGED <<current_request, b_lock, b_dirt, b_uptodate, call, driver>>
      /\ ~(r.nr_sectors > 0) => endRequest(info, TRUE)
  <2>1. info[current_request] = r /\ info = [REQUEST_INFO EXCEPT ![current_request] = OneRead(@)]
    BY <1>1, <1>2 DEF TypeOK, current
  <2>2. IF info[current_request].nr_sectors > 0
          THEN /\ REQUEST_INFO' = info
               /\ UNCHANGED <<current_request, b_lock, b_dirt, b_uptodate, call, driver>>
          ELSE endRequest(info, TRUE)
    BY <2>1 DEF readIntr
  <2> HIDE DEF info, r
  <2> QED
    BY <2>1, <2>2
<1> HIDE DEF r, c
<1>7. /\ info \in [Slots -> Requests] /\ info[current_request] = r
      /\ \A x \in Slots \ {current_request} : info[x] = REQUEST_INFO[x]
  BY <1>1, <1>2, <1>5 DEF TypeOK
<1>8. /\ b_data' \in [Bufs -> [{0, 1} -> Nat \cup {Nil}]]
      /\ \A b \in Bufs, h \in {0, 1} :
           b_data'[b][h] = IF b = c.bh /\ h = c.buffer THEN c.sector ELSE b_data[b][h]
  BY <1>1, <1>2, <1>3, <1>4 DEF TypeOK
<1>9. \A b \in Bufs, h \in {0, 1} :
        b_data'[b][h] = b_data[b][h] \/ b_data'[b][h] = 2 * BlockOf[b] + h
  BY <1>4, <1>8
<1>10. \A h \in {0, 1} : h < r.buffer => b_data'[c.bh][h] = 2 * BlockOf[c.bh] + h
  <2> SUFFICES ASSUME NEW h \in {0, 1}, h < r.buffer
               PROVE  b_data'[c.bh][h] = 2 * BlockOf[c.bh] + h
    OBVIOUS
  <2>1. CASE h = c.buffer
    BY <1>2, <1>4, <1>8, <2>1
  <2>2. CASE h # c.buffer
    <3>1. h < c.buffer
      BY <1>4, <1>5, <2>2
    <3> QED
      BY <1>2, <1>8, <2>2, <3>1
  <2> QED
    BY <2>1, <2>2
<1> HIDE DEF info
<1>11. CASE c.nr_sectors = 1
  <2>1. endRequest(info, TRUE)
    <3>1. ~(r.nr_sectors > 0)
      BY <1>5, <1>11
    <3> QED
      BY <1>6, <3>1
  <2>2. drive' \in Drives /\ ~drive'.busy /\ drive'.cmd = drive.cmd
    <3>1. drive' = Over(drive)
      BY <1>1, <1>3, <1>11 DEF DriveGoesOn, Over
    <3> QED
      BY <1>1, <3>1, DriveOver
  <2>3. \A h \in {0, 1} : b_data'[c.bh][h] = 2 * BlockOf[c.bh] + h
    BY <1>4, <1>5, <1>10, <1>11
  <2> QED
    BY <1>1, <1>2, <1>5, <1>7, <1>8, <1>9, <2>1, <2>2, <2>3, EndInv DEF TypeOK, c
<1>12. CASE c.nr_sectors = 2
  <2>1. /\ REQUEST_INFO' = info /\ current_request' = current_request /\ b_lock' = b_lock
        /\ b_dirt' = b_dirt /\ b_uptodate' = b_uptodate /\ call' = call /\ driver' = driver
    BY <1>5, <1>6, <1>12
  <2>2. /\ drive' \in Drives /\ drive'.cmd = drive.cmd /\ drive'.sector = c.sector + 1
        /\ drive'.left = 1
    <3>1. drive' = Further(drive)
      BY <1>1, <1>3, <1>12 DEF DriveGoesOn, Further
    <3> QED
      BY <1>1, <1>3, <1>12, <3>1, DriveFurther
  <2>3. TypeOK'
    BY <1>1, <1>7, <1>8, <2>1, <2>2 DEF TypeOK, Drives
  <2>4. /\ \A x \in Slots : Live(x)' = Live(x)
        /\ Shapes' /\ OneClaims' /\ FoundFree' /\ WritesApart' /\ FirstIsRead'
        /\ LockedHasOwner'
    <3>1. \A x \in Slots : /\ REQUEST_INFO'[x].dev = REQUEST_INFO[x].dev
                           /\ REQUEST_INFO'[x].cmd = REQUEST_INFO[x].cmd
                           /\ REQUEST_INFO'[x].bh = REQUEST_INFO[x].bh
      BY <1>5, <1>7, <2>1 DEF c, current
    <3> QED
      BY <1>2, <2>1, <3>1, SameHolders
  <2>5. Progress'
    <3> SUFFICES ASSUME NEW x \in Slots, Live(x)
                 PROVE  LET y == info[x]
                        IN  /\ y.bh \in Bufs /\ y.errors < MAX_ERRORS
                            /\ y.buffer = y.sector - 2 * BlockOf[y.bh]
                            /\ y.buffer + y.nr_sectors = 2 /\ y.nr_sectors >= 1
                            /\ \A h \in {0, 1} : h < y.buffer => b_data'[y.bh][h] = 2 * BlockOf[y.bh] + h
      BY <2>1, <2>4 DEF Progress, InProgress
    <3>1. CASE x = current_request
      <4>1. /\ info[x] = r /\ r.bh \in Bufs /\ r.nr_sectors = 1 /\ r.buffer = 1 /\ r.errors = 0
            /\ r.sector = 2 * BlockOf[r.bh] + 1 /\ BlockOf[r.bh] \in Nat
        BY <1>2, <1>4, <1>5, <1>7, <1>12, <3>1
      <4>2. r.buffer = r.sector - 2 * BlockOf[r.bh] /\ r.errors < MAX_ERRORS
        BY <4>1, DiskSizes, SMTT(60)
      <4> QED
        BY <1>5, <1>10, <4>1, <4>2
    <3>2. CASE x # current_request
      <4>1. /\ info[x] = REQUEST_INFO[x] /\ info[x].bh \in Bufs
            /\ \A h \in {0, 1} : h < info[x].buffer =>
                 b_data[info[x].bh][h] = 2 * BlockOf[info[x].bh] + h
        BY <1>7, <3>2 DEF Inv, Progress, InProgress
      <4>2. \A h \in {0, 1} : h < info[x].buffer =>
                 b_data'[info[x].bh][h] = 2 * BlockOf[info[x].bh] + h
        BY <1>9, <4>1
      <4> QED
        BY <4>1, <4>2 DEF Inv, Progress, InProgress
    <3> QED
      BY <3>1, <3>2
  <2>6. DataInPlace'
    BY <1>9 DEF Inv, DataInPlace
  <2>7. UptodateIsWhole'
    BY <1>9, <2>1 DEF Inv, UptodateIsWhole
  <2>8. Commanded'
    BY <1>1, <1>2, <1>3, <2>1, <2>2 DEF Inv, Commanded
  <2>9. current' = r
    BY <1>7, <2>1 DEF current
  <2>10. DriveServesCurrent'
    <3>1. Pending'
      BY <1>2, <1>5, <1>7, <2>1 DEF Pending, Live, c, current
    <3>2. /\ r.nr_sectors = 1 /\ r.buffer = 1 /\ r.errors < MAX_ERRORS
          /\ r.buffer = r.sector - 2 * BlockOf[r.bh]
      BY <1>4, <1>5, <1>12, DiskSizes
    <3>3. DEVICE_INTR' = "readIntr" /\ drive'.sector = r.sector /\ drive'.left = r.nr_sectors
      BY <1>1, <1>5, <2>2, <3>2
    <3> QED
      BY <2>9, <3>1, <3>2, <3>3 DEF DriveServesCurrent
  <2>11. Recalibrates'
    BY <1>1, <1>5, <2>2, <2>9, DiskSizes DEF Inv, Recalibrates
  <2> QED
    BY <2>3, <2>4, <2>5, <2>6, <2>7, <2>8, <2>10, <2>11 DEF Inv
<1> QED
  BY <1>4, <1>11, <1>12

\* The drive has been specified or recalibrated: the request is taken up again.
LEMMA RecalInv ==
  ASSUME Inv, ~Preemptible, recalIntr
  PROVE  Inv'
<1>1. /\ TypeOK /\ drive.busy /\ DEVICE_INTR = "recalIntr" /\ DriveGoesOn
      /\ driver' = "request" /\ irq_handler' = irq_handler /\ DEVICE_INTR' = DEVICE_INTR /\ reset' = reset
      /\ recalibrate' = recalibrate /\ b_data' = b_data /\ calls' = calls
      /\ REQUEST_INFO' = REQUEST_INFO /\ current_request' = current_request
      /\ b_lock' = b_lock /\ b_dirt' = b_dirt /\ b_uptodate' = b_uptodate /\ call' = call
      /\ drive \in Drives
  BY DEF Inv, TypeOK, recalIntr, Interrupt, requestVars, Drives
<1>2. drive.cmd # "READ" /\ drive.left = 0
  BY <1>1 DEF Inv, DriveServesCurrent, Commanded
<1>3. drive' \in Drives /\ ~drive'.busy /\ drive'.cmd = drive.cmd
  <2>1. drive' = Over(drive)
    BY <1>1, <1>2 DEF DriveGoesOn, Over
  <2> QED
    BY <1>1, <2>1, DriveOver
<1>4. current_request # Nil
  BY <1>1, Served
<1>5. TypeOK'
  BY <1>1, <1>3 DEF TypeOK, Drives
<1>6. /\ Shapes' /\ OneClaims' /\ FoundFree' /\ WritesApart' /\ FirstIsRead'
      /\ LockedHasOwner' /\ \A x \in Slots : Live(x)' = Live(x)
  BY <1>1, <1>4, SameHolders
<1>7. Progress' /\ DataInPlace' /\ UptodateIsWhole'
  BY <1>1, <1>6 DEF Inv, Progress, InProgress, DataInPlace, UptodateIsWhole
<1>8. Pending' = Pending /\ current' = current
  BY <1>1 DEF Pending, current, Live
<1>9. Commanded' /\ DriveServesCurrent' /\ Recalibrates'
  BY <1>1, <1>2, <1>3, <1>4, <1>8 DEF Inv, Commanded, DriveServesCurrent, Recalibrates
<1> QED
  BY <1>5, <1>6, <1>7, <1>9 DEF Inv

---------------------------------------------------------------------------
(* All steps.                                                              *)

\* The interrupt that calls NULL changes nothing but the driver.
LEMMA CallsNullInv ==
  ASSUME Inv, CallsNull
  PROVE  Inv'
<1>1. /\ TypeOK /\ drive.busy /\ driver' = "lost"
      /\ UNCHANGED <<REQUEST_INFO, current_request, b_lock, b_dirt, b_uptodate, call>>
      /\ UNCHANGED <<irq_handler, DEVICE_INTR, reset, recalibrate, drive, b_data, calls>>
  BY DEF Inv, CallsNull, requestVars
<1>2. current_request # Nil
  BY <1>1, Served
<1>3. TypeOK'
  BY <1>1 DEF TypeOK
<1>4. /\ Shapes' /\ OneClaims' /\ FoundFree' /\ WritesApart' /\ FirstIsRead'
      /\ LockedHasOwner' /\ \A x \in Slots : Live(x)' = Live(x)
  BY <1>1, <1>2, SameHolders
<1>5. Progress' /\ DataInPlace' /\ UptodateIsWhole'
  BY <1>1, <1>4 DEF Inv, Progress, InProgress, DataInPlace, UptodateIsWhole
<1>6. Pending' = Pending /\ current' = current
  BY <1>1 DEF Pending, current, Live
<1>7. Commanded' /\ DriveServesCurrent' /\ Recalibrates'
  BY <1>1, <1>2, <1>6 DEF Inv, Commanded, DriveServesCurrent, Recalibrates
<1> QED
  BY <1>3, <1>4, <1>5, <1>7 DEF Inv

\* Every step of the calls, the driver and the drive keeps the invariant or leads
\* into endRequest.
LEMMA StepInv ==
  ASSUME Inv, ~Preemptible, [Next]_vars
  PROVE  Inv' \/ Ended'
<1>1. ASSUME NEW p \in Clients, Call(p) \/ GoOn(p) PROVE Inv'
  <2>1. CASE Call(p)
    BY <2>1, CallInv
  <2>2. CASE /\ Woken(p) \/ Search(p) \/ NoSlot(p) \/ Resumed(p) \/ Fill(p)
             /\ UNCHANGED <<driverVars, calls>>
    BY <2>2, CallInv, SearchInv, NoSlotInv, ResumedInv, FillInv
  <2>3. CASE AddToQueue(p)
    BY <2>3, AddInv
  <2>4. CASE Return(p)
    BY <2>4, ReturnInv
  <2> QED
    BY <1>1, <2>1, <2>2, <2>3, <2>4 DEF GoOn
<1>2. ASSUME NEW b \in Bufs, Modify(b) /\ UNCHANGED <<driverVars, calls>> PROVE Inv'
  BY <1>2, ModifyInv
<1>3. CASE harddiskRequest
  BY <1>3, DriverInv
<1>4. CASE DeviceInterrupt
  BY <1>4, ReadInv, RecalInv, FailsInv, CallsNullInv DEF DeviceInterrupt
<1>5. CASE UNCHANGED vars
  <2>1. /\ UNCHANGED <<REQUEST_INFO, current_request, b_lock, b_dirt, b_uptodate, call>>
        /\ UNCHANGED <<driverVars, calls>>
    BY <1>5 DEF vars, requestVars
  <2>2. TypeOK'
    BY <2>1 DEF Inv, TypeOK, driverVars
  <2>3. \A x \in Slots : Live(x)' = Live(x)
    BY <2>1 DEF Live
  <2>4. Shapes' /\ OneClaims' /\ FoundFree' /\ FirstIsRead' /\ LockedHasOwner'
    BY <2>1, <2>3 DEF Inv, Shapes, OneClaims, FoundFree, FirstIsRead, LockedHasOwner
  <2> QED
    BY <2>1, <2>2, <2>4, TableStays DEF Inv
<1> QED
  BY <1>1, <1>2, <1>3, <1>4, <1>5 DEF Next

\* A step in the middle of endRequest.
LEMMA EndedStep ==
  ASSUME Ended, ~Preemptible, [Next]_vars
  PROVE  Inv' \/ Ended'
<1>1. CASE Next
  BY <1>1, OnlyGivesUp, GiveUpInv
<1>2. CASE UNCHANGED vars
  <2>1. /\ UNCHANGED <<REQUEST_INFO, current_request, b_lock, b_dirt, b_uptodate, call>>
        /\ UNCHANGED <<irq_handler, DEVICE_INTR, reset, recalibrate, driver, drive, b_data, calls>>
    BY <1>2 DEF vars, requestVars, driverVars
  <2>2. TypeOK'
    BY <2>1 DEF Ended, TypeOK
  <2>3. \A x \in Slots : Live(x)' = Live(x) /\ InProgress(x)' = InProgress(x)
    BY <2>1 DEF Live, InProgress
  <2>4. Shapes' /\ OneClaims' /\ WritesApart' /\ FirstIsRead' /\ DataInPlace' /\ UptodateIsWhole'
    BY <2>1, <2>3 DEF Ended, Shapes, OneClaims, WritesApart, FirstIsRead, DataInPlace,
                      UptodateIsWhole
  <2> QED
    BY <2>1, <2>2, <2>3, <2>4 DEF Ended
<1> QED
  BY <1>1, <1>2

\* The inductive invariant.
DiskInv == Inv \/ Ended

LEMMA NextInv ==
  ASSUME DiskInv, ~Preemptible, [Next]_vars
  PROVE  DiskInv'
  BY StepInv, EndedStep DEF DiskInv

\* What both halves of it say.
LEMMA DiskFacts ==
  ASSUME DiskInv
  PROVE  /\ TypeOK /\ WritesApart /\ FirstIsRead /\ DriveServesCurrent /\ UptodateIsWhole
         /\ LockedHasOwner
<1>1. CASE Inv
  BY <1>1 DEF Inv
<1>2. CASE Ended
  BY <1>2 DEF Ended, DriveServesCurrent, LockedHasOwner
<1> QED
  BY <1>1, <1>2 DEF DiskInv

\* As long as nobody comes between search and claim or into endRequest, the
\* driver, the drive and the requests agree in every state.
THEOREM DiskInvariant == Spec => [](~Preemptible => DiskInv)
<1>1. CASE Preemptible
  BY <1>1, PTL
<1>2. CASE ~Preemptible
  <2>1. DiskInv /\ [Next]_vars => DiskInv'
    BY <1>2, NextInv
  <2>2. Init => DiskInv
    BY InitInv DEF DiskInv
  <2> QED
    BY <2>1, <2>2, PTL DEF Spec
<1> QED
  BY <1>1, <1>2

\* The type of the variables: a request never has more than MAX_ERRORS errors and
\* its buffer pointer stays within the block.
THEOREM DiskType == Spec => [](~Preemptible => TypeOK)
<1>1. DiskInv => TypeOK
  BY DiskFacts
<1> QED
  BY <1>1, DiskInvariant, PTL

\* No write ever reaches the disk, however many slots the table has: endRequest
\* leaves current_request at the slot of the first request, which is the last of
\* the table, and makeRequest keeps writes out of it.
THEOREM OnlyReads == Spec => [](~Preemptible => OnlyReadsServed)
<1>1. DiskInv => OnlyReadsServed
  <2> SUFFICES ASSUME DiskInv, Pending PROVE current.cmd = READ
    BY DEF OnlyReadsServed
  <2>1. current_request = LastSlot /\ Live(LastSlot) /\ LastSlot \in Slots
    BY DiskSizes, DiskFacts DEF FirstIsRead, Pending
  <2>2. REQUEST_INFO[LastSlot].cmd # WRITE
    BY <2>1, DiskSizes, DiskFacts DEF WritesApart
  <2>3. REQUEST_INFO[LastSlot].cmd \in {READ, WRITE}
    BY <2>1, DiskFacts DEF TypeOK, Requests
  <2> QED
    BY <2>1, <2>2, <2>3 DEF current
<1> QED
  BY <1>1, DiskInvariant, PTL

\* The drive is always at the sector and the count of the current request.
THEOREM DriveInStep == Spec => [](~Preemptible => DriveServesCurrent)
<1>1. DiskInv => DriveServesCurrent
  BY DiskFacts
<1> QED
  BY <1>1, DiskInvariant, PTL

\* endRequest says up to date only of a buffer with both sectors of its block.
THEOREM BlocksAreWhole == Spec => [](~Preemptible => UptodateIsWhole)
<1>1. DiskInv => UptodateIsWhole
  BY DiskFacts
<1> QED
  BY <1>1, DiskInvariant, PTL

\* No way out of makeRequest and no end of a request leaves a buffer locked that
\* neither a call in makeRequest nor a request in the table refers to.
THEOREM LocksAreOwned == Spec => [](~Preemptible => LockedHasOwner)
<1>1. DiskInv => LockedHasOwner
  BY DiskFacts
<1> QED
  BY <1>1, DiskInvariant, PTL

\* Only harddiskRequest gives commands, and reads for a request that failed often
\* only after the recalibration, which it only does after resetHd.
LEMMA CommandsFollow ==
  ASSUME DiskInv, ~Preemptible, [Next]_vars, ~drive.busy, drive'.busy
  PROVE  /\ drive'.cmd = "READ" /\ current.errors > MAX_ERRORS \div 2 => drive.cmd = "RESTORE"
         /\ drive'.cmd = "RESTORE" => drive.cmd = "SPECIFY"
<1>1. \/ harddiskRequest
      \/ drive' = drive
  BY DEF Next, vars, driverVars, Call, GoOn, AddToQueue, Return, DeviceInterrupt, readIntr,
         recalIntr, CallsNull, Fails, Interrupt
<1>2. harddiskRequest /\ ~Refuse /\ ~GiveUp
  BY <1>1 DEF Refuse, GiveUp
<1>3. Inv
  BY <1>2, OnlyGivesUp DEF DiskInv, Next
<1>4. CASE resetHd
  BY <1>4 DEF resetHd, hdOut
<1>5. CASE Recalibrate
  BY <1>3, <1>5 DEF Recalibrate, hdOut, Inv, Recalibrates
<1>6. CASE Read
  <2>1. TypeOK /\ current_request \in Slots /\ ~reset /\ ~recalibrate /\ drive'.cmd = "READ"
    BY <1>3, <1>6 DEF Inv, TypeOK, Commanded, Read, Ready, InRange, hdOut
  <2>2. Pending
    <3>1. current.dev \in {-1, Hd} /\ ~(current.dev < 0)
      BY <1>6, <2>1 DEF TypeOK, Read, Ready, InRange, OutOfRange, current, Requests
    <3>2. current.dev >= 0
      BY <3>1 DEF Hd
    <3> QED
      BY <2>1, <3>2, DiskSizes DEF Pending, Live, current
  <2> QED
    BY <1>3, <2>1, <2>2 DEF Inv, Recalibrates
<1> QED
  BY <1>2, <1>4, <1>5, <1>6 DEF harddiskRequest

\* After more than half its attempts a request is read again only when the drive has been
\* moved back, and that only when it has been reset (badRwIntr, harddiskRequest, recalIntr).
THEOREM RetriesAfterReset == ~Preemptible /\ Spec => RetriesRecalibrate
<1> SUFFICES ASSUME ~Preemptible PROVE Spec => RetriesRecalibrate
  OBVIOUS
<1>1. DiskInv /\ [Next]_vars => DiskInv'
  BY NextInv
<1>2. DiskInv /\ [Next]_vars =>
        [~drive.busy /\ drive'.busy =>
           /\ drive'.cmd = "READ" /\ current.errors > MAX_ERRORS \div 2 => drive.cmd = "RESTORE"
           /\ drive'.cmd = "RESTORE" => drive.cmd = "SPECIFY"]_vars
  BY CommandsFollow
<1>3. Init => DiskInv
  BY InitInv DEF DiskInv
<1> QED
  BY <1>1, <1>2, <1>3, PTL DEF Spec, RetriesRecalibrate

---------------------------------------------------------------------------
(* The order of the queue.                                                 *)

\* The order of the requests.
Earlier(info, x, y) == IN_ORDER(info[x], info[y])

\* IN_ORDER is a strict order, and what it does not tell apart is alike to others.
LEMMA EarlierOrders ==
  ASSUME NEW info \in [Slots -> Requests], NEW x \in Slots, NEW y \in Slots
  PROVE  /\ Earlier(info, x, y) => ~Earlier(info, y, x)
         /\ \A z \in Slots : Earlier(info, x, y) /\ Earlier(info, y, z) => Earlier(info, x, z)
         /\ \A z \in Slots : ~Earlier(info, y, x) /\ Earlier(info, y, z) => Earlier(info, x, z)
         /\ \A z \in Slots : Earlier(info, x, y) /\ ~Earlier(info, z, y) => Earlier(info, x, z)
<1>1. ASSUME NEW z \in Slots
      PROVE  /\ info[z].dev \in Int /\ info[z].cmd \in Int /\ info[z].sector \in Int
  BY DEF Requests, Hd, READ, WRITE
<1> QED
  BY <1>1 DEF Earlier, IN_ORDER

\* The queue as a path of n slots from the first request on, to its end or back
\* to its beginning.
Path(info, q, n) ==
  /\ n \in Nat \ {0} /\ q \in [1 .. n -> Slots]
  /\ q[1] = LastSlot
  /\ \A i, j \in 1 .. n : q[i] = q[j] => i = j
  /\ \A i \in 1 .. n - 1 : info[q[i]].next = q[i + 1]
  /\ info[q[n]].next \in {Nil, LastSlot}

\* Along the path the order goes down at most once.
Sweeps(info, q, n) ==
  \A i, j \in 1 .. n - 1 :
    Earlier(info, q[i + 1], q[i]) /\ Earlier(info, q[j + 1], q[j]) => i = j

\* The loop of addRequest ends at the first place of the path where it may stop.
LEMMA FirstStop ==
  ASSUME NEW info \in [Slots -> Requests], NEW s \in Slots, NEW q, NEW n,
         current_request = LastSlot, Path(info, q, n)
  PROVE  \E k \in 1 .. n :
           /\ \A j \in 1 .. k - 1 : ~StopsAt(info, q[j], s)
           /\ Stops(info, s) = {t \in {q[k]} : StopsAt(info, t, s)}
<1> DEFINE Reached == {x \in Slots : \E k \in 1 .. n :
                         x = q[k] /\ \A j \in 1 .. k - 1 : ~StopsAt(info, q[j], s)}
<1>1. PICK tmp :
           /\ tmp[0] = current_request
           /\ \A i \in 1 .. NR_REQUEST : tmp[i - 1] \in Slots =>
                tmp[i] = IF StopsAt(info, tmp[i - 1], s) THEN tmp[i - 1]
                         ELSE info[tmp[i - 1]].next
           /\ Stops(info, s) = {t \in {tmp[NR_REQUEST]} : StopsAt(info, t, s)}
  BY StopsWalk, DiskSizes
<1>2. n \in Nat /\ n >= 1 /\ \A k \in 1 .. n : q[k] \in Slots
  BY DEF Path
<1>3. tmp[0] \in Reached
  BY <1>1, <1>2 DEF Path
<1>4. ASSUME NEW x \in Reached PROVE (IF StopsAt(info, x, s) THEN x ELSE info[x].next) \in Reached
  <2>1. CASE StopsAt(info, x, s)
    BY <2>1
  <2>2. CASE ~StopsAt(info, x, s)
    <3>1. PICK k \in 1 .. n : x = q[k] /\ \A j \in 1 .. k - 1 : ~StopsAt(info, q[j], s)
      OBVIOUS
    <3>2. info[x].next # Nil
      BY <2>2 DEF StopsAt
    <3>3. CASE k = n
      <4>1. info[x].next = q[1] /\ 1 \in 1 .. n
        BY <1>2, <3>1, <3>2, <3>3 DEF Path
      <4> QED
        BY <1>2, <2>2, <4>1
    <3>4. CASE k # n
      <4> DEFINE m == k + 1
      <4>1. k \in 1 .. n - 1 /\ m \in 1 .. n /\ \A j \in 1 .. m - 1 : j = k \/ j \in 1 .. k - 1
        BY <1>2, <3>4
      <4>2. info[x].next = q[m]
        BY <3>1, <4>1 DEF Path
      <4>3. \A j \in 1 .. m - 1 : ~StopsAt(info, q[j], s)
        BY <2>2, <3>1, <4>1
      <4> HIDE DEF m
      <4> QED
        BY <1>2, <2>2, <4>1, <4>2, <4>3
    <3> QED
      BY <3>3, <3>4
  <2> QED
    BY <2>1, <2>2
<1>5. Reached \subseteq Slots
  OBVIOUS
<1> HIDE DEF Reached
<1>6. tmp[NR_REQUEST] \in Reached
  <2>1. \A i \in 1 .. NR_REQUEST : tmp[i - 1] \in Reached => tmp[i] \in Reached
    BY <1>1, <1>4, <1>5
  <2> QED
    BY <1>3, <2>1, WalkStays, DiskSizes
<1> QED
  BY <1>1, <1>6 DEF Reached

\* What Chain gives is a beginning of the path.
LEMMA ChainIsPath ==
  ASSUME NEW info \in [Slots -> Requests], NEW q, NEW n,
         current_request = LastSlot, Path(info, q, n)
  PROVE  \E m \in 1 .. n : Chain(info) = [i \in 1 .. m |-> q[i]]
<1> DEFINE W(m) == [i \in 1 .. m |-> q[i]]
           S == {W(m) : m \in 1 .. n}
           Longer(w) == LET t == info[w[Len(w)]].next
                        IN  IF t = Nil \/ \E i \in 1 .. Len(w) : w[i] = t THEN w ELSE Append(w, t)
           step == [w \in S |-> Longer(w)]
           Eqn(w) == w = [i \in 0 .. NR_REQUEST |->
                            IF i = 0 THEN <<current_request>> ELSE Longer(w[i - 1])]
<1>1. n \in Nat /\ n >= 1 /\ q[1] = LastSlot /\ \A i \in 1 .. n : q[i] \in Slots
  BY DEF Path
<1>2. W(1) = <<current_request>> /\ W(1) \in S
  BY <1>1
<1>3. ASSUME NEW w \in S PROVE Longer(w) \in S
  <2>1. PICK m \in 1 .. n : w = W(m)
    OBVIOUS
  <2>2. w \in Seq(Slots) /\ Len(w) = m /\ w[m] = q[m] /\ \A i \in 1 .. m : w[i] = q[i]
    BY <1>1, <2>1
  <2> DEFINE t == info[w[Len(w)]].next
  <2>3. t = info[q[m]].next
    BY <2>2
  <2>4. CASE t = Nil \/ \E i \in 1 .. Len(w) : w[i] = t
    BY <2>4
  <2>5. CASE ~(t = Nil \/ \E i \in 1 .. Len(w) : w[i] = t)
    <3>1. m # n
      BY <1>1, <2>2, <2>3, <2>5 DEF Path
    <3> DEFINE k == m + 1
    <3>2. m \in 1 .. n - 1 /\ k \in 1 .. n
      BY <1>1, <3>1
    <3>3. t = q[k]
      BY <2>3, <3>2 DEF Path
    <3>4. Append(w, t) = W(k)
      BY <1>1, <2>1, <2>2, <3>2, <3>3
    <3> QED
      BY <2>5, <3>2, <3>4
  <2> QED
    BY <2>4, <2>5
<1> HIDE DEF S, W, Longer
<1>4. step \in [S -> S] /\ NR_REQUEST \in Nat
  BY <1>3, DiskSizes
<1> HIDE DEF step
<1>5. PICK f : Walks(f, NR_REQUEST, S, W(1), step)
  BY <1>2, <1>4, WalkExists
<1>6. Eqn(f)
  <2>1. \A i \in 0 .. NR_REQUEST : i # 0 => i \in 1 .. NR_REQUEST /\ i - 1 \in 0 .. NR_REQUEST
    BY <1>4
  <2>2. \A i \in 0 .. NR_REQUEST : i # 0 => f[i] = Longer(f[i - 1])
    BY <1>5, <2>1 DEF Walks, step
  <2>3. \A i \in 0 .. NR_REQUEST : f[i] = IF i = 0 THEN <<current_request>> ELSE Longer(f[i - 1])
    BY <1>2, <1>5, <2>2 DEF Walks
  <2>4. f \in [0 .. NR_REQUEST -> S]
    BY <1>5 DEF Walks
  <2> QED
    BY <2>3, <2>4
<1> DEFINE walk == CHOOSE w : Eqn(w)
<1>7. Eqn(walk)
  BY <1>6
<1>8. Chain(info) = walk[NR_REQUEST]
  BY DiskSizes DEF Chain, Longer
<1> HIDE DEF walk
<1>9. walk[NR_REQUEST] \in S
  <2>1. walk[0] \in S
    BY <1>2, <1>4, <1>7
  <2>2. \A i \in 1 .. NR_REQUEST : walk[i] = Longer(walk[i - 1])
    BY <1>4, <1>7
  <2>3. \A i \in 1 .. NR_REQUEST : walk[i - 1] \in S => walk[i] \in S
    BY <1>3, <2>2
  <2> QED
    BY <1>4, <2>1, <2>3, WalkStays
<1> QED
  BY <1>8, <1>9 DEF S, W

\* The table after s was put behind t.
PutBehind(info, t, s) == [info EXCEPT ![s].next = info[t].next, ![t].next = s]

\* The path after s was put behind its k-th slot.
Spliced(q, n, k, s) ==
  [i \in 1 .. n + 1 |-> IF i <= k THEN q[i] ELSE IF i = k + 1 THEN s ELSE q[i - 1]]

\* The places of the slots when one was put in.
LEMMA SplicedAt ==
  ASSUME NEW q, NEW n \in Nat, NEW k \in 1 .. n, NEW s
  PROVE  LET r == Spliced(q, n, k, s)
         IN  /\ \A i \in 1 .. k : r[i] = q[i]
             /\ r[k + 1] = s
             /\ \A i \in k + 1 .. n : r[i + 1] = q[i]
  BY DEF Spliced

\* Putting a slot behind another of the path gives a path.
LEMMA PathGrows ==
  ASSUME NEW info \in [Slots -> Requests], NEW q, NEW n, Path(info, q, n),
         NEW s \in Slots, \A i \in 1 .. n : q[i] # s, NEW k \in 1 .. n
  PROVE  LET r == Spliced(q, n, k, s)
             table == PutBehind(info, q[k], s)
         IN  Path(table, r, n + 1) /\ table[r[n + 1]].next = info[q[n]].next
<1> DEFINE r == Spliced(q, n, k, s)
           table == PutBehind(info, q[k], s)
<1>1. n \in Nat /\ n >= 1 /\ \A i \in 1 .. n : q[i] \in Slots
  BY DEF Path
<1>2. /\ \A i \in 1 .. k : r[i] = q[i]
      /\ r[k + 1] = s
      /\ \A i \in k + 1 .. n : r[i + 1] = q[i]
  BY <1>1, SplicedAt
<1>3. /\ table[q[k]].next = s /\ table[s].next = info[q[k]].next
      /\ \A x \in Slots \ {s, q[k]} : table[x].next = info[x].next
  <2> DEFINE t == q[k]
             between == [info EXCEPT ![s].next = info[t].next]
  <2>1. t \in Slots /\ t # s
    BY <1>1
  <2> HIDE DEF t
  <2>2. between \in [Slots -> Requests] /\ between[s].next = info[t].next
        /\ \A x \in Slots \ {s} : between[x] = info[x]
    BY <2>1 DEF Requests
  <2>3. table = [between EXCEPT ![t].next = s]
    BY DEF t, PutBehind
  <2> HIDE DEF between, table
  <2>4. table[t].next = s /\ \A x \in Slots \ {t} : table[x] = between[x]
    BY <2>1, <2>2, <2>3 DEF Requests
  <2> QED
    BY <2>1, <2>2, <2>4 DEF t
<1>4. r \in [1 .. n + 1 -> Slots] /\ r[1] = LastSlot
  BY <1>1 DEF Spliced, Path
<1> HIDE DEF r, table
<1>5. \A i \in 1 .. n + 1 : i \in 1 .. k \/ i = k + 1 \/ (i - 1 \in k + 1 .. n /\ r[i] = q[i - 1])
  <2> SUFFICES ASSUME NEW i \in 1 .. n + 1, ~(i \in 1 .. k \/ i = k + 1)
               PROVE  i - 1 \in k + 1 .. n /\ r[i] = q[i - 1]
    OBVIOUS
  <2> DEFINE j == i - 1
  <2>1. j \in k + 1 .. n /\ i = j + 1
    BY <1>1
  <2> HIDE DEF j
  <2>2. r[i] = q[j]
    BY <1>2, <2>1
  <2> QED
    BY <2>1, <2>2 DEF j
<1>6. \A i, j \in 1 .. n : q[i] = q[j] => i = j
  BY DEF Path
<1>7. \A i, j \in 1 .. n + 1 : r[i] = r[j] => i = j
  <2> SUFFICES ASSUME NEW i \in 1 .. n + 1, NEW j \in 1 .. n + 1, r[i] = r[j]
               PROVE  i = j
    OBVIOUS
  <2> DEFINE I(m) == IF m \in 1 .. k THEN m ELSE m - 1
  <2>1. ASSUME NEW m \in 1 .. n + 1, m # k + 1
        PROVE  I(m) \in 1 .. n /\ r[m] = q[I(m)] /\ r[m] # s
    <3>1. I(m) \in 1 .. n
      BY <1>1, <2>1
    <3>2. r[m] = q[I(m)]
      BY <1>2, <1>5, <2>1
    <3> QED
      BY <3>1, <3>2
  <2>2. CASE i = k + 1 \/ j = k + 1
    BY <1>2, <2>1, <2>2
  <2>3. CASE i # k + 1 /\ j # k + 1
    <3>1. I(i) = I(j)
      BY <1>6, <2>1, <2>3
    <3> QED
      BY <1>1, <2>3, <3>1
  <2> QED
    BY <2>2, <2>3
<1>8. ASSUME NEW i \in 1 .. n PROVE table[r[i]].next = r[i + 1]
  <2>1. CASE i \in 1 .. k /\ i # k
    <3> DEFINE j == i + 1
    <3>1. i \in 1 .. n - 1 /\ j \in 1 .. k
      BY <1>1, <2>1
    <3>2. info[q[i]].next = q[j]
      BY <3>1 DEF Path
    <3>3. table[q[i]].next = info[q[i]].next
      BY <1>1, <1>3, <1>6, <2>1
    <3>4. r[i] = q[i] /\ r[j] = q[j]
      BY <1>2, <2>1, <3>1
    <3> QED
      BY <3>2, <3>3, <3>4
  <2>2. CASE i = k
    <3>1. r[i] = q[k] /\ r[i + 1] = s
      BY <1>1, <1>2, <2>2
    <3> QED
      BY <1>3, <3>1
  <2>3. CASE i = k + 1
    <3>1. k \in 1 .. n - 1 /\ info[q[k]].next = q[k + 1]
      BY <1>1, <2>3 DEF Path
    <3>2. r[i] = s /\ r[i + 1] = q[i]
      BY <1>1, <1>2, <2>3
    <3> QED
      BY <1>3, <2>3, <3>1, <3>2
  <2>4. CASE ~(i \in 1 .. k \/ i = k + 1)
    <3> DEFINE j == i - 1
    <3>1. j \in k + 1 .. n - 1 /\ i = j + 1 /\ j \in 1 .. n - 1 /\ j # k /\ i \in k + 1 .. n
      BY <1>1, <2>4
    <3> HIDE DEF j
    <3>2. info[q[j]].next = q[i]
      BY <3>1 DEF Path
    <3>3. table[q[j]].next = info[q[j]].next
      BY <1>1, <1>3, <1>6, <3>1
    <3>4. r[j + 1] = q[j] /\ r[i + 1] = q[i]
      <4>1. j \in k + 1 .. n
        BY <1>1, <3>1
      <4> QED
        BY <1>2, <3>1, <4>1
    <3> QED
      BY <3>1, <3>2, <3>3, <3>4
  <2> QED
    BY <2>1, <2>2, <2>3, <2>4
<1>9. table[r[n + 1]].next = info[q[n]].next
  <2>1. CASE k = n
    BY <1>2, <1>3, <2>1
  <2>2. CASE k # n
    <3>1. r[n + 1] = q[n] /\ q[n] # q[k] /\ q[n] # s
      BY <1>1, <1>2, <1>6, <2>2
    <3> QED
      BY <1>1, <1>3, <3>1
  <2> QED
    BY <2>1, <2>2
<1>10. table[r[n + 1]].next \in {Nil, LastSlot}
  BY <1>9 DEF Path
<1>11. Path(table, r, n + 1)
  <2> DEFINE m == n + 1
  <2>1. m \in Nat \ {0} /\ \A i \in 1 .. m - 1 : i \in 1 .. n
    BY <1>1
  <2> QED
    BY <1>4, <1>7, <1>8, <1>10, <2>1 DEF Path
<1> QED
  BY <1>9, <1>11 DEF r, table

\* Where addRequest stops within the path.
LEMMA StopsBetween ==
  ASSUME NEW info \in [Slots -> Requests], NEW q, NEW n, Path(info, q, n), NEW s \in Slots,
         NEW i \in 1 .. n - 1
  PROVE  StopsAt(info, q[i], s) <=>
           /\ Earlier(info, q[i], s) \/ ~Earlier(info, q[i], q[i + 1])
           /\ Earlier(info, s, q[i + 1])
<1>1. info[q[i]].next = q[i + 1] /\ q[i + 1] \in Slots
  BY DEF Path
<1> QED
  BY <1>1, DiskSizes DEF StopsAt, Earlier

\* A request put in where addRequest stops first keeps the sweep.
LEMMA SweepGrows ==
  ASSUME NEW info \in [Slots -> Requests], NEW q, NEW n, Path(info, q, n),
         Sweeps(info, q, n), NEW s \in Slots, NEW k \in 1 .. n,
         \A j \in 1 .. k - 1 : ~StopsAt(info, q[j], s), StopsAt(info, q[k], s),
         \A i \in 1 .. n : Earlier(info, s, q[i]) \/ Earlier(info, q[i], s),
         \A i \in 1 .. n - 1 : Earlier(info, q[i], q[i + 1]) \/ Earlier(info, q[i + 1], q[i])
  PROVE  Sweeps(info, Spliced(q, n, k, s), n + 1)
<1> DEFINE r == Spliced(q, n, k, s)
           Down(i) == Earlier(info, q[i + 1], q[i])
           DownNow(i) == Earlier(info, r[i + 1], r[i])
<1>1. n \in Nat /\ n >= 1 /\ \A i \in 1 .. n : q[i] \in Slots
  BY DEF Path
<1>2. /\ \A i \in 1 .. k : r[i] = q[i]
      /\ r[k + 1] = s
      /\ \A i \in k + 1 .. n : r[i + 1] = q[i]
  BY <1>1, SplicedAt
<1> HIDE DEF r
<1>3. \A i \in 1 .. k - 1 : DownNow(i) <=> Down(i)
  <2> TAKE i \in 1 .. k - 1
  <2> DEFINE j == i + 1
  <2>1. i \in 1 .. k /\ j \in 1 .. k
    BY <1>1
  <2>2. r[i] = q[i] /\ r[j] = q[j]
    BY <1>2, <2>1
  <2> QED
    BY <2>2
<1>4. \A i \in k + 2 .. n : DownNow(i) <=> Down(i - 1)
  <2> TAKE i \in k + 2 .. n
  <2> DEFINE j == i - 1
  <2>1. j \in k + 1 .. n /\ i \in k + 1 .. n /\ i = j + 1
    BY <1>1
  <2> HIDE DEF j
  <2>2. r[i] = q[j] /\ r[i + 1] = q[i]
    BY <1>2, <2>1
  <2>3. DownNow(i) <=> Down(j)
    BY <2>1, <2>2
  <2> QED
    BY <2>3 DEF j
<1>5. DownNow(k) <=> Earlier(info, s, q[k])
  BY <1>2
<1>6. k + 1 \in 1 .. n => (DownNow(k + 1) <=> Earlier(info, q[k + 1], s))
  <2> HAVE k + 1 \in 1 .. n
  <2> DEFINE j == k + 1
  <2>1. j \in k + 1 .. n
    BY <1>1
  <2> HIDE DEF j
  <2>2. r[j + 1] = q[j]
    BY <1>2, <2>1
  <2> QED
    BY <1>2, <2>2 DEF j
<1>7. \A i, j \in 1 .. n - 1 : Down(i) /\ Down(j) => i = j
  BY DEF Sweeps
<1> SUFFICES \A i, j \in 1 .. n : DownNow(i) /\ DownNow(j) => i = j
  <2>1. (n + 1) - 1 = n
    BY <1>1
  <2> QED
    BY <2>1 DEF Sweeps, r
<1> HIDE DEF Down, DownNow
<1>8. CASE k = n
  <2>1. \A i \in 1 .. n : i # n => i \in 1 .. k - 1 /\ i \in 1 .. n - 1
    BY <1>1, <1>8
  <2>2. CASE ~DownNow(n)
    BY <1>3, <1>7, <2>1, <2>2
  <2>3. CASE DownNow(n)
    <3>1. \A d \in 1 .. n - 1 : ~Down(d)
      <4> SUFFICES ASSUME NEW d \in 1 .. n - 1, Down(d) PROVE FALSE
        OBVIOUS
      <4> DEFINE Late == {i \in d + 1 .. n : ~Earlier(info, q[i], s)}
      <4>1. \A i \in d .. n - 1 : ~StopsAt(info, q[i], s) /\ i \in 1 .. n - 1
        BY <1>1, <1>8
      <4>2. d + 1 \notin Late
        <5> DEFINE e == d + 1
        <5>1. d \in d .. n - 1 /\ e \in 1 .. n /\ d \in 1 .. n
          BY <1>1
        <5>2. Earlier(info, q[e], q[d]) /\ ~Earlier(info, q[d], q[e])
          BY <1>1, <5>1, EarlierOrders DEF Down
        <5>3. ~StopsAt(info, q[d], s)
          BY <4>1, <5>1
        <5>4. ~Earlier(info, s, q[e])
          BY <5>2, <5>3, StopsBetween
        <5> HIDE DEF e
        <5>5. Earlier(info, q[e], s)
          BY <5>1, <5>4
        <5> QED
          BY <5>5 DEF e
      <4>3. Late = {}
        <5> SUFFICES ASSUME Late # {} PROVE FALSE
          OBVIOUS
        <5>1. Late \subseteq Nat
          BY <1>1
        <5>2. PICK m \in Late : \A i \in Late : ~(<<i, m>> \in OpToRel(<, Nat))
          BY <5>1, NatLessThanWellFounded, WFMin, ZenonT(60)
        <5> DEFINE c == m - 1
        <5>3. c \in d + 1 .. n - 1 /\ c < m /\ m = c + 1 /\ c \in Nat /\ m \in 1 .. n
          <6>1. m \in d + 1 .. n /\ m # d + 1
            BY <4>2
          <6> HIDE DEF Late
          <6> QED
            BY <1>1, <6>1
        <5>4. c \notin Late
          BY <5>1, <5>2, <5>3 DEF OpToRel
        <5> HIDE DEF c
        <5>5. Earlier(info, q[c], s) /\ c \in d .. n - 1 /\ c \in 1 .. n - 1
          BY <1>1, <5>3, <5>4
        <5>6. ~StopsAt(info, q[c], s)
          BY <4>1, <5>5
        <5>7. ~Earlier(info, s, q[c + 1])
          BY <5>5, <5>6, StopsBetween
        <5>8. Earlier(info, q[m], s)
          BY <5>3, <5>7
        <5> QED
          BY <5>2, <5>8
      <4>4. Earlier(info, q[n], s) /\ n \in 1 .. n
        BY <1>1, <4>3
      <4> QED
        BY <1>1, <1>5, <1>8, <2>3, <4>4, EarlierOrders
    <3> QED
      BY <1>3, <2>1, <3>1
  <2> QED
    BY <2>2, <2>3
<1>9. CASE k # n
  <2> DEFINE e == k + 1
  <2>1. k \in 1 .. n - 1 /\ e \in 1 .. n /\ q[e] \in Slots /\ q[k] \in Slots
    BY <1>1, <1>9
  <2>2. /\ Earlier(info, q[k], s) \/ ~Earlier(info, q[k], q[e])
        /\ Earlier(info, s, q[e])
    BY <2>1, StopsBetween
  <2>3. ~DownNow(e)
    BY <1>6, <2>1, <2>2, EarlierOrders
  <2>4. \A i \in 1 .. n : \/ i = k \/ i = e
                          \/ i \in 1 .. k - 1 /\ i \in 1 .. n - 1 /\ i # k
                          \/ i \in k + 2 .. n /\ i - 1 \in 1 .. n - 1 /\ i - 1 # k
    BY <1>1, <2>1
  <2>5. CASE Earlier(info, q[k], q[e])
    <3>1. ~DownNow(k)
      <4>1. Earlier(info, q[k], s)
        BY <2>2, <2>5
      <4> QED
        BY <1>5, <2>1, <4>1, EarlierOrders
    <3> DEFINE I(i) == IF i \in 1 .. k - 1 THEN i ELSE i - 1
    <3>2. \A i \in 1 .. n : DownNow(i) => /\ I(i) \in 1 .. n - 1 /\ Down(I(i))
                                          /\ i \in 1 .. k - 1 \/ i \in k + 2 .. n
      BY <1>3, <1>4, <2>3, <2>4, <3>1
    <3> SUFFICES ASSUME NEW i \in 1 .. n, NEW j \in 1 .. n, DownNow(i), DownNow(j)
                 PROVE  i = j
      OBVIOUS
    <3>3. I(i) = I(j)
      BY <1>7, <3>2
    <3> QED
      BY <1>1, <3>2, <3>3
  <2>6. CASE ~Earlier(info, q[k], q[e])
    <3>1. Down(k)
      BY <2>1, <2>6 DEF Down
    <3>2. \A i \in 1 .. n : DownNow(i) => i = k
      <4> SUFFICES ASSUME NEW i \in 1 .. n, DownNow(i), i # k PROVE FALSE
        OBVIOUS
      <4>1. i # e
        BY <2>3
      <4>2. CASE i \in 1 .. k - 1 /\ i \in 1 .. n - 1
        BY <1>3, <1>7, <2>1, <3>1, <4>2
      <4>3. CASE i \in k + 2 .. n /\ i - 1 \in 1 .. n - 1 /\ i - 1 # k
        <5>1. Down(i - 1)
          BY <1>4, <4>3
        <5> QED
          BY <1>7, <2>1, <3>1, <4>3, <5>1
      <4> QED
        BY <2>4, <4>1, <4>2, <4>3
    <3> QED
      BY <3>2
  <2> QED
    BY <2>5, <2>6
<1> QED
  BY <1>8, <1>9

\* Where a call has the lock of its buffer.
Holding == {"search", "found", "full", "asleep"}

\* What may follow the first request on its path: requests in the table that
\* nobody is about to queue.
Linked(q, n) ==
  \A i \in 2 .. n : /\ Live(q[i])
                    /\ \A p \in Clients : call[p].at = "add" => call[p].req # q[i]

\* Every call and every request has its buffer for itself, under lock.
Owners ==
  /\ \A p \in Clients : call[p].at \in Holding => b_lock[call[p].bh]
  /\ \A p, q \in Clients : p # q /\ call[p].at \in Holding /\ call[q].at \in Holding =>
       call[p].bh # call[q].bh
  /\ \A s \in Slots : Live(s) => b_lock[REQUEST_INFO[s].bh]
  /\ \A s, t \in Slots : s # t /\ Live(s) /\ Live(t) => REQUEST_INFO[s].bh # REQUEST_INFO[t].bh
  /\ \A s \in Slots, p \in Clients : Live(s) /\ call[p].at \in Holding =>
       call[p].bh # REQUEST_INFO[s].bh

\* Nothing has been read, so there is nothing to write.
Unread ==
  /\ \A b \in Bufs : ~b_uptodate[b] /\ ~b_dirt[b]
  /\ \A p \in Clients : call[p].at \in Holding => call[p].rw = READ
  /\ \A s \in Slots : Live(s) => REQUEST_INFO[s].cmd = READ

\* Only the first request has come to its end: only its buffer can have been
\* changed, and the other reads are of different buffers.
OnlyFirst ==
  /\ \A b \in Bufs : b_uptodate[b] \/ b_dirt[b] => b = REQUEST_INFO[LastSlot].bh
  /\ \A p \in Clients : call[p].at \in Holding /\ call[p].rw = WRITE =>
       call[p].bh = REQUEST_INFO[LastSlot].bh
  /\ \A s \in Slots : Live(s) /\ REQUEST_INFO[s].cmd = WRITE =>
       REQUEST_INFO[s].bh = REQUEST_INFO[LastSlot].bh
  /\ \A s, t \in Slots : /\ s # t /\ Live(s) /\ Live(t)
                         /\ REQUEST_INFO[s].cmd = READ /\ REQUEST_INFO[t].cmd = READ
                         => REQUEST_INFO[s].bh # REQUEST_INFO[t].bh
  /\ \A p \in Clients : call[p].at = "add" /\ REQUEST_INFO[call[p].req].cmd = READ =>
       \A s \in Slots : Live(s) => REQUEST_INFO[s].cmd = READ

\* The last slot has been filled again and waits to be queued.
HeadAdded == \E p \in Clients : call[p].at = "add" /\ call[p].req = LastSlot

\* The three shapes of the queue: the one that begins with the first request of
\* all; the last slot alone, after it was filled again; and the ring that it
\* makes when it is queued behind itself, where only what precedes the current
\* request finds a place.
FirstQueue(q, n) ==
  /\ REQUEST_INFO[q[n]].next = Nil /\ ~HeadAdded
  /\ Sweeps(REQUEST_INFO, q, n)
  /\ Live(LastSlot) => Owners /\ Unread
  /\ ~Live(LastSlot) => OnlyFirst

Refilled(q, n) == n = 1 /\ REQUEST_INFO[q[n]].next = Nil /\ HeadAdded

Ring(q, n) ==
  /\ REQUEST_INFO[q[n]].next = LastSlot /\ ~HeadAdded
  /\ \A i \in 2 .. n - 1 : Earlier(REQUEST_INFO, q[i], q[i + 1])
  /\ Live(LastSlot) => \A i \in 2 .. n : Earlier(REQUEST_INFO, q[i], LastSlot)

QueueShape ==
  /\ current_request = Nil => Owners
  /\ current_request # Nil =>
       \E q, n : /\ Path(REQUEST_INFO, q, n) /\ Linked(q, n)
                 /\ FirstQueue(q, n) \/ Refilled(q, n) \/ Ring(q, n)

\* Only the current request is under way; what is about to be queued is in the
\* table, unless the driver was faster; and a free last slot is found first.
Waiting ==
  /\ \A s \in Slots \ {LastSlot} : Live(s) => REQUEST_INFO[s].buffer = 0
  /\ current_request # Nil => REQUEST_INFO[LastSlot].cmd = READ
  /\ \A p \in Clients :
       call[p].at = "add" /\ (call[p].req = LastSlot => current_request = Nil) =>
         Live(call[p].req)
  /\ \A p \in Clients : call[p].at = "found" /\ call[p].rw = READ /\ ~Live(LastSlot) =>
       call[p].req = LastSlot

QueueInv == Waiting /\ QueueShape

\* In the middle of endRequest the path is as before, and what the end of the
\* first request brings has begun.
EndingFirst(q, n) ==
  /\ REQUEST_INFO[q[n]].next = Nil /\ ~HeadAdded
  /\ Sweeps(REQUEST_INFO, q, n)
  /\ OnlyFirst

EndedQueue ==
  /\ Waiting
  /\ \E q, n : /\ Path(REQUEST_INFO, q, n) /\ Linked(q, n)
               /\ EndingFirst(q, n) \/ Refilled(q, n) \/ Ring(q, n)

\* The queue in every state.
QueueAlways == \/ driver # "ending" /\ QueueInv
               \/ driver = "ending" /\ EndedQueue

\* At the start there is no queue, and nobody owns a buffer.
LEMMA InitQueue == Init => QueueInv
  BY DEF Init, InitRequests, InitCalls, NoRequest, NoCall, Live, QueueInv, Waiting, QueueShape,
         Owners, Holding

\* A step that leaves the table alone, and who is between it and the queue.
LEMMA SameTable ==
  ASSUME Inv, QueueInv, REQUEST_INFO' = REQUEST_INFO, current_request' = current_request,
         \A p \in Clients : \/ call'[p].at # "add" /\ call[p].at # "add"
                            \/ call'[p] = call[p],
         \A p \in Clients : call'[p].at = "found" /\ call'[p].rw = READ /\ ~Live(LastSlot) =>
           call'[p].req = LastSlot,
         Owners => Owners', Unread => Unread', OnlyFirst => OnlyFirst'
  PROVE  QueueInv'
<1>1. \A x : Live(x)' = Live(x)
  BY DEF Live
<1>2. Waiting'
  BY <1>1 DEF QueueInv, Waiting
<1>3. HeadAdded' <=> HeadAdded
  BY DEF HeadAdded
<1>4. ASSUME current_request # Nil
      PROVE  \E q, n : /\ Path(REQUEST_INFO', q, n) /\ Linked(q, n)'
                       /\ FirstQueue(q, n)' \/ Refilled(q, n)' \/ Ring(q, n)'
  <2>1. PICK q, n : /\ Path(REQUEST_INFO, q, n) /\ Linked(q, n)
                    /\ FirstQueue(q, n) \/ Refilled(q, n) \/ Ring(q, n)
    BY <1>4 DEF QueueInv, QueueShape
  <2>2. Linked(q, n)'
    BY <1>1, <2>1 DEF Linked
  <2>3. FirstQueue(q, n) => FirstQueue(q, n)'
    BY <1>1, <1>3 DEF FirstQueue
  <2>4. (Refilled(q, n) => Refilled(q, n)') /\ (Ring(q, n) => Ring(q, n)')
    BY <1>1, <1>3 DEF Refilled, Ring
  <2> QED
    BY <2>1, <2>2, <2>3, <2>4
<1>5. QueueShape'
  BY <1>4 DEF QueueInv, QueueShape
<1> QED
  BY <1>2, <1>5 DEF QueueInv

\* The lock goes to a call only when nobody has the buffer, and to a write only
\* when the buffer was modified.
LEMMA LockQueue ==
  ASSUME Inv, QueueInv, NEW p \in Clients, NEW c \in Calls, lockBuffer(p, c),
         call[p].at \in {"idle", "lock"}, c.at = "lock", c.bh \in Bufs,
         UNCHANGED <<REQUEST_INFO, current_request, b_dirt, b_uptodate>>
  PROVE  QueueInv'
<1> DEFINE d == [c EXCEPT !.at = "search"]
<1>1. TypeOK /\ Shapes /\ call \in [Clients -> Calls] /\ b_lock \in [Bufs -> BOOLEAN]
  BY DEF Inv, TypeOK
<1>2. d.at = "search" /\ d.bh = c.bh /\ d.rw = c.rw /\ [c EXCEPT !.at = "lock"] = c
  BY DEF Calls
<1>3. \/ call' = [call EXCEPT ![p] = c] /\ b_lock' = b_lock
      \/ call' = [call EXCEPT ![p] = NoCall] /\ b_lock' = b_lock
      \/ /\ call' = [call EXCEPT ![p] = d] /\ b_lock' = [b_lock EXCEPT ![c.bh] = TRUE]
         /\ ~b_lock[c.bh] /\ ~NothingToDo(c)
  BY <1>2 DEF lockBuffer
<1> HIDE DEF d
<1>4. NoCall.at = "idle"
  BY DEF NoCall
<1>5. \A q \in Clients \ {p} : call'[q] = call[q]
  BY <1>1, <1>3
<1>6. \/ call'[p].at \in {"lock", "idle"} /\ b_lock' = b_lock
      \/ /\ call'[p] = d /\ ~b_lock[c.bh] /\ ~NothingToDo(c)
         /\ b_lock'[c.bh] /\ \A b \in Bufs : b_lock[b] => b_lock'[b]
  BY <1>1, <1>3, <1>4
<1>7. \A s \in Slots : Live(s)' = Live(s)
  BY DEF Live
<1>8. \A s \in Slots : Live(s) => REQUEST_INFO[s].bh \in Bufs
  BY DEF Inv, Progress, InProgress
<1>9. \A q \in Clients : call[q].at \in Holding => call[q].bh \in Bufs
  BY <1>1 DEF Shapes, WithBuffer, Holding
<1>10. Owners => Owners'
  <2> SUFFICES ASSUME Owners PROVE Owners'
    OBVIOUS
  <2>1. CASE call'[p].at \in {"lock", "idle"} /\ b_lock' = b_lock
    BY <1>5, <1>7, <2>1 DEF Owners, Holding
  <2>2. CASE /\ call'[p] = d /\ ~b_lock[c.bh] /\ ~NothingToDo(c)
             /\ b_lock'[c.bh] /\ \A b \in Bufs : b_lock[b] => b_lock'[b]
    <3>1. \A q \in Clients \ {p} : call[q].at \in Holding => call[q].bh # c.bh
      BY <2>2 DEF Owners
    <3>2. \A s \in Slots : Live(s) => REQUEST_INFO[s].bh # c.bh
      BY <2>2 DEF Owners
    <3>3. \A q \in Clients : call'[q].at \in Holding => b_lock'[call'[q].bh]
      BY <1>2, <1>5, <1>9, <2>2 DEF Owners
    <3>4. \A s \in Slots : Live(s)' => b_lock'[REQUEST_INFO'[s].bh]
      BY <1>7, <1>8, <2>2 DEF Owners
    <3>5. \A q, r \in Clients : q # r /\ call'[q].at \in Holding /\ call'[r].at \in Holding =>
            call'[q].bh # call'[r].bh
      BY <1>2, <1>5, <2>2, <3>1 DEF Owners
    <3>6. \A s \in Slots, q \in Clients : Live(s)' /\ call'[q].at \in Holding =>
            call'[q].bh # REQUEST_INFO'[s].bh
      BY <1>2, <1>5, <1>7, <2>2, <3>2 DEF Owners
    <3>7. \A s, t \in Slots : s # t /\ Live(s)' /\ Live(t)' =>
            REQUEST_INFO'[s].bh # REQUEST_INFO'[t].bh
      BY <1>7 DEF Owners
    <3> QED
      BY <3>3, <3>4, <3>5, <3>6, <3>7 DEF Owners
  <2> QED
    BY <1>6, <2>1, <2>2
<1>11. c.rw \in {READ, WRITE}
  BY DEF Calls
<1>12. Unread => Unread'
  <2>1. Unread /\ call'[p] = d /\ ~NothingToDo(c) => call'[p].rw = READ
    BY <1>2, <1>11 DEF Unread, NothingToDo
  <2> QED
    BY <1>5, <1>6, <1>7, <2>1 DEF Unread, Holding
<1>13. OnlyFirst => OnlyFirst'
  <2>1. OnlyFirst /\ call'[p] = d /\ ~NothingToDo(c) /\ call'[p].rw = WRITE =>
          call'[p].bh = REQUEST_INFO[LastSlot].bh
    BY <1>2 DEF OnlyFirst, NothingToDo
  <2>2. call'[p].at # "add"
    BY <1>2, <1>6
  <2> QED
    BY <1>5, <1>6, <1>7, <2>1, <2>2 DEF OnlyFirst, Holding
<1>14. \A q \in Clients : \/ call'[q].at # "add" /\ call[q].at # "add"
                          \/ call'[q] = call[q]
  BY <1>2, <1>5, <1>6
<1>15. \A q \in Clients : call'[q].at = "found" /\ call'[q].rw = READ /\ ~Live(LastSlot) =>
         call'[q].req = LastSlot
  BY <1>2, <1>5, <1>6 DEF QueueInv, Waiting
<1> QED
  BY <1>10, <1>12, <1>13, <1>14, <1>15, SameTable

\* A call that begins, or is woken, takes the lock only of a buffer without owner.
LEMMA CallQueue ==
  ASSUME Inv, QueueInv, NEW p \in Clients,
         Call(p) \/ (Woken(p) /\ UNCHANGED <<driverVars, calls>>)
  PROVE  QueueInv'
<1>1. CASE Call(p)
  <2>1. PICK rw \in Commands, b \in Bufs : ll_rw_block(p, rw, b)
    BY <1>1 DEF Call
  <2> DEFINE c == [at |-> "lock", rw |-> IF rw \in {READ, READA} THEN READ ELSE WRITE,
                   ahead |-> rw \in {READA, WRITEA}, bh |-> b, req |-> Nil]
  <2>2. c \in Calls
    BY DEF Calls
  <2>3. lockBuffer(p, c) /\ call[p].at = "idle"
    BY <2>1 DEF ll_rw_block, At
  <2>4. UNCHANGED <<REQUEST_INFO, current_request, b_dirt, b_uptodate>>
    BY <2>1 DEF ll_rw_block
  <2> QED
    BY <2>2, <2>3, <2>4, LockQueue
<1>2. CASE Woken(p)
  <2>1. call[p] \in Calls /\ call[p].at = "lock" /\ call[p].bh \in Bufs
    BY <1>2 DEF Woken, At, Inv, TypeOK, Shapes, WithBuffer
  <2> QED
    BY <1>2, <2>1, LockQueue DEF Woken
<1> QED
  BY <1>1, <1>2

\* A step of one call that holds its buffer before and after, or gives it up,
\* or does not hold any.
LEMMA SameHolder ==
  ASSUME Inv, QueueInv, NEW p \in Clients,
         UNCHANGED <<REQUEST_INFO, current_request, b_dirt, b_uptodate>>,
         \A q \in Clients \ {p} : call'[q] = call[q],
         call[p].at # "add", call'[p].at # "add",
         call'[p].at \in Holding =>
           call[p].at \in Holding /\ call'[p].bh = call[p].bh /\ call'[p].rw = call[p].rw,
         call'[p].at = "found" /\ call'[p].rw = READ /\ ~Live(LastSlot) =>
           call'[p].req = LastSlot,
         \/ b_lock' = b_lock
         \/ /\ call[p].at \in Holding /\ call'[p].at \notin Holding
            /\ b_lock' = [b_lock EXCEPT ![call[p].bh] = FALSE]
  PROVE  QueueInv'
<1>1. \A s \in Slots : Live(s)' = Live(s)
  BY DEF Live
<1>2. Owners => Owners'
  <2> SUFFICES ASSUME Owners PROVE Owners'
    OBVIOUS
  <2>1. CASE b_lock' = b_lock
    BY <1>1, <2>1 DEF Owners
  <2>2. CASE /\ call[p].at \in Holding /\ call'[p].at \notin Holding
             /\ b_lock' = [b_lock EXCEPT ![call[p].bh] = FALSE]
    <3>1. \A b : b # call[p].bh /\ b \in Bufs => b_lock'[b] = b_lock[b]
      BY <2>2 DEF Inv, TypeOK
    <3>2. \A q \in Clients \ {p} : call[q].at \in Holding =>
            call[q].bh # call[p].bh /\ call[q].bh \in Bufs
      BY <2>2 DEF Owners, Inv, Shapes, WithBuffer, Holding
    <3>3. \A s \in Slots : Live(s) =>
            REQUEST_INFO[s].bh # call[p].bh /\ REQUEST_INFO[s].bh \in Bufs
      BY <2>2 DEF Owners, Inv, Progress, InProgress
    <3> QED
      BY <1>1, <2>2, <3>1, <3>2, <3>3 DEF Owners
  <2> QED
    BY <2>1, <2>2
<1>3. Unread => Unread'
  BY <1>1 DEF Unread
<1>4. OnlyFirst => OnlyFirst'
  BY <1>1 DEF OnlyFirst
<1>5. \A q \in Clients : \/ call'[q].at # "add" /\ call[q].at # "add"
                         \/ call'[q] = call[q]
  OBVIOUS
<1>6. \A q \in Clients : call'[q].at = "found" /\ call'[q].rw = READ /\ ~Live(LastSlot) =>
        call'[q].req = LastSlot
  BY DEF QueueInv, Waiting
<1> QED
  BY <1>2, <1>3, <1>4, <1>5, <1>6, SameTable

\* A read finds the last slot first when it is free.
LEMMA SearchQueue ==
  ASSUME Inv, QueueInv, NEW p \in Clients, Search(p)
  PROVE  QueueInv'
<1> DEFINE c == call[p]
           free == Free(c.rw)
           s == CHOOSE x \in free : \A t \in free : t <= x
           d == [c EXCEPT !.at = "found", !.req = s]
           e == [c EXCEPT !.at = "full"]
<1>1. call \in [Clients -> Calls] /\ c \in Calls /\ c.at = "search"
  BY DEF Inv, TypeOK, Search, At
<1>2. /\ UNCHANGED <<REQUEST_INFO, current_request, b_lock, b_dirt, b_uptodate>>
      /\ call' = [call EXCEPT ![p] = IF free = {} THEN e ELSE d]
  BY DEF Search
<1>3. c.rw = READ /\ ~Live(LastSlot) => s = LastSlot
  <2> SUFFICES ASSUME c.rw = READ, ~Live(LastSlot) PROVE s = LastSlot
    OBVIOUS
  <2>1. LastSlot \in free /\ free \subseteq Slots
    BY DiskSizes DEF Free, READ, WRITE
  <2>2. \A x \in free : x <= LastSlot /\ x \in Nat
    BY <2>1, DiskSizes
  <2>3. s \in free /\ \A t \in free : t <= s
    BY <2>1, <2>2
  <2> QED
    BY <2>1, <2>2, <2>3
<1> HIDE DEF s
<1>4. /\ d.at = "found" /\ d.req = s /\ d.bh = c.bh /\ d.rw = c.rw
      /\ e.at = "full" /\ e.bh = c.bh /\ e.rw = c.rw
  BY <1>1 DEF Calls
<1> HIDE DEF d, e, free
<1>5. (\A q \in Clients \ {p} : call'[q] = call[q]) /\ call'[p] \in {d, e}
  BY <1>1, <1>2
<1> QED
  BY <1>1, <1>2, <1>3, <1>4, <1>5, SameHolder DEF Holding

\* A call that finds no slot gives its buffer back or keeps it.
LEMMA NoSlotQueue ==
  ASSUME Inv, QueueInv, NEW p \in Clients, NoSlot(p)
  PROVE  QueueInv'
<1> DEFINE c == call[p]
<1>1. call \in [Clients -> Calls] /\ c \in Calls /\ c.at = "full"
  BY DEF Inv, TypeOK, NoSlot, At
<1>2. /\ UNCHANGED <<REQUEST_INFO, current_request, b_dirt, b_uptodate>>
      /\ \/ call' = [call EXCEPT ![p] = NoCall] /\ b_lock' = [b_lock EXCEPT ![c.bh] = FALSE]
         \/ call' = [call EXCEPT ![p].at = "asleep"] /\ b_lock' = b_lock
  BY DEF NoSlot
<1>3. NoCall.at = "idle"
  BY DEF NoCall
<1>4. /\ \A q \in Clients \ {p} : call'[q] = call[q]
      /\ \/ call'[p].at = "idle" /\ b_lock' = [b_lock EXCEPT ![c.bh] = FALSE]
         \/ /\ call'[p].at = "asleep" /\ call'[p].bh = c.bh /\ call'[p].rw = c.rw
            /\ b_lock' = b_lock
  <2>1. CASE call' = [call EXCEPT ![p] = NoCall] /\ b_lock' = [b_lock EXCEPT ![c.bh] = FALSE]
    BY <1>1, <1>3, <2>1
  <2>2. CASE call' = [call EXCEPT ![p].at = "asleep"] /\ b_lock' = b_lock
    BY <1>1, <2>2 DEF Calls
  <2> QED
    BY <1>2, <2>1, <2>2
<1> QED
  BY <1>1, <1>2, <1>4, SameHolder DEF Holding

\* A call that slept for a slot still holds its buffer.
LEMMA ResumedQueue ==
  ASSUME Inv, QueueInv, NEW p \in Clients, Resumed(p)
  PROVE  QueueInv'
<1>1. call \in [Clients -> Calls] /\ call[p] \in Calls /\ call[p].at = "asleep"
  BY DEF Inv, TypeOK, Resumed, At
<1>2. /\ UNCHANGED <<REQUEST_INFO, current_request, b_lock, b_dirt, b_uptodate>>
      /\ call' = [call EXCEPT ![p].at = "search"]
  BY DEF Resumed
<1>3. /\ \A q \in Clients \ {p} : call'[q] = call[q]
      /\ call'[p].at = "search" /\ call'[p].bh = call[p].bh /\ call'[p].rw = call[p].rw
  BY <1>1, <1>2 DEF Calls
<1> QED
  BY <1>1, <1>2, <1>3, SameHolder DEF Holding

\* The call that woke the driver holds nothing.
LEMMA ReturnQueue ==
  ASSUME Inv, QueueInv, NEW p \in Clients, Return(p)
  PROVE  QueueInv'
<1>1. /\ call[p].at = "request" /\ call' = [call EXCEPT ![p] = NoCall]
      /\ UNCHANGED <<REQUEST_INFO, current_request, b_lock, b_dirt, b_uptodate>>
      /\ call \in [Clients -> Calls]
  BY DEF Inv, TypeOK, Return, At
<1>2. call'[p].at = "idle" /\ \A q \in Clients \ {p} : call'[q] = call[q]
  BY <1>1 DEF NoCall
<1> QED
  BY <1>1, <1>2, SameHolder DEF Holding

\* Only a buffer that was read can be modified.
LEMMA ModifyQueue ==
  ASSUME Inv, QueueInv, NEW b \in Bufs, Modify(b)
  PROVE  QueueInv'
<1>1. /\ b_uptodate[b] /\ b_dirt' = [b_dirt EXCEPT ![b] = TRUE] /\ b_dirt \in [Bufs -> BOOLEAN]
      /\ UNCHANGED <<REQUEST_INFO, current_request, b_lock, b_uptodate, call>>
  BY DEF Inv, TypeOK, Modify
<1>2. \A s \in Slots : Live(s)' = Live(s)
  BY <1>1 DEF Live
<1>3. /\ Owners => Owners'
      /\ Unread => Unread'
      /\ OnlyFirst => OnlyFirst'
  BY <1>1, <1>2 DEF Owners, Unread, OnlyFirst
<1>4. \A q \in Clients : call'[q].at = "found" /\ call'[q].rw = READ /\ ~Live(LastSlot) =>
        call'[q].req = LastSlot
  BY <1>1 DEF QueueInv, Waiting
<1> QED
  BY <1>1, <1>3, <1>4, SameTable

\* No two buffers are for the same block.
OneBlockEach == \A a, b \in Bufs : BlockOf[a] = BlockOf[b] => a = b

\* Sectors of requests that wait.
LEMMA WaitingSector ==
  ASSUME Inv, QueueInv, NEW s \in Slots, Live(s), s # LastSlot
  PROVE  /\ REQUEST_INFO[s].bh \in Bufs /\ REQUEST_INFO[s].dev = Hd
         /\ REQUEST_INFO[s].sector = 2 * BlockOf[REQUEST_INFO[s].bh]
<1> DEFINE r == REQUEST_INFO[s]
<1>1. r \in Requests
  BY DEF Inv, TypeOK
<1>2. r.buffer = 0 /\ r.bh \in Bufs /\ r.buffer = r.sector - 2 * BlockOf[r.bh]
  BY DEF Inv, Progress, InProgress, QueueInv, Waiting
<1>3. r.dev \in {-1, Hd} /\ r.dev >= 0 /\ r.sector \in Nat
  BY <1>1 DEF Live, Requests
<1>4. BlockOf[r.bh] \in Nat
  BY <1>2, DiskSizes
<1> HIDE DEF r
<1>5. r.dev = Hd /\ r.sector = 2 * BlockOf[r.bh]
  BY <1>2, <1>3, <1>4
<1> QED
  BY <1>2, <1>5 DEF r

\* The current request gets on by at most a sector.
LEMMA ProgressShape ==
  ASSUME Inv, QueueInv, OneBlockEach, current_request # Nil,
         UNCHANGED <<current_request, call>>,
         REQUEST_INFO' \in [Slots -> Requests],
         \A x \in Slots \ {LastSlot} : REQUEST_INFO'[x] = REQUEST_INFO[x],
         REQUEST_INFO'[LastSlot].dev = REQUEST_INFO[LastSlot].dev,
         REQUEST_INFO'[LastSlot].cmd = REQUEST_INFO[LastSlot].cmd,
         REQUEST_INFO'[LastSlot].bh = REQUEST_INFO[LastSlot].bh,
         REQUEST_INFO'[LastSlot].next = REQUEST_INFO[LastSlot].next,
         \/ REQUEST_INFO'[LastSlot].sector = REQUEST_INFO[LastSlot].sector
         \/ /\ Live(LastSlot)
            /\ REQUEST_INFO[LastSlot].sector - 2 * BlockOf[REQUEST_INFO[LastSlot].bh] \in {0, 1}
            /\ REQUEST_INFO'[LastSlot].sector = REQUEST_INFO[LastSlot].sector + 1
  PROVE  /\ Waiting'
         /\ \E q, n : /\ Path(REQUEST_INFO', q, n) /\ Linked(q, n)'
                      /\ \/ /\ FirstQueue(q, n) /\ ~HeadAdded'
                            /\ REQUEST_INFO'[q[n]].next = Nil /\ Sweeps(REQUEST_INFO', q, n)
                         \/ Refilled(q, n)' \/ Ring(q, n)'
<1> DEFINE h == REQUEST_INFO[LastSlot]
           g == REQUEST_INFO'[LastSlot]
<1>1. /\ LastSlot \in Slots /\ current_request = LastSlot /\ h \in Requests /\ g \in Requests
      /\ REQUEST_INFO \in [Slots -> Requests]
  BY DiskSizes DEF Inv, FirstIsRead, TypeOK
<1>2. \A x \in Slots : Live(x)' = Live(x)
  BY DEF Live
<1>3. /\ \A x \in Slots : /\ REQUEST_INFO'[x].next = REQUEST_INFO[x].next
                          /\ REQUEST_INFO'[x].bh = REQUEST_INFO[x].bh
                          /\ REQUEST_INFO'[x].cmd = REQUEST_INFO[x].cmd
                          /\ REQUEST_INFO'[x].dev = REQUEST_INFO[x].dev
  OBVIOUS
<1>4. Waiting'
  <2>1. \A p \in Clients : call[p].at = "add" => call[p].req \in Slots
    BY DEF Inv, Shapes
  <2>2. \A p \in Clients :
          call[p].at = "add" /\ (call[p].req = LastSlot => current_request = Nil) =>
            REQUEST_INFO'[call[p].req].dev >= 0
    BY <1>3, <2>1 DEF QueueInv, Waiting, Live
  <2>3. \A x \in Slots \ {LastSlot} : Live(x)' => REQUEST_INFO'[x].buffer = 0
    BY <1>2 DEF QueueInv, Waiting
  <2>4. \A p \in Clients : call[p].at = "found" /\ call[p].rw = READ /\ ~Live(LastSlot)' =>
          call[p].req = LastSlot
    BY <1>1, <1>2 DEF QueueInv, Waiting
  <2> QED
    BY <2>2, <2>3, <2>4 DEF QueueInv, Waiting, Live
<1>5. HeadAdded' <=> HeadAdded
  BY DEF HeadAdded
<1>8. PICK q, n : /\ Path(REQUEST_INFO, q, n) /\ Linked(q, n)
                  /\ FirstQueue(q, n) \/ Refilled(q, n) \/ Ring(q, n)
  BY DEF QueueInv, QueueShape
<1>9. /\ n \in Nat /\ n >= 1 /\ q[1] = LastSlot /\ \A i \in 1 .. n : q[i] \in Slots
      /\ \A i \in 2 .. n : q[i] # LastSlot /\ Live(q[i])
  <2>1. n \in Nat /\ n >= 1 /\ q[1] = LastSlot /\ \A i \in 1 .. n : q[i] \in Slots
    BY <1>8 DEF Path
  <2>2. \A i \in 2 .. n : i \in 1 .. n /\ 1 \in 1 .. n /\ i # 1
    BY <2>1
  <2> QED
    BY <1>8, <2>1, <2>2 DEF Path, Linked
<1>10. Path(REQUEST_INFO', q, n)
  <2>1. \A i \in 1 .. n - 1 : i \in 1 .. n
    BY <1>9
  <2> QED
    BY <1>3, <1>8, <1>9, <2>1 DEF Path
<1>11. Linked(q, n)'
  BY <1>2, <1>8, <1>9 DEF Linked
<1>12. h.sector \in Nat /\ g.sector \in Nat /\ (g.sector = h.sector \/ g.sector = h.sector + 1)
  BY <1>1 DEF Requests
<1>13. ASSUME FirstQueue(q, n)
       PROVE  ~HeadAdded' /\ REQUEST_INFO'[q[n]].next = Nil /\ Sweeps(REQUEST_INFO', q, n)
  <2>1. Live(LastSlot) => Owners /\ Unread
    BY <1>13 DEF FirstQueue
  <2>2. ASSUME NEW x \in Slots, x # LastSlot, Live(x), Earlier(REQUEST_INFO', x, LastSlot)
        PROVE  Earlier(REQUEST_INFO, x, LastSlot)
    <3>1. CASE g.sector = h.sector
      <4>1. IN_ORDER(REQUEST_INFO'[x], g) => IN_ORDER(REQUEST_INFO[x], h)
        BY <2>2, <3>1 DEF IN_ORDER
      <4> QED
        BY <2>2, <4>1 DEF Earlier
    <3>2. CASE g.sector # h.sector
      <4> DEFINE r == REQUEST_INFO[x]
      <4>1. /\ r.bh \in Bufs /\ r.dev = Hd /\ r.sector = 2 * BlockOf[r.bh]
            /\ r.cmd = READ /\ h.cmd = READ
        BY <1>1, <2>1, <2>2, <3>2, WaitingSector DEF Unread
      <4>2. r.bh # h.bh /\ h.bh \in Bufs
        BY <1>1, <2>1, <2>2, <3>2 DEF Owners, Inv, Progress, InProgress
      <4>3. BlockOf[r.bh] # BlockOf[h.bh] /\ BlockOf[r.bh] \in Nat /\ BlockOf[h.bh] \in Nat
        BY <4>1, <4>2, DiskSizes DEF OneBlockEach
      <4>4. h.dev = Hd /\ g.dev = Hd /\ g.cmd = READ
        <5>1. h.dev \in {-1, Hd} /\ h.dev >= 0
          BY <1>1, <3>2 DEF Live, Requests
        <5> QED
          BY <4>1, <5>1
      <4>5. REQUEST_INFO'[x] = r
        BY <2>2
      <4>6. r.sector < g.sector
        BY <2>2, <4>1, <4>4, <4>5 DEF Earlier, IN_ORDER, Hd, READ
      <4>7. r.sector < h.sector
        <5>1. CASE g.sector = h.sector
          BY <4>6, <5>1
        <5>2. CASE g.sector # h.sector
          <6>1. /\ h.sector \in {2 * BlockOf[h.bh], 2 * BlockOf[h.bh] + 1}
                /\ g.sector = h.sector + 1
            BY <1>12, <3>2, <4>3
          <6> DEFINE a == BlockOf[r.bh]
                     b == BlockOf[h.bh]
          <6>2. a \in Nat /\ b \in Nat /\ a # b /\ r.sector = 2 * a
                /\ h.sector \in {2 * b, 2 * b + 1}
            BY <4>1, <4>3, <6>1
          <6> HIDE DEF a, b
          <6>3. 2 * a < 2 * b + 2
            BY <4>6, <6>1, <6>2
          <6> QED
            BY <6>2, <6>3
        <5> QED
          BY <5>1, <5>2
      <4> QED
        BY <4>1, <4>4, <4>7 DEF Earlier, IN_ORDER
    <3> QED
      BY <3>1, <3>2
  <2>3. ASSUME NEW i \in 1 .. n - 1, Earlier(REQUEST_INFO', q[i + 1], q[i])
        PROVE  Earlier(REQUEST_INFO, q[i + 1], q[i])
    <3> DEFINE j == i + 1
    <3>1. i \in 1 .. n /\ j \in 2 .. n
      BY <1>9
    <3> HIDE DEF j
    <3>2. Earlier(REQUEST_INFO', q[j], q[i])
      BY <2>3 DEF j
    <3>3. Earlier(REQUEST_INFO, q[j], q[i])
      <4>1. CASE i = 1
        BY <1>9, <2>2, <3>1, <3>2, <4>1
      <4>2. CASE i # 1
        <5>1. i \in 2 .. n
          BY <3>1, <4>2
        <5>2. REQUEST_INFO'[q[i]] = REQUEST_INFO[q[i]] /\ REQUEST_INFO'[q[j]] = REQUEST_INFO[q[j]]
          BY <1>9, <3>1, <5>1
        <5> QED
          BY <3>2, <5>2 DEF Earlier
      <4> QED
        BY <4>1, <4>2
    <3> QED
      BY <3>3 DEF j
  <2>4. Sweeps(REQUEST_INFO', q, n)
    BY <1>13, <2>3 DEF FirstQueue, Sweeps
  <2>5. REQUEST_INFO'[q[n]].next = Nil
    BY <1>3, <1>9, <1>13 DEF FirstQueue
  <2> QED
    BY <1>5, <1>13, <2>4, <2>5 DEF FirstQueue
<1>14. ASSUME Refilled(q, n) PROVE Refilled(q, n)'
  BY <1>3, <1>5, <1>9, <1>14 DEF Refilled
<1>15. ASSUME Ring(q, n) PROVE Ring(q, n)'
  <2>1. REQUEST_INFO'[q[n]].next = LastSlot
    BY <1>3, <1>9, <1>15 DEF Ring
  <2>2. ASSUME NEW i \in 2 .. n - 1 PROVE Earlier(REQUEST_INFO', q[i], q[i + 1])
    <3> DEFINE j == i + 1
    <3>1. i \in 2 .. n /\ j \in 2 .. n
      BY <1>9
    <3>2. Earlier(REQUEST_INFO, q[i], q[j])
      BY <1>15 DEF Ring
    <3> HIDE DEF j
    <3>3. REQUEST_INFO'[q[i]] = REQUEST_INFO[q[i]] /\ REQUEST_INFO'[q[j]] = REQUEST_INFO[q[j]]
      BY <1>9, <3>1
    <3>4. Earlier(REQUEST_INFO', q[i], q[j])
      BY <3>2, <3>3 DEF Earlier
    <3> QED
      BY <3>4 DEF j
  <2>3. ASSUME Live(LastSlot)', NEW i \in 2 .. n
        PROVE  Earlier(REQUEST_INFO', q[i], LastSlot)
    <3> DEFINE r == REQUEST_INFO[q[i]]
    <3>1. Earlier(REQUEST_INFO, q[i], LastSlot) /\ REQUEST_INFO'[q[i]] = r /\ r \in Requests
      BY <1>1, <1>2, <1>9, <1>15, <2>3 DEF Ring
    <3>2. r.sector \in Nat
      BY <3>1 DEF Requests
    <3> QED
      BY <1>12, <3>1, <3>2 DEF Earlier, IN_ORDER
  <2> QED
    BY <1>5, <1>15, <2>1, <2>2, <2>3 DEF Ring
<1> QED
  BY <1>4, <1>8, <1>10, <1>11, <1>13, <1>14, <1>15

\* A round of the driver or an interrupt that does not end it.
LEMMA ProgressQueue ==
  ASSUME Inv, QueueInv, OneBlockEach, current_request # Nil, Live(LastSlot),
         UNCHANGED <<current_request, b_lock, b_dirt, b_uptodate, call>>,
         REQUEST_INFO' \in [Slots -> Requests],
         \A x \in Slots \ {LastSlot} : REQUEST_INFO'[x] = REQUEST_INFO[x],
         REQUEST_INFO'[LastSlot].dev = REQUEST_INFO[LastSlot].dev,
         REQUEST_INFO'[LastSlot].cmd = REQUEST_INFO[LastSlot].cmd,
         REQUEST_INFO'[LastSlot].bh = REQUEST_INFO[LastSlot].bh,
         REQUEST_INFO'[LastSlot].next = REQUEST_INFO[LastSlot].next,
         \/ REQUEST_INFO'[LastSlot].sector = REQUEST_INFO[LastSlot].sector
         \/ /\ REQUEST_INFO[LastSlot].sector - 2 * BlockOf[REQUEST_INFO[LastSlot].bh] \in {0, 1}
            /\ REQUEST_INFO'[LastSlot].sector = REQUEST_INFO[LastSlot].sector + 1
  PROVE  QueueInv'
<1>1. \A x \in Slots : /\ Live(x)' = Live(x)
                       /\ REQUEST_INFO'[x].bh = REQUEST_INFO[x].bh
                       /\ REQUEST_INFO'[x].cmd = REQUEST_INFO[x].cmd
  BY DEF Live
<1>2. (Owners => Owners') /\ (Unread => Unread')
  <2>1. Owners => Owners'
    BY <1>1 DEF Owners
  <2>2. Unread => Unread'
    BY <1>1 DEF Unread
  <2> QED
    BY <2>1, <2>2
<1>3. Waiting'
  BY ProgressShape
<1>4. PICK q, n : /\ Path(REQUEST_INFO', q, n) /\ Linked(q, n)'
                  /\ \/ /\ FirstQueue(q, n) /\ ~HeadAdded'
                        /\ REQUEST_INFO'[q[n]].next = Nil /\ Sweeps(REQUEST_INFO', q, n)
                     \/ Refilled(q, n)' \/ Ring(q, n)'
  BY ProgressShape
<1>5. Live(LastSlot)'
  BY <1>1, DiskSizes
<1>6. FirstQueue(q, n) => Owners /\ Unread
  BY DEF FirstQueue
<1>7. FirstQueue(q, n)' \/ Refilled(q, n)' \/ Ring(q, n)'
  BY <1>2, <1>4, <1>5, <1>6 DEF FirstQueue
<1>8. QueueShape'
  BY <1>4, <1>7 DEF QueueShape
<1> QED
  BY <1>3, <1>8 DEF QueueInv

\* Once the first request is about to end, only its buffer can have changed.
LEMMA EndQueue ==
  ASSUME Inv, QueueInv, OneBlockEach, current_request # Nil,
         NEW info \in [Slots -> Requests], NEW uptodate \in BOOLEAN,
         \A x \in Slots \ {LastSlot} : info[x] = REQUEST_INFO[x],
         info[LastSlot].bh = REQUEST_INFO[LastSlot].bh,
         info[LastSlot].cmd = REQUEST_INFO[LastSlot].cmd,
         info[LastSlot].dev = REQUEST_INFO[LastSlot].dev,
         info[LastSlot].next = REQUEST_INFO[LastSlot].next,
         \/ info[LastSlot].sector = REQUEST_INFO[LastSlot].sector
         \/ /\ Live(LastSlot)
            /\ REQUEST_INFO[LastSlot].sector - 2 * BlockOf[REQUEST_INFO[LastSlot].bh] \in {0, 1}
            /\ info[LastSlot].sector = REQUEST_INFO[LastSlot].sector + 1,
         endRequest(info, uptodate)
  PROVE  driver' = "ending" /\ EndedQueue'
<1> DEFINE h == REQUEST_INFO[LastSlot]
<1>1. /\ LastSlot \in Slots /\ current_request = LastSlot
      /\ b_uptodate \in [Bufs -> BOOLEAN]
  BY DiskSizes DEF Inv, FirstIsRead, TypeOK
<1>2. /\ REQUEST_INFO' = info /\ current_request' = current_request
      /\ b_uptodate' = [b_uptodate EXCEPT ![h.bh] = uptodate]
      /\ b_dirt' = b_dirt /\ call' = call
  BY <1>1 DEF endRequest
<1>3. Waiting'
  BY <1>2, ProgressShape
<1>4. PICK q, n : /\ Path(REQUEST_INFO', q, n) /\ Linked(q, n)'
                  /\ \/ /\ FirstQueue(q, n) /\ ~HeadAdded'
                        /\ REQUEST_INFO'[q[n]].next = Nil /\ Sweeps(REQUEST_INFO', q, n)
                     \/ Refilled(q, n)' \/ Ring(q, n)'
  BY <1>2, ProgressShape
<1>5. /\ \A x \in Slots : /\ Live(x)' = Live(x)
                          /\ REQUEST_INFO'[x].bh = REQUEST_INFO[x].bh
                          /\ REQUEST_INFO'[x].cmd = REQUEST_INFO[x].cmd
      /\ \A p \in Clients : call[p].at = "add" => call[p].req \in Slots
  BY <1>2 DEF Live, Inv, Shapes
<1>6. OnlyFirst => OnlyFirst'
  <2>1. ASSUME OnlyFirst PROVE \A b \in Bufs : b_uptodate'[b] \/ b_dirt'[b] => b = h.bh
    BY <1>1, <1>2, <2>1 DEF OnlyFirst
  <2> QED
    BY <1>1, <1>2, <1>5, <2>1 DEF OnlyFirst
<1>7. Owners /\ Unread => OnlyFirst'
  <2> SUFFICES ASSUME Owners, Unread PROVE OnlyFirst'
    OBVIOUS
  <2>1. \A b \in Bufs : b_uptodate'[b] \/ b_dirt'[b] => b = h.bh
    BY <1>1, <1>2 DEF Unread
  <2>2. \A p \in Clients : call'[p].at \in Holding => call'[p].rw = READ
    BY <1>2 DEF Unread
  <2>3. \A x \in Slots : Live(x)' => REQUEST_INFO'[x].cmd = READ
    BY <1>5 DEF Unread
  <2>4. \A x, y \in Slots : x # y /\ Live(x)' /\ Live(y)' =>
          REQUEST_INFO'[x].bh # REQUEST_INFO'[y].bh
    BY <1>5 DEF Owners
  <2> QED
    BY <1>1, <1>5, <2>1, <2>2, <2>3, <2>4 DEF OnlyFirst, READ, WRITE
<1>8. FirstQueue(q, n) => OnlyFirst'
  BY <1>6, <1>7 DEF FirstQueue
<1>9. EndingFirst(q, n)' \/ Refilled(q, n)' \/ Ring(q, n)'
  BY <1>4, <1>8 DEF EndingFirst
<1> QED
  BY <1>3, <1>4, <1>9 DEF EndedQueue, endRequest

\* The first request precedes all others once it has been ended.
LEMMA GiveUpQueue ==
  ASSUME Ended, EndedQueue, GiveUp
  PROVE  QueueInv'
<1> DEFINE h == REQUEST_INFO[LastSlot]
           g == REQUEST_INFO'[LastSlot]
<1>1. /\ LastSlot \in Slots /\ current_request = LastSlot /\ h \in Requests
      /\ REQUEST_INFO \in [Slots -> Requests] /\ Shapes
  BY DiskSizes DEF Ended, FirstIsRead, TypeOK
<1>2. /\ REQUEST_INFO' = [REQUEST_INFO EXCEPT ![LastSlot].dev = -1]
      /\ b_uptodate' = b_uptodate /\ call' = call
      /\ current_request' = current_request /\ b_dirt' = b_dirt
  BY <1>1 DEF GiveUp, GiveUpSlot
<1>3. /\ g.dev = -1 /\ g.bh = h.bh /\ g.cmd = READ /\ g.next = h.next
      /\ \A x \in Slots \ {LastSlot} : REQUEST_INFO'[x] = REQUEST_INFO[x]
      /\ REQUEST_INFO' \in [Slots -> Requests]
  <2>1. h.cmd = READ
    BY DEF EndedQueue, Waiting, Ended
  <2> QED
    BY <1>1, <1>2, <2>1, SMTT(60) DEF Requests
<1>4. \A x \in Slots : Live(x)' <=> x # LastSlot /\ Live(x)
  <2>1. \A x \in Slots : Live(x)' <=> REQUEST_INFO'[x].dev >= 0
    BY DEF Live
  <2> QED
    BY <1>1, <1>3, <2>1 DEF Live
<1>6. Waiting'
  <2>1. \A p \in Clients : call'[p].at # "found"
    BY <1>2 DEF Ended
  <2>2. \A s \in Slots \ {LastSlot} : Live(s)' => REQUEST_INFO'[s].buffer = 0
    BY <1>3, <1>4 DEF EndedQueue, Waiting
  <2>3. \A p \in Clients : call'[p].at = "add" /\ call'[p].req # LastSlot =>
          REQUEST_INFO'[call'[p].req].dev >= 0
    BY <1>1, <1>2, <1>3 DEF EndedQueue, Waiting, Shapes, Live
  <2>4. current_request' # Nil
    BY <1>2 DEF Ended
  <2> QED
    BY <1>3, <2>1, <2>2, <2>3, <2>4 DEF Waiting, Live
<1>7. HeadAdded' <=> HeadAdded
  BY <1>2 DEF HeadAdded
<1>8. PICK q, n : /\ Path(REQUEST_INFO, q, n) /\ Linked(q, n)
                  /\ EndingFirst(q, n) \/ Refilled(q, n) \/ Ring(q, n)
  BY DEF EndedQueue
<1>9. /\ n \in Nat /\ n >= 1 /\ q[1] = LastSlot /\ \A i \in 1 .. n : q[i] \in Slots
      /\ \A i \in 2 .. n : q[i] # LastSlot /\ Live(q[i])
  <2>1. n \in Nat /\ n >= 1 /\ q[1] = LastSlot /\ \A i \in 1 .. n : q[i] \in Slots
    BY <1>8 DEF Path
  <2>2. \A i \in 2 .. n : i \in 1 .. n /\ 1 \in 1 .. n /\ i # 1
    BY <2>1
  <2> QED
    BY <1>8, <2>1, <2>2, SMTT(60) DEF Path, Linked
<1>10. \A x \in Slots : REQUEST_INFO'[x].next = REQUEST_INFO[x].next
  BY <1>3
<1>11. Path(REQUEST_INFO', q, n)
  <2>1. (\A i \in 1 .. n - 1 : i \in 1 .. n) /\ n \in 1 .. n
    BY <1>9
  <2>2. \A i \in 1 .. n : REQUEST_INFO'[q[i]].next = REQUEST_INFO[q[i]].next
    BY <1>9, <1>10
  <2> QED
    BY <1>8, <2>1, <2>2 DEF Path
<1>12. Linked(q, n)'
  BY <1>2, <1>4, <1>8, <1>9 DEF Linked
<1>13. ASSUME NEW i \in 1 .. n - 1
       PROVE  /\ Earlier(REQUEST_INFO', q[i + 1], q[i]) => Earlier(REQUEST_INFO, q[i + 1], q[i])
              /\ i # 1 /\ Earlier(REQUEST_INFO, q[i], q[i + 1]) =>
                   Earlier(REQUEST_INFO', q[i], q[i + 1])
  <2> DEFINE j == i + 1
  <2>1. i \in 1 .. n /\ j \in 2 .. n
    BY <1>9
  <2> HIDE DEF j
  <2>2. REQUEST_INFO'[q[j]] = REQUEST_INFO[q[j]]
    BY <1>3, <1>9, <2>1
  <2>3. CASE i = 1
    <3> DEFINE r == REQUEST_INFO[q[j]]
    <3>1. r \in Requests /\ r.dev >= 0
      BY <1>1, <1>9, <2>1 DEF Live
    <3>2. r.dev \in {-1, Hd} /\ r.cmd \in {READ, WRITE}
      BY <3>1 DEF Requests
    <3>3. ~Earlier(REQUEST_INFO', q[j], q[i])
      BY <1>3, <1>9, <2>2, <2>3, <3>1, <3>2 DEF Earlier, IN_ORDER, READ, WRITE, Hd
    <3> QED
      BY <2>3, <3>3 DEF j
  <2>4. CASE i # 1
    <3>1. i \in 2 .. n
      BY <2>1, <2>4
    <3>2. REQUEST_INFO'[q[i]] = REQUEST_INFO[q[i]]
      BY <1>3, <1>9, <3>1
    <3>3. /\ Earlier(REQUEST_INFO', q[j], q[i]) => Earlier(REQUEST_INFO, q[j], q[i])
          /\ Earlier(REQUEST_INFO, q[i], q[j]) => Earlier(REQUEST_INFO', q[i], q[j])
      BY <2>2, <3>2 DEF Earlier
    <3> QED
      BY <3>3 DEF j
  <2> QED
    BY <2>3, <2>4
<1>14. ~Live(LastSlot)'
  BY <1>1, <1>4
<1>15. ASSUME EndingFirst(q, n) PROVE FirstQueue(q, n)'
  <2>1. OnlyFirst'
    <3>1. OnlyFirst /\ ~HeadAdded
      BY <1>15 DEF EndingFirst
    <3>2. \A p \in Clients : call[p].at = "add" => call[p].req \in Slots \ {LastSlot}
      BY <1>1, <3>1 DEF HeadAdded, Shapes
    <3>3. \A p \in Clients : call'[p].at = "add" /\ REQUEST_INFO'[call'[p].req].cmd = READ =>
            \A s \in Slots : Live(s)' => REQUEST_INFO'[s].cmd = READ
      BY <1>2, <1>3, <1>4, <3>1, <3>2 DEF OnlyFirst
    <3> QED
      BY <1>2, <1>3, <1>4, <3>1, <3>3 DEF OnlyFirst
  <2>2. Sweeps(REQUEST_INFO', q, n)
    BY <1>13, <1>15 DEF EndingFirst, Sweeps
  <2>3. REQUEST_INFO'[q[n]].next = Nil
    BY <1>9, <1>10, <1>15 DEF EndingFirst
  <2> QED
    BY <1>7, <1>14, <1>15, <2>1, <2>2, <2>3 DEF EndingFirst, FirstQueue
<1>16. ASSUME Refilled(q, n) PROVE Refilled(q, n)'
  BY <1>7, <1>9, <1>10, <1>16 DEF Refilled
<1>17. ASSUME Ring(q, n) PROVE Ring(q, n)'
  <2>1. REQUEST_INFO'[q[n]].next = LastSlot
    BY <1>9, <1>10, <1>17 DEF Ring
  <2>2. \A i \in 2 .. n - 1 : i \in 1 .. n - 1 /\ i # 1
    BY <1>9
  <2>3. \A i \in 2 .. n - 1 : Earlier(REQUEST_INFO', q[i], q[i + 1])
    BY <1>13, <1>17, <2>2 DEF Ring
  <2> QED
    BY <1>7, <1>14, <1>17, <2>1, <2>3 DEF Ring
<1>18. FirstQueue(q, n)' \/ Refilled(q, n)' \/ Ring(q, n)'
  BY <1>8, <1>15, <1>16, <1>17
<1>19. QueueShape'
  <2>1. current_request' # Nil
    BY <1>1, <1>2, DiskSizes
  <2> QED
    BY <1>11, <1>12, <1>18, <2>1 DEF QueueShape
<1> QED
  BY <1>6, <1>19 DEF QueueInv

\* A slot is filled: an ordinary one behind the queue's back, the last one by
\* cutting off the requests that follow it.
LEMMA FillQueue ==
  ASSUME Inv, QueueInv, ~Preemptible, NEW p \in Clients, Fill(p)
  PROVE  QueueInv'
<1> DEFINE c == call[p]
<1>0. PICK s \in Slots : s = c.req
  BY DEF Fill, At, Inv, Shapes
<1> DEFINE r == Filled(c)
           d == [NoCall EXCEPT !.at = "add", !.req = s]
<1>1. /\ c \in Calls /\ c.at = "found" /\ call \in [Clients -> Calls]
      /\ c.bh \in Bufs /\ REQUEST_INFO \in [Slots -> Requests]
  BY DEF Inv, TypeOK, Fill, At, Shapes, WithBuffer
<1>2. /\ UNCHANGED <<current_request, b_lock, b_dirt, b_uptodate>>
      /\ REQUEST_INFO' = [REQUEST_INFO EXCEPT ![s] = r]
      /\ call' = [call EXCEPT ![p] = d]
  BY <1>0 DEF Fill
<1>3. ~Live(s) /\ (c.rw = WRITE => s < (NR_REQUEST * 2) \div 3)
  BY <1>0, <1>1 DEF Inv, FoundFree
<1>4. r.dev = Hd /\ r.cmd = c.rw /\ r.buffer = 0 /\ r.bh = c.bh /\ r.next = Nil
  BY DEF Filled
<1>5. d.at = "add" /\ d.req = s
  BY DEF NoCall
<1>6. c.rw \in {READ, WRITE}
  BY <1>1 DEF Calls
<1> HIDE DEF r, d
<1>7. /\ call'[p] = d /\ \A x \in Clients \ {p} : call'[x] = call[x]
      /\ REQUEST_INFO'[s] = r /\ \A x \in Slots \ {s} : REQUEST_INFO'[x] = REQUEST_INFO[x]
  BY <1>1, <1>2
<1>8. \A x \in Clients \ {p} : call[x].at \notin Claiming
  BY <1>1 DEF Inv, OneClaims, Claiming
<1>9. /\ Live(s)' /\ \A x \in Slots \ {s} : Live(x)' = Live(x)
  BY <1>1, <1>4, <1>7 DEF Live, Hd
<1>10. s = LastSlot => c.rw = READ
  BY <1>3, <1>6, DiskSizes
<1>11. Waiting'
  <2>1. \A x \in Slots \ {LastSlot} : Live(x)' => REQUEST_INFO'[x].buffer = 0
    BY <1>4, <1>7, <1>9 DEF QueueInv, Waiting
  <2>2. current_request' # Nil => REQUEST_INFO'[LastSlot].cmd = READ
    BY <1>2, <1>4, <1>7, <1>10, DiskSizes DEF QueueInv, Waiting
  <2>3. \A x \in Clients : call'[x].at = "add" => REQUEST_INFO'[call'[x].req].dev >= 0
    BY <1>4, <1>5, <1>7, <1>8 DEF Claiming, Hd
  <2>4. \A x \in Clients : call'[x].at # "found"
    BY <1>5, <1>7, <1>8 DEF Claiming
  <2> QED
    BY <2>1, <2>2, <2>3, <2>4 DEF Waiting, Live
<1>12. Owners => Owners'
  <2> SUFFICES ASSUME Owners PROVE Owners'
    OBVIOUS
  <2>1. \A x \in Clients \ {p} : call[x].at \in Holding => call[x].bh # c.bh
    BY <1>1 DEF Owners, Holding
  <2>2. \A x \in Slots : Live(x) => REQUEST_INFO[x].bh # c.bh
    BY <1>1 DEF Owners, Holding
  <2>3. b_lock[c.bh] /\ call'[p].at \notin Holding
    BY <1>1, <1>5, <1>7 DEF Owners, Holding
  <2>4. \A x \in Clients : call'[x].at \in Holding => b_lock'[call'[x].bh]
    BY <1>2, <1>7, <2>3 DEF Owners
  <2>5. \A x, y \in Clients : x # y /\ call'[x].at \in Holding /\ call'[y].at \in Holding =>
          call'[x].bh # call'[y].bh
    BY <1>7, <2>3 DEF Owners
  <2>6. \A x \in Slots : Live(x)' => b_lock'[REQUEST_INFO'[x].bh]
    BY <1>2, <1>4, <1>7, <1>9, <2>3 DEF Owners
  <2>7. \A x, y \in Slots : x # y /\ Live(x)' /\ Live(y)' =>
          REQUEST_INFO'[x].bh # REQUEST_INFO'[y].bh
    BY <1>4, <1>7, <1>9, <2>2 DEF Owners
  <2>8. \A x \in Slots, y \in Clients : Live(x)' /\ call'[y].at \in Holding =>
          call'[y].bh # REQUEST_INFO'[x].bh
    BY <1>4, <1>7, <1>9, <2>1, <2>3 DEF Owners
  <2> QED
    BY <2>4, <2>5, <2>6, <2>7, <2>8 DEF Owners
<1>13. CASE current_request = Nil
  BY <1>2, <1>11, <1>12, <1>13 DEF QueueInv, QueueShape
<1>14. CASE current_request # Nil /\ s = LastSlot
  <2> DEFINE q == [i \in 1 .. 1 |-> LastSlot]
  <2>1. q[1] = LastSlot /\ q \in [1 .. 1 -> Slots] /\ REQUEST_INFO'[q[1]].next = Nil
    BY <1>4, <1>7, <1>14, DiskSizes
  <2> HIDE DEF q
  <2>2. Path(REQUEST_INFO', q, 1)
    BY <2>1, DiskSizes DEF Path
  <2>3. Linked(q, 1)' /\ Refilled(q, 1)'
    BY <1>5, <1>7, <1>14, <2>1 DEF Linked, Refilled, HeadAdded
  <2>4. QueueShape'
    BY <1>2, <1>14, <2>2, <2>3 DEF QueueShape
  <2> QED
    BY <1>11, <2>4 DEF QueueInv
<1>15. CASE current_request # Nil /\ s # LastSlot
  <2>1. PICK q, n : /\ Path(REQUEST_INFO, q, n) /\ Linked(q, n)
                    /\ FirstQueue(q, n) \/ Refilled(q, n) \/ Ring(q, n)
    BY <1>15 DEF QueueInv, QueueShape
  <2>2. /\ n \in Nat /\ n >= 1 /\ q[1] = LastSlot
        /\ \A i \in 1 .. n : q[i] \in Slots \ {s}
    <3>1. n \in Nat /\ n >= 1 /\ q[1] = LastSlot /\ \A i \in 1 .. n : q[i] \in Slots
      BY <2>1 DEF Path
    <3>2. \A i \in 1 .. n : i = 1 \/ i \in 2 .. n
      BY <3>1
    <3>3. \A i \in 2 .. n : Live(q[i])
      BY <2>1 DEF Linked
    <3> QED
      BY <1>3, <1>15, <3>1, <3>2, <3>3
  <2>3. \A i \in 1 .. n : REQUEST_INFO'[q[i]] = REQUEST_INFO[q[i]] /\ (Live(q[i])' <=> Live(q[i]))
    BY <1>7, <1>9, <2>2
  <2>4. /\ n \in 1 .. n /\ \A i \in 1 .. n - 1 : i \in 1 .. n /\ i + 1 \in 1 .. n
        /\ \A i \in 2 .. n : i \in 1 .. n
        /\ \A i \in 2 .. n - 1 : i \in 1 .. n /\ i + 1 \in 1 .. n
    BY <2>2
  <2>5. Path(REQUEST_INFO', q, n)
    BY <2>1, <2>3, <2>4 DEF Path
  <2>6. Linked(q, n)'
    BY <1>5, <1>7, <1>8, <2>1, <2>2, <2>3, <2>4 DEF Linked, Claiming
  <2>7. ~HeadAdded'
    BY <1>5, <1>7, <1>8, <1>15 DEF HeadAdded, Claiming
  <2>8. ~HeadAdded
    BY <1>1, <1>8 DEF HeadAdded, Claiming
  <2>9. LastSlot \in Slots /\ REQUEST_INFO'[LastSlot] = REQUEST_INFO[LastSlot]
        /\ (Live(LastSlot)' <=> Live(LastSlot))
    BY <1>7, <1>9, <1>15, DiskSizes
  <2>10. ASSUME FirstQueue(q, n) PROVE FirstQueue(q, n)'
    <3>1. REQUEST_INFO'[q[n]].next = Nil /\ Sweeps(REQUEST_INFO', q, n)
      <4>1. \A i \in 1 .. n - 1 : Earlier(REQUEST_INFO', q[i + 1], q[i]) <=>
                                  Earlier(REQUEST_INFO, q[i + 1], q[i])
        BY <2>3, <2>4 DEF Earlier
      <4> QED
        BY <2>3, <2>4, <2>10, <4>1 DEF FirstQueue, Sweeps
    <3>2. Live(LastSlot) => Unread'
      <4> SUFFICES ASSUME Live(LastSlot) PROVE Unread'
        OBVIOUS
      <4>1. Unread
        BY <2>10 DEF FirstQueue
      <4>2. c.rw = READ
        BY <1>1, <4>1 DEF Unread, Holding
      <4>3. \A x \in Slots : Live(x)' => REQUEST_INFO'[x].cmd = READ
        BY <1>4, <1>7, <1>9, <4>1, <4>2 DEF Unread
      <4>4. \A x \in Clients : call'[x].at \in Holding => call'[x].rw = READ
        BY <1>5, <1>7, <4>1 DEF Unread, Holding
      <4> QED
        BY <1>2, <4>1, <4>3, <4>4 DEF Unread
    <3>3. ~Live(LastSlot) => OnlyFirst'
      <4> SUFFICES ASSUME ~Live(LastSlot) PROVE OnlyFirst'
        OBVIOUS
      <4>1. OnlyFirst
        BY <2>10 DEF FirstQueue
      <4>2. c.rw = WRITE
        BY <1>0, <1>1, <1>6, <1>15 DEF QueueInv, Waiting
      <4>3. c.bh = REQUEST_INFO[LastSlot].bh /\ WRITE # READ
        BY <1>1, <4>1, <4>2 DEF OnlyFirst, Holding, READ, WRITE
      <4>4. \A b \in Bufs : b_uptodate'[b] \/ b_dirt'[b] => b = REQUEST_INFO'[LastSlot].bh
        BY <1>2, <2>9, <4>1 DEF OnlyFirst
      <4>5. \A x \in Clients : call'[x].at \in Holding /\ call'[x].rw = WRITE =>
              call'[x].bh = REQUEST_INFO'[LastSlot].bh
        BY <1>5, <1>7, <2>9, <4>1 DEF OnlyFirst, Holding
      <4>6. \A x \in Slots : Live(x)' /\ REQUEST_INFO'[x].cmd = WRITE =>
              REQUEST_INFO'[x].bh = REQUEST_INFO'[LastSlot].bh
        BY <1>4, <1>7, <1>9, <2>9, <4>1, <4>3 DEF OnlyFirst
      <4>7. \A x, y \in Slots : /\ x # y /\ Live(x)' /\ Live(y)'
                                /\ REQUEST_INFO'[x].cmd = READ /\ REQUEST_INFO'[y].cmd = READ
                                => REQUEST_INFO'[x].bh # REQUEST_INFO'[y].bh
        BY <1>4, <1>7, <1>9, <4>1, <4>2, <4>3 DEF OnlyFirst
      <4>8. \A x \in Clients : ~(call'[x].at = "add" /\ REQUEST_INFO'[call'[x].req].cmd = READ)
        BY <1>4, <1>5, <1>7, <1>8, <4>2, <4>3 DEF Claiming
      <4> QED
        BY <4>4, <4>5, <4>6, <4>7, <4>8 DEF OnlyFirst
    <3> QED
      BY <1>12, <2>7, <2>9, <2>10, <3>1, <3>2, <3>3 DEF FirstQueue
  <2>11. ASSUME Ring(q, n) PROVE Ring(q, n)'
    <3>1. REQUEST_INFO'[q[n]].next = LastSlot
      BY <2>3, <2>4, <2>11 DEF Ring
    <3>2. \A i \in 2 .. n - 1 : Earlier(REQUEST_INFO', q[i], q[i + 1])
      BY <2>3, <2>4, <2>11 DEF Ring, Earlier
    <3>3. Live(LastSlot)' => \A i \in 2 .. n : Earlier(REQUEST_INFO', q[i], LastSlot)
      BY <2>3, <2>4, <2>9, <2>11 DEF Ring, Earlier
    <3> QED
      BY <2>7, <3>1, <3>2, <3>3 DEF Ring
  <2>12. FirstQueue(q, n)' \/ Ring(q, n)'
    BY <2>1, <2>8, <2>10, <2>11 DEF Refilled
  <2>13. QueueShape'
    BY <1>2, <1>15, <2>5, <2>6, <2>12 DEF QueueShape
  <2> QED
    BY <1>11, <2>13 DEF QueueInv
<1> QED
  BY <1>13, <1>14, <1>15

\* A request that nothing precedes less than the last one goes to the end.
LEMMA SweepAppends ==
  ASSUME NEW info, NEW q, NEW n, Path(info, q, n), Sweeps(info, q, n),
         NEW s, ~Earlier(info, s, q[n])
  PROVE  Sweeps(info, Spliced(q, n, n, s), n + 1)
<1> DEFINE r == Spliced(q, n, n, s)
<1>1. n \in Nat /\ n >= 1
  BY DEF Path
<1>2. (\A i \in 1 .. n : r[i] = q[i]) /\ r[n + 1] = s
  BY <1>1, SplicedAt
<1> HIDE DEF r
<1>3. \A i \in 1 .. n : Earlier(info, r[i + 1], r[i]) =>
        i \in 1 .. n - 1 /\ Earlier(info, q[i + 1], q[i])
  <2> SUFFICES ASSUME NEW i \in 1 .. n, Earlier(info, r[i + 1], r[i])
               PROVE  i \in 1 .. n - 1 /\ Earlier(info, q[i + 1], q[i])
    OBVIOUS
  <2> DEFINE j == i + 1
  <2>1. i # n
    BY <1>1, <1>2
  <2>2. i \in 1 .. n - 1 /\ j \in 1 .. n
    BY <1>1, <2>1
  <2>3. r[i] = q[i] /\ r[j] = q[j]
    BY <1>2, <2>2
  <2> QED
    BY <2>2, <2>3
<1>4. (n + 1) - 1 = n
  BY <1>1
<1> QED
  BY <1>3, <1>4 DEF Sweeps, r

\* In the ring a request finds its place among those that precede the first.
LEMMA RingGrows ==
  ASSUME NEW info \in [Slots -> Requests], NEW q, NEW n, Path(info, q, n),
         info[q[n]].next = LastSlot, NEW s \in Slots, NEW k \in 1 .. n,
         StopsAt(info, q[k], s),
         \A i \in 2 .. n - 1 : Earlier(info, q[i], q[i + 1]),
         \/ \A i \in 2 .. n : Earlier(info, q[i], LastSlot)
         \/ ~Earlier(info, s, LastSlot)
  PROVE  LET r == Spliced(q, n, k, s)
         IN  /\ \A i \in 2 .. n : Earlier(info, r[i], r[i + 1])
             /\ (\A i \in 2 .. n : Earlier(info, q[i], LastSlot)) =>
                  \A i \in 2 .. n + 1 : Earlier(info, r[i], LastSlot)
<1> DEFINE r == Spliced(q, n, k, s)
<1>1. n \in Nat /\ n >= 1 /\ q[1] = LastSlot /\ \A i \in 1 .. n : q[i] \in Slots
  BY DEF Path
<1>2. /\ \A i \in 1 .. k : r[i] = q[i]
      /\ r[k + 1] = s
      /\ \A i \in k + 1 .. n : r[i + 1] = q[i]
  BY <1>1, SplicedAt
<1> HIDE DEF r
<1>3. k # n => /\ Earlier(info, s, q[k + 1])
               /\ k # 1 => Earlier(info, q[k], s)
  <2> HAVE k # n
  <2>1. k \in 1 .. n - 1 /\ (k # 1 => k \in 2 .. n - 1)
    BY <1>1
  <2> QED
    BY <2>1, StopsBetween
<1>4. k = n => /\ Earlier(info, s, LastSlot)
               /\ k # 1 => Earlier(info, q[k], s)
  <2> HAVE k = n
  <2>1. /\ Earlier(info, q[n], s) \/ ~Earlier(info, q[n], LastSlot)
        /\ Earlier(info, s, LastSlot)
    BY DiskSizes DEF StopsAt, Earlier
  <2>2. k # 1 => n \in 2 .. n
    BY <1>1
  <2> QED
    BY <2>1, <2>2
<1>5. ASSUME NEW i \in 2 .. n PROVE Earlier(info, r[i], r[i + 1])
  <2>1. CASE i < k
    <3> DEFINE j == i + 1
    <3>1. i \in 1 .. k /\ j \in 1 .. k /\ i \in 2 .. n - 1
      BY <1>1, <2>1
    <3>2. r[i] = q[i] /\ r[j] = q[j]
      BY <1>2, <3>1
    <3> QED
      BY <3>1, <3>2
  <2>2. CASE i = k
    BY <1>2, <1>3, <1>4, <2>2
  <2>3. CASE i = k + 1
    <3>1. i \in k + 1 .. n /\ k # n
      BY <1>1, <2>3
    <3> QED
      BY <1>2, <1>3, <2>3, <3>1
  <2>4. CASE i > k + 1
    <3> DEFINE j == i - 1
    <3>1. j \in k + 1 .. n /\ i \in k + 1 .. n /\ i = j + 1 /\ j \in 2 .. n - 1
      BY <1>1, <2>4
    <3> HIDE DEF j
    <3>2. r[i] = q[j] /\ r[i + 1] = q[i]
      BY <1>2, <3>1
    <3> QED
      BY <3>1, <3>2
  <2> QED
    BY <1>1, <2>1, <2>2, <2>3, <2>4
<1>6. ASSUME \A i \in 2 .. n : Earlier(info, q[i], LastSlot), NEW i \in 2 .. n + 1
      PROVE  Earlier(info, r[i], LastSlot)
  <2>1. CASE i <= k
    BY <1>1, <1>2, <1>6, <2>1
  <2>2. CASE i = k + 1
    <3> DEFINE e == k + 1
    <3>1. CASE k = n
      BY <1>2, <1>4, <2>2, <3>1
    <3>2. CASE k # n
      <4>1. e \in 2 .. n /\ e \in 1 .. n
        BY <1>1, <3>2
      <4>2. Earlier(info, s, q[e]) /\ Earlier(info, q[e], LastSlot) /\ q[e] \in Slots
        BY <1>1, <1>3, <1>6, <3>2, <4>1
      <4>3. Earlier(info, s, LastSlot)
        BY <4>2, EarlierOrders, DiskSizes
      <4> QED
        BY <1>2, <2>2, <4>3
    <3> QED
      BY <3>1, <3>2
  <2>3. CASE i > k + 1
    <3> DEFINE j == i - 1
    <3>1. j \in k + 1 .. n /\ j \in 2 .. n /\ i = j + 1
      BY <1>1, <2>3
    <3> HIDE DEF j
    <3> QED
      BY <1>2, <1>6, <3>1
  <2> QED
    BY <1>1, <2>1, <2>2, <2>3
<1> QED
  BY <1>5, <1>6 DEF r

\* Two reads in the table for different buffers never have the same place in the
\* order, and one that has ended precedes them all.
LEMMA ReadsDiffer ==
  ASSUME Inv, QueueInv, OneBlockEach, NEW x \in Slots, NEW y \in Slots,
         Live(y), y # LastSlot, Live(x) \/ x = LastSlot,
         REQUEST_INFO[x].cmd = READ, REQUEST_INFO[y].cmd = READ,
         Live(x) => REQUEST_INFO[x].bh # REQUEST_INFO[y].bh
  PROVE  Earlier(REQUEST_INFO, x, y) \/ (Live(x) /\ Earlier(REQUEST_INFO, y, x))
<1> DEFINE a == REQUEST_INFO[x]
           b == REQUEST_INFO[y]
<1>1. a \in Requests /\ a.dev \in {-1, Hd} /\ a.sector \in Nat /\ b.sector \in Nat
  BY DEF Inv, TypeOK, Requests
<1>2. b.bh \in Bufs /\ b.dev = Hd /\ b.sector = 2 * BlockOf[b.bh]
  BY WaitingSector
<1>3. CASE ~Live(x)
  BY <1>1, <1>2, <1>3 DEF Live, Earlier, IN_ORDER, Hd
<1>4. CASE Live(x)
  <2>1. /\ a.dev = Hd /\ a.bh \in Bufs /\ a.buffer \in 0 .. 1
        /\ a.buffer = a.sector - 2 * BlockOf[a.bh]
    BY <1>1, <1>4 DEF Live, Inv, Progress, InProgress, Requests
  <2>2. BlockOf[a.bh] # BlockOf[b.bh] /\ BlockOf[a.bh] \in Nat /\ BlockOf[b.bh] \in Nat
    BY <1>2, <1>4, <2>1, DiskSizes DEF OneBlockEach
  <2> DEFINE c == BlockOf[a.bh]
             d == BlockOf[b.bh]
             o == a.buffer
             i == a.sector
             j == b.sector
  <2>3. /\ c \in Nat /\ d \in Nat /\ c # d /\ j = 2 * d /\ o = i - 2 * c
        /\ o \in 0 .. 1 /\ i \in Nat /\ j \in Nat
    BY <1>1, <1>2, <2>1, <2>2
  <2> HIDE DEF c, d, o, i, j
  <2>4. i < j \/ j < i
    BY <2>3
  <2>5. a.sector < b.sector \/ b.sector < a.sector
    BY <2>4 DEF i, j
  <2> QED
    BY <1>2, <1>4, <2>1, <2>5 DEF Earlier, IN_ORDER
<1> QED
  BY <1>3, <1>4

\* What addRequest changes of a call and of the buffers.
LEMMA AddChanges ==
  ASSUME Inv, NEW p \in Clients, Add(p)
  PROVE  /\ call[p].at = "add" /\ call'[p].at \in {"idle", "request", "spin"}
         /\ \A x \in Clients \ {p} : call'[x] = call[x] /\ call[x].at \notin Claiming
         /\ b_lock' = b_lock /\ b_uptodate' = b_uptodate
         /\ \A b \in Bufs : b_dirt'[b] => b_dirt[b]
         /\ REQUEST_INFO' \in [Slots -> Requests]
         /\ \A x \in Slots : Alike(REQUEST_INFO'[x], REQUEST_INFO[x])
         /\ \A x \in Slots : Live(x)' <=> Live(x)
<1>1. /\ call[p].at = "add" /\ call[p] \in Calls /\ call \in [Clients -> Calls]
      /\ b_dirt \in [Bufs -> BOOLEAN] /\ b_lock' = b_lock /\ b_uptodate' = b_uptodate
  BY AddTells DEF Inv, TypeOK
<1>2. \/ call' = [call EXCEPT ![p] = NoCall]
      \/ call' = [call EXCEPT ![p] = [NoCall EXCEPT !.at = "request"]]
      \/ call' = [call EXCEPT ![p].at = "spin"]
  BY DEF Add
<1>3. /\ NoCall.at = "idle" /\ [NoCall EXCEPT !.at = "request"].at = "request"
      /\ [call[p] EXCEPT !.at = "spin"].at = "spin"
  BY <1>1 DEF NoCall, Calls
<1>4. call'[p].at \in {"idle", "request", "spin"} /\ \A x \in Clients \ {p} : call'[x] = call[x]
  BY <1>1, <1>2, <1>3
<1>5. \A x \in Clients \ {p} : call[x].at \notin Claiming
  BY <1>1 DEF Inv, OneClaims, Claiming
<1>6. \A b \in Bufs : b_dirt'[b] => b_dirt[b]
  <2>1. \E b : b_dirt' = [b_dirt EXCEPT ![b] = FALSE]
    BY DEF Add
  <2> QED
    BY <1>1, <2>1
<1>7. /\ REQUEST_INFO' \in [Slots -> Requests]
      /\ \A x \in Slots : Alike(REQUEST_INFO'[x], REQUEST_INFO[x])
  BY AddLinks
<1>8. \A x \in Slots : Live(x)' <=> Live(x)
  BY <1>7 DEF Live, Alike
<1> QED
  BY <1>1, <1>4, <1>5, <1>6, <1>7, <1>8, SMTT(60)

\* Queuing a request leaves the owners and the kinds of requests as they were.
LEMMA AddKeeps ==
  ASSUME Inv, QueueInv, NEW p \in Clients, Add(p)
  PROVE  /\ Owners => Owners'
         /\ Unread => Unread'
         /\ OnlyFirst => OnlyFirst'
         /\ ~HeadAdded'
         /\ current_request # Nil => Waiting'
<1>1. /\ call[p].at = "add" /\ call'[p].at \in {"idle", "request", "spin"}
      /\ \A x \in Clients \ {p} : call'[x] = call[x] /\ call[x].at \notin Claiming
      /\ b_lock' = b_lock /\ b_uptodate' = b_uptodate
      /\ \A b \in Bufs : b_dirt'[b] => b_dirt[b]
      /\ \A x \in Slots : Live(x)' <=> Live(x)
  BY AddChanges
<1>2. \A x \in Slots : /\ REQUEST_INFO'[x].bh = REQUEST_INFO[x].bh
                       /\ REQUEST_INFO'[x].cmd = REQUEST_INFO[x].cmd
                       /\ REQUEST_INFO'[x].buffer = REQUEST_INFO[x].buffer
  BY AddChanges DEF Alike
<1>3. \A x \in Clients : call'[x].at \in Holding => call'[x] = call[x] /\ call[x].at \in Holding
  BY <1>1 DEF Holding
<1>4. \A x \in Clients : call'[x].at \notin {"add", "found"}
  BY <1>1 DEF Claiming
<1>5. Owners => Owners'
  <2> SUFFICES ASSUME Owners PROVE Owners'
    OBVIOUS
  <2>1. \A x \in Clients : call'[x].at \in Holding => b_lock'[call'[x].bh]
    BY <1>1, <1>3 DEF Owners
  <2>2. \A x, y \in Clients : x # y /\ call'[x].at \in Holding /\ call'[y].at \in Holding =>
          call'[x].bh # call'[y].bh
    BY <1>3 DEF Owners
  <2>3. \A x \in Slots : Live(x)' => b_lock'[REQUEST_INFO'[x].bh]
    BY <1>1, <1>2 DEF Owners
  <2>4. \A x, y \in Slots : x # y /\ Live(x)' /\ Live(y)' =>
          REQUEST_INFO'[x].bh # REQUEST_INFO'[y].bh
    BY <1>1, <1>2 DEF Owners
  <2>5. \A x \in Slots, y \in Clients : Live(x)' /\ call'[y].at \in Holding =>
          call'[y].bh # REQUEST_INFO'[x].bh
    BY <1>1, <1>2, <1>3 DEF Owners
  <2> QED
    BY <2>1, <2>2, <2>3, <2>4, <2>5 DEF Owners
<1>6. Unread => Unread'
  BY <1>1, <1>2, <1>3 DEF Unread
<1>7. OnlyFirst => OnlyFirst'
  <2> SUFFICES ASSUME OnlyFirst PROVE OnlyFirst'
    OBVIOUS
  <2>1. REQUEST_INFO'[LastSlot].bh = REQUEST_INFO[LastSlot].bh
    BY <1>2, DiskSizes
  <2>2. \A b \in Bufs : b_uptodate'[b] \/ b_dirt'[b] => b = REQUEST_INFO'[LastSlot].bh
    BY <1>1, <2>1 DEF OnlyFirst
  <2>3. \A x \in Clients : call'[x].at \in Holding /\ call'[x].rw = WRITE =>
          call'[x].bh = REQUEST_INFO'[LastSlot].bh
    BY <1>3, <2>1 DEF OnlyFirst
  <2>4. \A x \in Slots : Live(x)' /\ REQUEST_INFO'[x].cmd = WRITE =>
          REQUEST_INFO'[x].bh = REQUEST_INFO'[LastSlot].bh
    BY <1>1, <1>2, <2>1 DEF OnlyFirst
  <2>5. \A x, y \in Slots : /\ x # y /\ Live(x)' /\ Live(y)'
                            /\ REQUEST_INFO'[x].cmd = READ /\ REQUEST_INFO'[y].cmd = READ
                            => REQUEST_INFO'[x].bh # REQUEST_INFO'[y].bh
    BY <1>1, <1>2 DEF OnlyFirst
  <2> QED
    BY <1>4, <2>2, <2>3, <2>4, <2>5 DEF OnlyFirst
<1>8. ~HeadAdded'
  BY <1>4 DEF HeadAdded
<1>9. current_request # Nil => Waiting'
  <2> HAVE current_request # Nil
  <2>1. \A x \in Slots \ {LastSlot} : Live(x)' => REQUEST_INFO'[x].buffer = 0
    BY <1>1, <1>2 DEF QueueInv, Waiting
  <2>2. REQUEST_INFO'[LastSlot].cmd = READ
    BY <1>2, DiskSizes DEF QueueInv, Waiting
  <2> QED
    BY <1>4, <2>1, <2>2 DEF Waiting
<1> QED
  BY <1>5, <1>6, <1>7, <1>8, <1>9

\* The first request of all.
LEMMA AddFirst ==
  ASSUME Inv, QueueInv, NEW p \in Clients, Add(p), current_request = Nil
  PROVE  QueueInv'
<1>1. call[p].at = "add" /\ call[p].req = LastSlot /\ Live(LastSlot)
  BY AddChanges DEF QueueInv, Waiting, Inv, FirstIsRead
<1>2. current_request' = LastSlot /\ REQUEST_INFO' = [REQUEST_INFO EXCEPT ![LastSlot].next = Nil]
  BY <1>1 DEF Add
<1>3. \A x \in Clients : call'[x].at \notin {"add", "found"}
  BY AddChanges DEF Claiming
<1>4. \A x \in Slots : Live(x) => x = LastSlot /\ REQUEST_INFO[x].cmd = READ
  <2> SUFFICES ASSUME NEW x \in Slots, Live(x) PROVE x = LastSlot /\ REQUEST_INFO[x].cmd = READ
    OBVIOUS
  <2>1. x = LastSlot
    BY DEF Inv, FirstIsRead
  <2>2. REQUEST_INFO[x].cmd # WRITE
    BY <2>1, DiskSizes DEF Inv, WritesApart
  <2> QED
    BY <2>1, <2>2 DEF Inv, TypeOK, Requests
<1>5. Owners /\ Unread
  <2>1. \A x \in Clients : call[x].at \in Holding => call[x].rw = READ
    BY DEF Inv, FirstIsRead, Holding
  <2>2. \A b \in Bufs : ~b_uptodate[b] /\ ~b_dirt[b]
    BY DEF Inv, FirstIsRead
  <2> QED
    BY <1>4, <2>1, <2>2 DEF QueueInv, QueueShape, Unread
<1>6. Owners' /\ Unread' /\ ~HeadAdded'
  BY <1>5, AddKeeps
<1>7. Live(LastSlot)' /\ REQUEST_INFO'[LastSlot].cmd = READ /\ REQUEST_INFO'[LastSlot].next = Nil
  <2>1. REQUEST_INFO \in [Slots -> Requests] /\ LastSlot \in Slots
    BY DiskSizes DEF Inv, TypeOK
  <2>2. REQUEST_INFO'[LastSlot].next = Nil
    BY <1>2, <2>1 DEF Requests
  <2> QED
    BY <1>1, <1>4, <2>1, <2>2, AddChanges DEF Alike
<1> DEFINE q == [i \in 1 .. 1 |-> LastSlot]
<1>8. q[1] = LastSlot /\ q \in [1 .. 1 -> Slots]
  BY DiskSizes
<1> HIDE DEF q
<1>9. Path(REQUEST_INFO', q, 1) /\ Linked(q, 1)' /\ Sweeps(REQUEST_INFO', q, 1)
  BY <1>7, <1>8 DEF Path, Linked, Sweeps
<1>10. FirstQueue(q, 1)'
  BY <1>6, <1>7, <1>8, <1>9 DEF FirstQueue
<1>11. QueueShape'
  BY <1>2, <1>9, <1>10, DiskSizes DEF QueueShape
<1>12. Waiting'
  <2>1. \A x \in Slots \ {LastSlot} : ~Live(x)'
    BY <1>4, AddChanges
  <2> QED
    BY <1>3, <1>7, <2>1 DEF Waiting
<1> QED
  BY <1>11, <1>12 DEF QueueInv

\* The last slot, filled again, is put behind itself.
LEMMA AddHead ==
  ASSUME Inv, QueueInv, NEW p \in Clients, Add(p), current_request # Nil,
         call[p].req = LastSlot
  PROVE  QueueInv'
<1> DEFINE info == [REQUEST_INFO EXCEPT ![LastSlot].next = Nil]
<1>1. /\ current_request = LastSlot /\ LastSlot \in Slots /\ REQUEST_INFO \in [Slots -> Requests]
      /\ call[p].at = "add" /\ HeadAdded
  BY AddChanges, DiskSizes DEF Inv, TypeOK, FirstIsRead, HeadAdded
<1>2. PICK q, n : Path(REQUEST_INFO, q, n) /\ Refilled(q, n)
  BY <1>1 DEF QueueInv, QueueShape, FirstQueue, Ring
<1>3. n = 1 /\ q[1] = LastSlot /\ q \in [1 .. 1 -> Slots]
  BY <1>2 DEF Refilled, Path
<1>4. info \in [Slots -> Requests] /\ info[LastSlot].next = Nil
  BY <1>1 DEF Requests
<1> HIDE DEF info
<1>5. Path(info, q, 1)
  BY <1>3, <1>4 DEF Path
<1>6. Stops(info, LastSlot) = {LastSlot}
  <2>1. PICK k \in 1 .. 1 : Stops(info, LastSlot) = {t \in {q[k]} : StopsAt(info, t, LastSlot)}
    BY <1>1, <1>4, <1>5, FirstStop
  <2>2. StopsAt(info, LastSlot, LastSlot)
    BY <1>4 DEF StopsAt
  <2> QED
    BY <1>3, <2>1, <2>2
<1>7. /\ REQUEST_INFO' = [info EXCEPT ![LastSlot].next = info[LastSlot].next,
                                      ![LastSlot].next = LastSlot]
      /\ current_request' = current_request
  BY <1>6 DEF Add, info
<1>8. REQUEST_INFO'[LastSlot].next = LastSlot
  <2> DEFINE between == [info EXCEPT ![LastSlot].next = info[LastSlot].next]
  <2>1. between \in [Slots -> Requests]
    BY <1>1, <1>4 DEF Requests
  <2>2. REQUEST_INFO' = [between EXCEPT ![LastSlot].next = LastSlot]
    BY <1>7
  <2> HIDE DEF between
  <2> QED
    BY <1>1, <2>1, <2>2 DEF Requests
<1>9. Path(REQUEST_INFO', q, 1) /\ Linked(q, 1)'
  BY <1>3, <1>8 DEF Path, Linked
<1>10. Ring(q, 1)'
  BY <1>3, <1>8, AddKeeps DEF Ring
<1>11. QueueShape'
  BY <1>7, <1>9, <1>10 DEF QueueShape
<1> QED
  BY <1>11, AddKeeps DEF QueueInv

\* The place where a request goes keeps the sweep of the first queue.
LEMMA FirstQueueGrows ==
  ASSUME Inv, QueueInv, OneBlockEach, NEW info \in [Slots -> Requests],
         \A x \in Slots : Alike(info[x], REQUEST_INFO[x]),
         NEW q, NEW n, Path(info, q, n), Linked(q, n), FirstQueue(q, n),
         NEW p \in Clients, NEW s \in Slots, call[p].at = "add", call[p].req = s,
         Live(s), s # LastSlot,
         \A i \in 1 .. n : q[i] # s,
         NEW k \in 1 .. n,
         \A j \in 1 .. k - 1 : ~StopsAt(info, q[j], s), StopsAt(info, q[k], s)
  PROVE  Sweeps(info, Spliced(q, n, k, s), n + 1)
<1>1. /\ n \in Nat /\ n >= 1 /\ q[1] = LastSlot /\ \A i \in 1 .. n : q[i] \in Slots
      /\ LastSlot \in Slots
  BY DiskSizes DEF Path
<1>2. \A x, y \in Slots : Earlier(info, x, y) <=> Earlier(REQUEST_INFO, x, y)
  BY DEF Alike, Earlier, IN_ORDER
<1>3. Sweeps(info, q, n)
  <2>1. \A i \in 1 .. n - 1 : i \in 1 .. n /\ i + 1 \in 1 .. n
    BY <1>1
  <2> QED
    BY <1>1, <1>2, <2>1 DEF FirstQueue, Sweeps
<1>4. \A i \in 2 .. n : Live(q[i]) /\ q[i] # LastSlot
  <2>1. \A i \in 2 .. n : i \in 1 .. n /\ 1 \in 1 .. n /\ i # 1
    BY <1>1
  <2> QED
    BY <1>1, <2>1 DEF Path, Linked
<1>5. REQUEST_INFO[LastSlot].cmd = READ /\ (\A x \in Slots : REQUEST_INFO[x].cmd \in {READ, WRITE})
  <2>1. current_request # Nil
    BY DEF Inv, FirstIsRead
  <2> QED
    BY <2>1 DEF QueueInv, Waiting, Inv, TypeOK, Requests
<1>6. CASE REQUEST_INFO[s].cmd = READ
  <2>1. /\ \A x \in Slots : Live(x) => REQUEST_INFO[x].cmd = READ
        /\ \A x, y \in Slots : x # y /\ Live(x) /\ Live(y) =>
             REQUEST_INFO[x].bh # REQUEST_INFO[y].bh
    BY <1>6 DEF FirstQueue, Unread, Owners, OnlyFirst
  <2>2. \A x, y \in Slots : /\ x # y /\ Live(y) /\ y # LastSlot /\ (Live(x) \/ x = LastSlot)
                            => Earlier(info, x, y) \/ Earlier(info, y, x)
    BY <1>2, <1>5, <2>1, ReadsDiffer
  <2>3. \A i \in 1 .. n : Earlier(info, s, q[i]) \/ Earlier(info, q[i], s)
    <3> TAKE i \in 1 .. n
    <3>1. q[i] = LastSlot \/ Live(q[i])
      <4>1. i = 1 \/ i \in 2 .. n
        BY <1>1
      <4> QED
        BY <1>1, <1>4, <4>1
    <3> QED
      BY <1>1, <2>2, <3>1
  <2>4. \A i \in 1 .. n - 1 : Earlier(info, q[i], q[i + 1]) \/ Earlier(info, q[i + 1], q[i])
    <3> TAKE i \in 1 .. n - 1
    <3> DEFINE j == i + 1
    <3>1. i \in 1 .. n /\ j \in 2 .. n /\ j \in 1 .. n /\ i # j /\ (i = 1 \/ i \in 2 .. n)
      BY <1>1
    <3> HIDE DEF j
    <3>2. q[i] # q[j] /\ (Live(q[i]) \/ q[i] = LastSlot)
      BY <1>1, <1>4, <3>1 DEF Path
    <3>3. Earlier(info, q[i], q[j]) \/ Earlier(info, q[j], q[i])
      BY <1>1, <1>4, <2>2, <3>1, <3>2
    <3> QED
      BY <3>3 DEF j
  <2> QED
    BY <1>3, <2>3, <2>4, SweepGrows
<1>7. CASE REQUEST_INFO[s].cmd = WRITE
  <2>1. ~Live(LastSlot) /\ OnlyFirst
    BY <1>7 DEF FirstQueue, Unread, READ, WRITE
  <2>2. \A i \in 1 .. n : ~Earlier(info, s, q[i])
    <3> TAKE i \in 1 .. n
    <3>1. i = 1 \/ i \in 2 .. n
      BY <1>1
    <3>2. CASE REQUEST_INFO[q[i]].cmd = READ
      BY <1>1, <1>2, <1>7, <3>2 DEF Earlier, IN_ORDER, READ, WRITE
    <3>3. CASE REQUEST_INFO[q[i]].cmd = WRITE
      <4>1. i \in 2 .. n /\ q[i] \in Slots
        BY <1>1, <1>5, <3>1, <3>3 DEF READ, WRITE
      <4>2. REQUEST_INFO[q[i]].bh = REQUEST_INFO[s].bh
        BY <1>4, <1>7, <2>1, <3>3, <4>1 DEF OnlyFirst
      <4>3. /\ REQUEST_INFO[q[i]].dev = Hd /\ REQUEST_INFO[s].dev = Hd
            /\ REQUEST_INFO[q[i]].sector = REQUEST_INFO[s].sector
        BY <1>4, <4>1, <4>2, WaitingSector
      <4>4. REQUEST_INFO[s].sector \in Nat
        BY DEF Inv, TypeOK, Requests
      <4> QED
        BY <1>2, <1>7, <3>3, <4>1, <4>3, <4>4 DEF Earlier, IN_ORDER, WRITE, Hd
    <3> QED
      BY <1>1, <1>5, <3>2, <3>3
  <2>3. k = n
    <3> SUFFICES ASSUME k # n PROVE FALSE
      OBVIOUS
    <3> DEFINE j == k + 1
    <3>1. k \in 1 .. n - 1 /\ j \in 1 .. n
      BY <1>1
    <3>2. Earlier(info, s, q[j])
      BY <3>1, StopsBetween
    <3> QED
      BY <2>2, <3>1, <3>2
  <2> QED
    BY <1>3, <2>2, <2>3, SweepAppends
<1> QED
  BY <1>5, <1>6, <1>7

\* Any other request goes where the loop stops, or the loop does not stop.
LEMMA AddOther ==
  ASSUME Inv, QueueInv, OneBlockEach, NEW p \in Clients, Add(p), current_request # Nil,
         call[p].req # LastSlot
  PROVE  QueueInv'
<1>1. PICK s \in Slots : s = call[p].req
  BY DEF Add, At, Inv, Shapes
<1> DEFINE info == [REQUEST_INFO EXCEPT ![s].next = Nil]
<1>2. /\ current_request = LastSlot /\ LastSlot \in Slots /\ REQUEST_INFO \in [Slots -> Requests]
      /\ call[p].at = "add" /\ s # LastSlot /\ Live(s)
      /\ \A x \in Clients \ {p} : call[x].at \notin Claiming
  BY <1>1, AddChanges, DiskSizes DEF Inv, TypeOK, FirstIsRead, QueueInv, Waiting
<1>3. ~HeadAdded
  BY <1>1, <1>2 DEF HeadAdded, Claiming
<1>4. PICK q, n : /\ Path(REQUEST_INFO, q, n) /\ Linked(q, n)
                  /\ FirstQueue(q, n) \/ Ring(q, n)
  BY <1>3 DEF QueueInv, QueueShape, Refilled
<1>5. /\ info \in [Slots -> Requests] /\ \A x \in Slots : Alike(info[x], REQUEST_INFO[x])
      /\ \A x \in Slots \ {s} : info[x].next = REQUEST_INFO[x].next
  BY <1>2, SMTT(60) DEF Requests, Alike
<1>6. current_request' = current_request
      /\ \/ \E t \in Stops(info, s) :
              REQUEST_INFO' = [info EXCEPT ![s].next = info[t].next, ![t].next = s]
         \/ REQUEST_INFO' = info
  BY <1>1 DEF Add
<1> HIDE DEF info
<1>7. /\ n \in Nat /\ n >= 1 /\ q[1] = LastSlot /\ \A i \in 1 .. n : q[i] \in Slots
      /\ \A i \in 2 .. n : i \in 1 .. n /\ Live(q[i])
  BY <1>4 DEF Path, Linked
<1>8. \A i \in 1 .. n : q[i] # s
  <2> TAKE i \in 1 .. n
  <2>1. i = 1 \/ i \in 2 .. n
    BY <1>7
  <2>2. \A j \in 2 .. n : q[j] # call[p].req
    BY <1>2, <1>4 DEF Linked
  <2> QED
    BY <1>1, <1>2, <1>7, <2>1, <2>2
<1>9. \A i \in 1 .. n : info[q[i]].next = REQUEST_INFO[q[i]].next
  BY <1>5, <1>7, <1>8
<1>10. Path(info, q, n) /\ info[q[n]].next = REQUEST_INFO[q[n]].next
  <2>1. n \in 1 .. n /\ \A i \in 1 .. n - 1 : i \in 1 .. n
    BY <1>7
  <2> QED
    BY <1>4, <1>9, <2>1 DEF Path
<1>11. /\ REQUEST_INFO' \in [Slots -> Requests]
       /\ \A x, y \in Slots : Earlier(REQUEST_INFO', x, y) <=> Earlier(REQUEST_INFO, x, y)
       /\ \A x, y \in Slots : Earlier(info, x, y) <=> Earlier(REQUEST_INFO, x, y)
       /\ \A x \in Slots : Live(x)' <=> Live(x)
       /\ \A x \in Clients : call'[x].at # "add"
  <2>1. /\ REQUEST_INFO' \in [Slots -> Requests]
        /\ \A x \in Slots : Alike(REQUEST_INFO'[x], REQUEST_INFO[x])
        /\ \A x \in Slots : Live(x)' <=> Live(x)
        /\ \A x \in Clients : call'[x].at # "add"
    BY AddChanges DEF Claiming
  <2>2. \A x, y \in Slots : Earlier(REQUEST_INFO', x, y) <=> Earlier(REQUEST_INFO, x, y)
    BY <2>1 DEF Alike, Earlier, IN_ORDER
  <2>3. \A x, y \in Slots : Earlier(info, x, y) <=> Earlier(REQUEST_INFO, x, y)
    BY <1>5 DEF Alike, Earlier, IN_ORDER
  <2> QED
    BY <2>1, <2>2, <2>3
<1>12. (FirstQueue(q, n) => /\ Live(LastSlot) => Owners' /\ Unread'
                            /\ ~Live(LastSlot) => OnlyFirst')
       /\ ~HeadAdded' /\ Waiting'
  BY AddKeeps DEF FirstQueue
<1>13. ASSUME REQUEST_INFO' = info
       PROVE  QueueShape'
  <2>1. \A i \in 1 .. n - 1 : i \in 1 .. n /\ i + 1 \in 1 .. n
    BY <1>7
  <2>2. Linked(q, n)'
    BY <1>7, <1>11 DEF Linked
  <2>3. FirstQueue(q, n) => FirstQueue(q, n)'
    <3> HAVE FirstQueue(q, n)
    <3>1. Sweeps(REQUEST_INFO', q, n)
      BY <1>7, <1>11, <2>1 DEF FirstQueue, Sweeps
    <3> QED
      BY <1>2, <1>10, <1>11, <1>12, <1>13, <3>1 DEF FirstQueue
  <2>4. Ring(q, n) => Ring(q, n)'
    <3> HAVE Ring(q, n)
    <3>1. \A i \in 2 .. n - 1 : i \in 1 .. n /\ i + 1 \in 1 .. n
      BY <1>7
    <3>2. \A i \in 2 .. n - 1 : Earlier(REQUEST_INFO', q[i], q[i + 1])
      BY <1>7, <1>11, <3>1 DEF Ring
    <3>3. Live(LastSlot)' => \A i \in 2 .. n : Earlier(REQUEST_INFO', q[i], LastSlot)
      BY <1>2, <1>7, <1>11 DEF Ring
    <3> QED
      BY <1>10, <1>12, <1>13, <3>2, <3>3 DEF Ring
  <2>5. Path(REQUEST_INFO', q, n)
    BY <1>10, <1>13
  <2> QED
    BY <1>4, <1>6, <2>2, <2>3, <2>4, <2>5 DEF QueueShape
<1>14. ASSUME NEW t \in Stops(info, s),
              REQUEST_INFO' = [info EXCEPT ![s].next = info[t].next, ![t].next = s]
       PROVE  QueueShape'
  <2>1. PICK k \in 1 .. n :
          /\ \A j \in 1 .. k - 1 : ~StopsAt(info, q[j], s)
          /\ Stops(info, s) = {x \in {q[k]} : StopsAt(info, x, s)}
    BY <1>2, <1>5, <1>10, FirstStop
  <2>2. t = q[k] /\ StopsAt(info, q[k], s)
    BY <1>14, <2>1
  <2> DEFINE r == Spliced(q, n, k, s)
             m == n + 1
  <2>3. Path(REQUEST_INFO', r, m) /\ REQUEST_INFO'[r[m]].next = info[q[n]].next
    <3>1. REQUEST_INFO' = [info EXCEPT ![s].next = info[q[k]].next, ![q[k]].next = s]
      BY <1>14, <2>2
    <3>2. REQUEST_INFO' = PutBehind(info, q[k], s)
      BY <3>1 DEF PutBehind
    <3> QED
      BY <1>5, <1>8, <1>10, <3>2, PathGrows
  <2>4. \A i \in 2 .. m : r[i] = s \/ \E j \in 2 .. n : r[i] = q[j]
    <3> TAKE i \in 2 .. m
    <3>1. /\ \A j \in 1 .. k : r[j] = q[j]
          /\ r[k + 1] = s
          /\ \A j \in k + 1 .. n : r[j + 1] = q[j]
      BY <1>7, SplicedAt
    <3> HIDE DEF r
    <3>2. CASE i <= k
      BY <1>7, <3>1, <3>2
    <3>3. CASE i = k + 1
      BY <3>1, <3>3
    <3>4. CASE i > k + 1
      <4> DEFINE j == i - 1
      <4>1. j \in k + 1 .. n /\ j \in 2 .. n /\ i = j + 1
        BY <1>7, <3>4
      <4> HIDE DEF j
      <4> QED
        BY <3>1, <4>1
    <3> QED
      BY <1>7, <3>2, <3>3, <3>4
  <2> HIDE DEF r
  <2>5. Linked(r, m)'
    BY <1>2, <1>7, <1>11, <2>4 DEF Linked
  <2>6. \A i \in 1 .. m : r[i] \in Slots
    BY <2>3 DEF Path
  <2>7. m \in Nat /\ m - 1 = n /\ n + 1 = m /\ \A i \in 1 .. n : i \in 1 .. m /\ i + 1 \in 1 .. m
    BY <1>7
  <2>8. FirstQueue(q, n) => FirstQueue(r, m)'
    <3> HAVE FirstQueue(q, n)
    <3>1. Sweeps(info, r, m)
      BY <1>1, <1>2, <1>4, <1>5, <1>8, <1>10, <2>1, <2>2, FirstQueueGrows DEF r
    <3>2. Sweeps(REQUEST_INFO', r, m)
      BY <1>11, <2>6, <2>7, <3>1 DEF Sweeps
    <3> QED
      BY <1>2, <1>10, <1>11, <1>12, <2>3, <3>2 DEF FirstQueue
  <2>9. Ring(q, n) => Ring(r, m)'
    <3> HAVE Ring(q, n)
    <3>1. \A i \in 2 .. n - 1 : i \in 1 .. n /\ i + 1 \in 1 .. n
      BY <1>7
    <3>2. \A i \in 2 .. n - 1 : Earlier(info, q[i], q[i + 1])
      BY <1>7, <1>11, <3>1 DEF Ring
    <3>3. Live(LastSlot) => \A i \in 2 .. n : Earlier(info, q[i], LastSlot)
      BY <1>2, <1>7, <1>11 DEF Ring
    <3>4. ~Live(LastSlot) => ~Earlier(info, s, LastSlot)
      <4> HAVE ~Live(LastSlot)
      <4>1. REQUEST_INFO[LastSlot].cmd = READ /\ REQUEST_INFO[s].cmd \in {READ, WRITE}
        BY <1>2 DEF QueueInv, Waiting, Requests
      <4>2. REQUEST_INFO[LastSlot].dev = -1 /\ REQUEST_INFO[s].dev = Hd
        BY <1>2 DEF Live, Requests, Hd
      <4>3. ~Earlier(REQUEST_INFO, s, LastSlot)
        BY <4>1, <4>2 DEF Earlier, IN_ORDER, READ, WRITE, Hd
      <4> QED
        BY <1>2, <1>11, <4>3
    <3>5. /\ \A i \in 2 .. n : Earlier(info, r[i], r[i + 1])
          /\ (\A i \in 2 .. n : Earlier(info, q[i], LastSlot)) =>
                \A i \in 2 .. n + 1 : Earlier(info, r[i], LastSlot)
      <4>1. info[q[n]].next = LastSlot
        BY <1>10 DEF Ring
      <4> QED
        BY <1>5, <1>10, <2>2, <3>2, <3>3, <3>4, <4>1, RingGrows DEF r
    <3>6. \A i \in 2 .. m - 1 : Earlier(REQUEST_INFO', r[i], r[i + 1])
      <4> TAKE i \in 2 .. m - 1
      <4> DEFINE j == i + 1
      <4>1. i \in 2 .. n /\ i \in 1 .. m /\ j \in 1 .. m
        BY <1>7
      <4>2. Earlier(info, r[i], r[j])
        BY <3>5, <4>1
      <4>3. r[i] \in Slots /\ r[j] \in Slots
        BY <2>6, <4>1
      <4> QED
        BY <1>11, <4>2, <4>3
    <3>7. Live(LastSlot)' => \A i \in 2 .. m : Earlier(REQUEST_INFO', r[i], LastSlot)
      <4>1. \A i \in 2 .. m : i \in 1 .. m
        BY <1>7
      <4> QED
        BY <1>2, <1>11, <2>6, <3>3, <3>5, <4>1
    <3>8. REQUEST_INFO'[r[m]].next = LastSlot
      BY <1>10, <2>3 DEF Ring
    <3> QED
      BY <1>12, <3>6, <3>7, <3>8 DEF Ring
  <2> HIDE DEF m
  <2> QED
    BY <1>4, <1>6, <2>3, <2>5, <2>8, <2>9 DEF QueueShape
<1> QED
  BY <1>6, <1>12, <1>13, <1>14 DEF QueueInv

\* addRequest: the first request, the last slot again, or any other.
LEMMA AddQueue ==
  ASSUME Inv, QueueInv, OneBlockEach, NEW p \in Clients, Add(p)
  PROVE  QueueInv'
  BY AddFirst, AddHead, AddOther

\* Commands to the drive leave the queue alone.
LEMMA SameQueue ==
  ASSUME Inv, QueueInv, UNCHANGED requestVars
  PROVE  QueueInv'
<1>1. UNCHANGED <<REQUEST_INFO, current_request, b_lock, b_dirt, b_uptodate, call>>
  BY DEF requestVars
<1>2. \A x : Live(x)' = Live(x)
  BY <1>1 DEF Live
<1>3. /\ Owners => Owners'
      /\ Unread => Unread'
      /\ OnlyFirst => OnlyFirst'
  BY <1>1, <1>2 DEF Owners, Unread, OnlyFirst
<1>4. \A q \in Clients : call'[q].at = "found" /\ call'[q].rw = READ /\ ~Live(LastSlot) =>
        call'[q].req = LastSlot
  BY <1>1 DEF QueueInv, Waiting
<1> QED
  BY <1>1, <1>3, <1>4, SameTable

\* badRwIntr counts an error or ends the request.
LEMMA FailsQueue ==
  ASSUME Inv, QueueInv, OneBlockEach, ~Preemptible, NEW f, Fails(f)
  PROVE  QueueAlways'
<1> DEFINE errors == current.errors + 1
           info == [REQUEST_INFO EXCEPT ![current_request].errors = errors]
<1>1. /\ NotBetween /\ drive.busy /\ REQUEST_INFO \in [Slots -> Requests]
  BY DEF Inv, TypeOK, Fails, Interrupt
<1>2. /\ current_request = LastSlot /\ LastSlot \in Slots /\ current_request # Nil
      /\ Live(LastSlot) /\ current \in Requests /\ current.errors < MAX_ERRORS
  BY <1>1, Served DEF Inv, FirstIsRead
<1>3. errors \in 0 .. MAX_ERRORS
  BY <1>2, DiskSizes DEF Requests
<1>4. /\ info \in [Slots -> Requests]
      /\ \A x \in Slots \ {LastSlot} : info[x] = REQUEST_INFO[x]
      /\ info[LastSlot].dev = REQUEST_INFO[LastSlot].dev
      /\ info[LastSlot].cmd = REQUEST_INFO[LastSlot].cmd
      /\ info[LastSlot].bh = REQUEST_INFO[LastSlot].bh
      /\ info[LastSlot].next = REQUEST_INFO[LastSlot].next
      /\ info[LastSlot].sector = REQUEST_INFO[LastSlot].sector
  BY <1>1, <1>2, <1>3 DEF Requests
<1>5. \/ endRequest(info, FALSE)
      \/ /\ REQUEST_INFO' = info /\ driver' = "request"
         /\ UNCHANGED <<current_request, b_lock, b_dirt, b_uptodate, call>>
  BY DEF Fails, badRwIntr
<1> HIDE DEF info
<1>6. CASE endRequest(info, FALSE)
  BY <1>2, <1>4, <1>6, EndQueue DEF QueueAlways
<1>7. CASE /\ REQUEST_INFO' = info /\ driver' = "request"
           /\ UNCHANGED <<current_request, b_lock, b_dirt, b_uptodate, call>>
  BY <1>2, <1>4, <1>7, ProgressQueue DEF QueueAlways
<1> QED
  BY <1>5, <1>6, <1>7

\* readIntr counts a sector or ends the request.
LEMMA ReadQueue ==
  ASSUME Inv, QueueInv, OneBlockEach, ~Preemptible, readIntr
  PROVE  QueueAlways'
<1> DEFINE c == current
           r == OneRead(c)
           info == [REQUEST_INFO EXCEPT ![current_request] = r]
<1>1. /\ NotBetween /\ drive.busy /\ REQUEST_INFO \in [Slots -> Requests]
  BY DEF Inv, TypeOK, readIntr, Interrupt
<1>2. /\ current_request = LastSlot /\ LastSlot \in Slots /\ current_request # Nil
      /\ Live(LastSlot) /\ c \in Requests /\ c.bh \in Bufs
      /\ c.buffer = c.sector - 2 * BlockOf[c.bh]
      /\ c.buffer + c.nr_sectors = 2 /\ c.nr_sectors >= 1 /\ c = REQUEST_INFO[LastSlot]
  BY <1>1, Served DEF Inv, FirstIsRead, current
<1>3. /\ c.nr_sectors \in {1, 2} /\ c.buffer = 2 - c.nr_sectors /\ c.sector \in Nat
      /\ c.buffer \in {0, 1} /\ BlockOf[c.bh] \in Nat /\ c.sector = 2 * BlockOf[c.bh] + c.buffer
  <2>1. c.nr_sectors \in 0 .. 2 /\ c.buffer \in 0 .. 2 /\ c.sector \in Nat
    BY <1>2 DEF Requests
  <2>2. BlockOf[c.bh] \in Nat
    BY <1>2, DiskSizes
  <2> HIDE DEF c
  <2> QED
    BY <1>2, <2>1, <2>2
<1>4. /\ r.dev = c.dev /\ r.cmd = c.cmd /\ r.sector = c.sector + 1
      /\ r.nr_sectors = c.nr_sectors - 1 /\ r.bh = c.bh /\ r \in Requests
  BY <1>2, <1>3, ReadOnce
<1>5. r.next = c.next
  BY <1>2 DEF OneRead, Requests
<1>6. \/ /\ REQUEST_INFO' = info /\ r.nr_sectors > 0
         /\ UNCHANGED <<current_request, b_lock, b_dirt, b_uptodate, call, driver>>
      \/ endRequest(info, TRUE)
  <2>1. info[current_request] = r /\ info = [REQUEST_INFO EXCEPT ![current_request] = OneRead(@)]
    BY <1>1, <1>2
  <2>2. IF info[current_request].nr_sectors > 0
          THEN /\ REQUEST_INFO' = info
               /\ UNCHANGED <<current_request, b_lock, b_dirt, b_uptodate, call, driver>>
          ELSE endRequest(info, TRUE)
    BY <2>1 DEF readIntr
  <2> HIDE DEF info, r
  <2> QED
    BY <2>1, <2>2
<1> HIDE DEF r
<1>7. /\ info \in [Slots -> Requests] /\ info[LastSlot] = r
      /\ \A x \in Slots \ {LastSlot} : info[x] = REQUEST_INFO[x]
  BY <1>1, <1>2, <1>4
<1> HIDE DEF info
<1>8. ASSUME REQUEST_INFO' = info, r.nr_sectors > 0,
             UNCHANGED <<current_request, b_lock, b_dirt, b_uptodate, call>>
      PROVE  QueueInv'
  <2>1. c.nr_sectors = 2
    BY <1>3, <1>4, <1>8
  <2>2. c.sector - 2 * BlockOf[c.bh] \in {0, 1}
    BY <1>2, <1>3
  <2> HIDE DEF c
  <2> QED
    BY <1>2, <1>4, <1>5, <1>7, <1>8, <2>2, ProgressQueue
<1>9. ASSUME endRequest(info, TRUE)
      PROVE  driver' = "ending" /\ EndedQueue'
  <2>1. c.sector - 2 * BlockOf[c.bh] \in {0, 1}
    BY <1>2, <1>3
  <2>2. /\ r.dev = REQUEST_INFO[LastSlot].dev /\ r.cmd = REQUEST_INFO[LastSlot].cmd
        /\ r.bh = REQUEST_INFO[LastSlot].bh /\ r.next = REQUEST_INFO[LastSlot].next
        /\ r.sector = REQUEST_INFO[LastSlot].sector + 1
        /\ REQUEST_INFO[LastSlot].sector - 2 * BlockOf[REQUEST_INFO[LastSlot].bh] \in {0, 1}
    BY <1>2, <1>4, <1>5, <2>1
  <2> HIDE DEF c
  <2> QED
    BY <1>2, <1>7, <1>9, <2>2, EndQueue
<1>10. driver # "ending"
  BY DEF Inv, Commanded
<1> QED
  BY <1>6, <1>8, <1>9, <1>10 DEF QueueAlways

\* Every step of the calls, the driver and the drive keeps the shape of the queue,
\* or begins to end the first request.
LEMMA QueueNext ==
  ASSUME Inv, QueueInv, OneBlockEach, ~Preemptible, [Next]_vars
  PROVE  QueueAlways'
<1> USE DEF QueueAlways
<1>6. driver # "ending" /\ (UNCHANGED driver \/ driver' = "request" => driver' # "ending")
  BY DEF Inv, Commanded
<1>1. ASSUME NEW p \in Clients, Call(p) \/ GoOn(p) PROVE QueueAlways'
  <2>1. CASE Call(p)
    BY <1>6, <2>1, CallQueue DEF Call, driverVars
  <2>2. CASE /\ Woken(p) \/ Search(p) \/ NoSlot(p) \/ Resumed(p) \/ Fill(p)
             /\ UNCHANGED <<driverVars, calls>>
    BY <1>6, <2>2, CallQueue, SearchQueue, NoSlotQueue, ResumedQueue, FillQueue DEF driverVars
  <2>3. CASE AddToQueue(p)
    BY <1>6, <2>3, AddQueue DEF AddToQueue
  <2>4. CASE Return(p)
    BY <1>6, <2>4, ReturnQueue DEF Return, driverVars
  <2> QED
    BY <1>1, <2>1, <2>2, <2>3, <2>4 DEF GoOn
<1>2. ASSUME NEW b \in Bufs, Modify(b), UNCHANGED driverVars PROVE QueueAlways'
  BY <1>2, <1>6, ModifyQueue DEF driverVars
<1>3. CASE harddiskRequest
  <2>1. CASE Refuse
    <3>1. endRequest(REQUEST_INFO, FALSE) /\ current_request # Nil
      BY <2>1 DEF Refuse, Inv, Commanded
    <3> QED
      BY <3>1, EndQueue DEF Inv, TypeOK
  <2>2. CASE resetHd \/ Recalibrate \/ Read
    <3>1. UNCHANGED requestVars /\ driver' = "idle"
      BY <2>2 DEF resetHd, Recalibrate, Read
    <3> QED
      BY <3>1, SameQueue
  <2>3. ~GiveUp
    BY DEF Inv, Commanded, GiveUp, GiveUpSlot
  <2> QED
    BY <1>3, <2>1, <2>2, <2>3 DEF harddiskRequest
<1>4. CASE DeviceInterrupt
  <2>1. recalIntr \/ CallsNull => UNCHANGED requestVars /\ driver' # "ending"
    BY DEF recalIntr, CallsNull
  <2> QED
    BY <1>4, <2>1, SameQueue, FailsQueue, ReadQueue DEF DeviceInterrupt
<1>5. CASE UNCHANGED vars
  BY <1>5, <1>6, SameQueue DEF vars, driverVars
<1> QED
  BY <1>1, <1>2, <1>3, <1>4, <1>5 DEF Next

\* A stuttering step leaves the queue as it is.
LEMMA EndedStays ==
  ASSUME EndedQueue, UNCHANGED vars
  PROVE  EndedQueue'
<1>1. UNCHANGED <<REQUEST_INFO, current_request, b_lock, b_dirt, b_uptodate, call>>
  BY DEF vars, requestVars
<1>2. \A x : Live(x)' = Live(x)
  BY <1>1 DEF Live
<1>3. Waiting'
  BY <1>1, <1>2 DEF EndedQueue, Waiting
<1>4. PICK q, n : /\ Path(REQUEST_INFO, q, n) /\ Linked(q, n)
                  /\ EndingFirst(q, n) \/ Refilled(q, n) \/ Ring(q, n)
  BY DEF EndedQueue
<1>5. OnlyFirst => OnlyFirst'
  BY <1>1, <1>2 DEF OnlyFirst
<1>6. HeadAdded' <=> HeadAdded
  BY <1>1 DEF HeadAdded
<1>7. /\ EndingFirst(q, n) => EndingFirst(q, n)'
      /\ Refilled(q, n) => Refilled(q, n)'
      /\ Ring(q, n) => Ring(q, n)'
  BY <1>1, <1>2, <1>5, <1>6 DEF EndingFirst, Refilled, Ring
<1>8. Linked(q, n)' /\ Path(REQUEST_INFO', q, n)
  BY <1>1, <1>2, <1>4 DEF Linked, Path
<1> QED
  BY <1>3, <1>4, <1>7, <1>8 DEF EndedQueue

\* In each of its shapes the queue has at most one turn.
LEMMA ShapesSweep ==
  ASSUME DiskInv, QueueAlways
  PROVE  QueueSweepsOnce
<1> DEFINE c == Chain(REQUEST_INFO)
           Turns == {i \in 1 .. Len(c) - 1 : Earlier(REQUEST_INFO, c[i + 1], c[i])}
<1>1. \A i, j \in Turns : i = j
  <2>1. CASE current_request = Nil
    <3>1. c = <<>>
      BY <2>1 DEF Chain
    <3> QED
      BY <3>1
  <2>2. CASE current_request # Nil
    <3>1. PICK q, n : /\ Path(REQUEST_INFO, q, n)
                      /\ Sweeps(REQUEST_INFO, q, n) \/ Refilled(q, n) \/ Ring(q, n)
      BY <2>2 DEF QueueAlways, QueueInv, QueueShape, FirstQueue, EndedQueue, EndingFirst
    <3>2. /\ current_request = LastSlot /\ REQUEST_INFO \in [Slots -> Requests]
          /\ n \in Nat /\ n >= 1 /\ \A i \in 1 .. n : q[i] \in Slots
      BY <2>2, <3>1 DEF DiskInv, Inv, Ended, FirstIsRead, TypeOK, Path
    <3>3. PICK m \in 1 .. n : c = [i \in 1 .. m |-> q[i]]
      BY <3>1, <3>2, ChainIsPath
    <3> HIDE DEF c
    <3>4. Len(c) = m /\ \A i \in 1 .. m : c[i] = q[i]
      BY <3>2, <3>3
    <3>5. \A i \in Turns : i \in 1 .. n - 1 /\ Earlier(REQUEST_INFO, q[i + 1], q[i])
      <4> TAKE i \in Turns
      <4> DEFINE j == i + 1
      <4>1. i \in 1 .. m /\ j \in 1 .. m /\ i \in 1 .. n - 1 /\ Earlier(REQUEST_INFO, c[j], c[i])
        BY <3>2, <3>4
      <4> QED
        BY <3>4, <4>1
    <3>6. CASE Sweeps(REQUEST_INFO, q, n)
      BY <3>5, <3>6 DEF Sweeps
    <3>7. CASE Refilled(q, n)
      BY <3>5, <3>7 DEF Refilled
    <3>8. CASE Ring(q, n)
      <4> SUFFICES \A i \in Turns : i = 1
        OBVIOUS
      <4> SUFFICES ASSUME NEW i \in Turns, i # 1 PROVE FALSE
        OBVIOUS
      <4> DEFINE j == i + 1
      <4>1. i \in 2 .. n - 1 /\ i \in 1 .. n /\ j \in 1 .. n
        BY <3>2, <3>5
      <4>2. Earlier(REQUEST_INFO, q[i], q[j])
        BY <3>8, <4>1 DEF Ring
      <4>3. Earlier(REQUEST_INFO, q[j], q[i])
        BY <3>5
      <4> QED
        BY <3>2, <4>1, <4>2, <4>3, EarlierOrders
    <3> QED
      BY <3>1, <3>6, <3>7, <3>8
  <2> QED
    BY <2>1, <2>2
<1>2. QueueSweepsOnce <=> Cardinality(Turns) <= 1
  BY DEF QueueSweepsOnce, Earlier
<1> HIDE DEF Turns
<1>3. CASE Turns = {}
  BY <1>2, <1>3, FS_EmptySet
<1>4. CASE Turns # {}
  <2>1. PICK i : Turns = {i}
    BY <1>1, <1>4
  <2>2. Cardinality({i}) = 1
    BY FS_Singleton, Zenon
  <2>3. Cardinality(Turns) = 1
    BY <2>1, <2>2
  <2> QED
    BY <1>2, <2>3
<1> QED
  BY <1>3, <1>4

\* Wherever addRequest puts the requests, and however the first of them gets on,
\* the order goes down at most once along the queue, as long as nobody comes
\* between search and claim.  getblk gives no block two buffers.
THEOREM QueueIsASweep ==
  ~Preemptible /\ OneBlockEach /\ Spec => []QueueSweepsOnce
<1> SUFFICES ASSUME ~Preemptible, OneBlockEach PROVE Spec => []QueueSweepsOnce
  OBVIOUS
<1> DEFINE I == DiskInv /\ QueueAlways
<1>1. Init => I
  BY InitInv, InitQueue DEF DiskInv, QueueAlways, Init
<1>2. ASSUME I, [Next]_vars PROVE I'
  <2>1. DiskInv'
    BY <1>2, NextInv
  <2>2. CASE Inv
    BY <1>2, <2>1, <2>2, QueueNext DEF Inv, Commanded, QueueAlways
  <2>3. CASE Ended
    <3>1. EndedQueue
      BY <1>2, <2>3 DEF Ended, QueueAlways
    <3>2. CASE Next
      <4>1. GiveUp
        BY <2>3, <3>2, OnlyGivesUp
      <4>2. driver' = "request"
        BY <4>1 DEF GiveUp, GiveUpSlot
      <4> QED
        BY <2>1, <2>3, <3>1, <4>1, <4>2, GiveUpQueue DEF QueueAlways
    <3>3. CASE UNCHANGED vars
      <4>1. driver' = driver
        BY <3>3 DEF vars, driverVars
      <4> QED
        BY <2>1, <2>3, <3>1, <3>3, <4>1, EndedStays DEF Ended, QueueAlways
    <3> QED
      BY <1>2, <3>2, <3>3
  <2> QED
    BY <1>2, <2>2, <2>3 DEF DiskInv
<1>3. I => QueueSweepsOnce
  BY ShapesSweep
<1> QED
  BY <1>1, <1>2, <1>3, PTL DEF Spec
=============================================================================
