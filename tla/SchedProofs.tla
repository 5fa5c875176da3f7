---------------------------- MODULE SchedProofs ----------------------------
(***************************************************************************)
(* Theorems about Sched for every number of tasks, buffers and clients.    *)
(*                                                                         *)
(* The first invariant (types, pids, buffer locks) holds whatever the      *)
(* clock does.  The second one, Quiet, is what makes CURRENT name the      *)
(* running task; it needs that no tick hits the clock handler itself.      *)
(***************************************************************************)
EXTENDS Sched, SequenceTheorems, WellFoundedInduction, TLAPS

Inv == TypeOK /\ PidsUnique /\ HoldersExclusive

\* The task may run: it is the idle task or it is runnable with slice left.
Good(t) == t = 0 \/ (counter[t] > 0 /\ state[t] = "RUNNING")

\* What each phase of schedule() knows when nothing interrupts it.
PhaseOK ==
  /\ InKernel /\ Top.at = "pick" => CURRENT = run
  /\ InKernel /\ Top.at = "swap" => CURRENT = run /\ Good(Top.next)
  /\ InKernel /\ Top.at = "jump" => /\ CURRENT = Top.next
                                    /\ CURRENT # run
                                    /\ Good(CURRENT)
  /\ InKernel /\ Top.at = "ret"  => CURRENT = run /\ Good(run)
  /\ InUser                      => CURRENT = run /\ Good(run)

\* Suspended tasks wait behind the jump; slices are never negative.
Quiet ==
  /\ ~fault
  /\ \A t \in Slots : stack[t] # <<>> => Tail(stack[t]) = <<>>
  /\ \A t \in Slots \ {run} : stack[t] # <<>> => Head(stack[t]).at = "ret"
  /\ \A t \in Slots \ {0} : counter[t] >= 0
  /\ PhaseOK

QuietInv == ~TickInSchedule => Quiet

---------------------------------------------------------------------------
(* The choice of schedule().                                               *)

\* Slot 0 exists and NULL is no slot.
LEMMA SlotFacts == 0 \in Slots /\ Nil \notin Slots /\ Slots \subseteq Nat
  BY SchedAssumption DEF Slots

\* A non-empty set of naturals has a least member.
LEMMA LeastNatural ==
  ASSUME NEW S, S \subseteq Nat, S # {}
  PROVE  \E m \in S : \A n \in S : m <= n
<1>1. PICK m \in S : \A n \in S : ~(<<n, m>> \in OpToRel(<, Nat))
  BY NatLessThanWellFounded, WFMin
<1>2. \A n \in S : ~(n < m)
  BY <1>1 DEF OpToRel
<1> QED
  BY <1>2

\* Among the eligible tasks schedule() chooses one with the largest counter.
LEMMA ChosenEligible ==
  ASSUME TypeOK, NEW cnt \in [Slots -> -1 .. Priority], Eligible(cnt) # {}
  PROVE  /\ Chosen(cnt) \in Eligible(cnt)
         /\ \A j \in Eligible(cnt) : cnt[j] <= cnt[Chosen(cnt)]
<1> DEFINE E == Eligible(cnt)
           Gaps == {Priority - cnt[i] : i \in E}
<1>1. E \subseteq Slots /\ E \subseteq Nat
  BY SlotFacts DEF Eligible, TypeOK
<1>2. Gaps \subseteq Nat /\ Gaps # {}
  BY <1>1, SchedAssumption
<1>3. PICK g \in Gaps : \A h \in Gaps : g <= h
  BY <1>2, LeastNatural
<1>4. PICK k \in E : g = Priority - cnt[k]
  BY <1>3
<1>5. \A j \in E : cnt[j] <= cnt[k]
  <2>1. TAKE j \in E
  <2>2. Priority - cnt[j] \in Gaps /\ Priority - cnt[k] <= Priority - cnt[j]
    BY <1>3, <1>4
  <2>3. Priority \in Int /\ cnt[j] \in Int /\ cnt[k] \in Int
    BY <1>1, SchedAssumption
  <2> QED
    BY <2>2, <2>3
<1> DEFINE B == {i \in E : cnt[i] = cnt[k]}
<1>6. PICK b \in B : \A j \in B : b <= j
  <2>1. B \subseteq Nat /\ B # {}
    BY <1>1, <1>4
  <2> QED
    BY <2>1, LeastNatural
<1>7. \A j \in E : cnt[j] < cnt[b] \/ (cnt[j] = cnt[b] /\ b <= j)
  BY <1>1, <1>5, <1>6
<1>8. /\ Chosen(cnt) \in E
      /\ \A j \in E : \/ cnt[j] < cnt[Chosen(cnt)]
                      \/ cnt[j] = cnt[Chosen(cnt)] /\ Chosen(cnt) <= j
  BY <1>6, <1>7 DEF Chosen
<1> QED
  BY <1>1, <1>8

\* The idle task is chosen exactly when nothing is eligible.
LEMMA ChosenTask ==
  ASSUME TypeOK, NEW cnt \in [Slots -> -1 .. Priority]
  PROVE  /\ Chosen(cnt) \in tasks
         /\ Chosen(cnt) = 0 <=> Eligible(cnt) = {}
<1>1. CASE Eligible(cnt) = {}
  BY <1>1 DEF Chosen, TypeOK
<1>2. CASE Eligible(cnt) # {}
  BY <1>2, ChosenEligible DEF Eligible
<1> QED
  BY <1>1, <1>2

\* The counters stay in their range.
LEMMA SliceType ==
  ASSUME TypeOK
  PROVE  SliceCounters \in [Slots -> -1 .. Priority]
  BY SchedAssumption, SMTT(60) DEF SliceCounters, Refilled, TypeOK

---------------------------------------------------------------------------
(* Stacks of frames.                                                       *)

\* Pushing a frame, replacing or dropping the innermost one.
LEMMA StackOps ==
  ASSUME NEW F, NEW s \in Seq(F), NEW f \in F
  PROVE  /\ <<f>> \o s \in Seq(F)
         /\ <<f>> \o s # <<>> /\ Head(<<f>> \o s) = f /\ Tail(<<f>> \o s) = s
         /\ s # <<>> => Head(s) \in F /\ Tail(s) \in Seq(F)
  OBVIOUS

\* A larger task table keeps the types of the frames.
LEMMA FramesMonotone ==
  ASSUME NEW T, NEW U, T \subseteq U, NEW s \in Seq(Frames(T))
  PROVE  s \in Seq(Frames(U))
<1>1. Frames(T) \subseteq Frames(U)
  BY DEF Frames
<1> QED
  BY <1>1, SeqMonotonic

\* A call of schedule() is a frame.
LEMMA CallType ==
  ASSUME NEW T, 0 \in T,
         NEW op \in {"timer", "pause", "tail", "tail2", "lock", "wait"},
         NEW buf \in Bufs \cup {Nil}, NEW tmp \in T \cup {Nil},
         op \in {"lock", "wait"} => buf \in Bufs
  PROVE  /\ Call(op, buf, tmp) \in Frames(T)
         /\ Call(op, buf, tmp).at = "pick"
         /\ Call(op, buf, tmp).op = op
  BY DEF Call, Frames

\* Inside the kernel the innermost frame of `run' has a type, and replacing it
\* or dropping it keeps the type of all stacks.
LEMMA TopType ==
  ASSUME TypeOK, InKernel
  PROVE  /\ Top \in Frames(tasks)
         /\ Tail(stack[run]) \in Seq(Frames(tasks))
         /\ Pop \in [Slots -> Seq(Frames(tasks))]
         /\ \A f \in Frames(tasks) : Put(f) \in [Slots -> Seq(Frames(tasks))]
<1>1. run \in Slots /\ stack[run] \in Seq(Frames(tasks)) /\ stack[run] # <<>>
  BY DEF TypeOK, InKernel
<1>2. Top \in Frames(tasks) /\ Tail(stack[run]) \in Seq(Frames(tasks))
  BY <1>1, StackOps DEF Top
<1>3. Pop \in [Slots -> Seq(Frames(tasks))]
  BY <1>2 DEF Pop, TypeOK
<1>4. ASSUME NEW f \in Frames(tasks)
      PROVE  Put(f) \in [Slots -> Seq(Frames(tasks))]
  <2>1. <<f>> \o Tail(stack[run]) \in Seq(Frames(tasks))
    BY <1>2, StackOps
  <2> QED
    BY <2>1 DEF Put, TypeOK
<1> QED
  BY <1>2, <1>3, <1>4

\* Pushing a call on the stack of `run'.
LEMMA PushType ==
  ASSUME TypeOK, NEW f \in Frames(tasks)
  PROVE  Push(f) \in [Slots -> Seq(Frames(tasks))]
<1>1. stack[run] \in Seq(Frames(tasks))
  BY DEF TypeOK
<1>2. <<f>> \o stack[run] \in Seq(Frames(tasks))
  BY <1>1, StackOps
<1> QED
  BY <1>2 DEF Push, TypeOK

---------------------------------------------------------------------------
(* TypeOK, PidsUnique and HoldersExclusive are an inductive invariant.     *)

\* The five actions that only move the innermost frame along.
LEMMA FrameSteps ==
  ASSUME TypeOK, Pick \/ Swap \/ Jump \/ TimerReturn \/ SyscallTail
  PROVE  TypeOK'
<1> USE SlotFacts
<1>1. CASE Pick
  <2> DEFINE f == [Top EXCEPT !.at = "swap", !.next = Chosen(SliceCounters)]
  <2>1. Chosen(SliceCounters) \in tasks
    BY SliceType, ChosenTask
  <2>2. f \in Frames(tasks)
    BY <1>1, <2>1, TopType DEF Frames, Pick
  <2>3. stack' \in [Slots -> Seq(Frames(tasks))]
    BY <1>1, <2>2, TopType DEF Pick
  <2>4. state' \in [Slots -> TaskStates]
    BY <1>1 DEF Pick, TypeOK, TaskStates
  <2> QED
    BY <1>1, <2>3, <2>4, SliceType DEF Pick, TypeOK, procVars, lockVars
<1>2. CASE Swap
  <2>1. Top \in Frames(tasks)
    BY <1>2, TopType DEF Swap
  <2>2. \A a \in {"ret", "jump"} : [Top EXCEPT !.at = a] \in Frames(tasks)
    BY <2>1 DEF Frames
  <2>3. stack' \in [Slots -> Seq(Frames(tasks))]
    BY <1>2, <2>2, TopType DEF Swap
  <2>4. CURRENT' \in tasks
    BY <1>2, <2>1 DEF Swap, Frames
  <2> QED
    BY <1>2, <2>3, <2>4 DEF Swap, TypeOK, procVars, lockVars
<1>3. CASE Jump
  <2>1. Top \in Frames(tasks) /\ [Top EXCEPT !.at = "ret"] \in Frames(tasks)
    BY <1>3, TopType DEF Jump, Frames
  <2>2. stack' \in [Slots -> Seq(Frames(tasks))]
    <3>1. Put([Top EXCEPT !.at = "ret"]) \in [Slots -> Seq(Frames(tasks))]
      BY <1>3, <2>1, TopType DEF Jump
    <3>2. stack' = stack \/ stack' = Put([Top EXCEPT !.at = "ret"])
      BY <1>3 DEF Jump
    <3> QED
      BY <3>1, <3>2 DEF TypeOK
  <2>3. run' \in tasks
    BY <1>3, <2>1 DEF Jump, Frames, TypeOK
  <2>4. fault' \in BOOLEAN
    BY <1>3 DEF Jump, TypeOK
  <2> QED
    BY <1>3, <2>2, <2>3, <2>4 DEF Jump, TypeOK, procVars, lockVars
<1>4. CASE TimerReturn
  BY <1>4, TopType DEF TimerReturn, TypeOK, procVars, lockVars
<1>5. CASE SyscallTail
  <2>1. Call("tail", Nil, Nil) \in Frames(tasks) /\ Call("tail2", Nil, Nil) \in Frames(tasks)
    BY CallType, ZenonT(60) DEF TypeOK
  <2>2. stack' \in [Slots -> Seq(Frames(tasks))]
    BY <1>5, <2>1, TopType DEF SyscallTail
  <2> QED
    BY <1>5, <2>2 DEF SyscallTail, TypeOK, procVars, lockVars
<1> QED
  BY <1>1, <1>2, <1>3, <1>4, <1>5

\* sleepOn up to its call of schedule().
LEMMA SleepType ==
  ASSUME TypeOK, NEW op \in {"lock", "wait"}, NEW b \in Bufs,
         NEW head \in tasks \cup {Nil}, NEW frames \in Seq(Frames(tasks)),
         NEW st \in [Slots -> TaskStates], Sleep(op, b, head, frames, st)
  PROVE  /\ b_wait' \in [Bufs -> tasks \cup {Nil}]
         /\ state' \in [Slots -> TaskStates]
         /\ stack' \in [Slots -> Seq(Frames(tasks))]
<1>1. Call(op, b, head) \in Frames(tasks)
  BY CallType, SMTT(60) DEF TypeOK
<1>2. <<Call(op, b, head)>> \o frames \in Seq(Frames(tasks))
  BY <1>1, StackOps
<1> QED
  BY <1>2 DEF Sleep, TypeOK, TaskStates

\* Taking the lock adds the running task to the holders.
LEMMA AcquireType ==
  ASSUME TypeOK, NEW op \in {"lock", "wait"}, NEW b \in Bufs
  PROVE  Acquire(op, b) \in [Bufs -> SUBSET Slots]
BY DEF Acquire, TypeOK

\* The lock actions.
LEMMA LockSteps ==
  ASSUME TypeOK, LockBuffer \/ WaitOnBuffer \/ SleepReturn \/ SomeUnlock
  PROVE  TypeOK'
<1>1. ASSUME NEW op \in {"lock", "wait"}, NEW b \in Bufs, Enter(op, b)
      PROVE  TypeOK'
  <2>1. CASE b_lock(b)
    <3>1. b_wait[b] \in tasks \cup {Nil} /\ <<>> \in Seq(Frames(tasks))
      BY DEF TypeOK
    <3>2. Sleep(op, b, b_wait[b], <<>>, state) /\ holders' = holders
      BY <1>1, <2>1 DEF Enter
    <3>3. /\ b_wait' \in [Bufs -> tasks \cup {Nil}]
          /\ state' \in [Slots -> TaskStates]
          /\ stack' \in [Slots -> Seq(Frames(tasks))]
      BY <3>1, <3>2, SleepType DEF TypeOK
    <3> QED
      BY <1>1, <3>2, <3>3 DEF Enter, TypeOK, procVars
  <2>2. CASE ~b_lock(b)
    BY <1>1, <2>2, AcquireType, SMTT(60) DEF Enter, TypeOK, procVars
  <2> QED
    BY <2>1, <2>2
<1>2. CASE SleepReturn
  <2> DEFINE st == AfterSleep(Top.tmp)
  <2>1. /\ Top.op \in {"lock", "wait"} /\ Top \in Frames(tasks)
        /\ Tail(stack[run]) \in Seq(Frames(tasks))
    BY <1>2, TopType DEF SleepReturn
  <2>2. Top.tmp \in tasks \cup {Nil} /\ Top.buf \in Bufs
    BY <2>1 DEF Frames
  <2>3. st \in [Slots -> TaskStates]
    BY <2>2 DEF AfterSleep, TypeOK, TaskStates
  <2>4. CASE b_lock(Top.buf)
    <3>1. /\ b_wait' \in [Bufs -> tasks \cup {Nil}]
          /\ state' \in [Slots -> TaskStates]
          /\ stack' \in [Slots -> Seq(Frames(tasks))]
      BY <1>2, <2>1, <2>2, <2>3, <2>4, SleepType DEF SleepReturn
    <3> QED
      BY <1>2, <2>4, <3>1 DEF SleepReturn, TypeOK, procVars
  <2>5. CASE ~b_lock(Top.buf)
    <3>1. /\ b_wait' = [b_wait EXCEPT ![Top.buf] = Top.tmp]
          /\ state' = st /\ stack' = Pop
          /\ holders' = Acquire(Top.op, Top.buf)
      BY <1>2, <2>5 DEF SleepReturn
    <3>2. /\ b_wait' \in [Bufs -> tasks \cup {Nil}]
          /\ holders' \in [Bufs -> SUBSET Slots]
          /\ stack' \in [Slots -> Seq(Frames(tasks))]
      <4>1. InKernel
        BY <1>2 DEF SleepReturn
      <4> QED
        BY <2>1, <2>2, <3>1, <4>1, TopType, AcquireType DEF TypeOK
    <3> QED
      BY <1>2, <2>3, <3>1, <3>2 DEF SleepReturn, TypeOK, procVars
  <2> QED
    BY <2>4, <2>5
<1>3. ASSUME NEW b \in Bufs, UnlockBuffer(b)
      PROVE  TypeOK'
  BY <1>3 DEF UnlockBuffer, TypeOK, procVars, TaskStates
<1> QED
  BY <1>1, <1>2, <1>3 DEF LockBuffer, WaitOnBuffer, SomeUnlock

\* The clock, signals and pause.
LEMMA InterruptSteps ==
  ASSUME TypeOK, Tick \/ (\E t \in Slots : PostSignal(t)) \/ SysPause
  PROVE  TypeOK'
<1>1. CASE Tick
  <2>1. Call("timer", Nil, Nil) \in Frames(tasks)
    BY CallType, ZenonT(60) DEF TypeOK
  <2>2. stack' \in [Slots -> Seq(Frames(tasks))]
    BY <1>1, <2>1, PushType DEF Tick, TypeOK
  <2>3. counter' \in [Slots -> -1 .. Priority]
    BY <1>1, SchedAssumption, SMTT(60) DEF Tick, Decremented, TypeOK
  <2> QED
    BY <1>1, <2>2, <2>3 DEF Tick, TypeOK, procVars, lockVars
<1>2. ASSUME NEW t \in Slots, PostSignal(t)
      PROVE  TypeOK'
  BY <1>2 DEF PostSignal, TypeOK, procVars, lockVars
<1>3. CASE SysPause
  <2>1. Call("pause", Nil, Nil) \in Frames(tasks)
    BY CallType, ZenonT(60) DEF TypeOK
  <2>2. stack' \in [Slots -> Seq(Frames(tasks))]
    BY <1>3, <2>1, PushType DEF SysPause
  <2> QED
    BY <1>3, <2>2 DEF SysPause, TypeOK, procVars, lockVars, TaskStates
<1> QED
  BY <1>1, <1>2, <1>3

\* findEmptyProcess finds a pid that no task has: last_pid + 1 is one.
LEMMA NewPidFresh ==
  ASSUME TypeOK, PidsUnique
  PROVE  /\ NewPid \in Nat /\ NewPid > last_pid
         /\ \A i \in tasks : pid[i] # NewPid
<1> DEFINE P(n) == /\ \A i \in tasks : pid[i] # n
                   /\ \A m \in last_pid + 1 .. n - 1 : \E i \in tasks : pid[i] = m
<1>1. \A i \in tasks : pid[i] \in Nat /\ pid[i] <= last_pid
  BY DEF TypeOK, PidsUnique
<1>2. last_pid \in Nat /\ NR_TASKS \in Nat
  BY SchedAssumption DEF TypeOK
<1>3. last_pid + 1 \in last_pid + 1 .. last_pid + 1 + NR_TASKS
  BY <1>2
<1>4. P(last_pid + 1)
  BY <1>1, <1>2
<1>5. NewPid \in last_pid + 1 .. last_pid + 1 + NR_TASKS /\ P(NewPid)
  BY <1>3, <1>4 DEF NewPid
<1> QED
  BY <1>2, <1>5

\* The slot of a child was empty.
LEMMA FreeSlotFree ==
  ASSUME TypeOK, tasks # Slots
  PROVE  FreeSlot \in Slots \ tasks
<1>1. Slots \ tasks \subseteq Nat /\ Slots \ tasks # {}
  BY SlotFacts DEF TypeOK
<1>2. \E i \in Slots \ tasks : \A j \in Slots \ tasks : i <= j
  BY <1>1, LeastNatural
<1> QED
  BY <1>2 DEF FreeSlot

\* fork.
LEMMA ForkStep ==
  ASSUME Inv, SysFork
  PROVE  Inv'
<1>1. /\ NewPid \in Nat /\ NewPid > last_pid
      /\ \A i \in tasks : pid[i] # NewPid
  BY NewPidFresh DEF Inv
<1>2. /\ last_pid' = NewPid
      /\ UNCHANGED <<signalled, CURRENT, run, b_wait, holders, fault>>
  BY DEF SysFork, lockVars
<1>3. CASE UNCHANGED <<tasks, pid, state, counter, stack>>
  BY <1>1, <1>2, <1>3, SMTT(60) DEF Inv, TypeOK, PidsUnique, HoldersExclusive
<1>4. CASE /\ tasks # Slots
           /\ tasks' = tasks \cup {FreeSlot}
           /\ pid' = [pid EXCEPT ![FreeSlot] = NewPid]
           /\ state' = [state EXCEPT ![FreeSlot] = "RUNNING"]
           /\ counter' = [counter EXCEPT ![FreeSlot] = Priority]
           /\ stack' = [stack EXCEPT ![FreeSlot] = <<>>]
  <2>1. FreeSlot \in Slots \ tasks
    BY <1>4, FreeSlotFree DEF Inv
  <2>2. stack' \in [Slots -> Seq(Frames(tasks'))]
    <3>1. \A t \in Slots : stack[t] \in Seq(Frames(tasks'))
      BY <1>4, FramesMonotone DEF Inv, TypeOK
    <3>2. <<>> \in Seq(Frames(tasks'))
      OBVIOUS
    <3> QED
      BY <1>4, <3>1, <3>2 DEF Inv, TypeOK
  <2>3. counter' \in [Slots -> -1 .. Priority]
    <3>1. Priority \in -1 .. Priority
      BY SchedAssumption
    <3>2. counter \in [Slots -> -1 .. Priority]
      BY DEF Inv, TypeOK
    <3> QED
      BY <1>4, <3>1, <3>2
  <2>4. state' \in [Slots -> TaskStates] /\ pid' \in [Slots -> Nat]
    BY <1>1, <1>4 DEF Inv, TypeOK, TaskStates
  <2>5. TypeOK'
    BY <1>1, <1>2, <1>4, <2>1, <2>2, <2>3, <2>4 DEF Inv, TypeOK
  <2>6. PidsUnique'
    <3>1. /\ \A i \in tasks : pid'[i] = pid[i] /\ pid[i] \in Nat /\ pid[i] <= last_pid
          /\ pid'[FreeSlot] = NewPid /\ last_pid \in Nat
      BY <1>4, <2>1 DEF Inv, TypeOK, PidsUnique
    <3>2. \A i \in tasks' : pid'[i] <= last_pid'
      BY <1>1, <1>2, <1>4, <3>1
    <3>3. \A i, j \in tasks' : pid'[i] = pid'[j] => i = j
      <4>1. \A i, j \in tasks : pid[i] = pid[j] => i = j
        BY DEF Inv, PidsUnique
      <4> QED
        BY <1>1, <1>4, <3>1, <4>1
    <3> QED
      BY <3>2, <3>3 DEF PidsUnique
  <2> QED
    BY <1>2, <2>5, <2>6 DEF Inv, HoldersExclusive
<1> QED
  BY <1>3, <1>4 DEF SysFork

\* Only a free lock is taken, and by the running task alone.
LEMMA AcquireExclusive ==
  ASSUME TypeOK, HoldersExclusive, NEW b \in Bufs, ~b_lock(b),
         NEW op, holders' = Acquire(op, b)
  PROVE  HoldersExclusive'
BY DEF Acquire, HoldersExclusive, TypeOK, b_lock

\* All other steps: the table of pids is not touched, a lock only when free.
LEMMA OtherSteps ==
  ASSUME Inv, TypeOK',
         Kernel \/ Tick \/ SomeUnlock \/ (\E t \in Slots : PostSignal(t))
           \/ SysPause \/ LockBuffer \/ WaitOnBuffer
  PROVE  Inv'
<1>1. UNCHANGED procVars
  BY DEF Kernel, Pick, Swap, Jump, TimerReturn, SyscallTail, SleepReturn, Tick,
         SomeUnlock, UnlockBuffer, PostSignal, SysPause, LockBuffer, WaitOnBuffer, Enter
<1>2. PidsUnique'
  BY <1>1 DEF Inv, PidsUnique, procVars
<1>3. CASE holders' = holders
  BY <1>2, <1>3 DEF Inv, HoldersExclusive
<1>4. CASE LockBuffer \/ WaitOnBuffer
  <2>1. PICK op \in {"lock", "wait"}, b \in Bufs : Enter(op, b)
    BY <1>4 DEF LockBuffer, WaitOnBuffer
  <2>2. holders' = holders \/ (~b_lock(b) /\ holders' = Acquire(op, b))
    BY <2>1 DEF Enter
  <2> QED
    BY <1>2, <1>3, <2>2, AcquireExclusive DEF Inv
<1>5. CASE SleepReturn
  <2>1. Top.buf \in Bufs
    BY <1>5, TopType DEF SleepReturn, Frames, Inv
  <2>2. \/ holders' = holders
        \/ ~b_lock(Top.buf) /\ holders' = Acquire(Top.op, Top.buf)
    BY <1>5 DEF SleepReturn
  <2> QED
    BY <1>2, <1>3, <2>1, <2>2, AcquireExclusive DEF Inv
<1>6. CASE SomeUnlock
  BY <1>2, <1>6, ZenonT(60) DEF Inv, HoldersExclusive, SomeUnlock, UnlockBuffer, TypeOK
<1>7. CASE Pick \/ Swap \/ Jump \/ TimerReturn \/ SyscallTail \/ Tick
             \/ (\E t \in Slots : PostSignal(t)) \/ SysPause
  <2>1. holders' = holders
    BY <1>7 DEF Pick, Swap, Jump, TimerReturn, SyscallTail, Tick, PostSignal,
                SysPause, lockVars
  <2> QED
    BY <1>3, <2>1
<1> QED
  BY <1>4, <1>5, <1>6, <1>7 DEF Kernel

\* The state of the machine after initSchedule.
LEMMA InitInv == Init => Inv
  BY SlotFacts, SchedAssumption
  DEF Init, Inv, TypeOK, PidsUnique, HoldersExclusive, TaskStates

\* Every step keeps the invariant.
LEMMA NextInv == Inv /\ [Next]_vars => Inv'
<1> SUFFICES ASSUME Inv, [Next]_vars PROVE Inv'
  OBVIOUS
<1>1. CASE Pick \/ Swap \/ Jump \/ TimerReturn \/ SyscallTail
  BY <1>1, FrameSteps, OtherSteps DEF Kernel, Inv
<1>2. CASE LockBuffer \/ WaitOnBuffer \/ SleepReturn \/ SomeUnlock
  BY <1>2, LockSteps, OtherSteps DEF Kernel, Inv
<1>3. CASE Tick \/ (\E t \in Slots : PostSignal(t)) \/ SysPause
  BY <1>3, InterruptSteps, OtherSteps DEF Inv
<1>4. CASE SysFork
  BY <1>4, ForkStep
<1>5. CASE UNCHANGED vars
  BY <1>5 DEF vars, Inv, TypeOK, PidsUnique, HoldersExclusive
<1> QED
  BY <1>1, <1>2, <1>3, <1>4, <1>5 DEF Next

\* The types, the uniqueness of pids and the exclusion of the buffer lock hold
\* in every reachable state, nested clock handlers included.
THEOREM SchedInvariant == Spec => []Inv
  BY InitInv, NextInv, PTL DEF Spec

\* Types, stated alone.
THEOREM SchedType == Spec => []TypeOK
  BY SchedInvariant, PTL DEF Inv

\* findEmptyProcess never gives two tasks the same pid.
THEOREM PidsAreUnique == Spec => []PidsUnique
  BY SchedInvariant, PTL DEF Inv

\* lockBuffer excludes: however the sleepers are woken, one of them holds it.
THEOREM LockExcludes == Spec => []HoldersExclusive
  BY SchedInvariant, PTL DEF Inv

---------------------------------------------------------------------------
(* CURRENT names the running task while no tick hits the clock handler.    *)

\* What schedule() chose is worth running: idle, or runnable with slice left.
LEMMA ChosenGood ==
  ASSUME TypeOK
  PROVE  LET c == Chosen(SliceCounters)
         IN  c = 0 \/ (SliceCounters[c] > 0 /\ state[c] = "RUNNING")
<1> DEFINE sc == SliceCounters
           E == Eligible(sc)
<1>1. sc \in [Slots -> -1 .. Priority]
  BY SliceType
<1>2. CASE E = {}
  BY <1>1, <1>2, ChosenTask
<1>3. CASE E # {}
  <2>1. Chosen(sc) \in E /\ \A j \in E : sc[j] <= sc[Chosen(sc)]
    BY <1>1, <1>3, ChosenEligible
  <2>2. \E j \in E : sc[j] > 0
    <3>1. CASE Spent
      <4>1. \A i \in tasks \ {0} : sc[i] = Priority
        BY <3>1 DEF SliceCounters, Refilled, TypeOK
      <4> QED
        BY <2>1, <4>1, SchedAssumption DEF Eligible
    <3>2. CASE ~Spent
      <4>1. sc = counter
        BY <3>2 DEF SliceCounters
      <4>2. PICK j \in E : counter[j] # 0
        BY <1>3, <3>2, <4>1 DEF Spent
      <4>3. counter[j] > -1 /\ counter[j] \in -1 .. Priority
        BY <4>1, <4>2 DEF Eligible, TypeOK
      <4> QED
        BY <4>1, <4>2, <4>3
    <3> QED
      BY <3>1, <3>2
  <2>3. \A j \in E : sc[j] \in Int
    BY <1>1 DEF Eligible, TypeOK
  <2> QED
    BY <2>1, <2>2, <2>3 DEF Eligible
<1> QED
  BY <1>2, <1>3

\* schedule() falls back to task 0 only when no other task is runnable.
LEMMA IdleChoice ==
  ASSUME TypeOK, Quiet, Chosen(SliceCounters) = 0, NEW t \in tasks \ {0}
  PROVE  state[t] # "RUNNING"
<1>1. Eligible(SliceCounters) = {}
  BY SliceType, ChosenTask
<1>2. SliceCounters[t] > -1
  <2>1. t \in Slots /\ counter[t] \in -1 .. Priority /\ counter[t] >= 0
    BY DEF Quiet, TypeOK
  <2> QED
    BY <2>1, SchedAssumption DEF SliceCounters, Refilled
<1> QED
  BY <1>1, <1>2 DEF Eligible

\* One frame on a stack.
LEMMA OneFrame ==
  ASSUME NEW F, NEW f \in F
  PROVE  /\ <<f>> # <<>> /\ Head(<<f>>) = f /\ Tail(<<f>>) = <<>>
         /\ <<f>> \o <<>> = <<f>>
  OBVIOUS

\* Replacing the only frame of `run'.
LEMMA AfterPut ==
  ASSUME TypeOK, Quiet, InKernel, NEW f \in Frames(tasks), stack' = Put(f)
  PROVE  /\ stack'[run] # <<>> /\ Head(stack'[run]) = f /\ Tail(stack'[run]) = <<>>
         /\ \A t \in Slots \ {run} : stack'[t] = stack[t]
<1>1. run \in Slots /\ Tail(stack[run]) = <<>>
  BY DEF TypeOK, Quiet, InKernel
<1>2. stack'[run] = <<f>> \o <<>>
  BY <1>1 DEF Put, TypeOK
<1>3. \A t \in Slots \ {run} : stack'[t] = stack[t]
  BY <1>1 DEF Put, TypeOK
<1> QED
  BY <1>2, <1>3, OneFrame

\* Quiet, from its parts, for a step that stays on the running task.
LEMMA QuietSame ==
  ASSUME TypeOK, Quiet, ~fault', run' = run,
         \A t \in Slots \ {run} : stack'[t] # <<>> => stack'[t] = stack[t],
         stack'[run] # <<>> => Tail(stack'[run]) = <<>>,
         \A t \in Slots \ {0} : counter'[t] >= 0,
         PhaseOK'
  PROVE  Quiet'
  BY DEF Quiet

\* The phases of schedule().
LEMMA QuietPick ==
  ASSUME TypeOK, Quiet, Pick
  PROVE  Quiet'
<1> DEFINE c == Chosen(SliceCounters)
           f == [Top EXCEPT !.at = "swap", !.next = c]
<1>1. InKernel /\ Top \in Frames(tasks) /\ c \in tasks
  BY TopType, SliceType, ChosenTask DEF Pick
<1>2. f \in Frames(tasks) /\ f.at = "swap" /\ f.next = c
  BY <1>1 DEF Frames
<1>3. stack' = Put(f)
  BY DEF Pick
<1>4. /\ stack'[run] # <<>> /\ Head(stack'[run]) = f /\ Tail(stack'[run]) = <<>>
      /\ \A t \in Slots \ {run} : stack'[t] = stack[t]
  BY <1>1, <1>2, <1>3, AfterPut
<1>5. /\ run' = run /\ CURRENT' = CURRENT /\ fault' = fault
      /\ counter' = SliceCounters
      /\ \A i \in tasks : state'[i] = state[i]
  BY DEF Pick, Signalled, TypeOK
<1>6. CURRENT = run /\ ~fault
  BY DEF PhaseOK, Quiet, Pick
<1>7. c = 0 \/ (counter'[c] > 0 /\ state'[c] = "RUNNING")
  BY <1>1, <1>5, ChosenGood
<1>8. \A t \in Slots \ {0} : counter'[t] >= 0
  BY <1>5, SchedAssumption DEF Quiet, TypeOK, SliceCounters, Refilled
<1>9. PhaseOK'
  BY <1>2, <1>4, <1>5, <1>6, <1>7 DEF PhaseOK, Good, InUser, InKernel, Top
<1> QED
  BY <1>4, <1>5, <1>6, <1>8, <1>9, QuietSame

\* SWITCH_TO exchanges CURRENT, and jumps unless the task runs already.
LEMMA QuietSwap ==
  ASSUME TypeOK, Quiet, Swap
  PROVE  Quiet'
<1> DEFINE a == IF Top.next = CURRENT THEN "ret" ELSE "jump"
           f == [Top EXCEPT !.at = a]
<1>1. InKernel /\ Top \in Frames(tasks)
  BY TopType DEF Swap
<1>2. f \in Frames(tasks) /\ f.at = a /\ f.next = Top.next
  BY <1>1 DEF Frames
<1>3. stack' = Put(f)
  BY DEF Swap
<1>4. /\ stack'[run] # <<>> /\ Head(stack'[run]) = f /\ Tail(stack'[run]) = <<>>
      /\ \A t \in Slots \ {run} : stack'[t] = stack[t]
  BY <1>1, <1>2, <1>3, AfterPut
<1>5. CURRENT' = Top.next /\ UNCHANGED <<run, fault, counter, state>>
  BY DEF Swap
<1>6. CURRENT = run /\ Good(Top.next) /\ ~fault
  BY DEF PhaseOK, Quiet, Swap
<1>7. InKernel' /\ ~InUser' /\ Top' = f
  BY <1>4, <1>5, <1>6 DEF InUser, InKernel, Top
<1>8. PhaseOK'
  <2>1. CASE Top.next = CURRENT
    <3>1. f.at = "ret" /\ CURRENT' = run' /\ Good(run)'
      BY <1>2, <1>5, <1>6, <2>1 DEF Good
    <3> QED
      BY <1>7, <3>1 DEF PhaseOK
  <2>2. CASE Top.next # CURRENT
    <3>1. f.at = "jump" /\ CURRENT' = f.next /\ CURRENT' # run' /\ Good(CURRENT)'
      BY <1>2, <1>5, <1>6, <2>2 DEF Good
    <3> QED
      BY <1>7, <3>1 DEF PhaseOK
  <2> QED
    BY <2>1, <2>2
<1>9. \A t \in Slots \ {0} : counter'[t] >= 0
  BY <1>5 DEF Quiet
<1> QED
  BY <1>4, <1>5, <1>6, <1>8, <1>9, QuietSame

\* The jump goes to a task that is not running: its own frames are at rest.
LEMMA QuietJump ==
  ASSUME TypeOK, Quiet, Jump
  PROVE  Quiet'
<1> DEFINE f == [Top EXCEPT !.at = "ret"]
<1>1. InKernel /\ Top \in Frames(tasks) /\ run \in Slots
  BY TopType DEF Jump, TypeOK
<1>2. CURRENT = Top.next /\ CURRENT # run /\ Good(CURRENT) /\ ~fault /\ CURRENT \in Slots
  BY DEF PhaseOK, Quiet, Jump, TypeOK
<1>3. f \in Frames(tasks) /\ f.at = "ret"
  BY <1>1 DEF Frames
<1>4. run' = CURRENT /\ stack' = Put(f) /\ UNCHANGED <<counter, state, CURRENT, fault>>
  BY <1>2 DEF Jump
<1>5. /\ stack'[run] # <<>> /\ Head(stack'[run]) = f /\ Tail(stack'[run]) = <<>>
      /\ \A t \in Slots \ {run} : stack'[t] = stack[t]
  BY <1>1, <1>3, <1>4, AfterPut
<1>6. stack[CURRENT] # <<>> => Head(stack[CURRENT]).at = "ret"
  BY <1>2 DEF Quiet
<1>7. PhaseOK'
  BY <1>2, <1>4, <1>5, <1>6 DEF PhaseOK, Good, InUser, InKernel, Top
<1>8. \A t \in Slots : stack'[t] # <<>> => Tail(stack'[t]) = <<>>
  BY <1>5 DEF Quiet
<1>9. \A t \in Slots \ {run'} : stack'[t] # <<>> => Head(stack'[t]).at = "ret"
  BY <1>3, <1>4, <1>5 DEF Quiet
<1> QED
  BY <1>2, <1>4, <1>7, <1>8, <1>9 DEF Quiet

\* A call of schedule() that is not made by sleepOn.
LEMMA PlainCall ==
  ASSUME TypeOK, NEW op \in {"timer", "pause", "tail", "tail2"}
  PROVE  Call(op, Nil, Nil) \in Frames(tasks) /\ Call(op, Nil, Nil).at = "pick"
<1>1. 0 \in tasks /\ op \notin {"lock", "wait"}
  BY DEF TypeOK
<1> QED
  BY <1>1, CallType

\* Returning from schedule().
LEMMA QuietReturn ==
  ASSUME TypeOK, Quiet, TimerReturn \/ SyscallTail
  PROVE  Quiet'
<1>1. /\ InKernel /\ run \in Slots /\ CURRENT = run /\ Good(run) /\ ~fault
      /\ Tail(stack[run]) = <<>>
  BY DEF TypeOK, PhaseOK, Quiet, TimerReturn, SyscallTail, InKernel
<1>2. UNCHANGED <<state, counter, CURRENT, run, fault>>
  BY DEF TimerReturn, SyscallTail
<1>3. \A t \in Slots \ {0} : counter'[t] >= 0
  BY <1>2 DEF Quiet
<1>4. CASE stack' = Pop
  <2>1. stack'[run] = <<>> /\ \A t \in Slots \ {run} : stack'[t] = stack[t]
    BY <1>1, <1>4 DEF Pop, TypeOK
  <2>2. PhaseOK'
    BY <1>1, <1>2, <2>1 DEF PhaseOK, Good, InUser, InKernel
  <2> QED
    BY <1>1, <1>2, <1>3, <2>1, <2>2, QuietSame
<1>5. ASSUME NEW op \in {"tail", "tail2"}, stack' = Put(Call(op, Nil, Nil))
      PROVE  Quiet'
  <2> DEFINE f == Call(op, Nil, Nil)
  <2>1. f \in Frames(tasks) /\ f.at = "pick"
    BY PlainCall
  <2>2. /\ stack'[run] # <<>> /\ Head(stack'[run]) = f /\ Tail(stack'[run]) = <<>>
        /\ \A t \in Slots \ {run} : stack'[t] = stack[t]
    BY <1>1, <1>5, <2>1, AfterPut
  <2>3. PhaseOK'
    BY <1>1, <1>2, <2>1, <2>2 DEF PhaseOK, InUser, InKernel, Top
  <2> QED
    BY <1>1, <1>2, <1>3, <2>2, <2>3, QuietSame
<1> QED
  BY <1>4, <1>5 DEF TimerReturn, SyscallTail

\* A call of schedule() by a task that was in user code.
LEMMA QuietPush ==
  ASSUME TypeOK, Quiet, InUser, NEW f \in Frames(tasks), f.at = "pick",
         stack' = [stack EXCEPT ![run] = <<f>> \o <<>>],
         \A t \in Slots \ {0} : counter'[t] >= 0,
         UNCHANGED <<CURRENT, run, fault>>
  PROVE  Quiet'
<1>1. CURRENT = run /\ run \in Slots /\ ~fault
  BY DEF PhaseOK, Quiet, TypeOK
<1>2. stack'[run] = <<f>> /\ \A t \in Slots \ {run} : stack'[t] = stack[t]
  BY <1>1, OneFrame DEF TypeOK
<1>3. /\ stack'[run] # <<>> /\ Head(stack'[run]) = f /\ Tail(stack'[run]) = <<>>
  BY <1>2, OneFrame
<1>4. PhaseOK'
  BY <1>1, <1>3 DEF PhaseOK, InUser, InKernel, Top
<1> QED
  BY <1>1, <1>2, <1>3, <1>4, QuietSame

\* The clock: the running task has slice left, so it does not drop below zero.
LEMMA QuietTick ==
  ASSUME TypeOK, Quiet, ~TickInSchedule, Tick
  PROVE  Quiet'
<1>1. /\ InUser /\ CURRENT = run /\ run \in Slots /\ Good(run) /\ ~fault
      /\ stack[run] = <<>>
  BY DEF Tick, IntEnabled, InUser, InKernel, PhaseOK, Quiet, TypeOK
<1>2. /\ UNCHANGED <<state, CURRENT, run, fault>>
      /\ counter' = [counter EXCEPT ![CURRENT] = Decremented(@)]
  BY DEF Tick
<1>3. \A t \in Slots \ {0} : counter'[t] >= 0
  <2>1. \A t \in Slots \ {run} : counter'[t] = counter[t]
    BY <1>1, <1>2 DEF TypeOK
  <2>2. run # 0 => counter[run] \in -1 .. Priority /\ counter[run] > 0
    BY <1>1 DEF Good, TypeOK
  <2>3. run # 0 => counter'[run] >= 0
    BY <1>1, <1>2, <2>2 DEF Decremented, TypeOK
  <2> QED
    BY <1>1, <2>1, <2>3 DEF Quiet
<1>4. CASE counter'[CURRENT] > 0
  <2>1. stack' = stack
    BY <1>4 DEF Tick
  <2>2. PhaseOK'
    BY <1>1, <1>2, <1>4, <2>1 DEF PhaseOK, Good, InUser, InKernel
  <2> QED
    BY <1>1, <1>2, <1>3, <2>1, <2>2, QuietSame
<1>5. CASE ~(counter'[CURRENT] > 0)
  <2>1. stack' = [stack EXCEPT ![run] = <<Call("timer", Nil, Nil)>> \o <<>>]
    BY <1>1, <1>5 DEF Tick, Push
  <2>2. Call("timer", Nil, Nil) \in Frames(tasks) /\ Call("timer", Nil, Nil).at = "pick"
    BY PlainCall
  <2> QED
    BY <1>1, <1>2, <1>3, <2>1, <2>2, QuietPush
<1> QED
  BY <1>4, <1>5

\* pause, and the lock actions that make the task sleep.
LEMMA QuietPause ==
  ASSUME TypeOK, Quiet, SysPause
  PROVE  Quiet'
<1>1. /\ InUser /\ stack[run] = <<>> /\ UNCHANGED <<counter, CURRENT, run, fault>>
      /\ stack' = Push(Call("pause", Nil, Nil))
  BY DEF SysPause, InUser
<1>2. Call("pause", Nil, Nil) \in Frames(tasks) /\ Call("pause", Nil, Nil).at = "pick"
  BY PlainCall
<1>3. \A t \in Slots \ {0} : counter'[t] >= 0
  BY <1>1 DEF Quiet
<1> QED
  BY <1>1, <1>2, <1>3, QuietPush DEF Push

\* lockBuffer and waitOnBuffer from user code: take the lock or fall asleep.
LEMMA QuietEnter ==
  ASSUME TypeOK, Quiet, NEW op \in {"lock", "wait"}, NEW b \in Bufs, Enter(op, b)
  PROVE  Quiet'
<1>1. InUser /\ stack[run] = <<>> /\ UNCHANGED <<counter, CURRENT, run, fault>>
  BY DEF Enter, InUser
<1>2. \A t \in Slots \ {0} : counter'[t] >= 0
  BY <1>1 DEF Quiet
<1>3. CASE b_lock(b)
  <2> DEFINE f == Call(op, b, b_wait[b])
  <2>1. stack' = [stack EXCEPT ![run] = <<f>> \o <<>>]
    BY <1>3 DEF Enter, Sleep
  <2>2. f \in Frames(tasks) /\ f.at = "pick"
    BY CallType, SMTT(60) DEF TypeOK
  <2> QED
    BY <1>1, <1>2, <2>1, <2>2, QuietPush
<1>4. CASE ~b_lock(b)
  <2>1. UNCHANGED <<state, stack>>
    BY <1>4 DEF Enter
  <2>2. PhaseOK' /\ ~fault'
    BY <1>1, <2>1 DEF PhaseOK, Good, InUser, InKernel, Top, Quiet
  <2> QED
    BY <1>1, <1>2, <2>1, <2>2, QuietSame DEF Quiet
<1> QED
  BY <1>3, <1>4

\* The way out of sleepOn: waking the next sleeper makes no task less runnable.
LEMMA QuietSleepReturn ==
  ASSUME TypeOK, Quiet, SleepReturn
  PROVE  Quiet'
<1>1. /\ InKernel /\ run \in Slots /\ CURRENT = run /\ Good(run) /\ ~fault
      /\ Tail(stack[run]) = <<>> /\ CURRENT \in Slots
  BY DEF TypeOK, PhaseOK, Quiet, SleepReturn, InKernel
<1>2. /\ Top \in Frames(tasks) /\ Top.op \in {"lock", "wait"}
      /\ UNCHANGED <<counter, CURRENT, run, fault>>
  BY TopType DEF SleepReturn
<1>3. Top.buf \in Bufs /\ Top.tmp \in tasks \cup {Nil}
  BY <1>2 DEF Frames
<1>4. \A t \in Slots \ {0} : counter'[t] >= 0
  BY <1>2 DEF Quiet
<1>5. CASE b_lock(Top.buf)
  <2> DEFINE f == Call(Top.op, Top.buf, Top.tmp)
  <2>1. f \in Frames(tasks) /\ f.at = "pick"
    <3>1. 0 \in tasks
      BY DEF TypeOK
    <3> QED
      BY <1>2, <1>3, <3>1, CallType
  <2>2. stack' = Put(f)
    BY <1>5 DEF SleepReturn, Sleep, Put
  <2>3. /\ stack'[run] # <<>> /\ Head(stack'[run]) = f /\ Tail(stack'[run]) = <<>>
        /\ \A t \in Slots \ {run} : stack'[t] = stack[t]
    BY <1>1, <2>1, <2>2, AfterPut
  <2>4. PhaseOK'
    BY <1>1, <1>2, <2>1, <2>3 DEF PhaseOK, InUser, InKernel, Top
  <2> QED
    BY <1>1, <1>2, <1>4, <2>3, <2>4, QuietSame
<1>6. CASE ~b_lock(Top.buf)
  <2>1. stack' = Pop /\ state' = AfterSleep(Top.tmp)
    BY <1>6 DEF SleepReturn
  <2>2. stack'[run] = <<>> /\ \A t \in Slots \ {run} : stack'[t] = stack[t]
    BY <1>1, <2>1 DEF Pop, TypeOK
  <2>3. Good(run)'
    <3>1. state[run] = "RUNNING" => state'[run] = "RUNNING"
      BY <1>1, <2>1 DEF AfterSleep, TypeOK
    <3> QED
      BY <1>1, <1>2, <3>1 DEF Good
  <2>4. PhaseOK'
    BY <1>1, <1>2, <2>2, <2>3 DEF PhaseOK, Good, InUser, InKernel
  <2> QED
    BY <1>1, <1>2, <1>4, <2>2, <2>4, QuietSame
<1> QED
  BY <1>5, <1>6

\* Steps that may wake a task or post a signal and leave the stacks alone.
LEMMA QuietWake ==
  ASSUME TypeOK, Quiet, UNCHANGED <<counter, CURRENT, run, stack, fault>>,
         \A t \in Slots : state'[t] \in {state[t], "RUNNING"}
  PROVE  Quiet'
<1>1. \A t \in Slots : Good(t) => Good(t)'
  BY DEF Good
<1>2. InKernel /\ Top.at = "swap" => Top.next \in Slots
  BY TopType DEF Frames, TypeOK
<1>3. PhaseOK'
  BY <1>1, <1>2 DEF PhaseOK, Quiet, InUser, InKernel, Top, TypeOK
<1>4. ~fault'
  BY DEF Quiet
<1> QED
  BY <1>3, <1>4, QuietSame DEF Quiet

\* fork: the child starts in user code behind the jump of nobody.
LEMMA QuietFork ==
  ASSUME Inv, Quiet, SysFork
  PROVE  Quiet'
<1>1. /\ InUser /\ UNCHANGED <<CURRENT, run, fault>> /\ CURRENT = run
      /\ run \in tasks /\ Good(run) /\ ~fault /\ stack[run] = <<>>
  BY DEF SysFork, InUser, Inv, TypeOK, Quiet, PhaseOK
<1>2. CASE UNCHANGED <<tasks, pid, state, counter, stack>>
  BY <1>1, <1>2, QuietWake DEF Inv
<1>3. CASE /\ tasks # Slots
           /\ tasks' = tasks \cup {FreeSlot}
           /\ pid' = [pid EXCEPT ![FreeSlot] = NewPid]
           /\ state' = [state EXCEPT ![FreeSlot] = "RUNNING"]
           /\ counter' = [counter EXCEPT ![FreeSlot] = Priority]
           /\ stack' = [stack EXCEPT ![FreeSlot] = <<>>]
  <2>1. FreeSlot \in Slots /\ FreeSlot # run
    BY <1>1, <1>3, FreeSlotFree DEF Inv
  <2>2. /\ stack'[FreeSlot] = <<>> /\ counter'[FreeSlot] = Priority
        /\ \A t \in Slots \ {FreeSlot} : /\ stack'[t] = stack[t]
                                         /\ counter'[t] = counter[t]
                                         /\ state'[t] = state[t]
    BY <1>3, <2>1 DEF Inv, TypeOK
  <2>3. \A t \in Slots \ {0} : counter'[t] >= 0
    BY <2>2, SchedAssumption DEF Quiet
  <2>4. stack'[run] = <<>> /\ Good(run)'
    BY <1>1, <2>1, <2>2 DEF Good, Inv, TypeOK
  <2>5. PhaseOK'
    BY <1>1, <2>4 DEF PhaseOK, InUser, InKernel
  <2> QED
    BY <1>1, <2>1, <2>2, <2>3, <2>4, <2>5, QuietSame DEF Inv
<1> QED
  BY <1>2, <1>3 DEF SysFork

\* The strengthened invariant of the first state.
LEMMA InitQuiet == Init => QuietInv
  BY SlotFacts, SchedAssumption
  DEF Init, QuietInv, Quiet, PhaseOK, Good, InKernel, InUser

\* Every step keeps the strengthened invariant.
LEMMA NextQuiet == Inv /\ QuietInv /\ [Next]_vars => QuietInv'
<1> SUFFICES ASSUME Inv, Quiet, ~TickInSchedule, [Next]_vars PROVE Quiet'
  BY DEF QuietInv
<1>1. CASE Pick \/ Swap \/ Jump \/ TimerReturn \/ SyscallTail \/ SleepReturn
  BY <1>1, QuietPick, QuietSwap, QuietJump, QuietReturn, QuietSleepReturn DEF Inv
<1>2. CASE Tick \/ SysPause
  BY <1>2, QuietTick, QuietPause DEF Inv
<1>3. CASE LockBuffer \/ WaitOnBuffer
  BY <1>3, QuietEnter DEF LockBuffer, WaitOnBuffer, Inv
<1>4. CASE SomeUnlock \/ \E t \in Slots : PostSignal(t)
  <2>1. UNCHANGED <<counter, CURRENT, run, stack, fault>>
    BY <1>4 DEF SomeUnlock, UnlockBuffer, PostSignal
  <2>2. \A t \in Slots : state'[t] \in {state[t], "RUNNING"}
    BY <1>4 DEF SomeUnlock, UnlockBuffer, PostSignal, Inv, TypeOK
  <2> QED
    BY <2>1, <2>2, QuietWake DEF Inv
<1>5. CASE SysFork
  BY <1>5, QuietFork
<1>6. CASE UNCHANGED vars
  BY <1>6, QuietWake DEF vars, Inv, TypeOK
<1> QED
  BY <1>1, <1>2, <1>3, <1>4, <1>5, <1>6 DEF Next

\* Both invariants together.
THEOREM QuietInvariant == Spec => [](Inv /\ QuietInv)
<1>1. Init => Inv /\ QuietInv
  BY InitInv, InitQuiet
<1>2. Inv /\ QuietInv /\ [Next]_vars => (Inv /\ QuietInv)'
  BY NextInv, NextQuiet
<1> QED
  BY <1>1, <1>2, PTL DEF Spec

\* CURRENT is the running task outside the exchange and the jump, and no jump
\* goes to the busy TSS, as long as no tick hits the clock handler.
THEOREM CurrentIsRunning == Spec => [](~TickInSchedule => CurrentRuns)
<1>1. Inv /\ QuietInv => (~TickInSchedule => CurrentRuns)
  <2> SUFFICES ASSUME Inv, Quiet PROVE CurrentRuns
    BY DEF QuietInv
  <2>1. InKernel \/ InUser
    BY DEF Quiet, InKernel, InUser
  <2>2. InKernel => Top.at \in {"pick", "swap", "jump", "ret"}
    BY TopType DEF Inv, Frames
  <2>3. Switching <=> InKernel /\ Top.at = "jump"
    BY DEF Switching, InKernel, Quiet
  <2> QED
    BY <2>1, <2>2, <2>3 DEF CurrentRuns, Quiet, PhaseOK
<1> QED
  BY <1>1, QuietInvariant, PTL

\* A task other than 0 runs user code only when it is RUNNING, as long as no
\* tick hits the clock handler.
THEOREM SleepersAreOff == Spec => [](~TickInSchedule => SleepersStayOff)
<1>1. Inv /\ QuietInv => (~TickInSchedule => SleepersStayOff)
  BY DEF QuietInv, Quiet, PhaseOK, Good, SleepersStayOff
<1> QED
  BY <1>1, QuietInvariant, PTL

\* The idle task is chosen only when no other task is runnable, as long as no
\* tick hits the clock handler.
THEOREM IdleIsLast ==
  ASSUME ~TickInSchedule
  PROVE  Spec => IdleOnlyWhenNothingRuns
<1> DEFINE A == \A t \in Slots : Pick /\ Head(stack'[run]).next = 0 /\ t \in tasks \ {0}
                   => state[t] # "RUNNING"
<1>1. Inv /\ QuietInv /\ [Next]_vars => [A]_vars
  <2> SUFFICES ASSUME Inv, Quiet, NEW t \in Slots, Pick,
                      Head(stack'[run]).next = 0, t \in tasks \ {0}
               PROVE  state[t] # "RUNNING"
    BY DEF QuietInv
  <2> DEFINE c == Chosen(SliceCounters)
             f == [Top EXCEPT !.at = "swap", !.next = c]
  <2>1. InKernel /\ Top \in Frames(tasks) /\ c \in tasks
    BY TopType, SliceType, ChosenTask DEF Pick, Inv
  <2>2. f \in Frames(tasks) /\ f.next = c
    BY <2>1 DEF Frames
  <2>3. stack'[run] # <<>> /\ Head(stack'[run]) = f
    BY <2>1, <2>2, AfterPut DEF Pick, Inv
  <2>4. c = 0
    BY <2>2, <2>3
  <2> QED
    BY <2>4, IdleChoice DEF Inv
<1> QED
  BY <1>1, QuietInvariant, PTL DEF Spec, IdleOnlyWhenNothingRuns
===========================================================================
