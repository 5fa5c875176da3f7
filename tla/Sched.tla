------------------------------- MODULE Sched -------------------------------
(***************************************************************************)
(* The process table, the scheduler and the sleeping locks built on it:    *)
(* kernel/process.c, the clock tick of kernel/time.c, sysFork and sysPause *)
(* of kernel/syscall.asm, SWITCH_TO of kernel/krn.asm, the tail of sysCall *)
(* in kernel/int.asm, and lockBuffer, waitOnBuffer and unlockBuffer as the *)
(* callers of sleepOn and wakeUp.                                          *)
(*                                                                         *)
(* One processor.  A task runs user code (empty stack) or is inside kernel *)
(* code that called schedule(); schedule() is split where an interrupt can *)
(* separate its effects: choosing `next', exchanging CURRENT, the far jump *)
(* to the task's TSS, and the code after the jump when the task is resumed.*)
(* System calls enter through interrupt gates and run with interrupts off; *)
(* the clock handler executes sti first and so can be interrupted itself.  *)
(***************************************************************************)
EXTENDS Integers, Sequences

CONSTANTS NR_TASKS,        \* slots of TASKS[]
          Priority,        \* priority of task 0, inherited by every child
          Bufs,            \* buffers: each has b_lock and the queue b_wait
          Clients,         \* the tasks that use each buffer
          MaxPid,          \* bound: no fork once last_pid has reached it
          MaxNest,         \* bound: clock handlers nested on one stack
          TickInSchedule,  \* may a tick hit the clock handler itself?
          SignalTargets,   \* tasks to which a signal may be posted
          Nil              \* the NULL pointer

Slots == 0 .. NR_TASKS - 1

ASSUME SchedAssumption ==
  /\ NR_TASKS \in Nat \ {0}
  /\ Priority \in Nat \ {0}
  /\ Clients \in [Bufs -> SUBSET (Slots \ {0})]
  /\ MaxPid \in Nat
  /\ MaxNest \in Nat \ {0}
  /\ TickInSchedule \in BOOLEAN
  /\ SignalTargets \subseteq Slots \ {0}
  /\ Nil \notin Slots \cup Bufs

VARIABLES tasks,      \* the slots whose TASKS[] entry is not NULL
          pid,        \* TASKS[i]->pid
          state,      \* TASKS[i]->state
          counter,    \* TASKS[i]->counter
          signalled,  \* tasks with a pending signal that is not blocked
          last_pid,
          CURRENT,    \* the slot the variable CURRENT points to
          run,        \* the task whose TSS is loaded: what the CPU executes
          stack,      \* kernel frames of each task, innermost first
          b_wait,     \* head of each buffer's wait queue
          holders,    \* tasks that set b_lock and not yet saw it cleared
          fault       \* a jump to the busy TSS: general protection, jmp $

vars == <<tasks, pid, state, counter, signalled, last_pid, CURRENT, run,
          stack, b_wait, holders, fault>>
procVars == <<tasks, pid, last_pid>>
lockVars == <<b_wait, holders>>

\* TASK_ZOMBIE and TASK_STOPPED are given to no task.
TaskStates == {"RUNNING", "INTERRUPTIBLE", "UNINTERRUPTIBLE"}

\* A call of schedule(): who called it, how far it is, what it chose, and,
\* for a sleepOn, the queue and the local variable tmp.
Frames(T) ==
  {f \in [op   : {"timer", "pause", "tail", "tail2", "lock", "wait"},
          at   : {"pick", "swap", "jump", "ret"},
          next : T,
          buf  : Bufs \cup {Nil},
          tmp  : T \cup {Nil}] :
     f.op \in {"lock", "wait"} => f.buf \in Bufs}

Call(op, buf, tmp) ==
  [op |-> op, at |-> "pick", next |-> 0, buf |-> buf, tmp |-> tmp]

Init ==
  /\ tasks = {0}
  /\ pid = [i \in Slots |-> 0]
  /\ state = [i \in Slots |-> "RUNNING"]
  /\ counter = [i \in Slots |-> Priority]
  /\ signalled = {}
  /\ last_pid = 0
  /\ CURRENT = 0
  /\ run = 0
  /\ stack = [i \in Slots |-> <<>>]
  /\ b_wait = [b \in Bufs |-> Nil]
  /\ holders = [b \in Bufs |-> {}]
  /\ fault = FALSE

---------------------------------------------------------------------------
(* schedule(), one phase at a time, for the innermost frame of `run'.      *)

InKernel == ~fault /\ stack[run] # <<>>
InUser   == ~fault /\ stack[run] = <<>>
Top      == Head(stack[run])
Put(f)   == [stack EXCEPT ![run] = <<f>> \o Tail(@)]
Pop      == [stack EXCEPT ![run] = Tail(@)]
Push(f)  == [stack EXCEPT ![run] = <<f>> \o @]

\* The first loop tests !TASKS[i], so it only looks at the empty slots.
Signalled == {i \in Slots \ {0} : /\ i \notin tasks
                                  /\ i \in signalled
                                  /\ state[i] = "INTERRUPTIBLE"}

\* Mutant: tasks in any state take part in the choice.
EligibleAnyState(cnt) == {i \in tasks \ {0} : cnt[i] > -1}

\* Mutant: an empty slot is taken for a task.
EligibleEmptySlot(cnt) ==
  {i \in Slots \ {0} : state[i] = "RUNNING" /\ cnt[i] > -1}

\* Mutant: the search starts from c = 0.
EligiblePositive(cnt) ==
  {i \in tasks \ {0} : state[i] = "RUNNING" /\ cnt[i] > 0}

\* The second loop starts from c = -1: a negative counter is never chosen.
Eligible(cnt) ==
  {i \in tasks \ {0} : state[i] = "RUNNING" /\ cnt[i] > -1}

\* Mutant: the first runnable slot wins, whatever its slice.
ChosenLowestSlot(cnt) ==
  IF Eligible(cnt) = {} THEN 0
  ELSE CHOOSE i \in Eligible(cnt) : \A j \in Eligible(cnt) : i <= j

\* The strict comparison keeps the lowest slot among the largest counters.
Chosen(cnt) ==
  IF Eligible(cnt) = {} THEN 0
  ELSE CHOOSE i \in Eligible(cnt) :
         \A j \in Eligible(cnt) : \/ cnt[j] < cnt[i]
                                  \/ cnt[j] = cnt[i] /\ i <= j

\* c is 0 after the loop: every runnable task has used up its slice.
Spent == Eligible(counter) # {} /\ \A i \in Eligible(counter) : counter[i] = 0

Refilled == [i \in Slots |-> IF i \in tasks \ {0} THEN Priority ELSE counter[i]]

SliceCounters == IF Spent THEN Refilled ELSE counter

Pick ==
  /\ InKernel /\ Top.at = "pick"
  /\ state' = [i \in Slots |-> IF i \in Signalled THEN "RUNNING" ELSE state[i]]
  /\ counter' = SliceCounters
  /\ stack' = Put([Top EXCEPT !.at = "swap", !.next = Chosen(SliceCounters)])
  /\ UNCHANGED <<procVars, signalled, CURRENT, run, lockVars, fault>>

\* Mutant: SWITCH_TO forgets to exchange CURRENT.
SwapWithoutCurrent ==
  /\ InKernel /\ Top.at = "swap"
  /\ stack' = Put([Top EXCEPT !.at = IF Top.next = CURRENT THEN "ret" ELSE "jump"])
  /\ UNCHANGED <<procVars, state, counter, signalled, CURRENT, run, lockVars, fault>>

\* SWITCH_TO returns at once when the chosen task is CURRENT.
Swap ==
  /\ InKernel /\ Top.at = "swap"
  /\ CURRENT' = Top.next
  /\ stack' = Put([Top EXCEPT !.at = IF Top.next = CURRENT THEN "ret" ELSE "jump"])
  /\ UNCHANGED <<procVars, state, counter, signalled, run, lockVars, fault>>

\* The far jump saves the context in the TSS of `run' and loads the other;
\* the TSS of the running task is busy and a jump to it faults.
Jump ==
  /\ InKernel /\ Top.at = "jump"
  /\ IF Top.next = run
       THEN fault' = TRUE /\ UNCHANGED <<run, stack>>
       ELSE run' = Top.next /\ stack' = Put([Top EXCEPT !.at = "ret"])
            /\ fault' = fault
  /\ UNCHANGED <<procVars, state, counter, signalled, CURRENT, lockVars>>

TimerReturn ==
  /\ InKernel /\ Top.at = "ret" /\ Top.op = "timer"
  /\ stack' = Pop
  /\ UNCHANGED <<procVars, state, counter, signalled, CURRENT, run, lockVars, fault>>

\* After the system call sysCall calls schedule() again unless CURRENT is
\* RUNNING, and then once more or not: it tests [eax+COUNTER] after eax was
\* overwritten.
SyscallTail ==
  /\ InKernel /\ Top.at = "ret" /\ Top.op \in {"pause", "tail", "tail2"}
  /\ \/ /\ \/ Top.op = "pause" /\ state[CURRENT] = "RUNNING"
           \/ Top.op \in {"tail", "tail2"}
        /\ stack' = Pop
     \/ /\ Top.op = "pause" /\ state[CURRENT] # "RUNNING"
        /\ stack' = Put(Call("tail", Nil, Nil))
     \/ /\ Top.op = "tail"
        /\ stack' = Put(Call("tail2", Nil, Nil))
  /\ UNCHANGED <<procVars, state, counter, signalled, CURRENT, run, lockVars, fault>>

---------------------------------------------------------------------------
(* sleepOn, wakeUp and the buffer lock.                                    *)

b_lock(b) == holders[b] # {}

\* sleepOn up to its call of schedule(): b is the queue, head its first task.
Sleep(op, b, head, frames, st) ==
  /\ b_wait' = [b_wait EXCEPT ![b] = CURRENT]
  /\ state' = [st EXCEPT ![CURRENT] = "UNINTERRUPTIBLE"]
  /\ stack' = [stack EXCEPT ![run] = <<Call(op, b, head)>> \o frames]

Acquire(op, b) == IF op = "lock" THEN [holders EXCEPT ![b] = @ \cup {run}]
                                 ELSE holders

\* sleepOn after schedule(): restore the queue, wake the next sleeper.
AfterSleep(tmp) == IF tmp = Nil THEN state ELSE [state EXCEPT ![tmp] = "RUNNING"]

\* lockBuffer and waitOnBuffer: cli, while (b_lock) sleepOn(&b_wait), then
\* b_lock = 1 in lockBuffer, sti.
Enter(op, b) ==
  /\ InUser /\ run \in Clients[b]
  /\ IF b_lock(b)
       THEN Sleep(op, b, b_wait[b], <<>>, state) /\ UNCHANGED holders
       ELSE /\ holders' = Acquire(op, b)
            /\ UNCHANGED <<b_wait, state, stack>>
  /\ UNCHANGED <<procVars, counter, signalled, CURRENT, run, fault>>

LockBuffer   == \E b \in Bufs : Enter("lock", b)
WaitOnBuffer == \E b \in Bufs : b_lock(b) /\ Enter("wait", b)

\* Mutant: the lock is taken after the sleep without testing it again.
SleepReturnUnchecked ==
  /\ InKernel /\ Top.at = "ret" /\ Top.op \in {"lock", "wait"}
  /\ b_wait' = [b_wait EXCEPT ![Top.buf] = Top.tmp]
  /\ state' = AfterSleep(Top.tmp)
  /\ stack' = Pop
  /\ holders' = Acquire(Top.op, Top.buf)
  /\ UNCHANGED <<procVars, counter, signalled, CURRENT, run, fault>>

SleepReturn ==
  /\ InKernel /\ Top.at = "ret" /\ Top.op \in {"lock", "wait"}
  /\ LET b == Top.buf  st == AfterSleep(Top.tmp)
     IN  IF b_lock(b)
           THEN Sleep(Top.op, b, Top.tmp, Tail(stack[run]), st)
                /\ UNCHANGED holders
           ELSE /\ b_wait' = [b_wait EXCEPT ![b] = Top.tmp]
                /\ state' = st
                /\ stack' = Pop
                /\ holders' = Acquire(Top.op, b)
  /\ UNCHANGED <<procVars, counter, signalled, CURRENT, run, fault>>

---------------------------------------------------------------------------
(* Interrupts, signals and the other system calls.                         *)

IntEnabled == InUser \/ (InKernel /\ Top.op = "timer")

\* --CURRENT->counter; below zero only the sign is ever looked at.
Decremented(n) == IF n = -1 THEN -1 ELSE n - 1

Tick ==
  /\ IntEnabled
  /\ InKernel => TickInSchedule /\ Len(stack[run]) < MaxNest
  /\ counter' = [counter EXCEPT ![CURRENT] = Decremented(@)]
  /\ IF counter'[CURRENT] > 0
       THEN UNCHANGED stack
       ELSE stack' = Push(Call("timer", Nil, Nil))
  /\ UNCHANGED <<procVars, state, signalled, CURRENT, run, lockVars, fault>>

\* The disk interrupt ends a request: unlockBuffer clears b_lock, wakes b_wait.
UnlockBuffer(b) ==
  /\ IntEnabled /\ b_lock(b)
  /\ holders' = [holders EXCEPT ![b] = {}]
  /\ b_wait' = [b_wait EXCEPT ![b] = Nil]
  /\ state' = IF b_wait[b] = Nil THEN state
                                 ELSE [state EXCEPT ![b_wait[b]] = "RUNNING"]
  /\ UNCHANGED <<procVars, counter, signalled, CURRENT, run, stack, fault>>

\* Something posts a signal (the repository has no sender yet).
PostSignal(t) ==
  /\ IntEnabled /\ t \in tasks \cap SignalTargets
  /\ signalled' = signalled \cup {t}
  /\ UNCHANGED <<procVars, state, counter, CURRENT, run, stack, lockVars, fault>>

SysPause ==
  /\ InUser
  /\ state' = [state EXCEPT ![CURRENT] = "INTERRUPTIBLE"]
  /\ stack' = Push(Call("pause", Nil, Nil))
  /\ UNCHANGED <<procVars, counter, signalled, CURRENT, run, lockVars, fault>>

\* Mutant: the pid is last_pid as it stands, without the search.
PidWithoutSearch == IF last_pid = 0 THEN 1 ELSE last_pid

\* findEmptyProcess counts last_pid up past every pid in use.
NewPid == CHOOSE n \in last_pid + 1 .. last_pid + 1 + NR_TASKS :
            /\ \A i \in tasks : pid[i] # n
            /\ \A m \in last_pid + 1 .. n - 1 : \E i \in tasks : pid[i] = m

FreeSlot == CHOOSE i \in Slots \ tasks : \A j \in Slots \ tasks : i <= j

\* Without a slot, or when copyProcess finds no page, only last_pid changed.
SysFork ==
  /\ InUser /\ last_pid < MaxPid
  /\ last_pid' = NewPid
  /\ \/ /\ tasks # Slots
        /\ tasks' = tasks \cup {FreeSlot}
        /\ pid' = [pid EXCEPT ![FreeSlot] = NewPid]
        /\ state' = [state EXCEPT ![FreeSlot] = "RUNNING"]
        /\ counter' = [counter EXCEPT ![FreeSlot] = Priority]
        /\ stack' = [stack EXCEPT ![FreeSlot] = <<>>]
     \/ UNCHANGED <<tasks, pid, state, counter, stack>>
  /\ UNCHANGED <<signalled, CURRENT, run, lockVars, fault>>

SomeUnlock == \E b \in Bufs : UnlockBuffer(b)

Next ==
  \/ Pick \/ Swap \/ Jump \/ TimerReturn \/ SyscallTail \/ SleepReturn
  \/ Tick \/ SomeUnlock
  \/ \E t \in Slots : PostSignal(t)
  \/ SysPause \/ SysFork \/ LockBuffer \/ WaitOnBuffer

Spec == Init /\ [][Next]_vars

Kernel == Pick \/ Swap \/ Jump \/ TimerReturn \/ SyscallTail \/ SleepReturn

\* Kernel code goes on, and a pending tick is latched by the 8259 until
\* interrupts are enabled.  Nothing is assumed of the disk: most requests are
\* never ended (HardDisk), so a lock may be kept for ever.
Fairness == WF_vars(Kernel) /\ SF_vars(Tick)

FairSpec == Spec /\ Fairness

---------------------------------------------------------------------------
(* Properties.                                                             *)

\* The types of the variables; among others CURRENT and the running task have
\* a process.
TypeOK ==
  /\ tasks \in SUBSET Slots /\ 0 \in tasks
  /\ pid \in [Slots -> Nat] /\ last_pid \in Nat
  /\ state \in [Slots -> TaskStates]
  /\ counter \in [Slots -> -1 .. Priority]
  /\ signalled \in SUBSET Slots
  /\ CURRENT \in tasks /\ run \in tasks
  /\ stack \in [Slots -> Seq(Frames(tasks))]
  /\ b_wait \in [Bufs -> tasks \cup {Nil}]
  /\ holders \in [Bufs -> SUBSET Slots]
  /\ fault \in BOOLEAN

\* findEmptyProcess never hands out a pid that another slot uses, and the
\* pids in use never exceed last_pid, whichever forks failed in between.  That
\* last_pid wraps around in the end is left out.
PidsUnique ==
  /\ \A i, j \in tasks : pid[i] = pid[j] => i = j
  /\ \A i \in tasks : pid[i] <= last_pid

\* CURRENT is the task that is running, except between the exchange and the
\* jump of SWITCH_TO, and no jump ever goes to the running task's busy TSS.
Switching == stack[run] # <<>> /\ Top.at = "jump"
CurrentRuns ==
  /\ ~Switching => CURRENT = run
  /\ Switching  => CURRENT = Top.next /\ CURRENT # run
  /\ ~fault

\* CURRENT is the running task whenever it executes its own code.
UserCodeIsCurrent == InUser => CURRENT = run

\* schedule() falls back to task 0 only when no other task is runnable.
IdleOnlyWhenNothingRuns ==
  [][ \A t \in Slots : Pick /\ Head(stack'[run]).next = 0 /\ t \in tasks \ {0}
        => state[t] # "RUNNING" ]_vars

\* A task other than 0 that executes user code is RUNNING: nobody who went to
\* sleep or paused gets the processor before he was woken.
SleepersStayOff == InUser /\ run # 0 => state[run] = "RUNNING"

\* b_lock is a mutual exclusion lock: tasks woken together, or woken without
\* a reason, test it again and at most one of them takes it.
HoldersExclusive == \A b \in Bufs : \A t, u \in holders[b] : t = u

\* The frame of the sleepOn in which a task is suspended on buffer b.
SleepsOn(t, b) == /\ stack[t] # <<>>
                  /\ Head(stack[t]).op \in {"lock", "wait"}
                  /\ Head(stack[t]).buf = b

\* A task asleep in sleepOn can still be found by those who must wake it: it
\* heads the queue or is the tmp of another task in sleepOn on that queue.
EverySleeperIsQueued ==
  \A b \in Bufs, t \in Slots :
    SleepsOn(t, b) /\ state[t] = "UNINTERRUPTIBLE" =>
      \/ b_wait[b] = t
      \/ \E u \in Slots : SleepsOn(u, b) /\ Head(stack[u]).tmp = t

\* sleepOn, on its way out, makes RUNNING only tasks that wait in the same
\* queue: a pausing task or one that sleeps elsewhere is left alone.
WakesOnlyTheSameQueue ==
  [][ \A t \in Slots : SleepReturn /\ state[t] # "RUNNING" /\ state'[t] = "RUNNING"
        => SleepsOn(t, Top.buf) ]_vars

\* schedule() makes an interruptible task with a deliverable signal runnable.
SignalsWake ==
  [][ \A t \in signalled : Pick => state'[t] # "INTERRUPTIBLE" ]_vars

\* A runnable task other than the idle task 0 gets the processor again: the
\* slices of the others run out and a slice is never lost.
NoStarvation ==
  \A t \in Slots \ {0} : [](t \in tasks /\ state[t] = "RUNNING" => <>(run = t \/ state[t] # "RUNNING"))
===========================================================================
