# A TLA+ development of operator-system

operator-system is a small operating system for the 80386: a boot loader, a
kernel with processes, copy-on-write memory and a terminal, and the beginnings of a
buffer cache and a hard disk driver. This directory holds TLA+ models of its
kernel, the TLC configurations that check them and theorems about them that the
TLA+ proof system checks.

Paths below are relative to `src/`.

## 1. The system

| component | state | operations |
|---|---|---|
| processes and scheduler: `kernel/process.c`, `kernel/krn.asm`, `kernel/syscall.asm` | `TASKS`, `CURRENT`, `last_pid`, the wait queues (`b_wait`, `BUFFER_WAIT`, `WAIT_FOR_REQUEST`), a kernel stack per task | `findEmptyProcess`, `copyProcess`, `schedule`/`SWITCH_TO`, `sleepOn`, `wakeUp`, fork, pause |
| interrupts: `kernel/int.asm`, `kernel/protect.c`, `kernel/int_handler.c` | `IRQ_TABLE`, `SYS_CALL_TABLE`, the interrupt flag | entry code (EOI, `sti`, handler), the tail of a system call, the page fault |
| clock: `kernel/time.c` | `TICKS`, `STARTUP_TIME` | `timerHandler`, `mkTime`, `initTime` |
| memory: `mm/memory.c`, the memory part of `copyProcess`, `boot/setup.asm` | `MEM_MAP`, page tables, page contents | `initMemory`, `getFreePage`, `freePage`, `copyPageTables`, `freePageTables`, `writeProtectPage`, `unWriteProtectPage`, `missingPage` |
| console: `kernel/chr_drv/console.c` | `x`, `y`, `pos`, `origin`, `scr_end`, the display memory, the display controller | `conWrite`, `lf`, `cr`, `del`, `scrollUp`, `setOrigin`, `setCursor` |
| terminals: `kernel/chr_drv/tty.c`, `kernel/chr_drv/serial.c` | `TTY_TABLE` with a write queue per terminal | `ttyWrite`, `fullQueue`, `rsWrite`, `ttyRead` (a todo) |
| keyboard: `kernel/chr_drv/keyboard.c` | the modifiers and locks, `code_with_E0`, the read queue | `keyboardHandler`, `setLeds` |
| buffer cache: `fs/buffer.c` | buffer heads, the hash chains, the free list, `BUFFER_WAIT` | `initBuffer`, `getblk`, `bread`, `brelse`, `syncDev` |
| block requests: `kernel/blk_drv/ll_rw_blk.c` | `REQUEST_INFO`, `current_request`, `WAIT_FOR_REQUEST` | `ll_rw_block`, `makeRequest`, `addRequest`, `endRequest`, `lockBuffer`, `unlockBuffer` |
| hard disk: `kernel/blk_drv/harddisk.c` | `DEVICE_INTR`, `reset`, `recalibrate`, `HD_INFO` | `harddiskRequest`, `readIntr`, `writeIntr`, `recalIntr`, `badRwIntr`, `resetHd`, `sysSetup` |
| i-nodes, super blocks: `fs/inode.c`, `fs/super.c` | `INODE_TABLE`, `SUPER_BLK` | `syncInodes`, `writeInode`, `getSuper`; nothing fills the tables yet |
| file writes: `fs/read_write.c`, `fs/char_dev.c` | none of their own | `sysWrite`, `rwChar`: dispatch to `ttyWrite` |
| printing: `kernel/print.c` | two static buffers | `printk`, `printf`, `vsprintf`, `number` |
| boot: `boot/boot.asm`, `boot/setup.asm` | the first page tables, the loaded kernel | FAT12 chain, ELF segments, `setupPageing` |
| library: `lib/` | none | port I/O, `memcpy`, `strlen` |

How they interact. A system call enters with interrupts off (interrupt gates); it
leaves through code that calls `schedule` when the task is no longer running. A
hardware interrupt is acknowledged, interrupts are enabled, and then the handler
runs: handlers nest, also with themselves. `timerHandler` calls `schedule` when the
slice is used up, whatever it interrupted. Whoever waits calls `sleepOn`, which
chains the waiters through local variables on their kernel stacks; `endRequest`
wakes the head of the chain, from the disk interrupt as the driver is meant, or from
`harddiskRequest`. `printk` fills the console's write queue and
drains it in the same call, and `setCursor`, at its end, *enables interrupts*: any
kernel code that prints, the page fault handler among it, can be interrupted and
rescheduled from then on.

What is hard here: the interleaving of nested interrupt handlers with the task
switch; wait queues kept on stacks; locks that are tested, slept on and taken;
copy-on-write handlers that lose the processor between two accesses to the shared
page counts; a fork that fails half way; queues and tables that run full; address
arithmetic at the ends of a row and of the display memory. `PROJECT.json`
("hazards") lists each at its line.

What makes each part correct:

- scheduler: pids are unique; `CURRENT` is who runs; sleepers do not run; every
  sleeper is woken; task 0 runs only when nobody else can; nobody starves;
- memory: every process has a memory of its own although frames are shared; use
  counts are exact; the kernel's frames are never writable for others;
- console and terminals: what was written is shown, once and in order; the cursor's
  three representations agree; it is always on the screen;
- buffer cache and requests: one buffer per block, a buffer in use keeps its block,
  a modified block is not lost, a locked buffer has a request;
- keyboard, calendar, printing, boot: each conversion agrees with its definition.

## 2. Modules

Written in this order, the most important behaviour first:

| module | models | composed of |
|---|---|---|
| `Sched` | tasks, `schedule`, `SWITCH_TO`, ticks, `sleepOn`/`wakeUp`, the buffer lock, fork, pause | - |
| `CowSpec`, `Memory` | a private memory per process; frames, counts and page tables that implement it | `Memory` instantiates `CowSpec` |
| `Terminal`, `Console` | a page of text behind a window; the address arithmetic that implements it | `Console` instantiates `Terminal` |
| `Tty` | `ttyWrite` and the write queue, draining into the console | extends `Console` |
| `BlockStore`, `BufferCache` | the blocks as one memory; the buffer heads, queues and retries that implement it | `BufferCache` instantiates `BlockStore` |
| `BlockRequest` | `ll_rw_block`, the request table, the elevator, `endRequest`, the buffer's lock | - |
| `HardDisk` | `harddiskRequest` and the drive's interrupt: sectors, errors, reset, recalibration | extends `BlockRequest` |
| `Keyboard` | scan codes, modifiers, locks, the keymap, the read queue | - |
| `Clock` | `initTime` and `mkTime` against the calendar | - |
| `Vsprintf` | `vsprintf` and `number` against C's `printf` | - |
| `Boot` | the loaders of SETUP.BIN and KERNEL.BIN: root directory, FAT12 chain, segments | - |
| `SchedProofs`, `MemoryProofs`, `ConsoleProofs`, `BufferCacheProofs`, `HardDiskProofs`, `KeyboardProofs`, `ConvertProofs`, `ClockProofs` | the theorems | each extends its component and TLAPS; `ConsoleProofs` is about `Console` and `Tty`, `ConvertProofs` about `Boot` and `Vsprintf` |

`MCConvert` sets up one of `Clock`, `Vsprintf`, `Boot` and `Console`, which share nothing. `MC<module>` gives
the constants that a `.cfg` cannot express; it replaces nothing.

How state and actions correspond to the code:

**Sched.** `tasks` are the non-NULL entries of `TASKS`; `CURRENT` is the variable,
`run` the task whose TSS is loaded, and they differ while `SWITCH_TO` is between its
`xchg` and its far jump. `stack[t]` holds a task's activations of `schedule()`,
each with who called it and, for `sleepOn`, the queue and the local `tmp`. One call
of `schedule()` is four actions, at the places where an interrupt can fall: `Pick`
(the signal loop and the choice), `Swap`, `Jump`, and the return to the caller
(`TimerReturn`, `SyscallTail`, `SleepReturn`). `Tick` is the clock interrupt;
`UnlockBuffer` the disk interrupt as far as it reaches the wait queue. `fault`
stands for a jump to the busy TSS. A counter below zero is -1, since the code only
looks at its sign.

**Memory.** `MEM_MAP` is the array; `pte`, `table` and `pcb` are the frames a process
uses; `content` is what a frame holds. fork is one action because it runs with
interrupts off throughout. The fault handler is five (`FindPage` .. `CopyPage`), in
the order of the code, which drops its use of the old frame before it copies it.
A read-only page of the kernel is copied, its count is never touched.
Not represented: that the pages lie in page directories at
`nr * 64 MB`; exec and exit, which the code does not have; writes by task 0, which
maps the kernel read/write and only pauses; `freePageTables`, called only after a
failed copy, at which point nothing has been mapped.

**Console.** `Next` is one character of `conWrite` followed by its `setCursor`; a
cell is the character and its attribute. `vram` holds what was written since the
start, not what the boot loader left on the screen. `crt` is what the controller
was told: cell numbers of 16 bits.

**Tty.** The steps of a writer are its accesses to the queue; `Take` is
`Console!Emit`. The history variables `sent` and `printed` serve the properties. A
`ttyWrite` of the console maps NL to CR NL (`OPOST | ONLCR`); nothing changes
`c_oflag`. `TTY_BUF_SIZE` must be a power of two since `head - tail` is unsigned.

**BufferCache.** A call of `bread` walks through places (`find`, `hashed`, `scan`,
`chosen`, `sync`, `claim`, `mark`, `remove`, `insert`, `got`, `wait`, `hold`, `release`; `space` for
the sleep on `BUFFER_WAIT`, `slot` for the sleep of `makeRequest` for a free request, with the buffer
locked); each is a stretch of code between two looks at shared state. `Claim` to `Insert` are the last
`findBuffer`, the marks, `removeFromQueues` and `insertIntoQueues` of `getblk` (164 to 175).
`queues` are the pointers themselves: `b_next`, `b_prev`, the two free links,
the hash table. A buffer's lock is held by its transfer (`request`) until
`Complete`. Transfers complete in any order, a failed one clears `b_uptodate`. The request table
behind it (`BlockRequest`) is reduced to a choice: a call finds a slot or sleeps for one. The
queues of sleepers are not represented, since `wakeUp` wakes the head only and the `tmp` chain of `sleepOn`
loses tasks (`sched_queue`): whoever sleeps may go on as soon as what it waits for allows it
(`LookAgain`, `Slot`, an unlocked buffer), or never. That covers every wake-up there can be, and
nothing is claimed about who is woken.
`Modify` is what `writeInode` does with a buffer it has.

**BlockRequest, HardDisk.** A call of `ll_rw_block` walks through `lock` (the sleep in
`lockBuffer`), `search`, `found` or `full`, `asleep` (on `WAIT_FOR_REQUEST`), `add`,
and `request` for the one call that starts the driver. `Stops` is the place where the
loop of `addRequest` stops; on links that form a ring there may be none, and the
call is at `spin` for ever, with interrupts off (`Frozen`: nothing happens any more).
The driver has the value of `DEVICE_INTR`, the two flags, and `driver`, which says
that `harddiskRequest` is to go on, or that `endRequest` is half done; one turn of its `repeat` up to
`endRequest` is one step, and `GiveUp` is the rest: between its `unlockBuffer` and `curr->dev = -1`
lie two `printk`, which enable interrupts, so a reader can find the buffer already while the
request is still there. The drive
is external: it answers a command with an interrupt, per sector when it reads, and
may fail at any of them (`Fails`). A sector is its number, and `b_data` the number of
the sector each half of a buffer was read from. A call that sleeps for a lock or a slot may be resumed at any
time or never, as in `BufferCache`.

`irq_handler` is what `initHarddisk` registers for IRQ 14. In the code that is the *value* `DEVICE_INTR` has
at that time, NULL (`harddisk.c:17`, `harddisk.c:27`), and nothing registers another: at the first
interrupt `hwint14` calls address 0 (`CallsNull`), and what the processor does from there on the code
does not say (`driver` is `"lost"`, nothing follows). That is `Handlers = {"NULL"}`, the value
of the runs `disk_next` and `disk_irq`. All that `readIntr`, `recalIntr` and `badRwIntr` do is reached only with
a vector that runs what `DEVICE_INTR` names; `disk` has both, so that what these functions do
can be examined under the assumption they make.

Another fault decides what is reachable with such a vector, and the model has it. `endRequest`
ends with `curr = curr->next` on a local variable, so `current_request` stays at the
first request, in the last slot of the table, and the driver finds that slot again
whatever was queued behind it. A new read may reuse the slot and is served; a write
may not, since `makeRequest` keeps writes out of the last third. So no write is
ever served (`OnlyReadsServed`), and `writeIntr` with the branch that calls it,
unreachable, is left out. A request that reuses the slot is linked to itself, and
the links behind it are lost.

Seen while reading, and not in the models: `resetController` swaps the arguments of `outByte` (`harddisk.c:179`), so
the reset itself does nothing; `portWrite` loads `edi` for an `outsw` that reads
`esi` (`lib/klib.asm`). Even with `current_request` moved on, the local `curr` of
`harddiskRequest` would be stale after `goto repeat`.

**Clock.** `rtc` is what the chip shows, one second later at every `Second`, which may
fall between any two of the six reads of `initTime`. A number of seconds is a pair of
days and seconds, because 2^32 is beyond TLC's integers. The time base: `time.c:16`, `time.c:41` and `time.h:39`
say that `STARTUP_TIME` counts from 1970-01-01 08:00:00. `mkTime` counts from 00:00:00 of whatever
clock the chip shows, it takes no eight hours away. The two agree if the chip runs on UTC
and the comments name China's time; nothing in the repository (`bochsrc` included) sets the chip. The
model and `StartupTimeRead` count from midnight of the chip's clock, as the code does.

**Vsprintf.** A character of the format is one step. An `int` has `2 * Half` values;
`number`'s remainder of a negative number is negative, as in C, and what it reads
before its table of digits is `Junk`: an unspecified byte, never one of the characters
meant, so that a text with such a byte counts as wrong even where the byte happens to be right.

**Boot.** Both loaders are one machine, `loader` says which. `file` is the chain of
clusters the disk holds, and the bytes of the table follow from it (`FatByte`); what
lies in a sector is its cluster number. `es` counts 64 KB and `bx` sectors. `TraverseRoot`
looks at one sector of the directory, `LoadSector` loads one and finds the next.
When `bx` has come round, `boot.asm` writes over the segment's beginning; `setup.asm`
means to go on in the next segment (`setup.asm:94`), but the `mov es, bx` before (line 92) takes the
segment from the offset, so that a kernel above 64 KB continues at 1000:0 (run `boot_kernel`).

**Keyboard.** Each byte is read (`Interrupt`) and then handled (`keyboardHandler`).
The keymap is transcribed with its three columns, and `keyrow` reads it as the code
does: `u_8* keyrow` points into a table of `u_32`, so `keyrow[1]` is the second byte
of the first cell. `setLeds` has the freedom of its two unchecked reads: the
answer, the old byte, or (with `Waiting`) the next scan code. The keyboard is
outside the repository: `Press`, `Repeat` and `LetGo` send the bytes of scan code
set 1, with the Shift codes some keyboards add around extended keys.

## 3. What is checked

Passing runs:

| run | instance | properties |
|---|---|---|
| `sched_safety` | 3 tasks, 1 buffer two of them use, slices of 2, a signal | `TypeOK`, `PidsUnique`, `CurrentRuns`, `HoldersExclusive`, `SleepersStayOff`, `IdleOnlyWhenNothingRuns`, `NoStarvation` |
| `memory` | 4 processes, 2 pages, 8 frames to give out | `TypeOK`, `CountsAreUses`, `WritableIsPrivate`, `KernelNotWritable`, `FaultsKeepMemory`, `ImplementsCow` |
| `tty` | 2 writers, a queue of 4 places (3 usable), messages of up to 3 characters | `ShownInOrder`, `WritesReturn` |
| `cache` | 3 clients, 2 buffers, 3 blocks, 2 on one chain, 4 calls, reads that fail, slots that are not free | `TypeOK`, `CountsAreUsers`, `BufferKeepsBlock`, `OneBufferPerBlock`, `QueuesIntact`, `LockedKeepsBlock`, `ImplementsBlockStore` |
| `keyboard` | 8 keys, 2 held at a time, 4 bytes under way | `LeftCtrlIsHeld`, `LocksFollowKeys`, `TypedUnlessAmbiguous` |
| `disk` | 2 clients, 3 buffers, 3 requests, 3 errors to a request, 4 calls, either vector | `DriveServesCurrent`, `OnlyReadsServed`, `UptodateIsWhole`, `LockedHasOwner`, `QueueSweepsOnce`, `RetriesRecalibrate` |
| `convert` | clock: every month of 1971 to 2070, one second passing. Printing: all conversions, 20 forms of flags and width, integers of 8 bits. Boot: files of up to 5 clusters, table sectors of 4 bytes, segments of 2 sectors, a root of 4 entries. Console: 2 rows of 8, display memory for one scroll, all controls | `StartupTimeRead`, `PrintsAsC`, `FileLoaded`, and the console's `TypeOK`, `PosMatchesCursor`, `CursorRowShown`, `ImplementsTerminal` |

Some of them say less than their names:

- `LockedHasOwner` says that whatever is locked belongs to a call in `makeRequest` or to a request in the table,
  on every way out of `makeRequest`. It does not say that the lock is ever given back: a call that sleeps for a
  slot, or a request behind the ended one, may keep it for ever.
- `LockedKeepsBlock` is about a buffer that `getblk` chose while it was being transferred, or while another
  call slept with its lock: it gets no other block before the lock is free.
- `QueuesIntact`: the queues are whole except between `removeFromQueues` and `insertIntoQueues` of the call that has
  the processor.
- `ImplementsBlockStore` holds as long as no write fails (section 5).
- `TypedUnlessAmbiguous` exempts the 15 keys of the main block whose characters have the codes of pad
  keys (digits, minus, semicolon, comma, dot, slash): those the driver takes for pad keys, and the key 2
  types 0 (`MCKeyboardDigits`).
- `PrintsAsC` holds `vsprintf` to C's `printf` exactly in the cases `Agrees` names, and to a difference
  in all others. The differences are deviations of the code: a width keeps its last digit only (`print.c:80`), negative
  numbers as unsigned and the least number read before the table of digits (`print.c:210`), zeros are filled in on the right
  under `-`, blanks go between sign or `0x` and digits.
- `FileLoaded` asks for one piece only of a file that fits in a segment; what becomes of a longer kernel is `boot_kernel`.
- `CurrentRuns` and the others of `sched_safety` hold while no tick hits the clock handler
  (`TickInSchedule`); `PidsUnique` leaves out that `last_pid` wraps around.
- `StartupTimeRead` counts from midnight of the chip's clock (section 2, Clock).

Bounds, and why they are enough. Three tasks are the least with task 0 idle and two
that compete for a lock, four processes the least at which a frame is shared by
more than a parent and its child while another fork fails; the frames run out with
none, with one and with two missing. A queue of four places is shorter than two of
the messages with their CRs, so every call has to drain and refill it. The screen
is one tab stop wide, which puts every tab at a row's end, and `FewCharacters`
bounds what has been written to it. Two buffers for three blocks force an eviction
at every second miss, and with three clients both are at times in use while another
client waits; the two blocks on one chain are there for the links in the middle.
Three requests are the least at which the elevator can put one in the wrong place,
leave the last third (one slot) to reads, and have the table full with four calls;
the block of the third buffer is the one the range test refuses. `MAX_ERRORS` is 3,
so that one retry is made after a reset and one without. 8 bits hold every case of
sign, length and padding that 32 bits have. With
sectors of 4 bytes two of the five table entries lie on two sectors, and a file of five
clusters fills two segments and begins a third. `MaxPid`, `MaxNest`, `MaxCalls`, `MaxHeld` and `MaxWire` only limit how many forks,
nested ticks, calls and keys there are. The clients of the cache are symmetric, which is
used for safety and refinement only: that run has no liveness property. `MCConvert` runs its four
components one after the other, since they share nothing: a behaviour is of one of them, the others being done.

Deadlock is checked in the scheduler and keyboard runs. It is off where
the model comes to rest on its own: all frames used up with every handler spinning,
the bound on calls reached, `addRequest` spinning, a conversion done.

**What these runs assume about timing**, and what happens without it. Handlers run
with interrupts enabled, and `setCursor`, `waitOnBuffer` and `lockBuffer` enable
them in code that was entered without. So the code is preemptible nearly everywhere, although it
is written as if it were not. The passing runs state what holds while a stretch of
kernel code is not interrupted in the middle (`TickInSchedule`, `Preemptible`,
`Nested`, `Waiting` are FALSE). The runs below set these to TRUE.

Runs whose property is violated:

| run | what it exhibits |
|---|---|
| `sched_queue` | A task on its way out of `sleepOn` writes its old `tmp` over the queue; who queued meanwhile is in no queue and no `tmp` any more, and sleeps for ever. Needs no nested interrupt, only a lock shared by two tasks. |
| `keyboard_shift` | The columns for Shift and E0 read as 0, so a Shift once pressed is never released and from then on every key is 0, except letters under CapsLock. |
| `disk_next` | After a request has ended, `harddiskRequest` takes it for a destroyed list, ends it again, and so on: it stays the current one, and the block just read loses `b_uptodate`. A block that the range test refuses leads there without any interrupt. |
| `disk_irq` | The vector of the disk is NULL (`harddisk.c:27`): the interrupt that answers the first command calls address 0, and the current request never ends (`CurrentEnds`), although the drive answers and the driver goes on. |
| `boot_kernel` | A kernel longer than a segment: what follows the first segment is loaded to 1000:0 and not behind `BASE_OF_KERNEL`, where `setup.asm:90` to `95` mean it to go. |

Further configurations, for use by hand; each violates the property it names. (The type
invariants of `Tty`, `Keyboard` and `HardDisk` are not in a run: they are proved, section 4.)

| configuration | property | what it exhibits |
|---|---|---|
| `MCSchedSignal` | `SignalsWake` | the signal loop of `schedule` looks at the empty slots, so no signal wakes anybody |
| `MCSchedSpurious` | `WakesOnlyTheSameQueue` | the stale `tmp` wakes a task that has gone to sleep elsewhere |
| `MCSchedNestedRun` | `UserCodeIsCurrent` | a tick between the `xchg` and the jump of `SWITCH_TO`: a task runs that is not `CURRENT`. With `IdleOnlyWhenNothingRuns` in its place (two tasks are enough): a nested tick takes the slice of a runnable task below zero, where `schedule` does not see it any more |
| `MCMemoryPreempt` | `ImplementsCow` | two fault handlers in `getFreePage` take the same frame: two processes share memory |
| `MCBufferCachePreempt` | `BufferKeepsBlock` | a tick between the checks of `getblk` and its claim: one buffer for two blocks. With `OneBufferPerBlock` or `QueuesIntact` in its place: a tick between the last `findBuffer` and `insertIntoQueues` gives a block two buffers, and one between `removeFromQueues` and `insertIntoQueues` lets another call walk along broken queues |
| `MCHardDiskPreempt` | `LockedHasOwner` | two calls find the same free request: the buffer of one stays locked |
| `MCHardDiskFrozen` | `NeverFrozen` | a request linked to itself: the next insertion goes round for ever with interrupts off |
| `MCMemorySource` | `CopySourceKept` | the old frame, released before it is copied, is reused |
| `MCMemoryShort` | `UsedPagesExist` | with less memory than `MEM_SIZE`, frames that do not exist are given out |
| `ConsoleEnd` | `CursorInVideoMemory` | at the real size, the last scroll goes 32 bytes past the display memory |
| `MCTtySerial` | `WritesReturn` | a message longer than the queue never gets out of `ttyWrite` on a serial line |
| `MCTtyPreempt` | `NothingLost` | two writers store to the same place of the queue |
| `MCKeyboardDigits` | `TypedAsMapped` | the characters from comma to semicolon have the codes of the pad: the key 2 types 0 |
| `MCKeyboardPause` | `LocksFollowKeys` | Pause is taken for Ctrl and NumLock |
| `MCKeyboardNested` | `LeftCtrlIsHeld` | the byte after E0 overtakes it |
| `MCKeyboardWaiting` | `LeftCtrlIsHeld` | `kbAck` takes a scan code for an answer |

Fairness. `sched_safety` assumes that kernel code goes on (`WF` of its steps) and that a
tick pending while interrupts are off is delivered when they are on (`SF` of
`Tick`: the 8259 latches it). It assumes nothing about the disk: that a locked buffer is ever unlocked
`harddisk.c` does not ensure, so no run claims that a sleeper is woken. User code is not assumed
to do anything. `tty` assumes that a writer's next step is taken: it is kernel code
that nobody but the clock delays. `disk_irq` assumes that the drive answers a command and
the driver goes on, and that some call of `ll_rw_block` that can go on does; the counterexample has all of it, and the request
does not end all the same. With a vector that runs `DEVICE_INTR` the current request does end (`CurrentEnds` with
`Handlers = {"DEVICE_INTR"}`); a request queued behind it never does. The other
specifications have no fairness.

## 4. What is proved

The theorems hold for every value of the constants that satisfies the named
assumptions, without the bounds of the runs. Everything is machine-checked down to the
last leaf. `PROJECT.json` ("theorems") says which theorem states which property of
the runs.

Each proof has the same course: an inductive invariant (`Inv`, or the name given
below), one lemma for each action that keeps it, and the property as a consequence.
Properties are seldom inductive as they stand, so what follows says what had to be
added to them. Where the runs assume that a stretch of kernel code is not
interrupted, the theorem says so in its statement (`~Preemptible`, `~TickInSchedule`,
`~Nested`, `~Waiting`), and a configuration of section 3 shows that the property
fails without it.

**Scheduler** (`SchedAssumption`). `Inv` is `TypeOK`, `PidsUnique` and
`HoldersExclusive`; it is inductive as it stands (`SchedInvariant`), for any number
of tasks and buffers and with nested clock handlers. `CurrentRuns` is not inductive: what makes it true is where every *other* task was
left. `QuietInv` adds that a suspended task is in at most one activation of
`schedule`, behind its jump, that no slice but that of task 0 is negative, and for each phase of the
running task's activation what `CURRENT` is and that the task it names may run. From it follow, as long as no tick hits the clock handler,
`CurrentIsRunning`, `SleepersAreOff` and `IdleIsLast`. The proof that the choice of
`schedule()` is a runnable task (`ChosenEligible`, from `LeastNatural`) is the
lemma below all of them.

**Memory** (`MemoryAssumption`). `KernelFramesSafe`: with any number of processes and
with fault handlers interleaved anywhere, no process but task 0 can write to a
kernel frame. The invariant says that a writable entry refers to main memory, that
a handler's new frame lies there, and that frames below main memory are never free,
so that a free frame is one of main memory (`FreeIsOffered`).

`CowInvariant`, without preemption: at most one handler is between its look at the old
frame and its copy; the count of a frame is the number of its uses in page
tables, as a page table and as a task's page, *corrected* by what that handler has
claimed and not yet mapped, or dropped while still mapped; no process uses a frame
twice; a writable entry has the only use of its frame. From it follow `PagesAreCounted` and
`WritersAreAlone`, and `CountsFitInAChar`: with at most 127 processes (the code has 64) the
`signed char` of `MEM_MAP` neither overflows nor gets negative. `FaultsAreInvisible`
and `MemoriesArePrivate` prove the refinement: every step of a handler, at
each of its five places, changes no process's memory, a fork copies one, and a
write changes one. The handler copies a frame that it has released before; that nobody takes the
frame in between is what the invariant contributes.

**Console** (`ConsoleAssumption`, any screen and any address of the display
memory). `PosIsCursor`, `CursorIsShown` and `ConsoleType`. The invariant ties `pos`
to `x`, `y` and `origin`, and `scr_end` to `origin`, and puts the row within the
screen. The arithmetic of rows is in `RowSums` and `RowOrder`, and each kind of
character has a lemma (`PutInv`, `TabInv`, `LineFeedInv`, `BackInv`).
`ConsoleIsTerminal` is the refinement of `Terminal`: the places of two different cells differ
(`PlacesDiffer`, by division with remainder), each kind of character does to the page of
text what it should (`PutShown`, `LineFeedShown`, `EraseShown`, `TabShown`, ...), also where it scrolls.

**Terminals** (`TtyAssumption`). `WrittenIsShown` gives `ShownInOrder` for the console and
messages of any length, as long as `ttyWrite` is not interrupted. The invariant is one account
(`Accounted`): what was sent is what is printed, then what lies between `tail` and `head`, then what
the one call under way has still to store (`Left`), where the CR in front of a newline may have been
stored already. `HeldPut` and `HeldTake` say what a store and a take do to the ring, also where it
wraps around and where it is full, and `ExpandFirst` that a message is expanded from its first
character on. `TtyType` follows from the same invariant. The serial line prints nothing (`rsWrite` takes nothing from the queue), so nothing is stated of it.

**Buffer cache** (`CacheAssumption`), three invariants on top of each other.
The first part is about the pointers: there is a numbering of the buffers along the free list and a
walk along each hash chain, and `removeFromQueues`, `insertIntoQueues` and the scan of `getblk` keep or
use them (`RingMoves`, `HashTakenOut`, `HashPutIn`, `Requeued`). All theorems need `~Preemptible`, that a call keeps the processor until it sleeps:
between the last `findBuffer`, `removeFromQueues` and `insertIntoQueues` interrupts are enabled, and a tick
there breaks the queues for others or gives a block a second buffer. `Kept` says that the queues are whole
except for the one buffer that the running call has taken out, and that whoever is past its last search
is alone (`QueuesStayIntact`, `BlockHasOneBuffer`). `Counted`: who claims a buffer found it unused, clean and
unlocked and has kept the processor since, so its old block is used by nobody: `CountsAreRight`,
`ClientKeepsBlock`, `LockedStays` (a chosen buffer is waited for and looked at again). `Sound` is what the marks say of the contents, and gives
`CacheIsStore`, the refinement of `BlockStore`: the modifications that lie in dirty buffers, in transfers and on
the disk are together one memory of blocks.

**Hard disk** (`BlockAssumption`, `DiskAssumption`), without preemption and for either vector. Before anything has been
read nothing is up to date, so nothing can have been modified, so the first request is a
read, and the search starts at the end of the table: it lies in the last slot, where
`current_request` stays. Writes keep away from that slot, therefore no write is ever served
(`OnlyReads`). `Progress` ties sector, offset and count of a request to what has arrived,
and `Commanded` the driver to the drive: `DriveInStep`, `BlocksAreWhole`,
`LocksAreOwned`, `RetriesAfterReset`, `DiskType`. With the vector NULL the driver never gets beyond its first
command, which the invariant allows; what the theorems say of retries and of second sectors is about the other vector. The loop of `addRequest` stops only at slots
(`StopsAreSlots`), even where the links form a ring.

`QueueIsASweep` gives `QueueSweepsOnce`, for buffers of different blocks, as `getblk` makes them.
The queue is a path of slots from the last one on (`Path`), and `addRequest` stops
at the first place of it that will do, or nowhere (`FirstStop`). It has one of three shapes
(`QueueShape`). `FirstQueue` begins with the first request of all: up to its end everything
under way is a read, and of a buffer of its own (`Owners`), so two requests never tie, and one more keeps the
sweep (`SweepGrows`), as does the head when it goes on to its second sector (`ProgressQueue`); once it has ended,
it precedes them all, and only its buffer can be written (`OnlyFirst`), which goes to the end (`SweepAppends`).
`Refilled`: the last slot was taken again, and whatever followed it is cut off. `Ring`: that slot was put behind itself;
from then on a request finds a place only if it precedes the head, in ascending order (`RingGrows`),
and once the head has ended none does. In the last two shapes buffers may be shared, because a request that
is refused after its end unlocks a buffer that somebody else may have locked since; the order does not depend on it.

**Keyboard** (`KeyboardAssumption`), for bytes handled one at a time, answers that are not
mistaken for scan codes and a keyboard without Pause. The invariant is on the bytes under way: which one belongs
to which key is told by the byte and whether E0 precedes it (`Plain`), an E0 is never the last
(`Complete`), and the last Ctrl byte under way, or `ctrl_l` without one, says whether
the key is down (`CtrlKnown`). `LeftCtrlFollowsItsKey`, `LocksAreKeys` (an action property: a
lock changes only for its key) and `UnambiguousTyped` (what is stored for a key, except the 15 ambiguous ones, is what
the keymap says; `OthersAreMapped` goes through the rest row by row) follow, and the types (`KeyboardType`). The 256 rows of
the keymap enter through `Rows` and `KeyRows`.

**Boot** (`BootAssumption`). `FilesAreLoaded`: for any size of sectors, directory and
segments, a file that the directory has is found, only its own sectors are loaded, and one that fits
in a segment ends up in one piece, in order. `LongFilesAreSplit`: a longer one never does, with either loader, for
any size of a segment. `Unpacked`
shows that the 12-bit entries give back every successor, `TwoSectors` that this
is so for an entry on two sectors; the invariant is the number of sectors loaded.

**Clock** (`MomentAssumption`, `SecondsAssumption`: the chip shows a moment when `initTime`
begins, and `initTime` takes less than 27 days). `StartupTimeIsRead` holds for every moment of the
chip's hundred years and however many seconds pass between any two reads. `SameCalendar` says that `mkTime` is the
calendar, whose recursions over years and months have the closed forms of `YearsAdd` and
`MonthsAdd`, which `OneSum` derives by the least counterexample. The invariant (`ClockInv`) is about a
reading that is never stored: what `initTime` has gathered, completed with what the chip shows
now (`Mixed`). To read a register does not change it (`ReadsNext`); when the chip goes on, it stays
as it is, becomes what the chip shows, or is ahead of that in the same year (`Onward`, `AheadIsLater`).
One thing more is needed: the mixture may be a day that its month does not have, the 31st
of a month of 30 days, and the calendar of such days is not monotonic when the chip
comes to the end of that month. This takes a whole month, hence the second assumption.

**Formatted printing** (`PrintAssumption`: an `int` of any size, any flags, any digits of a width that
do not begin with 0, any numbers and strings). `PrintsAsCAlways` says of every directive whether
`vsprintf` writes what C's `printf` writes: exactly where `Agrees` says so. The three parts of the proof:

- The figures. `number` divides a number down and puts the remainders together, C's numeral
  (`Numeral`) takes the figure of each power of the base from the highest on. They meet in `FiguresOf`:
  that the recursion has a solution (`ConverterExists`) and that it writes these figures (`ConvertsFigures`)
  are inductions on the number. A negative number
  that the code does not turn round has a `Junk` among its figures, which C never writes (`NumberIsJunk`).
- The padding. `PaddingAgrees` compares two ways to lay a text out by their lengths, first characters and
  last characters: they are the same exactly where nothing is to be filled, or the width has one
  digit, which is all that the code keeps of it (`FieldWidthIs`), and both fill the same side with the same character.
- The loop. `PrintInv` says for each place in the loop what is left of the format, how many flags or digits
  of the width have been read, what they amount to, and what is in `buf`.

Inductions. The library's induction theorems take an operator as a parameter, which no prover here can
instantiate. Where a theorem needs one (`ExpandFirst`, `WalkExists`, `FirstStop`, `OneSum`, `ConvertsFigures`), the set
of counterexamples is formed and its least element, which exists, is shown not to be one.

Every invariant and every action property of section 3 is stated by a theorem. Only model-checked:

- the liveness properties (`NoStarvation`, `WritesReturn`): fairness and ENABLED are out of the prover's reach.

No module declares a RECURSIVE operator, so theorems can be added to each.

## 5. What is not modelled

- `writeIntr` and the branch for writes, unreachable (section 2); the partition table
  and the drive parameters that `sysSetup` reads; the busy waits for the controller
  and `hdOut`'s panics; devices other than the whole disk, which is all the code opens.
- In `disk`, user code holds no lock across calls, the queues of sleepers are those of `Sched` (a sleeper
  may go on at any time or never), and the cache above is reduced to `Modify`.
- What the processor does after the disk's interrupt has called address 0.
- The task states ZOMBIE and STOPPED of `process.h`, which no code gives to a task; the wrap of `last_pid`.
- `inode.c` and `super.c`: their locks are those of `Sched`, and no code fills their
  tables, so `syncInodes` writes nothing.
- The length of `printk`'s buffer and that nested calls share it; that a 12-hour or
  19xx setting of the clock chip exists: a year 70 is taken for 2070.
- In `Boot`, what the loaders display and the retry of a failed read; the memory size that
  `setup.asm` asks for; the relocation of the kernel's segments.
- BIOS calls, the switch to protected mode, GDT, IDT and TSS set-up, port I/O and
  `lib/`: straight-line code without state that anything later depends on.
- A character of the console is one step: interleavings inside `conWrite`'s
  arithmetic, which exist whenever writers interleave, are not shown beyond
  `MCTtyPreempt`.
- Data transfers move at the completion of a request, as one step; failing writes
  are left out of `cache`: the code has cleared `b_dirt` by then and marks the buffer
  as not up to date, so the modification is lost, which `BlockStore` does not allow.

## 6. Plan

1. `BufferCache` over `BlockRequest` instead of over any driver; the cache's liveness
   (`bread` returns) for a driver with a vector of its own and an `endRequest` that goes on.
2. Theorems: the queue bounds of `Tty` on a serial line; what survives of the theorems that
   assume `~Preemptible` when the clock does take the processor.
3. Runs are kept to one per question: what only a preemption exhibits is in the
   configurations for use by hand.
