# BadgerOS in TLA+

Models of the BadgerOS kernel (`src/kernel/`) in TLA+, checked with TLC on small
instances. For the spinlock, the mutex, the scheduler, the timer tasks, the
housekeeping queue and the processes, every safety property that a run checks is
also proved with TLAPS, for every instance. Paths below are relative to `src/kernel/`;
`PROJECT.json` maps every definition to the lines that it models.

## The system

BadgerOS is a small symmetric multiprocessing kernel in C for RISC-V. Threads,
interrupt handlers and CPUs share run queues, lists and handles, protected by
mutexes, spinlocks and disabled interrupts; below them lie allocators, page
tables, a block cache and a filesystem whose data structures must survive any
sequence of calls and any failing allocation.

| Part | What is hard | What correctness means | Module |
|---|---|---|---|
| Spinlock `src/badgelib/spinlock.c` | weak CAS loops of readers and writers on one word | readers-writer exclusion; no lost count | Spinlock |
| Mutex `src/badgelib/mutex.c` | release, insertion in the waiting list and timeout race | exclusion; one waker per waiter; nobody waits for a free mutex | Mutex |
| Scheduler `src/scheduler/scheduler.c`, `cpu/riscv/src/scheduler.c` | a thread changes hands between CPUs while its old CPU is still on its stack | a runnable thread is in one list and on one CPU, and gets its turn | Scheduler |
| Thread table (same file) | partial failure; numbers drawn outside the lock; lock taken by ISRs | no leak; the table is exact | ThreadTable |
| Timer tasks `src/time.c` | one alarm for preemption and tasks of all CPUs | a task has one fate and runs in time | Timer |
| Housekeeping `src/housekeeping.c` | the array is shifted while a task runs | every task runs, in order | Housekeeping |
| Processes and shutdown `src/process/*.c`, `src/main.c` | clean-up in another thread, joins under mutexes, kill at any point | no use of a deleted process; exits reported once; exiting ends | Process |
| File descriptors `src/process/process.c`, `src/filesystem/syscall_impl.c` | a list without a lock; partial failure | every open handle is in one descriptor | ProcFiles |
| Page allocator `src/malloc/static-buddy.c`, `src/page_alloc.c` | splitting, merging, waste pages, reallocation in place | blocks tile the pool, grants are disjoint | Buddy, Heap |
| Slabs and malloc `src/malloc/slab-alloc.c`, `malloc.c` | pages move between lists by fill level | counts are exact, nothing leaks | Heap |
| Block devices `src/blockdevice/*` | read, dirty, erased and stored versions of a block | what was written is read | Disk, BlockDev |
| Filesystem `src/filesystem/*` | handles, shared files and inodes counted separately, arrays that move | counts and the directory tree are exact | RamFs, Fs |
| Memory maps `src/process/proc_memmap.c` | several ranges per mapping, roll-back | memory has one owner and is seen by it alone | Memmap |
| Virtual memory `port/generic/src/memprotect.c`, PMP `cpu/riscv/src/memprotect/*`, `port/esp32p4/src/memprotect.c` | superpages, copies of kernel entries in every table | kernel and user halves apart; ranges tile | PageTable, Vmm, Pmp |
| Interrupts `src/interrupt.c`, `port/esp32*/src/interrupt.c`, `cpu/riscv/src/interrupt/*` | routing changes while CPUs claim and serve | one CPU per IRQ, no interrupt lost | Irq |
| Traps and signals `cpu/riscv/src/isr.c`, `src/process/sighandler.c` | system call, signal, fault and preemption meet at the return to user mode | each call made once, each signal taken | Trap |
| I2C `port/esp_common/src/i2c.c` | handler against a caller that may time out | bytes in order, each once | I2c |
| Start of the CPUs `cpu/riscv/src/smp.c`, `port/esp32p4/src/smp.c` | three numberings of the CPUs | every CPU runs on a context of its own | Smp |
| Device tree `port/generic/src/dtb.c`, `dtparse.c` | content that looks like structure | the tree that was written is read | Dtb |
| Integers `src/freestanding/int_routines.c`, `src/badgelib/num_to_str.c` | wrap-around, signs, table look-ups | the arithmetic of the integers | IntRoutines, NumToStr |

Interactions: the scheduler uses mutexes (from ISRs) and the timer; mutexes use
the scheduler and the timer; processes use the scheduler, mutexes, housekeeping,
the memory map and traps; memory maps take frames from the page allocator. The
lists, arrays, errors and assertions of `badgelib` are a submodule that is not in
the repository; they are modelled from their use and marked external.

## How the models are built

Definitions keep the names of the functions they model. A section that makes
one access to shared state, or that is protected by a lock everybody respects,
is one step; an action is never split where the code is atomic, nor merged where
another CPU, thread or interrupt can get in between. Where the code reads through
a null pointer, writes past a buffer or fails an assertion, a variable (`fault`
or `stop`) records it and the behaviour ends there.

Most modules have a variable `conf` that is chosen in `Init` among `Configs` and
never changes: the machine, the requests that are made of it and what may fail.
One run checks the same properties on several small machines, where one machine
with all of it would be too large. The `MC...` module of a component defines the
configurations: `AllConfigs` is what the passing run uses, each of the others
shows one disagreement (see below).

* **RWLock** - the abstract readers-writer lock: one exclusive holder, or any
  number of shared ones. `Spinlock` and `Mutex` implement it (`ImplementsRWLock`).
* **Spinlock** - the word `lock`, and for every context its place and its local
  `cur`. The actions are the loads and compare-exchanges of the loops; weak
  exchanges may fail spuriously.
* **Mutex** - `shares`, the waiting list, THREAD_BLOCKED, timers and callbacks.
  `SwapOk/SwapFail`, `AddOk/AddFail`, `SubOk/SubFail` are the three atomic loops,
  `WaitBlock`, `WaitAppend`, `WaitYield` the steps of `mutex_wait`, `Notify...` and
  `Timer...` the two wakers. With `conf.smp = FALSE` a section with interrupts
  disabled is not interleaved.
* **Scheduler** - thread flags, run queue, incoming list and flags of each CPU.
  A CPU goes through `sched_request_switch_from_isr` in steps, with interrupts
  disabled but interleaved with the other CPUs; until `Switch` it still executes
  on the old thread. Each atomic access of `sw_handle_sched_flags` and of the barrier
  of `sw_handle_loadbalance` is a step. The end of a thread is one (`PickDead`): `dead_threads`
  is guarded by `unused_mtx`, and who reads the flags before they are complete finds
  a thread that cannot be resumed, or joins it as it could afterwards.
* **ThreadTable** - `thread_new_user/kernel` with each allocation that may fail,
  the array and its binary search, and `sched_housekeeping`.
* **Timer** - the shared array (soonest task last), and `preempt_time`,
  `timer_is_preempt` and the alarm of each CPU.
* **Housekeeping** - the queue under `hk_mtx`; the task that runs is outside it.
  `asleep` is the housekeeping thread in `mutex_wait`, which a release may miss.
* **Process** - the table, flags, family, signals and the thread of each
  process; `mtx`, `shares`, `excl` are the mutexes that are held over a wait.
  `Hk...` is `clean_up_from_housekeeping`, `Main...` is `userland_shutdown`, in which
  each look at the table is a step before the signals that follow it. A parent that
  was freed is followed to a "crash".
* **ProcFiles** - the list of descriptors and the system calls on files, each pass
  over the list one step.
* **Buddy**, **Heap** - `Buddy` has the operators of one pool (splitting, merging,
  waste pages); `Heap` the actions: page allocation in two steps without lock,
  and malloc, calloc, free and realloc over slabs and pages.
* **Disk**, **BlockDev** - the abstract disk of blocks, and the device with its
  cache of entries that are clean, dirty or erased; `ImplementsDisk` maps the
  newest version of each block to the abstract one.
* **RamFs**, **Fs** - inodes, entries, links and buffers as operators; the chain
  of steps that is `fs_open`, and close, read, write, seek, mount and unmount,
  each allocation a choice. `ptr` is a pointer into an array that may move.
* **PageTable**, **Vmm**, **Pmp**, **Memmap** - page tables of few entries with
  their walk, mapping, superpages, splitting and the broadcast of kernel entries;
  the ranges of kernel addresses; the encoding and swap of PMP entries; and the
  memory maps of processes over all three.
* **Irq** - service routines, `isr_spinlock`, and the three controllers.
* **Trap** - one user thread, its kernel side, signal frames, and every switch. The
  dump of a killed process reads user memory with ISR_CTX_FLAG_NOEXC set, the flag
  that `riscv_trap_handler` looks for (`Backtrace`, `ReadFrame`, `KernelTrap`).
* **I2c** - the driver, its handler in steps, and the peripheral (external).
* **Smp** - the device tree's CPUs, their numbers, and each hart until it
  schedules; `conf.held` are the harts in the response of the boot loader, and
  `smp_poweron` fails for any other.
* **Dtb** - the recursive parser as a machine with a stack of calls, one step per
  token; the table of phandles, and the search for drivers.
* **IntRoutines**, **NumToStr** - pure operators of the word width, compared with
  the arithmetic of TLA+ in `NumbersRight`.
* **MCPlatform** - composes ThreadTable, ProcFiles, Irq, Trap, I2c, Smp, Dtb and the
  arithmetic side by side; `part` says which one moves in a behaviour, `Scene`
  which configurations it has. They share no state, so nothing is lost by moving
  one at a time.
* **Arrays** - the arrays and lists of `badgelib` as the kernel uses them (external):
  insertion, removal, both ends. Mutex, Scheduler, Timer and Housekeeping use it.
* **ArrayLemmas**, **SpinlockProofs**, **MutexProofs**, **SchedulerInvariant**,
  **SchedulerLists**, **SchedulerProofs**, **TimerProofs**, **HousekeepingProofs**,
  **ProcessProofs** - inductive invariants, lemmas and theorems; see "Proofs".

Compositions: `Memmap` composes page tables, PMP, address ranges, and the frames
of the page allocator; `Fs` the virtual and the RAM filesystem; `Heap` slabs and
pages; `Mutex` includes the timer and `thread_handoff` as it uses them; `Process`
includes the housekeeping thread and the mutexes.

## Runs that pass

`tlc -config <cfg> <module>`; each takes up to a minute or so.

| Run (module, cfg) | Properties | Instance | States |
|---|---|---|---|
| spinlock (Spinlock) | `WordEncodesHolders`, `ImplementsRWLock`, `SomebodyGetsIn` | 3 contexts that read and write, shared lock | 4,961 |
| mutex (MCMutex, Mutex) | `LockSound`, `WaitersSound`, `ImplementsRWLock`, `ExclusiveEntersFreeMutex` | 2 threads on one CPU with timeouts and everything failing; 2 threads and a handler on several CPUs, without and with timeouts; 2 spinning handlers | 81,322 |
| sched (MCScheduler, Scheduler) | `QueuesSound`, `StacksUnused`, `ExitedIsFinal`, `QueuedGetsItsTurn` | a kernel and a user thread that exit, are killed and signalled, or sleep; 3 threads taking turns; 2 CPUs with exits, and with a balancing interval; CPUs that start and stop | 126,617 |
| timer (Timer) | `TasksSound`, `RunsEarliestInTime`, `EveryTaskRuns` | 2 CPUs, 2 tasks | 44,699 |
| housekeeping (Housekeeping) | `QueueSound`, `RunsInOrder`, `TasksServed` | 2 clients, 3 tasks, one-time and repeating, cancelled, out of memory, with lost wake-ups | 20,523 |
| process (MCProcess, Process) | `ProcessesSound`, `CleanUpSound`, `ExitingProcessExits` | init with children, with and without memory; with grandchildren; a shutdown with SIGHUP and SIGKILL; processes started during a shutdown | 189,432 |
| heap (MCHeap, Heap) | `PoolsSound`, `GrantsSound` | a pool of 8 pages; two of 4; slab pages of four slots | 16,108 |
| blkdev (MCBlockDev, BlockDev) | `CacheSound`, `ImplementsDisk`, `StepsSound` | 2 blocks; read, write and no cache, failing device, RAM disk, read-only | 54,028 |
| fs (MCFs, Fs) | `TreeSound`, `FilesSound` | 3 inodes, 3 opens; every flag; 2 threads in one file; listings; mounts; no memory | 124,806 |
| vm (MCMemmap, Memmap) | `FramesSound`, `SpacesSound`, `RangesSound`, `MapsTake` | 2 processes; 2 and 3 levels; superpages of kernel and process; PMP; kernel addresses | 28,573 |
| platform (MCPlatform, Platform) | `TablesSound`, `InterruptsSound`, `InterruptsServed`, `TrapsSound`, `SignalsServed`, `TransfersSound`, `CpusSound`, `DevicesFound`, `NumbersRight` | see the comments of MCPlatform | 80,567 |

A property whose name ends in `Sound`, `Served` or `Take` is a conjunction; each
conjunct has a name and a comment of its own, and can be checked alone:

* `LockSound`: `TypeOK`, `SharesCountHolders`; `WaitersSound`:
  `EachWaiterHasOneWaker`, `ResumedOnlyWhenSwitchedOut`.
* `QueuesSound`: `TypeOK`, `OneListNode`, `RunningIsQueued`, `CurrentIsRunnable`,
  `CountersAgree`; `StacksUnused`: `FreedIsUnused`, `StartStackUnused`.
* `TasksSound`: `TypeOK`, `OneFate`; `QueueSound`: `TypeOK`, `NumbersUnique`;
  `TasksServed`: `PassEnds`, `EveryTaskRuns`.
* `ProcessesSound`: `TypeOK`, `ExitedHasNoThread`, `DeletedIsUnused`, `FamilyTree`,
  `OffIsClean`; `CleanUpSound`: `CleanUpFindsProcess`, `CleanUpSurvives`,
  `JoinedThreadCanExit`, `ReportedOnce`.
* `PoolsSound`: `TypeOK`, `BlocksTile`, `BuddiesMerged`, `AllocationComplete` (a
  request is refused only if no aligned run of free pages could serve it);
  `GrantsSound`: `GrantsDisjoint`, `SlabsCounted`, `NothingLeaks`.
* `CacheSound`: `TypeOK`, `OneEntryPerBlock`, `CleanMatchesDisk`; `StepsSound`:
  `HousekeepingWritesBack`, `ErasedReadsFF`.
* `TreeSound`: `TypeOK`, `LinksCounted`, `TreeIsSound`, `NoJunk`; `FilesSound`:
  `OpenInodesUsed`, `OpenFilesHeld`.
* `FramesSound`: `TypeOK`, `FramesOwned`, `TablesPrivate`; `SpacesSound`:
  `HalvesApart`, `KernelShared`, `ContainsExact`, `UserSeesOwn`; `RangesSound`:
  `VmmTiles`, `GuardsKept`; `MapsTake`: `MapGivesMemory`, `StepsArePrivate`,
  `KernelMapTakes`.
* Those of `MCPlatform` name the conjuncts of the part that they are about.

### Conditions

Several properties hold only under a condition, which they state, or for callers
that the configuration restricts; the next section shows what happens otherwise.

* `FreedIsUnused` (for the stacks) and `ResumedOnlyWhenSwitchedOut`: one CPU. A dead
  thread is in `dead_threads` while its CPU still searches for the next thread on
  its stack, and a second CPU can run housekeeping.
* `RunningIsQueued`: before the first load balancing. `QueuedGetsItsTurn`: one CPU,
  since load balancing between several may drop a thread or never end. On one CPU a
  thread that is resumed with SCHED_STARTNOW passes the others once; to pass them
  again it has to be picked and leave the queue, and before it comes to the head
  once more the waiting thread has.
* `Timer.cfg` adds tasks with interrupts disabled. `EveryTaskRuns` of `Housekeeping`:
  until `hk_cancel` has left `hk_mtx` locked or the housekeeping thread waits for a
  mutex that is free, its wake-up lost.
* `CleanUpFindsProcess`, `JoinedThreadCanExit`, `ReportedOnce`: as long as nobody is
  killed. `FamilyTree`, and `DeletedIsUnused` where it speaks of the parent: as long as
  only init has had children. `CleanUpSurvives`, `ExitingProcessExits`: both, and for
  the latter the clean-up task was added and no wake-up of a mutex is lost.
* Heap: `phys_page_alloc` does not race with malloc, and no pool has the sixteen
  pages of which the metadata takes one.
* BlockDev: `conf.careful` keeps callers to partial writes and erasures of blocks
  that have a cache entry ("partial", "erase"), to caches that are replaced or
  deleted with one entry to write back at most ("replace"), and to blocks that do
  not get the aged entry of another one ("reuse"); data that a failing device has
  lost is not expected to be there.
* Fs: one `fs_open` at a time, and the second allocation of a new directory
  succeeds. A mount, or the first handle of a walk, without memory follows a null
  pointer, which ends the behaviour. `OpenInodesUsed` is about the files that were
  opened since the file system was mounted.
* Memmap: no process unmaps a region by a base at which it has mapped memory
  with page tables, kernel mappings do not change the entry of a top table that
  processes have a copy of, and the PMP has one CPU.
* Platform: a routine is removed where there is one CPU, the PLIC serves one
  device, the boot hart leads a device tree in the order of its harts (those that
  the boot loader holds are started), interrupts of an I2C transfer arrive before
  its time-out, transfers are made one at a time and a slave stalls only when nothing
  is left to send, several threads share one file or one thread has several,
  phandles lie close together.

### Bounds

Each race involves two or three actors, and the instances have that many: a
waiter, a notifier and a timer; two CPUs and the thread that moves between them;
a process, its parent, the housekeeping thread and the thread that shuts down;
two processes and the kernel. `MaxTime`, `MaxTasks`, `MaxTid`, `MaxPid`, `MaxEst`, and
`maxTime`, `maxSig`, `maxPid`, `maxEpoch`, `grants`, `maxfile`, `maxlen`, `maxused`, `raises`,
`files` of the configurations stop clocks, counters and loads once every order of
the events has occurred; `MaxEst` is needed because every forced handoff adds to
the load estimate until the next measurement. Sizes of the hardware and of tables
are as small as lets each boundary be met: page tables of two or four entries (a
superpage has a neighbour on each side), slab pages of four slots (each fill level
is a list), FIFOs of three bytes with registers that move two (an operation needs
several of both), words of four bits for every pair of operands, and all the bits
of 32 and 64 for the tables of `__clz` and `__ctz`. `Depth = 2` in `Trap` is the
number of reads of a dump, of which BACKTRACE_DEPTH allows more; two are a first one
and one that follows a pointer that was read. `IntMax = 127` in `Spinlock` is a word
of eight bits; nothing depends on its size but overflow, which `UsersAssumption`
excludes.

Runs with `CHECK_DEADLOCK FALSE` end where a bound is reached, where everybody has
returned, where a `fault` is recorded or where the machine is off.

`BlockDev.cfg` and `Memmap.cfg` have a VIEW that leaves out the result of the last
call. `Next` does not read it, so states that differ in it alone have the same
successors, and the properties that are about results are action properties,
which TLC evaluates on every step, also on one that leads to a known state.

### Fairness

A CPU that spins keeps executing and a critical section ends (`Spinlock`, `Mutex`);
the preemption timer ends every time slice, so that every CPU requests a switch
again (`Scheduler`, in the configurations on one CPU, `conf.fair`); time passes and
an expired timer interrupt stays pending until interrupts are enabled, hence strong
fairness (`Timer`); `hk_mtx` is released between two passes and the other threads run
then, hence strong fairness for acquiring it, but none for a thread that waits to be woken (`Housekeeping`); each
kernel thread and each process in the kernel is scheduled, and gets a mutex that
stays free (`Process`); a CPU executes its interrupt handler and a driver that waits
for `isr_spinlock` gets it (`Irq`); a time slice is long enough for a step and the
timer finds user mode again and again, hence strong fairness (`Trap`). User code
need not make any call, and devices need not ask for service.

## Disagreements

Each row is a property that a comment, an assertion or a caller states, and that
TLC finds violated by an execution of the code. To see it, take the cfg of the
run, change what the second column says, and let the property of the row be the
only INVARIANT (*i*) or PROPERTY (*p*). For `Platform.cfg` the second column gives the
part that moves (`Moving = {"..."}`) and the scene. Where the row is not marked *F*
the specification may be `Spec` without fairness. The first row is a run of the
project: `MutexLostWake.cfg`.

| cfg | With | Property | What happens | Stated at |
|---|---|---|---|---|
| Mutex | `LostWakeConfigs` | `UnlockedMeansNoWaiter` *i* | a release between the failed swap and the insertion in the list notifies nobody | src/badgelib/mutex.c:30 |
| Mutex | `DeadlineConfigs` | `WokenByDeadline` *i* | `mutex_wait` adds the current time to a deadline that is already absolute | src/badgelib/mutex.c:263 |
| Mutex | `SharedSpinConfigs` | `SharedEntersFreeMutex` *p F* | a spinning reader never loads `shares` again | src/badgelib/mutex.c:143 |
| Mutex | `TornConfigs` | `PausedWhenListed` *i* | a waiter is resumed on another CPU before it is switched out | src/badgelib/mutex.c:66 |
| Scheduler | `SleepConfigs` | `SleeperWakesUp` *i* | the timer of a sleeper fires before it suspends | src/scheduler/scheduler.c:661 |
| Scheduler | `SignalConfigs` | `PrivilegedIsKernelMode` *i* | flags read before the thread is raised pick the user context | include/scheduler/types.h:37 |
| Scheduler | `TwiceConfigs` | `OneCpuPerThread` *i* | a suspended thread is resumed by another CPU before its own has left it | src/scheduler/scheduler.c:679 |
| Scheduler | `BalanceConfigs` | `InSchedulingQueues` *i* | `thread_handoff` returns true for a thread that it did not take | include/scheduler/types.h:29 |
| Scheduler | `BalanceConfigs` | `BarrierOpens` *i* | the counter of the barrier falls before all have seen it full | src/scheduler/scheduler.c:203 |
| Scheduler | `BalanceConfigs`, NCpus = 3 | `RunMutexReleased` *i* | an early return keeps a share of `run_mtx` | src/scheduler/scheduler.c:144 |
| Timer | Cpus = {c1}, CallersIrq = {TRUE}, Delays = {1}, Slices = {1}, MaxTasks = 1 | `IsrNeverWaitsForItself` *i* | `tasks_spinlock` is held with interrupts enabled | src/time.c:99 |
| Timer | Cpus = {c1}, Delays = {1, 3}, MaxTime = 3 | `TaskBeforePreemption` *i* | the alarm is set to the latest task instead of the soonest | src/time.c:63 |
| Housekeeping | Clients = {c1}, Intervals = {0}, NoMem = FALSE, TsMax = 3, MaxTasks = 2 | `QueuedTaskRuns` *p F* | `hk_cancel` returns with `hk_mtx` locked (it has no caller yet) | src/housekeeping.c:99 |
| Housekeeping | the same with Cancels = FALSE | `QueuedTaskRuns` *p F* | a release of `hk_mtx` misses the housekeeping thread, which waits for the free mutex, and no task runs any more | src/housekeeping.c:99 |
| Housekeeping | the first with Cancels = FALSE, NoMem = TRUE | `AddReported` *i* | a task that was not queued is reported as queued | src/process/process.c:129 |
| Process | `OrphanConfigs` | `ChildrenAgree` *i* | adopted children keep the pointer to their old parent | src/process/process.c:528 |
| Process | `OrphanConfigs` | `ParentLives` *i* | the clean-up of an adopted child uses the mutex of its old parent, which is freed | src/process/process.c:528 |
| Process | `OrphanConfigs` | `PrestartKilled` *i* | a pre-start child outlives its parent | src/process/syscall_impl.c:91 |
| Process | `StopConfigs` | `JoinEnds` *i* | a killed thread needs the mutex of the thread that joins it | src/process/process.c:509 |
| Process | `StopConfigs` | `TaskHasProcess` *i* | the second clean-up task of a process finds none | src/process/process.c:512 |
| Process | `StopConfigs` | `ShutdownEnds` *p F* | SIGKILL waits for `hk_mtx` while housekeeping waits for the process | src/main.c:167 |
| Process | `FamilyConfigs` | `PendingFlag` *i* | PROC_SIGPEND is never cleared | include/process/process.h:16 |
| Process | `SmallConfigs` | `NoLimbo` *i* | a process whose start failed is neither pre-start nor running | src/process/syscall_impl.c:116 |
| Process | `SmallConfigs` | `PollReports` *p* | `waitpid` with WNOHANG never looks at the children | src/process/syscall_impl.c:207 |
| Process | `StartConfigs` | `ExitedIsFinal` *p* | `proc_start_raw` stores PROC_RUNNING over PROC_EXITED | include/process/process.h:14 |
| Heap | `SixteenConfigs` | `WasteNotGivenOut` *i* | a reallocation in place takes waste pages | src/malloc/static-buddy.c:54 |
| Heap | `SixteenConfigs` | `AllocationComplete` *i* | after it, a request is refused that free pages could serve | src/malloc/static-buddy.c:510 |
| Heap | `RaceConfigs` | `GrantsDisjoint` *i* | `phys_page_alloc` takes no lock, and a block is granted twice | src/page_alloc.c:17 |
| BlockDev | `AllConfigs`, no VIEW | `NothingLost` *i* | the dirty flag is cleared before a write that fails | src/blockdevice/blockdevice.c:28 |
| BlockDev | `SmallConfigs` | `ImplementsDisk` *p* | an entry that is reused for another block keeps the index of the old one | src/blockdevice/blockdevice.c:257 |
| BlockDev | `PartsConfigs` | `ImplementsDisk` *p* | a partial write of a block without entry leaves the rest of the block undefined | src/blockdevice/blockdevice.c:424 |
| BlockDev | `ReplaceConfigs` | `ImplementsDisk` *p* | a cache that is replaced or deleted with two entries to write back loses one, since `blkdev_flush` returns after the first | src/blockdevice/blockdevice.c:577 |
| BlockDev | `EraseConfigs` | `EraseErases` *p* | erasing a block without an entry leaves the flag of the new entry unset | include/blockdevice.h:43 |
| BlockDev | `EraseConfigs` | `FlushWritesAll` *p* | a flush that succeeds leaves something to write | include/blockdevice.h:68 |
| BlockDev | `EraseConfigs` | `CloseFlushes` *i* | so does closing the device | include/blockdevice.h:30 |
| BlockDev | `UncachedConfigs` | `NoFault` *i* | a read or write of a device without a cache follows a null pointer | src/blockdevice/blockdevice.c:300 |
| Fs | `TreeConfigs` | `HandleKeepsFile` *i* | opening a file that is open adds a handle without counting it, so closing one handle closes the file of the other | src/filesystem/vfs_internal.c:233 |
| Fs | `TreeConfigs` | `IndexIsPlace` *i* | shared files move in their list and keep the old index | include/filesystem/vfs_types.h:19 |
| Fs | `FlagsConfigs` | `ExclusiveCreates` *p* | EXCLUSIVE opens a file that exists | include/filesystem.h:38 |
| Fs | `FlagsConfigs` | `OpenedAsAsked` *i* | the root directory is opened as a file | include/filesystem.h:42 |
| Fs | `FlagsConfigs` | `WalksDirectories` *i* | the walk goes on through a file | src/filesystem/filesystem.c:176 |
| Fs | `TreeConfigs` | `UmountCloses` *i* | the loop closes handles while the list shifts, so every second one stays open | src/filesystem/filesystem.c:444 |
| Fs | `MountConfigs` | `MountMutexBalanced` *i* | a mount without a type and a medium does not return after the error, and releases `vfs_mount_mtx` twice | src/filesystem/filesystem.c:347 |
| Fs | `BytesConfigs` | `WriteLands` *i* | a handle that unmounting left open writes to an inode that is gone | include/filesystem.h:186 |
| Fs | `TreeConfigs` | `RemoveFits` *i* | removing an entry moves bytes past the end of the directory | src/filesystem/vfs_ramfs.c:89 |
| Fs | `TreeConfigs` | `WalkHandleGone` *i* | an open that succeeds never destroys the directory handle of its walk | src/filesystem/filesystem.c:711 |
| Fs | `DotsConfigs` | `TreeIsSound` *i* | a directory whose second entry finds no memory stays | src/filesystem/vfs_internal.c:202 |
| Fs | `NoMemConfigs` | `NoMemReported` *i* | a mount, or the first handle of a walk, without memory follows a null pointer | src/filesystem/filesystem.c:681 |
| Fs | `RaceConfigs` | `OpenFilesHeld` *i* | unmounting closes the walk's handle of an open in progress, which then drops the count of the file again | src/filesystem/vfs_internal.c:202 |
| Memmap | `UnmapConfigs` | `UnmapRevokes` *p* | the page stays mapped after its frame is free | src/process/proc_memmap.c:153 |
| Memmap | `AssertConfigs` | `NoFault` *i* | a page whose access was revoked is looked up again to free its memory, and the assertion that it is accessible fails | src/process/proc_memmap.c:160 |
| Memmap | `GlobalConfigs` | `GlobalVisible` *i* | a new kernel entry does not reach the processes | include/memprotect.h:18 |
| Memmap | `OverlapConfigs` | `MapTakesNothing` *p* | the sizes tried start at `__builtin_clzll(pages)`, which is more than was asked for and covers another mapping | src/process/proc_memmap.c:81 |
| Memmap | `SplitConfigs` | `SplitKeeps` *p* | splitting a superpage of several levels gives its parts consecutive frames | port/generic/src/memprotect.c:144 |
| Memmap | `RevertConfigs` | `KernelMapTakes` *p* | the broadcast copies from a process to the kernel and undoes the mapping | port/generic/src/memprotect.c:601 |
| Memmap | `StaleConfigs` | `UserSeesOwn` *i* | another CPU keeps the PMP entries from before | cpu/riscv/src/memprotect/riscv_pmp.c:440 |
| Memmap | `LastConfigs` | `NoFault` *i* | freeing a range behind the last free one reads past the array | port/generic/src/memprotect.c:451 |
| Memmap | `PmpConfigs` | `NullIsProtected` *i* | the unlocked entry of user mode has a lower number than the locked ones and matches first | port/esp32p4/src/memprotect.c:17 |
| Platform | threads, usual | `EveryThreadIsFound` *i* | numbers are drawn before the lock and appended out of order | src/scheduler/scheduler.c:389 |
| Platform | threads, usual | `IsrGetsMutex` *i* | an ISR waits for `threads_mtx` of the thread it interrupted | src/scheduler/scheduler.c:745 |
| Platform | files, usual | `EachIsFound` *i* | every descriptor gets the number 0, and only the first is found | src/process/process.c:403 |
| Platform | files, share | `TablesSound` *i* | two closes of one number remove two descriptors and close one file | src/filesystem/syscall_impl.c:29 |
| Platform | files, blind | `TablesSound` *i* | a close that found nothing removes a descriptor that was added since | src/filesystem/syscall_impl.c:29 |
| Platform | irq, usual | `EveryDeviceServed` *p F* | the handler of the PLIC never completes a claim, and a second interrupt is never delivered | src/interrupt.c:82 |
| Platform | irq, usual | `RemoveWorks` *i* | `isr_install` does not store the IRQ that `isr_remove` reads | src/interrupt.c:69 |
| Platform | irq, removed | `InterruptsSound` *i* | an interrupt in flight finds no routine and panics | src/interrupt.c:82 |
| Platform | irq, two | `InterruptsSound` *i* | two drivers write one enable register from stale values | cpu/riscv/src/interrupt/riscv_plic.c |
| Platform | irq, rest | `InterruptsServed` *p F* | IRQs of a last group that is not full are not looked at | port/esp32c6/src/interrupt.c |
| Platform | trap, usual | `UserTrapStopsProcess` *i* | `\|\| !fault2` powers the machine off on a trap of user code | cpu/riscv/src/isr.c:209 |
| Platform | trap, usual | `NoAssert` *i* | a signal raised while the thread is switched out marks it privileged and still resumes its user code, whose next trap fails the assertion | cpu/riscv/src/scheduler.c:26 |
| Platform | trap, nested | `FaultInHandlerKills` *p* | returning from an inner handler clears the flag of the outer one, whose fault is then handled | src/process/sighandler.c:103 |
| Platform | trap, full | `FaultAnswered` *p F* | without room for a frame the faulting instruction repeats for ever | src/process/sighandler.c:102 |
| Platform | trap, starved | `SignalsServed` *p F* | an ignored fault repeats, and no other signal is taken | src/process/sighandler.c:102 |
| Platform | i2c, usual | `SyscallReads` *i* | the system call for reading writes | src/hal/syscall_impl.c:72 |
| Platform | i2c, usual | `ReadFills` *i* | a read completes while its bytes are still in the FIFO | src/hal/syscall_impl.c:73 |
| Platform | i2c, slow | `TransfersSound` *i* | after a time-out the handler follows a pointer to a dead stack | port/esp_common/src/i2c.c:398 |
| Platform | i2c, long | `TransfersSound` *i* | a transfer of more commands than registers leaves no register for END, and the controller runs past them | port/esp_common/src/i2c.c |
| Platform | i2c, rude | `TransfersSound` *i* | a write that stalls with bytes left to send times out with its interrupt enabled, and the handler follows a pointer to a dead stack | port/esp_common/src/i2c.c:398 |
| Platform | i2c, callers | `TransfersSound` *i* | `i2c_sync_trans` takes no lock, and two callers mix their transactions | port/esp_common/src/i2c.c:412 |
| Platform | smp, boot | `CpusSound` *i* | with a boot hart other than 0 `smp_get_cpuid` returns the hart of another CPU: it searches `smp_unmap` and returns an entry of `smp_map` | cpu/riscv/src/smp.c:150 |
| Platform | smp, order | `CpusSound` *i* | the same with CPU nodes that are not in the order of their harts | cpu/riscv/src/smp.c:197 |
| Platform | dtb, apart | `DevicesFound` *i* | the difference of two phandles as an int puts them out of order | port/generic/include/port/dtb.h:128 |
| Platform | arith, wide | `NumbersRight` *i* | `1ull << k` loses the upper bits of a quotient of 128 bits | src/freestanding/int_routines.c:43 |
| Platform | arith, usual | `RoutinesRight` *i* | `__divmod4` divides negative numbers as they are, `__lshr` shifts in the sign, `__muldi3` masks its operand | src/freestanding/int_routines.c:4 |
| Platform | arith, usual | `PackedEnds` *i* | `uint_to_cstr_packed` leaves out the terminator when one byte is left | src/badgelib/num_to_str.c:215 |

## Proofs

`tlapm <module>` checks the proofs of a module. For these six components each
invariant, action property and refinement that a run checks is a theorem, without
the bounds of the run:

| Theorem | States | For every |
|---|---|---|
| `SpinlockCorrect` | `Spec => [](TypeOK /\ WordEncodesHolders)` | finite set of users, kind of lock, odd `IntMax` |
| `SpinlockImplementsRWLock` | `Spec => ImplementsRWLock` | the same |
| `MutexLockSound` | `Spec => []LockSound` | finite set of threads and handlers, magic value, set of configurations |
| `MutexWaitersSound` | `Spec => []WaitersSound` | the same |
| `MutexImplementsRWLock` | `Spec => ImplementsRWLock` | the same |
| `SchedulerQueuesSound` | `Spec => []QueuesSound` | number of CPUs, finite set of threads, set of workloads, measured loads |
| `SchedulerStacksUnused` | `Spec => []StacksUnused` | the same |
| `SchedulerExitedIsFinal` | `Spec => ExitedIsFinal` | the same |
| `TimerTasksSound` | `Spec => []TasksSound` | finite set of CPUs, tasks, delays, time slices, interrupts of the callers on or off |
| `TimerRunsEarliest` | `Spec => RunsEarliestInTime` | the same |
| `HousekeepingQueueSound` | `Spec => []QueueSound` | finite set of clients, tasks, times, intervals, with or without cancellation and memory |
| `HousekeepingRunsInOrder` | `Spec => RunsInOrder` | the same |
| `ProcessTableSound` | `Spec => []ProcessesSound` | number of processes, system calls of each, bound on pending signals |
| `ProcessCleanUpSound` | `Spec => []CleanUpSound` | the same |

The assumptions are the named ASSUMEs of the components: the types of the constants,
and what follows. TLC evaluates them in the runs.

* Spinlock: `INT_MAX` is odd (it is 2^w - 1), and twice the number of users is below
  it, so that the counter cannot run into the bit of the writer.
* Mutex: "for ever" is later than every deadline that is one, and a handler that
  spins is on another CPU than the holder.
* Scheduler: there is a CPU, the boot thread is a kernel thread, and every workload
  has it.
* Housekeeping: the times asked for lie in `0 .. TsMax`.
* Process: nothing but the types; `MaxPid` is any positive number, and every process
  may use any set of the system calls.

Each proof has the same shape: `InitHolds` (`Init => IInv`), `NextHolds`
(`IInv /\ [Next]_vars => IInv'`) and that `IInv` implies the property, combined by
temporal logic. TLC has checked each `IInv` on the configurations of the run.
What has to be added to the property to make it inductive is the reason why it holds:

* **Spinlock.** `Alone`: a writer is alone. The word does not say who is inside, so
  without it a release could not be shown to leave nobody behind. `FreeWord` and
  `LowBit` are the arithmetic of the encoding; `TakeFindsFree` and
  `TakeSharedFindsNoWriter` say what an exchange that succeeds has found. For the
  refinement, a successful exchange is an acquisition, a release is a release, and
  every other step leaves the holders as they are.
* **Mutex.** `LockFits` (the holders that `shares` stands for, and fewer readers than
  the magic value), `CallsFit` (what a caller may hold in each loop; a caller in
  `mutex_wait` comes back to the loop it left) and `WakersFit`: a
  thread that was taken from the run queue is exactly one of blocked, in the hand of a
  notifier, and in the hand of its timer; it is listed once until it is resumed; two
  notifiers never have the same thread; and on one CPU a thread between
  `WaitBlock` and `WaitYield` has not been touched, since nobody else runs.
* **Scheduler.** `ListsFit` strengthens `OneListNode` with the flags: a thread that is
  queued, or in the hand of the thread that resumes it, is RUNNING, and one that is dead
  or freed has EXITED, which excludes RUNNING. That is why `thread_try_mark_running`,
  which tests the flags alone, can never queue a thread twice. `CpuFits` says what a CPU
  executes and will execute: in "run" and between choosing and switching the thread
  is RUNNING and last in its queue (other CPUs append to the incoming list, not to the
  queue, and take nothing out), and SCHED_RUNNING is set in the second request, when
  the start stack has been left. `NoLoadYet` carries `RunningIsQueued`: before the first
  measurement all loads are 0, so the `thread_handoff` of an evicting CPU finds
  space, and the step in which load balancing drops a thread cannot occur.
  `CountersAgree` is inductive with `CpuFits`: a CPU that is started was not counted.
  `SchedulerLists` proves the steps of `ListsFit`, `CpusFit` and `NoLoadYet`,
  `SchedulerProofs` the types, the counters and the theorems.
* **Timer.** `Sorted` (soonest task last), `Fates` (a task is in one place of the array,
  or called, or cancelled) and `Numbered`: numbers in use are below `taskno_counter`,
  and the number that a CPU has drawn and not yet inserted is nobody else's, although
  `tasks_spinlock` is released in between.
* **Housekeeping.** `Sorted`, `Excluded` (who is inside a call holds `hk_mtx`),
  `Numbered`, in which the task that runs keeps its number while it is in no place of
  the queue, and that a pass does not look into the future. An insertion at the front,
  which is for tasks without a time, keeps the order because no time is below 0.
* **Process.** `LocksFit`: who starts or cleans up another process has a share of
  `proc_mtx`, and who joins a thread with `proc_mtx` in its hands is alone; a process
  leaves the table only when there is no share. `StartsFit`: a pre-start process, and
  one that is being loaded, has no thread, and one thread at most loads it.
  `ExitsFit`: PROC_EXITED excludes a thread and PROC_RUNNING. `InitLast`: init ends as
  the only process, and nothing runs after it, so that `ReapsFit` and `StartsFit` have
  to say that init is neither reaped nor started. `TreeFits`: init is nobody's child,
  and a number that was not drawn yet is in no family. `CleanFits` carries the second
  theorem, as long as nobody is killed: the tasks are of different processes, each of
  which is in the table, has made its last call and was not reported;
  PROC_STATECHG comes after the task and before the report. `CleanUpSurvives` is added
  as it stands: if only init has had children the parent is init, which is last. Most steps are
  "calm" (`Calm`): they change neither the table nor the flags that the invariant is
  about. `NextCases` says what the others do, and each part of the invariant is
  shown for those cases instead of for some forty actions.

`ArrayLemmas` has what insertion, removal, concatenation, reversal and the ends of
a list do to its places and its elements. The operators are those of `Arrays`,
explicit functions over the places, which the provers can follow better than the
subsequences and folds of the community modules. For the same reason `Those`, the
threads that a loop keeps of a list in their order, is defined by the increasing
enumerations of their places. That a sum of loads is a number (`SumType`) needs an
induction over finite sets; it is done with a smallest counterexample
(`SubsetMinimum`), since the strict subset order of a finite set is well founded.
Most leaves name Zenon, which is quick for set reasoning; those with arithmetic or
sequences are left to SMT.

Only model-checked are:

* all liveness (`SomebodyGetsIn`, `ExclusiveEntersFreeMutex`, `QueuedGetsItsTurn`,
  `EveryTaskRuns`, `TasksServed`, `ExitingProcessExits` and those of the other
  components): fairness is out of the prover's reach;
* the invariants and refinements of Heap, BlockDev, Fs, Memmap and the parts of
  MCPlatform: their algorithms are recursive operators or folds (buddy splitting, page
  walks, the device tree, arithmetic), about which the provers cannot do
  induction, or they hold for the callers that a configuration describes rather than
  for any.

## What is left out of the modelled parts

- Scheduler: the lengths of time slices and the load figures behind them; a wake-up
  timer that cannot be allocated; the branch "Suspend cancelled", which is
  unreachable. `sched_exit` has no caller: `ExitCpu` lets any thread call it. A CPU
  that evicts its threads while no other one runs spins.
- Mutex: `mutex_destroy`. A thread that is resumed before it was switched out ends
  the execution (`TornConfigs` shows that it happens).
- Process: a process has one thread, `waitpid` waits for any child, failing
  allocations and WNOWAIT are choices, and arguments are not modelled. Descriptors
  are not closed at exit; the code says so (TODO).
- Block devices: calls run to their end one at a time, since the code has no lock
  (TODO at src/blockdevice/blockdevice.c:13). An error code that
  is read and was never set (:528, :582) holds any value.
- Filesystem: paths are sequences of names, so `fs_is_canonical_path` is not
  modelled; APPEND and TRUNCATE are ignored by the code. Negative lengths, which
  release a mutex that was not taken (src/filesystem/filesystem.c:740, :795), and an
  `fs_detect` that fails with `vfs_mount_mtx` held (:355) are not inputs of the
  model. `vfs_unlink` has no caller; `Unlink` calls it between other calls. A realloc that
  shrinks a buffer succeeds.
- Virtual memory: an array of regions or ranges that cannot grow, the translation
  caches (`memprotect_commit` does not fence other CPUs, TODO at
  port/generic/src/memprotect.c:654), the loop of `proc_map_contains_raw` without
  virtual memory, and the start-up that probes the paging mode.
- Interrupts: `isr_remove` from inside a routine (it would wait for itself), and an
  `isr_install` without memory.
- Traps: `proc_pre_resume_cb` has no caller. Copying to and from user memory
  succeeds or fails as a whole.
- I2C: a NACK, the set-up of clock and pins, and the polling driver of the C6.
  Interrupts later than the time-out are in the scene "slow" only. `i2c_master_init`
  and `i2c_master_deinit` are called between transfers.
- CPUs: a number past the end of `smp_map` in `smp_poweron`. `smp_poweroff` is in
  `Scheduler`; `smp_pause` and `smp_resume` have no caller.
- Device tree: memory after a failed `dtb_open`, a tree without the node "soc",
  which follows a null pointer, and `dtb_close`, which has no caller.
- File descriptors: an array that moves between the two passes of one call; each
  pass is one step.

## Not modelled

- Loading of executables (src/process/kbelfx.c): callbacks for a loader that is not
  in the repository; its success or failure is a choice in Process.
- FAT (src/filesystem/vfs_fat.c): stubs without behaviour.
- User memory access (cpu/riscv/src/usercopy.c): that a fault in a copy is caught is in
  Trap; the loops that copy strings and buffers are left out.
- Hardware timers, GPIO, SPI and the rest of the HAL: register accesses without
  shared state. Timer models what the kernel relies on, an alarm that stays pending.
- PCIe and AHCI: register accesses of a single thread at boot.
- Initialisation of the ports, formatting and logging: straight-line code, or output
  that no other part reads.
- `badgelib` lists, arrays and errors: not in the repository, external.
- User programs: the models let them do any call that the interface allows.
