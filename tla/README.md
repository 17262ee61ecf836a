# The Pintos kernels of 451PintOS in TLA+

This directory holds TLA+ models of the two kernels in this repository, the TLC
configurations that check them, and theorems about them checked by TLAPS.

- **Kernel 1** is `pintos/src`: the project that adds an alarm clock, strict
  priorities, priority donation and ordered wait lists to the stock Pintos
  threads.
- **Kernel 2** is `pintos2/src`: user processes, system calls, pipes, fork and
  an unfinished virtual memory over the stock threads.
- `pintos/tests` is a third copy of the devices, library and tests, identical
  where the kernels need it; it is not modelled apart.

Paths below are relative to the kernel's `src` directory unless they say which
kernel they belong to.

## 1. Inventory

| Part | State | Operations | Talks to |
|---|---|---|---|
| Threads and scheduler (1: `threads/thread.c`) | `ready_list`, each thread's `status` and `priority`, `thread_ticks`, the running thread | create, unblock, block, yield, exit, schedule, tick, set_priority | everything; called from handlers |
| Semaphores, locks, donation (1: `threads/synch.c`) | a value and waiters for each semaphore, a lock's holder, a thread's `lock_list`, `original_priority`, `waiting_priority`, `blocker_thread` | sema_down/up/try_down, lock_acquire/release, thread_set_priority_donated | scheduler |
| Condition variables (1: `threads/synch.c`) | the waiters of a condition, each with its own semaphore | cond_wait, cond_signal, cond_broadcast | locks, semaphores |
| Alarm clock (1: `devices/timer.c`) | `ticks`, `sleep_list`, a thread's `wakeup` | timer_sleep, timer_interrupt | scheduler |
| Processes (2: `userprog/process.c`, `syscall.c`, `forkutils.c`) | a thread's `parent`, `child_list`, `return_status`, `wait_sema`, `wait_on_parent`, `load_sema` | process_execute, start_process, fork, exec, wait, exit | scheduler, page allocator, file system |
| Pipes (2: `userprog/syscall.c`) | `pipe_buffer_array`, a ring for each | pipe, read, write, close | `filesys_lock` |
| System calls on files (2: `userprog/syscall.c`, `filesys/file.c`) | a process' `files`, `filesys_lock` | create, remove, open, close, read, write, seek, tell, filesize, dup2, mmap, munmap | file system, user memory |
| User memory (2: `userprog/pagedir.c`, `exception.c`) | page directories | validation, page fault, kill | processes |
| Virtual memory (2: `vm/`) | `frame_list`, the hand, supplemental page tables, the swap map | frame_get_page, eviction, load_page, swap in and out | page faults, file system, block layer |
| File system (`filesys/`) | `open_inodes`, an inode's `open_cnt`, `removed`, `deny_write_cnt`, directories, the free map | create, open, remove, read, write, close | block layer |
| Block layer and IDE (`devices/block.c`, `ide.c`, `partition.c`) | for each channel a lock, `completion_wait`, `expecting_interrupt` | read and write a sector; the interrupt handler | semaphores, interrupts |
| Interrupt queue and its users (`devices/intq.c`, `input.c`, `serial.c`, `kbd.c`) | a ring of 64 bytes, `not_full`, `not_empty` | getc, putc; handlers | scheduler |
| Console (`lib/kernel/console.c`) | `console_lock`, its depth | printf and the like | serial, vga |
| Allocators (`threads/palloc.c`, `malloc.c`) | two pools with bitmaps; descriptors, arenas and blocks | get and free pages and blocks | locks |
| Interrupts (`threads/interrupt.c`) | the level, `in_external_intr`, `yield_on_return` | enable, disable, dispatch | scheduler |
| Lists, hash tables, bitmaps (`lib/kernel/`) | links, buckets, bits | insert, remove, search, sort | everybody |
| Boot, shutdown, other devices, user library, host tools | | sequential | |

### What is hard here

*Preemption.* There is one processor. A timer interrupt may switch threads
wherever interrupts are on, and much of the code that kernel 1 adds works on
shared data with interrupts on: `lock_acquire`, `lock_release`,
`thread_set_priority` and the donation.

*A wakeup that is a switch.* In kernel 1 `thread_unblock` yields when the woken
thread outranks the running one. So `sema_up`, `cond_signal`, `cond_broadcast`
and `thread_create` may be suspended in the middle, and the timer's handler
calls it too.

*Keys that change.* The ready list, the waiters of semaphores and those of
conditions are sorted by a priority that donations change while a thread is
queued.

*Pages that go away.* A `struct thread` is a page, freed when the thread has
exited and filled with `0xcc`. Kernel 2 keeps pointers to parents and children,
and kernel 1 a `blocker_thread`.

*Rendezvous of two exits.* A parent and its child exit at the same time, each
looking at the other with interrupts on.

*Work done outside the lock.* `pipe` looks for an empty place in its table
without `filesys_lock`; loading a program, and closing files on exit, use the
file system without it.

*Interrupt handlers and blocking.* The interrupt queue's `wait` and `signal`,
the IDE driver's completion, the alarm.

### What makes each part correct

- *Scheduler:* the ready list holds the ready threads, each once, in order; the
  best thread runs; equals take turns; the best ready thread is not starved.
- *Semaphores and locks:* mutual exclusion; a semaphore's value is never lost;
  nobody sleeps while the semaphore is available and no wakeup is on its way;
  each waiter is on the one list it should be on; the best is woken.
- *Donation:* it never leaves a thread below its own priority, unless pages of
  threads are used again; what it promises besides is under the findings and known disagreements.
- *Conditions:* a waiter has exactly one place on the list or one signal, never
  a signal of an earlier wait; a signal is delivered.
- *Alarm:* a sleeper wakes at the first tick at or after its time, never before.
- *Processes:* wait returns for the process' own child, once, after it exited; the
  family lists and the `parent` fields agree; nobody is left waiting.
- *Pipes:* each is a bounded queue that loses, duplicates and reorders nothing;
  `filesys_lock` comes back.
- *File system:* every sector is free or belongs to one file; a removed file's
  sectors go when its last opener closes it; a program that runs is not
  written to; one in-memory inode for each sector.
- *Interrupt queue:* a bounded queue; a thread that waits for a key gets it.
- *Allocators:* a page or block has one owner; an arena is returned exactly
  when it is empty.
- *IDE:* one request a channel; a completion wakes the request it belongs to.

`PROJECT.json` lists these parts under "components", and under "hazards" the
lines where the code is exposed, each with the properties that watch it.

## 2. Modules

    Threads --> AlarmClock --> MCAlarm       AlarmClock refines AlarmSpec
      |              |
      v              +------------+
    Synch --> MCSynch             |
      |                           v
      v                           |
    Monitor --> MCMonitor, SynchProofs

    Process --> ProcessProofs                (kernel 2)
    Pipe -----> PipeProofs                   Pipe refines PipeSpec
    Serial ---> SerialProofs                 Serial refines FifoSpec, twice
    FileTable --> FileTableProofs
    FileSys --> MCFileSys, FileSysProofs
    Stock ----> Ide --> IdeProofs            Ide refines DiskSpec

    Lists, HashTable, Memory, Routines, Layout --> Kernlib     (both kernels)
    Memory, Layout --> KernlibProofs

**Threads** (1: `thread.c`, `list_insert_ordered`). The variables are the
code's: `current` for the thread whose stack the processor is on, `status`,
`ready_list`, `priority`, `thread_ticks`, and `panicked` for a failed `ASSERT`.
The operators `thread_block`, `thread_unblock`, `thread_yield`, `thread_exit`,
`init_thread`, `thread_tick`, `Schedule` and `InsertOrdered` carry the names of
the functions they stand for. Each is one step: the functions run with
interrupts off. `thread_unblock` includes the yield at its end.
`ThreadsSpec` lets a client call each whenever the code's contract allows, and
interrupts happen at any time; Synch and AlarmClock use the same operators under
the code's own callers. A handler that wakes a thread that outranks the
interrupted one gets `thread_yield`'s `ASSERT (!intr_context ())`:
`thread_unblock_in_interrupt` sets `panicked`, after which nothing runs.

**Synch** (1: `synch.c`, and `thread_set_priority`, `thread_create` of
`thread.c`). `sema_down` and `sema_up` run with interrupts off; a pass of
`sema_down`'s loop is a step. All else runs with interrupts on, so
`stack[t]` holds the calls thread t is in, each frame with the place it is at
and the locals that are live there, and a step goes from one of the places below to the next (section 6
names the accesses that a step takes together):

| frame | the thread is about to |
|---|---|
| `donate`, `raise` | read, then perhaps raise the priority of the next holder in the chain |
| `acq_down`, `acq_wake` | down the lock's semaphore, at first and after a wakeup |
| `acq_own` | put the lock on its list and become the holder |
| `assign`, `disown`, `rel_up` | assign its priority, clear the holder, up the semaphore |
| `update`, `look`, `front` | the three parts of `thread_set_priority` |
| `new`, `tid`, `create` | `allocate_tid`'s acquire and release, then `thread_unblock` |
| `down_wake` | look at a semaphore's value again after a wakeup |

What the code reads by mistake is modelled by what the build reads:
`list_max` of a lock without waiters gives any of the client's priorities (in the code an arbitrary
word before the lock, so that higher and lower numbers are left out), a freed thread's priority reads as a negative number and
its `blocker_thread` points nowhere. `list_sort` is any stable order by
priority.

**Monitor** (1: `synch.c`). `cond` is the list of waiters with the priority
each had when it queued itself. The semaphore of `struct semaphore_elem`, on
the waiter's stack, is `WaiterSema[t]`.

**AlarmClock** (1: `timer.c`). `timer_sleep` is two steps, the computation of
`wakeup` with interrupts on and the insertion with interrupts off. The handler
runs with interrupts off as well; its steps are the advance of the clock, each turn of the
loop that wakes the front of the list (a woken thread may panic the kernel, after which the rest
stay on the list), and the return, with the scheduler's tick. **AlarmSpec**
says what callers may rely on; the mapping is `now <- ticks`, `due <- wakeup`,
`asleep <-` the threads on the list, less those that the handler in progress is about to wake.

**Process** (2: `process.c`, `syscall.c`). Scheduling is any interleaving (the
stock scheduler is preemptive and round robin). `pc` holds each process' place
in `process_exit`, `process_wait`, `process_execute` or `fork`; every statement that touches
another process' page, or a list, is a step, and `crashed` is set if that page is not there
any more. `next` and `prev` are the links of `child_list_elem` and of the head and the tail of each
`child_list`: `list_insert` is `Insert` (the new element's own links), `Link` and `LinkBack`, `list_remove` is `Unlink` and
`UnlinkBack`, and what `parent` says is set in steps of its own, `Adopt` and `Forget`; so an exit loop may follow the link of an element
that was removed, and two processes may be within the same list. `torn` is history, the processes
whose list two have changed at the same time; so are `forker` and `waited`.

**Pipe** (2: `syscall.c`). `pipe_buffer_array` with each ring's `start`, `end`,
`size` and open ends, `filesys_lock`, and a place for each process. A read and
a write are one step each, under the lock; `pipe` is a scan and a store without
it. **PipeSpec** is a table of bounded queues with two ends; the mapping takes
the characters from `start` on, `size` of them. A buffer whose ends pass the check may still fault in the copy, and
the array that `pipe` fills is not checked at all: `Fault` is what `page_fault` makes of it, the end of
the process or of the kernel, with the lock held if it was (`BadCopy`).

**Serial** (2: `intq.c`, `input.c`, `serial.c`, with `read` of the keyboard and
the console as their callers). `buffer` and `txq` are the two interrupt queues,
each a ring with its two waiters and its lock; `ier`, `thr` and `rbr` stand for
the UART. `intq_getc` and `intq_putc` run with interrupts off, so a step is one
pass up to where the thread blocks. `off` is the handler that runs: the loops of
`serial_interrupt`, and of a handler that prints, take a step for each byte,
since the UART goes on meanwhile. **FifoSpec** is a bounded stream; both queues
implement it, with the byte last read or sent in `moved`.

**FileSys** (2: `free-map.c`, `inode.c`, `directory.c`, `filesys.c`, `file.c`;
kernel 1 has the same). `disk`, `root` and `disk_map` are on the disk, everything
else is in memory. The file system leaves it to its callers to come one at a
time, so calls do not interleave; `call` holds the place of a call between two
writes to the disk, and `Restart` may come at any of them. `Seen` is what a pass
through the directory sees: a read that gets no memory ends it early. A file's
size is in sectors, its contents one value a sector.

**FileTable** (2: `syscall.c`, `process.c`, `forkutils.c` over `file.c` and the
open inodes of `inode.c`). `todo[p]` is the rest of the call process p is in, as
a sequence of steps; `open`, `close`, `write`, `tell`, `dup2`, `fork`, `exec` and
`exit` say which steps a call takes, in the order of the code, with `lock` and
`unlock` where it takes `filesys_lock` and not where it does not. Each step is
an access to the shared list of inodes, a count, a `struct file` or a
descriptor. The loops of `open` (the lowest free descriptor), of fork and of
exit are the steps `place`, `copy` and `shut`, which look at the next
descriptor and put before the rest of the call what it takes. `reg[p]` holds the call's locals. `files` and `inodes` are the heap,
with NULL for freed memory, so that a use after a free shows. `running` is
history: the program a process runs. `Alone` names calls that begin only when no
other call that uses the list of open inodes (open, close, exec, exit) is in progress, and the other way round; they meet
write, tell, dup2 and fork at any step. The root directory, which
`filesys_open` opens and closes around its search, is left out.

**Stock** and **Ide** (2: `thread.c`, `synch.c`; `ide.c`, `block.c`). Stock is
the round-robin scheduler with semaphores and locks as kernel 2 has them: the
functions that run with interrupts off are one step each. Ide is a channel over
it: `ide_init` on the main thread, then requests of several threads to two
disks. `pc[t]` is the place in the driver; each access to the channel is a
step, and a tick, the controller or the interrupt may come before any of
them. `selected` and `lba` are the registers both disks share; `bsy`, `drq`,
`irq` and `job` are the controller, which is external. **DiskSpec** says what
`block.h` promises: a request is one atomic read or write. The mapping takes
the platter for the store and calls a request done once the disk has the data
in its buffer, or has taken it from there.

**Lists** (`lib/kernel/list.c`, and `sort` and `binary_search` of
`lib/stdlib.c`). `next` and `prev` are the links of elements, heads and tails;
`list_insert`, `list_remove`, `list_splice` and `list_reverse` change them
as the code does, one assignment after the other; SequencesKept compares what each makes of the
sequences, for every element, place and range it can be given, with what its comment says. The algorithms (merge sort in
runs, ordered insertion, unique, maximum, heap sort, binary search) work on the
sequences. This is what lets the other modules have sequences for lists.

**HashTable** (`lib/kernel/hash.c`). `buckets`, `elem_cnt` and what the last
call returned. `rehash` leaves the table alone when there is no memory, and
otherwise moves the elements one by one.

**Memory** (`threads/malloc.c`, `palloc.c`, `lib/kernel/bitmap.c`). What malloc
and free do with a descriptor under its lock is a step. `palloc_get_multiple`
takes `pool_lock` and looks at a bit in each step; `palloc_free_multiple` clears
a bit in each step and takes no lock. `held` is what the callers have; `seen` is
history, the bits that were set when a search began. realloc is malloc with an
old block that is freed afterwards.

**Routines**. Functions without state, each next to a reference: the
division of two words (`lib/arithmetic.c`), integers in printf and vsnprintf
(`lib/stdio.c`), atoi, octal fields, memmove, strlcpy, strlcat, strstr, strtok_r
(`lib/`), the timer's counter (`devices/pit.c`), and the stack that
`start_process` makes of a command line. A word has W bits.

**Layout** (2: `load`, `validate_segment`, `load_segment` of `process.c`;
`found_partition`, `partition_read` of `devices/partition.c`). Numbers are
unsigned, of 32 bits (`WORD`), and wrap. A turn of `load_segment`'s loop is a
step that enters a page in `table`.

**Kernlib** puts Lists, HashTable, Memory, Layout and Routines in one
specification: `subject` is chosen at the start and says which of them moves.
They share no state, so nothing is lost by not interleaving them. The threads of
Memory are alike, which the run uses as a symmetry.

**SynchProofs**, **ProcessProofs**, **KernlibProofs**,
**PipeProofs**, **SerialProofs**, **FileSysProofs**, **FileTableProofs**, **IdeProofs**: see
section 5.

Definitions whose name ends in `_F` are faulty variants of the definition they
stand before: each is a slip that the property named above it must catch, and
`PROJECT.json` lists them as "mutants". They are no part of a specification.

## 3. Runs

| Run | Checks | Bounds |
|---|---|---|
| `threads` | ReadyListExact, HighestPriorityRuns, FifoAmongEquals, NoStarvationAtTop | 4 threads, 3 priorities, slices of 2 ticks |
| `synch` | LocksExact, NoLostWakeup, OwnPriorityKept, WokenIsBest | 3 threads; five clients: one lock and a semaphore among three priorities, and the same with threads that exit; two locks, a semaphore, handlers and changing priorities; threads created; threads created and exiting |
| `alarm` | SleepListExact, Refines, SleepersWake | 3 threads, 3 ticks, sleeps of up to 2 |
| `monitor` | SignalOnce | 3 threads of different priorities |
| `process` | ReapedAfterExit, FamilyExact, WaitedOnce, WaitReturns | main, one program run by it, 3 processes in all |
| `pipe` | RingExact, PipeImplementsFifo, LockComesBack | 2 processes, one pipe of 2 characters, transfers of up to 2 |
| `filetable` | FilesExact, NoWritePasses | 2 processes with 1 descriptor each, 2 files that are programs too, 6 `struct file`s and 4 inodes |
| `filesys` | DiskConsistent, OpenFilesExact, DeniedUnchanged | 4 sectors, 2 directory entries, 2 names and one too long, 2 open files, files of up to 2 sectors, two values of a sector |
| `ide` | StockExact, CompletionMine, DiskIsAtomic, CommandEnds | 2 threads, 2 disks of one sector with 2 values, each absent, usable or too big; slices of 1 tick; commands may fail |
| `serial` | QueuesExact, StreamsKeepOrder, WaitersServed | 2 processes, rings of 3 places, of which 2 hold bytes; keys of one value, threads and handlers print different ones |
| `kernlib` | HeapExact, NullOnlyIfNone, TableExact, TableIsMap, ListsExact, SequencesKept, RoutinesExact, WithinBounds, ImageExact | see below |

Several of these are conjunctions of parts that can be checked, and fail, on
their own:

- `LocksExact`: the type invariant of Synch, LockConserved (a lock's semaphore
  and its holder agree at every place of every call), LockListExact and
  WaitListsExact;
- `QueuesExact`: the type invariant of Serial, NeverContended and IerExact;
- `OpenFilesExact`: OpenFilesKeepSectors and CountsExact;
- `RoutinesExact`: ArithmeticExact, TextExact and ArgsExact; `ListsExact`:
  LinksExact and ListsSorted; `WithinBounds`: SegmentInUserSpace and
  PartitionInside;
- the type invariants of the other modules are conjuncts of ReadyListExact's
  strengthening (section 5), SleepListExact, SignalOnce, FamilyExact, RingExact
  and DiskConsistent.

`Monitor_live.cfg` (MCMonitor) is no run, but passes as well: with two threads
of one priority and fairness, a signal is delivered (SignalDelivered) and a
semaphore that is available is taken (AvailableIsTaken).

*Why the bounds are enough.* Three threads give a holder, a waiter and a third
that intrudes, and a donation chain of two; three priorities give a thread in
between, which inversion needs. Four threads in `threads` allow two equals on
the ready list below a better and above a worse one. A sleep of 2 with 3
ticks lets a sleeper be overtaken, be held up between computing its time and
queueing itself, and share a tick. Three processes give a grandparent, a parent
and a child, or two siblings, with main outside. A ring of two characters
wraps with transfers of one and two. A ring of three places fills and
empties with one thread waiting on each queue and the handlers between. Four
sectors hold a removed file that is open and its successor, and run out in the
middle of a create; files are alike, and so are the short names, so the run uses
symmetry. Two processes, one of which the other forks, share an inode and hold or lack
`filesys_lock`; of six `struct file`s one is Main's program, one that of the first
process, and three are what an exec needs, which leaves a descriptor, so that
one process may execute while the other is anywhere in a write; dup2 from a descriptor to itself forgets
the file it stood for, as it does to another one (by hand, the run passes as well with `Files = 7`, and with
`Fds = 2` and `Files = 5`, where no exec meets a write); the names are alike, which the run uses. Two threads on an IDE channel give one request in every state
while another waits for the lock or is switched, and two disks give every
wrong selection; a slice of one tick allows a switch between any two steps.

In `kernlib`: two lists of four elements, two of which are equal, give every
splice and reversal, ranges that are empty, single, whole and at either end, and
merges of up to three runs; a table of four keys with two copies of each grows
from 1 bucket to 4 and back; three pages of 12 bytes, with blocks of 4 bytes and
requests of 3 bytes, of 18 and of 60 (with the header, a sum that wraps to 0, and no pages),
give two blocks an arena, groups of two pages, and exhaustion, between two threads; a
word of 4 bits lets every dividend of two words meet every divisor; strings go
to 4 characters and command lines to 6; user space is 8 pages of 4 bytes in a
word of 48, so that a segment may begin, end and wrap at every edge.

Bounds are in the guards under the names
`MaxValue` (a client's semaphore), `MaxTicks`, `MaxSleep`, `MaxProc`, `MaxRuns`,
`MaxIO`, `Holds` and `Memory` (FileTable: a call begins only if there is memory
for what it allocates, and its steps that allocate wait until there is; what the
calls do without memory is left out): time stands still at `MaxTicks`, and no thread asks for a
time beyond it.

*Assumptions about callers.* In `filetable`, exec and exit run while no other
call that uses the list of open inodes is in progress (`Alone`): they use that list without
`filesys_lock`, and section 4 says what happens when they meet open, close, exec or exit. They do meet write, tell, dup2
and fork, step by step; so a write may pass the check of `deny_write_cnt`, and then all of an exec come before it stores: NoWritePasses is about the
check, and section 4 has what the store then does to a running program. dup2
and fork, which do not take the lock either, are interleaved with everything.
In `process`, FamilyExact leaves out a list from the moment on at which two processes have been within it at the same time (`torn`): nothing
excludes that, and section 4 has what becomes of such a list. The other properties of the run hold of all processes. Processes
exit with one value there; no property tells values apart.
In Layout, the length of an executable and the end of user space add up to less than 2^32
(`LayoutAssumption`). In `kernlib`, no request for memory is so large that the sum with the
header wraps to more than 0; section 4 has what happens then.

*Deadlock* is checked in `kernlib`, where a segment that is loaded and a routine that has
its input may stop, and nothing else: the allocators' locks, say, never
bring all threads to a stand. It is not checked in the other runs: there the system may stop, because clients
may exit, block for ever or have nothing more to do, or because it panicked.
That nobody sleeps in vain is stated by properties instead.

*Fairness.* The timer interrupts for ever (weak fairness of the tick).
In Threads, Synch and Ide a thread that is scheduled again and again makes progress in the
kernel calls it is in, and releases the locks it holds (strong fairness of
its step while it is current: a time slice is `TIME_SLICE` ticks, and an
instruction is less). No fairness is assumed of what a client chooses to call.
In Ide the controller besides ends its commands, well or not, and its interrupt
is served (weak fairness: both are hardware that nothing turns off for ever).
In Process and Pipe the scheduler is round robin, so a process that can take a
step inside the kernel takes it (weak fairness); nothing forces a user program
to make a call or exit. In Serial processes take their steps in the kernel again
and again (strong fairness, since waiting turns a step off), the interrupt is served, handlers go on
and the UART sends what it holds; nobody is assumed to type or print. A handler that prints for ever could fill
the queue each time before a woken thread looks at it: WaitersServed promises that a byte gets into the queue if
from some time on no handler prints. FileSys,
FileTable and Kernlib have no liveness. With strict priorities a low thread may starve: the
liveness properties of kernel 1 are about the best thread, or about equals.

## 4. Findings and known disagreements

A run checks a sentence of a comment, and TLC finds the code doing something
else:

| Run | Property | What happens |
|---|---|---|
| `release_takes_lowest` | ReleaseKeepsBest | `lock_release` keeps the priority of the lowest waiter of each lock still held: `list_max` with a comparison that is `>` returns the minimum |

These are known besides. Each is a property of its module with a configuration
that violates it:

| Configuration (module) | Property | What happens |
|---|---|---|
| `Threads_unblock.cfg` (Threads) | UnblockKeepsCurrent | `thread_unblock` preempts its caller; its comment says it does not |
| `Synch_recall.cfg` (MCSynch) | DonationRecalled | a thread takes a lock another is releasing, and keeps a donation meant for the previous holder |
| `Synch_recall.cfg` (MCSynch) | SwitchesToBest (*) | a ready thread that receives a donation keeps its place on the ready list |
| `Synch_recall.cfg` (MCSynch) | HolderOutranksWaiters (*) | a new holder is not raised to the waiters it inherits |
| `Synch_front.cfg` (MCSynch) | FrontExists | `thread_set_priority` may take the front of a list that has become empty |
| `Synch_front.cfg` (MCSynch) | NothingWaitsWithoutLock (*) | `waiting_priority` is never cleared |
| `Synch_dangling.cfg` (MCSynch) | DonatesToThread | `blocker_thread` outlives the wait, and the donation goes to a freed page |
| `Monitor_order.cfg` (MCMonitor) | CondOrder | `cond_signal` goes by the priorities at the time of queueing |
| `Alarm_panic.cfg` (MCAlarm) | NoPanic | the timer's handler wakes a sleeper that outranks the interrupted thread, and `thread_unblock` yields in the handler |
| `Process_freed.cfg` (Process) | WaitAccepted (*) | a child that has begun to exit has no `parent` any more, and `wait` for it returns -1 |
| `Process.cfg` (Process) | ListsWhole (*) | two children leave their parent's list at the same time, or one while the parent forks: `list_insert` and `list_remove` write one link after the other, without a lock, so that a child that has left stays linked, or one that is there is lost from the list |
| `Process_freed.cfg` (Process) | NoneUsedAfterFree | exit, wait and process_execute use a `struct thread` that has been freed |
| `Process_freed.cfg` (Process) | ExitFrees (*) | a child that exits as its parent's exit loop passes it is never told to go |
| `Process_freed.cfg` (Process) | RunReturns (*) | `process_execute` adopts a process that has already exited, and waits for ever |
| `Pipe_race.cfg` (Pipe) | StoredInEmptyPlace | two calls of `pipe` get the same place |
| `Pipe_race.cfg` (Pipe) | Bulletproof (*) | a descriptor in the range of pipes that was never opened is a null pointer |
| `Pipe.cfg` (Pipe) | GoneHoldsNothing (*) | a process killed for its buffer, or by a fault in the copy to or from it, keeps `filesys_lock` |
| `Pipe_race.cfg` (Pipe) | ExitCloses (*) | pipes outlive all processes |
| `FileTable_race.cfg` (FileTable) | FilesExact | exec or exit meets open, close, exec or exit: an inode is found in the list and freed before it is opened again, or is entered twice (`doc/userprog.texi:148-150` asks for the file system to be used by one process at a time) |
| `FileTable.cfg` (FileTable) | ProgramUnchanged (*) | `doc/userprog.texi:889` asks "to deny writes to files in use as executables"; a write that has passed the check of `deny_write_cnt` is switched out, another process executes the file, which takes no lock (`process.c:122-127`), and the write then changes the program that runs |
| `FileTable.cfg` (FileTable) | DupKeepsDeny (*) | dup2 denies writes to the new file unless they are denied to the old one; its comment says "copy over" |
| `FileTable.cfg` (FileTable) | RunningUnchanged (*) | a forked child has no `program`, so that its program may be written once its parent has exited |
| `FileTable.cfg` (FileTable) | Bulletproof (*) | `tell` of a descriptor that is not open fails an `ASSERT` |
| `Ide.cfg` (Ide) | ExpectingExact (*) | `expecting_interrupt` is never false again, so that a spurious interrupt completes the next command |
| `FileSys_lost.cfg` (MCFileSys) | NothingLost | a create that fails after allocating the data, for instance of a name that exists, loses the data's sectors |
| `FileSys_short.cfg` (MCFileSys) | EntriesKept | `dir_add` takes the end of reading for the end of the directory; with memory short, that is the place of another file |

The configurations of this table are not among the runs: each is run by hand
(`tlc -config Pipe_race.cfg Pipe`), violates its property today, and should pass
once the code is changed. For a property marked (*) use the configuration's
constants with that property in place of those it lists.

What the code does at these places is in the models, or excluded by an assumption
of section 3, and differs from its comment or from what the name promises:

- `threads/malloc.c:109`: the sum of a size near the highest and the header wraps, and a
  block smaller than asked for is returned (`Requests = {3, 61}` in `Kernlib.cfg`
  violates HeapExact); the test of `calloc` at `:164-166` does not exclude such a product.
- `lib/arithmetic.c:131,150`: `umod64` and `smod64` return 32-bit types, so that a remainder
  may be cut; DivisionExact asks for it only when it fits.
- `lib/stdio.c:390-394`: a negative width given as `*`, with the flag 0, pads on both
  sides, since only `:373` clears the flag; NumberExact leaves the combination out.
- `lib/string.c:45`: `memmove` to a lower address returns the advanced pointer; the result is not modelled.
- `devices/pit.c:74`: above about 2/3 of `PIT_HZ` the count is 1, which mode 2 of the timer does not
  allow; `:67-70` excludes it only above `PIT_HZ`.
- `devices/partition.c:91`: the table is read from sector 0, whatever `sector` is, so that extended
  tables are not walked; the walk is left out.
- `userprog/process.c:190` (2): the copy of the command line has a byte more than its room, which
  is the byte at `PHYS_BASE`; a line that begins with a blank makes `argv[0]` the blank
  (StackExact assumes it begins with a word), and more than 128 words overflow `argv`.
- `userprog/syscall.c:352` (2): a process that reads the keyboard keeps `filesys_lock` while it waits, and
  with it everybody who calls the file system; Serial has it so.
- `userprog/syscall.c:553` (2): create calls the file system without the lock, as exec and exit do;
  FileTable leaves create out.
- `threads/thread.c:472-475` (1): a donor writes to the page whose priority it read. If the receiver has
  exited meanwhile and the page has a new thread, that one may fall below its own priority: TLC finds it
  for three threads of which one exits and is replaced by a better one (the operations `create`, `exit`,
  `lock`, `down` and `intr_up`, three levels) when OwnPriorityKept does without `PagesOnce`.
- `threads/thread.c:409,445` (1): `thread_set_priority` decides with interrupts on, and looks at the
  ready list twice; Synch has both, as `update`, `look` and `front`.
- `threads/thread.c:377` (2): `thread_from_tid` walks `all_list` with interrupts on; Process takes the
  lookup for one step, so that a walk over a thread that dies meanwhile is not modelled.

## 5. Proofs

| Module | Theorem | Says |
|---|---|---|
| SynchProofs | `RunQueueIsReadyThreads` | `ThreadsSpec => []ReadyListExact`: the ready list is the ready threads, each once, and one thread runs |
| SynchProofs | `StrictPriority` | `ThreadsSpec => []HighestPriorityRuns`: no ready thread outranks the running one |
| SynchProofs | `EqualsTakeTurns` | `ThreadsSpec => FifoAmongEquals`: no step puts a thread before one that was queued already and that it does not outrank |
| SynchProofs | `SleepersListed` | `ClockSpec => []SleepListExact`: a thread is on the sleep list, once, exactly while it is blocked |
| SynchProofs | `TimerKeepsPromise` | `ClockSpec => Refines`: the first tick at or after its time wakes a sleeper, none before and none later |
| SynchProofs | `LocksAlwaysExact` | `Spec => []LocksExact`: at every place of every call a lock is free or has one owner, and the lists of locks and of waiters are right |
| SynchProofs | `WakeupsNeverLost` | `Spec => []NoLostWakeup`: nobody sleeps on a semaphore that is available, unless a thread it has woken is yet to run |
| SynchProofs | `BestIsWoken` | `Spec => WokenIsBest`: no waiter is woken before a better one |
| SynchProofs | `NoneBelowOwn` | `Spec => []OwnPriorityKept`: nobody sets priorities and no page is used again, so no thread falls below its own priority |
| SynchProofs | `SignalsAlwaysOnce` | `MonitorSpec => []SignalOnce`: a waiter is on the condition's list or has one signal |
| SynchProofs | `LocksExactInMonitor` | `MonitorSpec => []LocksExact`: the first of these with condition variables among the clients |
| KernlibProofs | `NoGroupMissed` | `MemorySpec => []NullOnlyIfNone`: `palloc_get_multiple` returns NULL only if no group of so many pages was free when its search began |
| KernlibProofs | `HeapAlwaysExact` | `NoneWraps => (MemorySpec => []HeapExact)`: a page in use has one claimant; a block of an arena is on its list or with one thread, and has the bytes asked for |
| KernlibProofs | `NothingOutOfBounds` | `LayoutSpec => []WithinBounds`: no page of a segment outside the user's space, no sector of a partition outside its device |
| KernlibProofs | `SegmentIsLoaded` | `LayoutSpec => []ImageExact`: when the loop of `load_segment` ends, the pages entered are the image the header describes |
| ProcessProofs | `FamiliesExact` | `Spec => []FamilyExact`: parents and their lists of children agree, and the links of each list with each other, before, between and after the writes of a change; a list that two change at the same time is left out |
| ProcessProofs | `ReapedOnlyAfterExit` | `Spec => []ReapedAfterExit`: a forked child stays until its parent's wait is told, and has called exit when the wait goes on |
| ProcessProofs | `NoneWaitedTwice` | `Spec => WaitedOnce`: no two calls of wait get past the test for the same child |
| PipeProofs | `CountersAgree` | `Spec => []RingExact`: `start`, `end` and `size` of every pipe agree |
| PipeProofs | `PipesAreQueues` | `OneMaker => (Spec => PipeImplementsFifo)`: if one process makes the pipes, they are bounded queues |
| SerialProofs | `QueuesStayExact` | `Spec => []QueuesExact`: a queue's lock is never contended, and the UART is asked for the interrupts the queues need |
| SerialProofs | `StreamsAreFifo` | `Spec => StreamsKeepOrder`: bytes come out of the queues of keys and of output as they went in |
| FileSysProofs | `DiskAlwaysConsistent` | `Spec => []DiskConsistent`: at every write, and so after a crash, no two files on the disk share a sector, and none has one that is free |
| FileSysProofs | `OpenFilesAlwaysExact` | `Spec => []OpenFilesExact`: what is open keeps its sectors and its counts, and no ASSERT fails |
| FileSysProofs | `DeniedNeverChanges` | `Spec => DeniedUnchanged`: no step writes to a file while one denies writes to it |
| FileTableProofs | `FilesAlwaysExact` | `{"exec", "exit"} \subseteq Alone => (Spec => []FilesExact)`: a `struct file` has one owner, nothing is used after it is freed, and an inode's counts are those of its openers, as long as exec and exit meet no call that uses the list of open inodes |
| FileTableProofs | `NoWriteLetThrough` | `{"exec", "exit"} \subseteq Alone => (Spec => NoWritePasses)`: no write to the file of a program in use passes the check of `deny_write_cnt`, however the calls meet, exec and write included (section 4 has what a write does that has passed it before) |
| IdeProofs | `ListsAlwaysExact` | `Spec => []StockExact`: whatever the controller does, the ready list and the wait lists are right, and a lock's holder is alive |
| IdeProofs | `CompletionsMine` | `Prompt => (Spec => []CompletionMine)`: a completion is there only for the one thread that drives the channel |
| IdeProofs | `DisksAreAtomic` | `Honest => (Spec => DiskIsAtomic)`: each request through the driver is one atomic read or write |

`MemorySpec` and `LayoutSpec` are the modules' own specifications; the run
`kernlib` takes the same initial states and actions.

**SynchProofs, of Threads.** For any number of threads, any highest priority and any time
slice, under `ThreadsAssumption`: the main thread is a thread, the idle thread is
not, priorities begin at 0 and a slice has at least one tick.

Neither of the two invariants is inductive. `schedule` takes the front of the
list for the best, which is so if the list is sorted; `list_insert_ordered`
keeps a list sorted if it was, and duplicates nothing if the thread was not on
it, which is so because a running or blocked thread is not. So the
invariant is

    IInv == ThreadsTypeOK /\ ReadyListExact /\ ReadyListSorted /\ HighestPriorityRuns

`QueueOf` and `SortedBy` say the same of a list, statuses and priorities in the
middle of a step, since `thread_unblock` queues a thread and then may yield.
`InsertOrderedIs` says where the insertion puts a thread, `InsertKeepsQueue`
that the list stays exact, `InsertKeepsSorted` that it stays sorted. A donation
changes the keys of a list that is sorted by them, so only the first two conjuncts
(`SchedOK`) hold in Synch as well: `ScheduleExact`, `YieldExact`, `LeaveExact`, `UnblockExact`,
`InterruptUnblockExact` and `TickExact` keep `SchedOK` whatever the priorities, and say
which statuses change; `ScheduleInv`, `YieldInv`, `LeaveInv`, `UnblockInv` and
`InterruptUnblockInv` add the rest of `IInv`. `Invariance` has one step for
each action. `MinOfNats` and `InsertAtIs` are the facts about `Min` and `InsertAt` that it needs.

FifoAmongEquals follows from `IInv` at the start of a step. The insertion passes only threads of lower priority, as the list is
sorted (`InsertKeepsOrder`), and `schedule` takes away the front (`ScheduleKeepsOrder`). A step of the clock or of `thread_unblock` may do two
of these: `KeepsOrder` (what precedes what stays) and `KeepsAll` (nobody falls off the list) put them together.

*Of AlarmClock*, under `AlarmAssumption` besides: the threads are finitely
many (at the start they are queued in some order), and none has a higher priority than the
main thread, which runs first. `SleepListExact` needs `SchedOK`, since whoever calls `timer_sleep` runs and so is on no
list. That the front of the list speaks for all is `WakeInOrder`: `InsertByWakeupIs` and the
fact that a thread on the list does not change its `wakeup` keep it. In the refinement, the advance of the clock is
the step that wakes all that are due; the turns of the loop are stutters, as
they take from the list whom the mapping has taken already. `NoneDue` is where it
could fail: when the handler returns, nobody on the list is due, or he would fall asleep again in
AlarmSpec.

**SynchProofs, of Synch and Monitor.** For any number of threads, locks and semaphores and any clients, under
`ThreadsAssumption` and `SynchAssumption`: the pages of threads are finitely many (their
sets are counted), `tid_lock` is a lock that no client uses, and the main thread, which runs
first, has the highest priority of those that are there at the start. The invariant `SynchInv` is

    SchedOK /\ DataOK /\ StacksOK /\ ChildrenWait /\ GoneHoldNothing /\ LocksOK /\ WaitListsExact

`StacksOK` is the shape of the stacks: which frame may lie on which calls, and which of
its locals are what. It is what makes `Return` and `Goto` lead anywhere. `ChildrenWait` says that
a thread being made has one creator and waits for it; without it `thread_unblock` could be given a thread
that runs. `GoneHoldNothing` says that a page that is free or about to be is in no call and holds
no lock, so that `thread_create` gets a clean one. `LocksOK` is LockConserved without
counting: `OneOwner` ties a lock's value to its owner, and `HolderKnown` says at which
places of `lock_acquire` and `lock_release` the holder is already, or still, written. There
is a lemma for each action; `Ordinary`, `PrivateStep`, `LockStep`, `FallsAsleep` and `WokenListsExact` are what they
share: a step that leaves the locks alone, one on the thread's own stack, one that
changes an owner, one that blocks, one that wakes. `SemaUpIs` says what `sema_up` does whichever
stable order `list_sort` leaves. `OwnersCounted` draws LockConserved from `OneOwner`.

NoLostWakeup is inductive given `SynchInv`. `StepWakeups` has a case for each kind
of step: one that wakes nobody and raises no value (`QuietStep`), one that takes the
semaphore (`TakeStep`: the value and the threads awake for it go down together), one that waits
(`WaitStep`: the value is 0), one that ups (`RaiseStep`: the value and the threads awake go up
together, or there was no waiter). `WokenKept` is the counting. The same cases give WokenIsBest.

OwnPriorityKept needs `OwnInv`, which speaks of what the calls in progress are about to write:
the amount of a donor that has read less is no less than the receiver's own priority, and neither is
what `lock_release` has computed (`FrameKeeps`). Where threads are created, whomever a donor or a
`blocker_thread` names is there; where they exit, no page becomes a thread
again (`Lasting`). `OwnInv` was checked with the clients of the run first. The first form of the property,
without the restriction to pages used once, was refuted when its proof failed (section 4).

SignalOnce is Monitor's, under `MonitorAssumption`: the monitor's lock is not `tid_lock`, each thread has a
semaphore of its own to wait on, and the clients name no semaphores (the one of a waiter is on its stack, where only
cond_wait and cond_signal know it); they use locks, priorities, threads and the condition as they like. The calls of Monitor
lie on those of Synch, so `SynchInv` is kept, by the same lemmas. `CondOK` is the rest of the invariant: a thread on
the condition's list is in cond_wait, has not got through its `sema_down` (`InCond`: it is there, asleep there, or still in the
`lock_release` before it), and its semaphore is at 0; one that is in cond_wait and off the list has it at 1; and all other semaphores
are at 0, so that no signal is left over from an earlier wait. TLC had checked `CondOK` by the bounds of the run.

**KernlibProofs, of Memory.** For any number of threads, pages and sizes, under
`MemoryAssumption`: an arena's header and the smallest block fit a page, the header takes
no more than half of one, a `size_t` holds the size of a page, requests are positive, and NULL is none of the
things it stands beside. NullOnlyIfNone speaks of the end of a search only; the
invariant, of every place in it: whoever scans holds `pool_lock`, so bits
are only cleared meanwhile and those set are among `seen`, the bits set when he began; every place he has left
behind has such a bit in its group. `OthersInv` says that a step of one thread
keeps this of the others, which needs that two threads never scan at once
(`ScanningAlone`). `LookInv`, `LockPoolInv` and `ScanStepInv` are the steps of
the search, `PlainStepInv` all others.

HeapExact needs `HeapInv` as well, which says in `ClaimsInv` who may have pages (an arena, the frame of a call that
got them or gives them back, a caller that holds a group) and that of these each set bit has one:
`ClaimsTaken`, `ClaimsHanded` and `ClaimsCleared` are what a step can do to that, the bits of a group being cleared one by
one while others look. `BlocksInv` says of each block of an arena that it is listed or in use. An arena
without a block in use is the hard case, for `free` would give it back: there is one between the arrival of a page
and the first block taken from it, and `Fresh` says that its descriptor's lock is held then by the thread that
will take it, which `CallInv` remembers from where the list was found empty. When the last block is
freed, counting (`FreedCount`) shows that the list has all blocks of the page, so that `ArenaGone`
leaves none behind. `WithoutIs`, `TailIs`, `BlocksIs` and `PushIs` are what becomes of the lists. There is a lemma for
each action, `...Heap`, and four for what `malloc` does with a page. Only the last clause, that a
block has the bytes asked for, needs `NoneWraps`: no size wraps to more than 0 when the
header is added (section 4 has what happens otherwise); `HeapInvariant` is without it. TLC had checked
`HeapInv` with two threads, by three pages of 12 bytes and two of 20.

**KernlibProofs, of Layout.** For any width of a word, any page size, any program headers
and any partition tables, under `LayoutAssumption`: user space ends more than a
page below the highest number, and the length of an executable with it. The
invariant gives the state of the loop as a function of the number k of turns it has
made (`Turns`): what is left to read and to clear, the offset, the page, and
the k entries. `HeaderFacts` derives from `validate_segment` that none of the
sums wraps, and that the segment is a whole number of pages below the end;
`LoadPageInv` is a turn of the loop; `BoundsFromInv` and `ImageFromInv` draw the two
conclusions. The arithmetic of `%` and `\div` they need is in the lemmas at the
beginning.

**ProcessProofs.** For any number of processes, programs that main runs and exit values, under
`ProcessAssumption`: NULL is no process and no list element. None of the three properties is inductive. Behind the last two is one
question: when has a process p done with its child c? `Done` answers it: p has waited for c and told it to go, or
p is in the loop of its exit. `ReleaseInv` says that `wait_on_parent` of c is up only if that is so, and that a child is past its wait for the parent, or
without a parent before it begins to leave, only then; so a child whose
parent is in `process_wait` cannot be gone. `WaitsInv` says that a child whose wait went on has told and has no parent,
so that the test in `process_wait` refuses it. `MakeInv` is for the processes that are being made, which
process_execute adopts after they have started; `SemasInv` ties `wait_sema` to the place of the child.

The lists are linked one write at a time, so that an exit loop may follow the link of an element that was removed, and two may
write to the same list. Two parts say what is true then. `KinInv` holds always, of torn lists as well: a forward link leads to the tail
or to a child of the same family that was made later, a backward link to the head or to one that was made earlier. So whatever two
changes make of a list, its loop goes up, ends, and finds children of this process alone; this is what the theorems about wait need of the links. `LinksInv` holds
of the lists that are not torn, and is FamilyExact's: one process at most is changing the list
(`Editing`), and `Whole` says what is true at each place of its change. `Members` ties `parent` to the list, `Forward` says
that the next element's backward link leads back, but for the one write that is due, `Backward` that backward links stay
among those who are joined, `Rear` and `Middle` what the change in progress finds. Each `...Links` lemma is one write: it keeps `Whole` of its own list, if nobody else is
changing it, and leaves the others alone (`OthersWhole`); `QuietLinks` is for the steps that touch no link. There is besides a
lemma for each action, `...Step`, for the other conjuncts, one step for each. That `Unlink` may find a neighbour freed, or the loop
its child, is in the model: the kernel crashes there, and the theorems hold up to that step
(`NoneUsedAfterFree` in section 4). TLC had checked the invariant with three processes by the bounds of the run.

**PipeProofs.** For any number of processes, pipes and characters and any size
of a buffer, under `PipeAssumption`: there is a place, a character and a
character's room. `Wrap`, `WrapSum` and `Distance` are the arithmetic of a ring;
`GetRing` and `PutRing` say what a read and a write make of the counters and of
the data they stand for: a prefix goes, a suffix comes. The invariant `IInv` adds to the rings
(`ArrayInv`) that a pipe in the table has an end that is open, without which
the last close would be no step of the queues, and what the frames of the
calls hold. `MakerInv` carries the refinement: the place that `pipe` found empty is still
empty when it stores the pipe there. That needs `OneMaker`, since `pipe` looks
without the lock; `Pipe_race.cfg` shows that it fails with two. `RingExact` holds without it.

**SerialProofs.** For any number of processes and any size of the queues, under
`SerialAssumption`: a queue has at least two places (one is always left
empty), and NULL is no process and no byte. `AddedIs` and
`RemovedIs` say what `intq_putc` and `intq_getc` make of the sequence that a queue stands
for. The loops of both release the processor in `wait`, so that another process could
enter them; `NeverContended` is therefore not inductive. The invariant says
where each process is (`FramesInv`): whoever is in the loop of the keys holds
`filesys_lock`, and in that of the bytes `console_lock`, so that he is alone there
(`KeysAlone`, `BytesAlone`); and the lock and the waiter that a queue names are a
process in its loop that waits (`KeyQueueInv`, `ByteQueueInv`). `WakeInv` is the step of `signal`, which interrupt handlers take as well;
`KeyLoop` and `ByteLoop` are the steps of a process in a loop; `IerExact` is kept
because every change of a queue ends in `write_ier`. Each of these also shows that
the step is one of FifoSpec for either queue, or none.

**FileSysProofs.** For any number of sectors, entries, files and names, with or
without failing allocations, under `FileSysAssumption`: there is an entry, the
struct files are finitely many (their sets are counted), and NULL is no struct.
DiskConsistent speaks of the files that have entries. It holds because of others:
an inode that is open after its entry was erased still has its sectors, and so has
the file that the call in progress is making or releasing, before anything
refers to it or after nothing does. The invariant `IInv` says of all three
that they are apart: `Known` is the sectors of inodes with an entry or an opener,
`Claimed` the sectors of the call in progress, and `Apart` that no two of
the known files and the claimed sectors overlap, that no inode lies in its own file, and
that the map in memory has them all. `ApartLess`, `ApartMore`, `ApartGive`, `ApartTake` and
`ApartWrite` are what a step can do to that: release, allocate, pass a file from the
directory to the call or back, and write a sector that nobody knows. `MapInv` is
why a crash is harmless: the map on the disk has every sector that the map in
memory has, since only a release may fail to write it. `CountInv` ties the counts
to the struct files (`OpenersChange`); without it the last close would not be known for the
last. `IInv` was first checked by the bounds of the run `filesys`, and an earlier form of
it refuted: an inode can be open with neither an entry nor the mark of a removed file, when
`dir_add` has overwritten its entry (`FileSys_short.cfg` shows it).

**FileTableProofs.** For any number of processes, descriptors, files and names and any
memory for structs, under `FileTableAssumption` (the processes are finitely many, there are a descriptor, two struct files and an inode, NULL is
none of the things it stands beside) and `NullAssumption`: NULL is no struct. FilesExact says what the heap looks like
between any two steps, and is not inductive: whether a step finds a file where it looks depends on what its call has
done before, and on what it has not let others do. `IInv` adds to it

- what is left of each call (`CallInv`): a `Script`, steps of which each may follow the one before it
  (`Follows`), and the last may be the last that is known. It
  stands for the program text, and is why the locals can be known from the first step alone. `OpenScript`, `CopyScript` and their like say so of each beginning of a
  call and each turn of a loop, `ScriptTail` of what a step leaves;
- the locals at each step (`LocalInv`): an inode only between its opening and `file_open`, where it is
  counted (`Holders`), a file only until it has an owner, at `take` either an inode that is there or the
  knowledge that none has the name, and at `free` whether the count is 0;
- that the descriptors that are left to be used are open (`UseInv`): nobody but the process itself closes
  its descriptors, and a call closes one only after its last use;
- who may be where (`AloneInv`, `LockInv`): of `find`, `take`, `drop` and `free` two never interleave (`OneCritical`),
  since they are under `filesys_lock` or in a call that is alone.

The last is the reason for the hypothesis: without it, exec and exit take those steps while another process
has the lock, and `FileTable_race.cfg` refutes FilesExact (section 4). write, tell, dup2 and fork meet exec and exit all the same, and dup2 and fork take no lock
at all: they only use or reopen what is open in their own process, so that the count is not 0 and nobody takes the inode away.
There is a lemma for each step, `...Keeps`. `PointerMoves` is how a pointer goes from a local to a descriptor or the
program and back, with one owner all the while; `HolderMore`, `InodeNew`, `FileOpenHeap`, `MapHeap`, `DenyHeap`, `DropHeap` and
`FreeHeap` are what a step does to the counts and the sets they count. TLC had checked `IInv` by the bounds of the run. The proof found a mistake of an earlier form of the model: when load failed, the step that
begins the exit said two things of `call`, and was never enabled, so that no process died of a failing exec.

NoWritePasses needs `DenyInv` beside it: the file of every process' program denies writes. `deny` sets both,
and who closes a file closes the one in its own local (`StillDeny`, `ProgramOwned`), which after `clear_program` is nobody's program. The rest is in
FilesExact: a program's file is counted, the name has one open inode, and its count is that of those who deny, so that `check` finds it
above 0 (`CheckTells`). Nothing is said of a write that is past the check: all of an exec may
come between it and the store, and ProgramUnchanged fails (section 4).

**IdeProofs.** For any number of threads, disks, sectors and values, under `StockAssumption` and
`IdeAssumption`; `NullAssumption` says that NULL is no request. `Faults` is the set of what the
hardware may do wrong, a constant: fail a read or a command (`error`), not store what was
written (`write_error`), take longer than the driver waits (`slow`), or
interrupt when nothing asked for it (`spurious`).

StockExact holds whatever is in `Faults`. `ThreadsInv` is its invariant: `SchedOK` says of the ready list, and
`WaitersOK` of the wait lists, which thread is where; `LockOK` ties the value of a channel's lock to
its holder and to the places of the driver; `BootOK` keeps the requests apart from the
identification on the main thread, which takes no lock. There is a lemma for each
function of Stock that the driver calls, and one for each step of the driver.

CompletionMine is refuted if an interrupt may be spurious or later than the driver's
patience: `expecting_interrupt` is never false again (ExpectingExact, section 4). So it
is proved under `Prompt`, neither `slow` nor `spurious`, which is what the driver takes for granted: its waits are
long enough, and a channel that no command was given to does not interrupt. `ChannelOK` is the
argument. One thread drives the channel, the one that holds its lock, or main
at boot (`OneDrives`). Each place of the driver says what it may find: between the
command and `sema_down` the command is in progress, or an interrupt is due, or the semaphore is up, or the thread is
already on its list, and no two of these; at all other places none of them. So a semaphore that is up is up for the thread
that is going to down it.

DiskIsAtomic needs `Honest`, no fault but `error`: `ide_write` does not look whether the disk stored what it took,
so that `write_error` leaves the old data under a call that returned. The mapping is in section 2: request and registration are the
call, the controller's transfer from or to the platter is the read or the write, the caller's return the return, everything else
a stutter. `DriverInv` gives what the steps need: that the registers still are those of the
request when the command is given, and that what is in the disk's buffer is what the driver reads. TLC had checked the invariants
by the bounds of the run, and `ThreadsInv` with all four faults.

*Only model-checked:*

- every liveness property (NoStarvationAtTop, SleepersWake, WaitReturns, LockComesBack, CommandEnds,
  WaitersServed): TLAPS does not prove them;
- TableExact, TableIsMap, ListsExact, SequencesKept and RoutinesExact: Lists, HashTable and Routines define recursive
  operators or compute over data by folds, about which the prover can do no
  induction: the run evaluates them on all inputs within the bounds.

## 6. Not modelled, and why

- *The rest of the calls on files:* positions, what a read returns, and formatting the disk: no property
  here depends on them. create and remove are in FileSys, without the interleavings of FileTable. mmap and
  munmap are unfinished in the source.
- *Virtual memory:* in `vm/frame.c`, `page.c` and `swap.c` eviction is unfinished
  (`frame_free_page` frees every frame it passes, and eviction returns a frame
  where its caller expects a page), so there is little to state yet that holds. What load enters in the
  supplemental page table is in Layout.
- *User memory, page faults:* that a call may find a bad pointer is a choice in
  Pipe; page directories are data.
- *Block devices:* names, statistics, the walk over partition tables and the wait for a reset,
  which take place once or have no effect on a request.
- *Allocators:* calloc clears and multiplies; the second pool is the first again.
- *Interrupt dispatch:* the modules say when handlers run and that
  they run to their end; the frame and the tables are data.
- *The console:* `console_lock` is in Serial; its depth, and the screen, are not.
- *Accesses that one step takes together* although interrupts are on. In Synch, `acquire` reads the holder, writes
  `blocker_thread` and reads the own priority (`threads/synch.c:234-245`); `DonateWrite` writes the receiver's priority and reads on
  along the chain (`threads/thread.c:475-485`); `NextPriority` is the whole loop over the locks held
  (`threads/synch.c:305-317`), in which a donor might change a list or a priority. The gaps around them are there: between what a
  donor reads and writes, and between what a release computes and assigns. In FileTable, `Deny` sets `program` and
  denies writes (`userprog/process.c:126-127`; NoWritePasses speaks of the time after exec), and
  `Drop` takes back a denial and an opener (`filesys/file.c:139-140`, `inode.c:171`). In Ide, `Select` chooses the
  device and writes the registers (`devices/ide.c:392-404`), under the channel's lock. In Process a step is one statement, whose reads and
  write are taken together. In Serial a printing thread has interrupts on; one that prints with interrupts off takes the branch of
  `devices/serial.c:112`, which is there for handlers alone.
- *Branches left out:* in FileTable, an exec whose program cannot be opened, or which enters some segments and fails then
  (`userprog/process.c:122-124`); in Layout, a page that cannot be entered in the table (`userprog/process.c:693`), and offsets from 2^31 on,
  since `off_t` is signed; in Routines, the overflow of an octal field (`lib/ustar.c:140-144`), which the
  numbers of the run do not reach.
- *The multi-level feedback queue:* kernel 1 has its flag and no code for it.
- *Boot, shutdown, PCI, keyboard scan codes, user programs, tests, host tools:*
  sequential, or hardware that is decoded and driven; the user programs are the clients whose calls
  the models choose freely.

## 7. What could follow

1. **FileSpec**, an abstract file system (names, and files that live while they have a name
   or an opener), refined by FileSys without failures.
2. **Vm**, when `vm/` is finished: the frame list, the hand and a fault.
3. Synch and Process together: which of Process' semaphores a scheduler of strict
   priorities serves.
