------------------------------- MODULE Threads -------------------------------
(***************************************************************************)
(* The kernel threads of pintos/src/src/threads/thread.c: the ready list,  *)
(* the switch from one thread to the next, blocking, unblocking with       *)
(* priority preemption, the time slice, creation and exit.                 *)
(*                                                                         *)
(* There is one processor: the thread `current' executes, and a step of    *)
(* the model is the code between two points at which another thread or an  *)
(* interrupt handler may get the processor.  A failed ASSERT is a kernel   *)
(* panic, after which nothing runs.                                        *)
(*                                                                         *)
(* The scheduler's own operators (InsertOrdered, Schedule, thread_yield,   *)
(* thread_unblock, ...) are what the modules Synch and AlarmClock, which   *)
(* extend this one, build on.  ThreadsSpec, at the end, drives them by a client   *)
(* that may call each of them whenever the code's contract allows it.      *)
(***************************************************************************)
EXTENDS Integers, SequencesExt

CONSTANTS
  Thread,        \* the pages a struct thread may live in, idle's excluded
  Main,          \* initial_thread, the thread thread_init makes of the boot code
  Idle,          \* idle_thread
  MaxPriority,   \* PRI_MAX
  TimeSlice      \* TIME_SLICE

ASSUME ThreadsAssumption ==
  /\ Main \in Thread
  /\ Idle \notin Thread
  /\ MaxPriority \in Nat
  /\ TimeSlice \in Nat \ {0}

VARIABLES
  current,       \* the thread on whose stack the processor executes
  status,        \* struct thread's status; "FREE" for a page not in use
  ready_list,    \* the run queue
  priority,      \* struct thread's (effective) priority
  thread_ticks,  \* timer ticks since the last switch
  panicked       \* an ASSERT of the kernel failed

schedVars == <<current, status, ready_list, thread_ticks>>
threadVars == <<schedVars, priority, panicked>>

Priority == 0 .. MaxPriority
Status == {"RUNNING", "READY", "BLOCKED", "DYING", "FREE"}

ThreadsInit ==
  /\ current = Main
  /\ status = [t \in Thread \cup {Idle} |->
                 IF t = Main THEN "RUNNING" ELSE IF t = Idle THEN "BLOCKED" ELSE "FREE"]
  /\ ready_list = <<>>
  /\ priority = [t \in Thread \cup {Idle} |-> 0]
  /\ thread_ticks = 0
  /\ panicked = FALSE

-----------------------------------------------------------------------------
(* Faulty variants (_F) of a definition stand before it: each is a slip    *)
(* that the property named with it must catch.                             *)

(* FifoAmongEquals: before the equals, not after them                      *)
InsertOrdered_F(s, t, pri) ==
  LET lower == {i \in 1 .. Len(s) : pri[t] >= pri[s[i]]}
  IN  InsertAt(s, IF lower = {} THEN Len(s) + 1 ELSE Min(lower), t)

(* list_insert_ordered with compare_priority: t goes before the first      *)
(* element of s of a strictly lower priority, wherever that is.            *)
InsertOrdered(s, t, pri) ==
  LET lower == {i \in 1 .. Len(s) : pri[t] > pri[s[i]]}
  IN  InsertAt(s, IF lower = {} THEN Len(s) + 1 ELSE Min(lower), t)

next_thread_to_run(ready) == IF ready = <<>> THEN Idle ELSE Head(ready)

(* thread_schedule_tail: the next thread runs, and the previous one, if it *)
(* is dying, gives its page back (initial_thread's is not from palloc).    *)
thread_schedule_tail(next, stat) ==
  /\ status' = [t \in DOMAIN stat |->
                  IF t = next THEN "RUNNING"
                  ELSE IF t = current /\ stat[t] = "DYING" /\ t # Main THEN "FREE"
                  ELSE stat[t]]
  /\ thread_ticks' = 0

(* ReadyListExact: list_front in place of list_pop_front                   *)
Schedule_F(ready, stat) ==
  /\ current' = next_thread_to_run(ready)
  /\ ready_list' = ready
  /\ thread_schedule_tail(next_thread_to_run(ready), stat)

(* schedule: the caller has put the current thread's new status in stat    *)
(* and, if it is to run again, the thread itself in ready.                 *)
Schedule(ready, stat) ==
  /\ current' = next_thread_to_run(ready)
  /\ ready_list' = IF ready = <<>> THEN ready ELSE Tail(ready)
  /\ thread_schedule_tail(next_thread_to_run(ready), stat)

thread_yield(ready, stat, pri) ==
  Schedule(IF current = Idle THEN ready ELSE InsertOrdered(ready, current, pri),
           [stat EXCEPT ![current] = "READY"])

thread_block == Schedule(ready_list, [status EXCEPT ![current] = "BLOCKED"])

(* thread_unblock has made t ready; the rest of it compares priorities.    *)
Outranks(t) == current # Idle /\ priority[t] > priority[current]

(* HighestPriorityRuns: no preemption                                      *)
thread_unblock_F(t) ==
  /\ ready_list' = InsertOrdered(ready_list, t, priority)
  /\ status' = [status EXCEPT ![t] = "READY"]
  /\ UNCHANGED <<current, thread_ticks>>

thread_unblock(t) ==
  LET ready == InsertOrdered(ready_list, t, priority)
      stat == [status EXCEPT ![t] = "READY"]
  IN  IF Outranks(t)
      THEN thread_yield(ready, stat, priority)
      ELSE /\ ready_list' = ready
           /\ status' = stat
           /\ UNCHANGED <<current, thread_ticks>>

(* Within an interrupt handler thread_unblock may not yield: thread_yield, *)
(* which it calls all the same, starts with ASSERT (!intr_context ()).     *)
thread_unblock_in_interrupt(t) ==
  /\ ready_list' = InsertOrdered(ready_list, t, priority)
  /\ status' = [status EXCEPT ![t] = "READY"]
  /\ panicked' = Outranks(t)
  /\ UNCHANGED <<current, thread_ticks>>

(* NoStarvationAtTop: no yield on return                                   *)
thread_tick_F ==
  /\ thread_ticks' = (thread_ticks + 1) % TimeSlice
  /\ UNCHANGED <<current, status, ready_list>>

(* thread_tick and the end of intr_handler: the time slice is over after   *)
(* TimeSlice ticks, and then the interrupted thread yields.                *)
thread_tick ==
  IF thread_ticks + 1 >= TimeSlice
  THEN thread_yield(ready_list, status, priority)
  ELSE /\ thread_ticks' = thread_ticks + 1
       /\ UNCHANGED <<current, status, ready_list>>

(* init_thread: a page becomes a blocked thread.                           *)
init_thread(t, p) ==
  /\ status[t] = "FREE"
  /\ status' = [status EXCEPT ![t] = "BLOCKED"]
  /\ priority' = [priority EXCEPT ![t] = p]

thread_exit == Schedule(ready_list, [status EXCEPT ![current] = "DYING"])

-----------------------------------------------------------------------------
(* The client: what any thread may do at any time.                         *)

(* Threads run; the idle thread only ever blocks.                          *)
Running == ~panicked /\ current # Idle

(* thread_create is init_thread and, once allocate_tid has returned, the   *)
(* thread_unblock of UnblockOther.                                         *)
CreateThread ==
  /\ Running
  /\ \E t \in Thread, p \in Priority : init_thread(t, p)
  /\ UNCHANGED <<current, ready_list, thread_ticks, panicked>>

UnblockOther ==
  /\ Running
  /\ \E t \in Thread : status[t] = "BLOCKED" /\ thread_unblock(t)
  /\ UNCHANGED <<priority, panicked>>

Block == Running /\ thread_block /\ UNCHANGED <<priority, panicked>>

Yield ==
  /\ Running
  /\ thread_yield(ready_list, status, priority)
  /\ UNCHANGED <<priority, panicked>>

Exit == Running /\ thread_exit /\ UNCHANGED <<priority, panicked>>

(* idle's loop: after every interrupt it blocks, which runs another thread *)
(* if there is one.                                                        *)
IdleLoop ==
  /\ ~panicked
  /\ current = Idle
  /\ thread_block
  /\ UNCHANGED <<priority, panicked>>

TimerTick == ~panicked /\ thread_tick /\ UNCHANGED <<priority, panicked>>

(* A device's handler wakes a thread.                                      *)
DeviceInterrupt ==
  /\ ~panicked
  /\ \E t \in Thread : status[t] = "BLOCKED" /\ thread_unblock_in_interrupt(t)
  /\ UNCHANGED priority

ThreadsNext ==
  \/ CreateThread
  \/ UnblockOther
  \/ Block
  \/ Yield
  \/ Exit
  \/ IdleLoop
  \/ TimerTick
  \/ DeviceInterrupt

(* The timer interrupts for ever: the PIT is programmed once at boot and   *)
(* no code of these steps keeps interrupts off.                            *)
ThreadsSpec == ThreadsInit /\ [][ThreadsNext]_threadVars /\ WF_threadVars(TimerTick)

-----------------------------------------------------------------------------
(* Type invariant.                                                         *)
ThreadsTypeOK ==
  /\ current \in Thread \cup {Idle}
  /\ status \in [Thread \cup {Idle} -> Status]
  /\ ready_list \in Seq(Thread)
  /\ priority \in [Thread \cup {Idle} -> Priority]
  /\ thread_ticks \in 0 .. TimeSlice - 1
  /\ panicked \in BOOLEAN

(* thread.h: "only a thread in the ready state is on the run queue".  A    *)
(* thread is on the ready list, once, exactly while it is ready; the idle  *)
(* thread never is; and exactly the current thread is running.             *)
ReadyListExact ==
  /\ \A i \in 1 .. Len(ready_list) : status[ready_list[i]] = "READY"
  /\ \A i, j \in 1 .. Len(ready_list) : ready_list[i] = ready_list[j] => i = j
  /\ \A t \in Thread : status[t] = "READY" => \E i \in 1 .. Len(ready_list) : ready_list[i] = t
  /\ \A t \in Thread \cup {Idle} : status[t] = "RUNNING" <=> t = current

(* list_insert_ordered needs a sorted list: highest priority first.        *)
ReadyListSorted ==
  \A i, j \in 1 .. Len(ready_list) : i < j => priority[ready_list[i]] >= priority[ready_list[j]]

(* Strict priority scheduling: no thread waits for the processor while one *)
(* of lower priority executes (only the idle thread may, until its next    *)
(* thread_block).                                                          *)
HighestPriorityRuns ==
  current # Idle /\ ~panicked =>
    \A i \in 1 .. Len(ready_list) : priority[ready_list[i]] <= priority[current]

(* The processor is shared fairly among equals: a ready thread is never    *)
(* overtaken in the queue by one that does not outrank it.                 *)
Precedes(s, t, u) == \E i, j \in 1 .. Len(s) : i < j /\ s[i] = t /\ s[j] = u
NotOvertaken ==
  \A t, u \in Thread :
    /\ status[t] = "READY" /\ status'[t] = "READY"
    /\ priority[u] <= priority[t] /\ ~Precedes(ready_list, u, t)
    => ~Precedes(ready_list', u, t) \/ priority' # priority
FifoAmongEquals == [][NotOvertaken]_threadVars

(* A ready thread of the highest priority there is gets the processor, if  *)
(* the kernel does not panic first.                                        *)
NoStarvationAtTop ==
  \A t \in Thread :
    (status[t] = "READY" /\ priority[t] = MaxPriority) ~> (current = t \/ panicked)

(* thread_unblock's comment: "This function does not preempt the running   *)
(* thread."                                                                *)
UnblockKeepsCurrent ==
  [][\A t \in Thread :
       status[t] = "BLOCKED" /\ status'[t] # "BLOCKED" => current' = current]_threadVars
==============================================================================
