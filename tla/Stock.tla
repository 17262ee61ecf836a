-------------------------------- MODULE Stock --------------------------------
(***************************************************************************)
(* The threads, semaphores and locks of pintos2 (threads/thread.c and      *)
(* synch.c): round robin, first come first served, no preemption by        *)
(* priority and no donation.  The operators carry the names of the         *)
(* functions; each is what happens with interrupts off.  Ide runs on them. *)
(***************************************************************************)
EXTENDS Integers, SequencesExt

CONSTANTS
  Thread,      \* the pages a struct thread may live in, idle's excluded
  Main,        \* initial_thread
  Idle,        \* idle_thread
  Sema, Lock,  \* the semaphores, and those of them that belong to a lock
  TimeSlice,   \* TIME_SLICE
  NULL

ASSUME StockAssumption ==
  /\ Main \in Thread
  /\ Idle \notin Thread
  /\ Lock \subseteq Sema
  /\ TimeSlice \in Nat \ {0}
  /\ NULL \notin Thread \cup {Idle}

VARIABLES
  current,       \* the thread on whose stack the processor executes
  status,        \* struct thread's status; "FREE" for a page not in use
  ready_list,
  thread_ticks,  \* timer ticks since the last switch
  value, waiters,   \* of each semaphore
  holder         \* of each lock

schedVars == <<current, status, ready_list, thread_ticks>>
semaVars == <<value, waiters>>
stockVars == <<schedVars, semaVars, holder>>

StockInit ==
  /\ current = Main
  /\ status = [t \in Thread \cup {Idle} |->
                 IF t = Main THEN "RUNNING" ELSE IF t = Idle THEN "BLOCKED" ELSE "FREE"]
  /\ ready_list = <<>>
  /\ thread_ticks = 0
  /\ value = [s \in Sema |-> IF s \in Lock THEN 1 ELSE 0]
  /\ waiters = [s \in Sema |-> <<>>]
  /\ holder = [l \in Lock |-> NULL]

-----------------------------------------------------------------------------
(* Faulty variants (_F) of a definition stand before it: each is a slip    *)
(* that the property named with it must catch.                             *)

next_thread_to_run(ready) == IF ready = <<>> THEN Idle ELSE Head(ready)

(* thread_schedule_tail: a thread that is dying gives its page back when   *)
(* the next one runs, except for main, whose page is not from palloc.      *)
thread_schedule_tail(next, stat) ==
  /\ status' = [t \in DOMAIN stat |->
                  IF t = next THEN "RUNNING"
                  ELSE IF t = current /\ stat[t] = "DYING" /\ t # Main THEN "FREE"
                  ELSE stat[t]]
  /\ thread_ticks' = 0

(* schedule: the caller has put the current thread's new status in stat    *)
(* and, if it is to run again, the thread itself in ready.                 *)
schedule(ready, stat) ==
  /\ current' = next_thread_to_run(ready)
  /\ ready_list' = IF ready = <<>> THEN ready ELSE Tail(ready)
  /\ thread_schedule_tail(next_thread_to_run(ready), stat)

thread_block == schedule(ready_list, [status EXCEPT ![current] = "BLOCKED"])

thread_yield ==
  schedule(IF current = Idle THEN ready_list ELSE Append(ready_list, current),
           [status EXCEPT ![current] = "READY"])

thread_exit == schedule(ready_list, [status EXCEPT ![current] = "DYING"])

(* thread_unblock: the running thread goes on.                             *)
thread_unblock(t) ==
  /\ ready_list' = Append(ready_list, t)
  /\ status' = [status EXCEPT ![t] = "READY"]
  /\ UNCHANGED <<current, thread_ticks>>

(* thread_create: a page becomes a thread, and the thread ready.  Nobody   *)
(* can see it in between; allocate_tid's lock has other takers only if     *)
(* several threads create threads.                                         *)
thread_create(t) == status[t] = "FREE" /\ thread_unblock(t)

(* thread_tick and the end of intr_handler.                                *)
thread_tick ==
  IF thread_ticks + 1 >= TimeSlice THEN thread_yield
  ELSE thread_ticks' = thread_ticks + 1 /\ UNCHANGED <<current, status, ready_list>>

-----------------------------------------------------------------------------
(* A pass of sema_down's loop: the current thread gets by, or is put at    *)
(* the end of the waiters and will come back here when it is woken.        *)
sema_down(s) ==
  IF value[s] = 0
  THEN /\ waiters' = [waiters EXCEPT ![s] = Append(@, current)]
       /\ thread_block
       /\ UNCHANGED value
  ELSE /\ value' = [value EXCEPT ![s] = @ - 1]
       /\ UNCHANGED <<schedVars, waiters>>

Passes(s) == value[s] > 0

(* StockExact: the thread woken stays on the list                          *)
sema_up_F(s) ==
  /\ value' = [value EXCEPT ![s] = @ + 1]
  /\ IF waiters[s] = <<>> THEN UNCHANGED schedVars ELSE thread_unblock(Head(waiters[s]))
  /\ UNCHANGED waiters

sema_up(s) ==
  /\ value' = [value EXCEPT ![s] = @ + 1]
  /\ IF waiters[s] = <<>> THEN UNCHANGED <<schedVars, waiters>>
     ELSE /\ thread_unblock(Head(waiters[s]))
          /\ waiters' = [waiters EXCEPT ![s] = Tail(@)]

(* lock_acquire is sema_down, and then this, with interrupts on;           *)
(* lock_release is disown, and then sema_up.                               *)
own(l) == holder' = [holder EXCEPT ![l] = current]
disown(l) == holder[l] = current /\ holder' = [holder EXCEPT ![l] = NULL]

-----------------------------------------------------------------------------
OnList(t, s) == {i \in DOMAIN s : s[i] = t}

(* The elem of a thread is in the ready list if it is ready, in the list   *)
(* of one semaphore if it is blocked, and in none otherwise: a page is     *)
(* freed, or used for a new thread, only when nothing points to it.  The   *)
(* idle thread is in none; and no lock is free while it has an owner.      *)
StockExact ==
  /\ \A t \in Thread :
       /\ Cardinality(OnList(t, ready_list)) = IF status[t] = "READY" THEN 1 ELSE 0
       /\ Cardinality({s \in Sema : OnList(t, waiters[s]) # {}})
            = IF status[t] = "BLOCKED" THEN 1 ELSE 0
       /\ \A s \in Sema : Cardinality(OnList(t, waiters[s])) <= 1
       /\ (status[t] = "RUNNING") <=> (t = current)
  /\ OnList(Idle, ready_list) = {} /\ \A s \in Sema : OnList(Idle, waiters[s]) = {}
  /\ \A l \in Lock :
       /\ value[l] \in 0 .. 1
       /\ holder[l] # NULL => value[l] = 0 /\ status[holder[l]] \notin {"FREE", "DYING"}
==============================================================================
