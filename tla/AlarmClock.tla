----------------------------- MODULE AlarmClock ------------------------------
(***************************************************************************)
(* timer_sleep and the timer's interrupt handler                           *)
(* (pintos/src/src/devices/timer.c) over the scheduler of module Threads.  *)
(* timer_sleep computes the time to wake with interrupts on and queues     *)
(* itself with interrupts off: the timer may tick in between.  The handler *)
(* wakes one sleeper after the other; nothing else runs meanwhile.         *)
(***************************************************************************)
EXTENDS Threads

CONSTANTS
  MaxTicks,       \* bound on `ticks': time stands still there
  MaxSleep,       \* bound on the argument of timer_sleep
  StartPriority   \* the priority each thread has

ASSUME AlarmAssumption ==
  /\ IsFiniteSet(Thread)
  /\ MaxTicks \in Nat /\ MaxSleep \in Nat
  /\ StartPriority \in [Thread -> Priority]
  /\ \A t \in Thread : StartPriority[t] <= StartPriority[Main]

VARIABLES
  ticks,        \* timer ticks since boot
  sleep_list,   \* the sleeping threads
  wakeup,       \* struct thread's wakeup
  inserting,    \* the threads between the computation of wakeup and intr_disable
  in_handler    \* timer_interrupt runs, which is in_external_intr of interrupt.c

alarmVars == <<ticks, sleep_list, wakeup, inserting, in_handler>>
clockVars == <<threadVars, alarmVars>>

ClockInit ==
  /\ current = Main
  /\ status = [t \in Thread \cup {Idle} |->
                 IF t = Main THEN "RUNNING" ELSE IF t = Idle THEN "BLOCKED" ELSE "READY"]
  /\ priority = [t \in Thread \cup {Idle} |-> IF t \in Thread THEN StartPriority[t] ELSE 0]
  /\ ready_list \in {r \in SetToSeqs(Thread \ {Main}) :
                       \A i, j \in DOMAIN r : i < j => priority[r[i]] >= priority[r[j]]}
  /\ thread_ticks = 0
  /\ panicked = FALSE
  /\ ticks = 0
  /\ sleep_list = <<>>
  /\ wakeup = [t \in Thread |-> 0]
  /\ inserting = {}
  /\ in_handler = FALSE

-----------------------------------------------------------------------------
(* Faulty variants (_F) of a definition stand before it: each is a slip    *)
(* that the property named with it must catch.                             *)

(* timer_sleep of n ticks; a negative argument returns at once.            *)
Sleep ==
  /\ Running /\ ~in_handler /\ current \notin inserting
  /\ \E n \in 0 .. MaxSleep :
       /\ ticks + n <= MaxTicks
       /\ wakeup' = [wakeup EXCEPT ![current] = n + ticks]
  /\ inserting' = inserting \cup {current}
  /\ UNCHANGED <<threadVars, ticks, sleep_list, in_handler>>

(* Refines: compare_wakeup is ">"                                          *)
InsertByWakeup_F(t) ==
  LET earlier == {i \in DOMAIN sleep_list : wakeup[t] > wakeup[sleep_list[i]]}
  IN  InsertAt(sleep_list, IF earlier = {} THEN Len(sleep_list) + 1 ELSE Min(earlier), t)

(* list_insert_ordered with compare_wakeup, which is "<".                  *)
InsertByWakeup(t) ==
  LET later == {i \in DOMAIN sleep_list : wakeup[t] < wakeup[sleep_list[i]]}
  IN  InsertAt(sleep_list, IF later = {} THEN Len(sleep_list) + 1 ELSE Min(later), t)

(* SleepListExact: the thread blocks before it is on the list              *)
InsertAndBlock_F ==
  /\ Running /\ ~in_handler /\ current \in inserting
  /\ thread_block
  /\ inserting' = inserting \ {current}
  /\ UNCHANGED <<priority, panicked, sleep_list, ticks, wakeup, in_handler>>

InsertAndBlock ==
  /\ Running /\ ~in_handler /\ current \in inserting
  /\ sleep_list' = InsertByWakeup(current)
  /\ inserting' = inserting \ {current}
  /\ thread_block
  /\ UNCHANGED <<priority, panicked, ticks, wakeup, in_handler>>

-----------------------------------------------------------------------------
(* The timer interrupts: timer_interrupt advances the clock.               *)
TimerInterrupt ==
  /\ ~panicked /\ ~in_handler
  /\ ticks' = IF ticks < MaxTicks THEN ticks + 1 ELSE ticks
  /\ in_handler' = TRUE
  /\ UNCHANGED <<threadVars, sleep_list, wakeup, inserting>>

(* SleepersWake: the thread in front is woken only when the clock is at    *)
(* its time exactly                                                        *)
FrontIsDue_F == sleep_list # <<>> /\ wakeup[Head(sleep_list)] = ticks

(* The test of the loop: the front of the list is to be woken.             *)
FrontIsDue == sleep_list # <<>> /\ wakeup[Head(sleep_list)] <= ticks

(* A turn of the loop.  A woken thread that outranks the interrupted one   *)
(* panics the kernel (see module Threads).                                 *)
WakeFront ==
  /\ ~panicked /\ in_handler
  /\ FrontIsDue
  /\ sleep_list' = Tail(sleep_list)
  /\ thread_unblock_in_interrupt(Head(sleep_list))
  /\ UNCHANGED <<priority, ticks, wakeup, inserting, in_handler>>

(* The loop is over, and intr_handler returns.  thread_tick, which the     *)
(* handler called first, is taken here: thread_ticks and yield_on_return,  *)
(* all that it changes, are looked at by nothing before.                   *)
InterruptReturn ==
  /\ ~panicked /\ in_handler
  /\ ~FrontIsDue
  /\ in_handler' = FALSE
  /\ thread_tick
  /\ UNCHANGED <<priority, panicked, ticks, sleep_list, wakeup, inserting>>

Interrupt == TimerInterrupt \/ WakeFront \/ InterruptReturn

ClockYield == ~in_handler /\ Yield /\ UNCHANGED alarmVars
ClockIdle == ~in_handler /\ IdleLoop /\ UNCHANGED alarmVars

ClockNext == Sleep \/ InsertAndBlock \/ Interrupt \/ ClockYield \/ ClockIdle

(* The timer interrupts for ever, and its handler goes on.                 *)
ClockSpec == ClockInit /\ [][ClockNext]_clockVars /\ WF_clockVars(Interrupt)

-----------------------------------------------------------------------------
AlarmTypeOK ==
  /\ ThreadsTypeOK
  /\ ticks \in 0 .. MaxTicks
  /\ sleep_list \in Seq(Thread)
  /\ wakeup \in [Thread -> 0 .. MaxTicks]
  /\ inserting \subseteq Thread
  /\ in_handler \in BOOLEAN

(* A thread is on the sleep list, once, exactly while it is blocked, and   *)
(* then it is on no other list; and every variable has its type.           *)
SleepListExact ==
  /\ AlarmTypeOK
  /\ IsInjective(sleep_list)
  /\ \A t \in Thread : (status[t] = "BLOCKED") = Contains(sleep_list, t)

(* The threads that sleep on: not those that the handler is about to wake. *)
StillAsleep == {t \in Thread : Contains(sleep_list, t) /\ (in_handler => wakeup[t] > ticks)}

(* Every thread that asks to sleep wakes at the first tick that is late    *)
(* enough, however many wake at that tick.                                 *)
Abstract == INSTANCE AlarmSpec WITH now <- ticks, due <- wakeup, asleep <- StillAsleep
Refines == Abstract!AlarmSpec

(* Every sleeper wakes, unless the kernel panics.                          *)
SleepersWake == \A t \in Thread : Contains(sleep_list, t) ~> (~Contains(sleep_list, t) \/ panicked)

(* thread.c: ASSERT (!intr_context ()) of thread_yield.                    *)
NoPanic == ~panicked
==============================================================================
