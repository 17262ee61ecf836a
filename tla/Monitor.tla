------------------------------- MODULE Monitor -------------------------------
(***************************************************************************)
(* Condition variables (cond_wait, cond_signal, cond_broadcast of          *)
(* pintos/src/src/threads/synch.c) over the locks and semaphores of module *)
(* Synch: one monitor, a lock with a condition.                            *)
(***************************************************************************)
EXTENDS Synch

CONSTANTS
  MonitorLock,   \* the lock of the monitor
  WaiterSema     \* for each thread, the semaphore_elem on its stack

(* A waiter's semaphore is known to nobody but cond_wait and cond_signal.  *)
ASSUME MonitorAssumption ==
  /\ MonitorLock \in Lock \ {TidLock}
  /\ WaiterSema \in [Thread -> Sema]
  /\ IsInjective(WaiterSema)
  /\ \A c \in Client : c.ops \cap {"down", "up", "try_down", "intr_up"} = {}

VARIABLE cond    \* the condition's waiters: the thread, and its priority then

monitorVars == <<vars, cond>>

MonitorInit == Init /\ cond = <<>>

Monitoring == In("client") /\ holder[MonitorLock] = current

-----------------------------------------------------------------------------
(* Faulty variants (_F) of a definition stand before it.                   *)

(* list_insert_ordered with compare_priority_cond, which is ">".           *)
InsertWaiter(t) ==
  LET lower == {i \in DOMAIN cond : priority[t] > cond[i].priority}
  IN  InsertAt(cond, IF lower = {} THEN Len(cond) + 1 ELSE Min(lower),
               [thread |-> t, priority |-> priority[t]])

(* cond_wait, up to its lock_release: the lock protects the condition's    *)
(* waiters, so a tick in between is seen by nobody.                        *)
CondWait ==
  /\ Monitoring
  /\ cond' = InsertWaiter(current)
  /\ value' = [value EXCEPT ![WaiterSema[current]] = 0]
  /\ release(MonitorLock, <<At("cond_down", WaiterSema[current]), At("cond_acq", MonitorLock)>>)
  /\ UNCHANGED <<threadVars, donationVars, waiters, holder>>

(* Its sema_down; a woken thread goes on in SemaDown.                      *)
CondDown ==
  /\ In("cond_down")
  /\ \/ Takes(Me.obj) /\ Return
     \/ Waits(Me.obj) /\ Goto(At("down_wake", Me.obj))
  /\ UNCHANGED <<priority, panicked, donationVars, lock_list, holder, cond>>

(* Its lock_acquire.                                                       *)
CondAcquire ==
  /\ In("cond_acq")
  /\ acquire(MonitorLock, Tail(stack[current]))
  /\ UNCHANGED <<threadVars, original_priority, waiting_priority, lock_list, value, waiters, holder, cond>>

(* SignalOnce: only a waiter already asleep is upped                       *)
signal_F ==
  /\ cond # <<>>
  /\ LET w == WaiterSema[Head(cond).thread]
     IN  IF waiters[w] # <<>> THEN sema_up(w, FALSE)
         ELSE UNCHANGED <<schedVars, panicked, value, waiters>>
  /\ cond' = Tail(cond)

signal ==
  /\ cond # <<>>
  /\ sema_up(WaiterSema[Head(cond).thread], FALSE)
  /\ cond' = Tail(cond)

CondSignal ==
  /\ Monitoring
  /\ signal
  /\ UNCHANGED <<priority, donationVars, lock_list, holder, stack>>

(* cond_broadcast: the signals one by one; a waiter that outranks the      *)
(* caller runs, up to the lock, before the next.                           *)
CondBroadcast ==
  \/ /\ Monitoring /\ cond # <<>>
     /\ signal
     /\ Call([pc |-> "broadcast"])
     /\ UNCHANGED <<priority, donationVars, lock_list, holder>>
  \/ /\ In("broadcast")
     /\ IF cond = <<>> THEN Return /\ UNCHANGED <<schedVars, panicked, value, waiters, cond>>
        ELSE signal /\ UNCHANGED stack
     /\ UNCHANGED <<priority, donationVars, lock_list, holder>>

MonitorStep ==
  \/ ThreadStep /\ UNCHANGED cond
  \/ CondWait \/ CondDown \/ CondAcquire \/ CondSignal \/ CondBroadcast

MonitorNext ==
  /\ \/ MonitorStep
     \/ (InterruptUp \/ Tick \/ IdleStep) /\ UNCHANGED cond
  /\ UNCHANGED client

MonitorSpec == MonitorInit /\ [][MonitorNext]_monitorVars

(* Fairness as in Synch, with the kernel calls of this module.             *)
MonitorProgress ==
  \/ Me.pc # "client" /\ MonitorStep /\ UNCHANGED client
  \/ LockRelease /\ UNCHANGED <<cond, client>>

MonitorFairness ==
  /\ WF_monitorVars(Tick /\ UNCHANGED <<cond, client>>)
  /\ WF_monitorVars(IdleStep /\ UNCHANGED <<cond, client>>)
  /\ \A t \in Thread :
       SF_monitorVars(current = t /\ MonitorProgress)

FairMonitorSpec == MonitorSpec /\ MonitorFairness

-----------------------------------------------------------------------------
Listed(t) == {i \in DOMAIN cond : cond[i].thread = t}

(* The thread has queued itself and has not yet got through its sema_down. *)
InWait(t) ==
  \E i \in DOMAIN stack[t] :
    stack[t][i].pc \in {"cond_down", "down_wake"} /\ stack[t][i].obj = WaiterSema[t]

MonitorTypeOK ==
  /\ \A t \in Thread : Len(stack[t]) <= 4
  /\ cond \in Seq([thread : Thread, priority : Priority])
  /\ \A s \in AnySema : value[s] \in 0 .. 1

(* The lock may be grabbed and the condition signalled before cond_wait    *)
(* gets to its sema_down: still, a waiting thread is either on the list or *)
(* has exactly one signal, and a signal belongs to a wait of its own, not  *)
(* to an earlier one.                                                      *)
SignalOnce ==
  /\ MonitorTypeOK
  /\ \A t \in Thread :
       Cardinality(Listed(t)) + value[WaiterSema[t]] = IF InWait(t) THEN 1 ELSE 0

(* Among equals, a signalled thread gets out of its sema_down.             *)
SignalDelivered == \A t \in Thread : (Equals /\ InWait(t) /\ Listed(t) = {}) ~> ~InWait(t)

(* threads.texi: "when threads are waiting for a lock, semaphore, or       *)
(* condition variable, the highest priority waiting thread should be       *)
(* awakened first".                                                        *)
CondOrder ==
  [][cond # <<>> /\ cond' = Tail(cond) =>
       \A i \in DOMAIN cond : priority[cond[i].thread] <= priority[Head(cond).thread]]_monitorVars
==============================================================================
