-------------------------------- MODULE Synch --------------------------------
(***************************************************************************)
(* Semaphores, locks and priority donation: pintos/src/src/threads/synch.c *)
(* with thread_set_priority, thread_set_priority_donated and thread_create *)
(* of thread.c, over the scheduler of module Threads.                      *)
(*                                                                         *)
(* sema_down and sema_up run with interrupts off and are one step each.    *)
(* lock_acquire, lock_release, the donation and thread_set_priority run    *)
(* with interrupts on: a timer interrupt may take the processor away       *)
(* between any two of their accesses to shared data, so each is several    *)
(* steps.  stack[t] holds the kernel calls thread t is in, innermost       *)
(* first; an empty stack is a client's code.                               *)
(***************************************************************************)
EXTENDS Threads

CONSTANTS
  Sema,           \* semaphores the clients use
  Lock,           \* locks, tid_lock included
  TidLock,        \* tid_lock of thread.c
  NULL,
  MaxValue,       \* bound on the value of a client's semaphore
  Client          \* the clients considered: who is there at the start, with
                  \* which priorities, what they use, and the priorities
                  \* (levels) they set, or read where there is none

ASSUME SynchAssumption ==
  /\ IsFiniteSet(Thread)
  /\ TidLock \in Lock
  /\ Sema \cap Lock = {}
  /\ NULL \notin Thread \cup {Idle}
  /\ MaxValue \in Nat \ {0}
  /\ \A c \in Client :
       /\ Main \in c.started /\ c.started \subseteq Thread
       /\ c.priority \in [Thread -> Priority]
       /\ \A t \in c.started : c.priority[t] <= c.priority[Main]
       /\ c.locks \subseteq Lock \ {TidLock} /\ c.levels \subseteq Priority

VARIABLES
  original_priority, waiting_priority, blocker_thread,  \* of struct thread
  lock_list,         \* struct thread's lock_list, as a set
  value, waiters,    \* of every semaphore, those inside the locks included
  holder,            \* of struct lock
  stack,             \* the kernel calls each thread is in
  client             \* what the threads are up to: it never changes

donationVars == <<original_priority, waiting_priority, blocker_thread>>
synchVars == <<donationVars, lock_list, value, waiters, holder, stack, client>>
vars == <<threadVars, synchVars>>

AnySema == Sema \cup Lock

-----------------------------------------------------------------------------
(* A frame: where in the call the thread is, and the locals that are live  *)
(* there.                                                                  *)
At(pc, s) == [pc |-> pc, obj |-> s]
Donating(l, to, amount) == [pc |-> "donate", obj |-> l, to |-> to, amount |-> amount]
Raising(f, seen) ==
  [pc |-> "raise", obj |-> f.obj, to |-> f.to, amount |-> f.amount, seen |-> seen]
Assigning(l, next) == [pc |-> "assign", obj |-> l, next |-> next]
Setting(pc, new, allow) == [pc |-> pc, new |-> new, allow |-> allow]
Creating(t) == [pc |-> "create", child |-> t]

Frame(t) == IF t = Idle \/ stack[t] = <<>> THEN [pc |-> "client"] ELSE Head(stack[t])

(* Frames in which the thread has interrupts off when it runs again.       *)
IntrOff(t) == Frame(t).pc \in {"acq_wake", "down_wake"}

In(pc) == ~panicked /\ current # Idle /\ Frame(current).pc = pc
Me == Frame(current)

Enter(f, callers) == stack' = [stack EXCEPT ![current] = <<f>> \o callers]
Call(f) == Enter(f, stack[current])
Goto(f) == Enter(f, Tail(stack[current]))
Return == stack' = [stack EXCEPT ![current] = Tail(@)]

Init ==
  /\ client \in Client
  /\ current = Main
  /\ status = [t \in Thread \cup {Idle} |->
                 IF t = Main THEN "RUNNING"
                 ELSE IF t = Idle THEN "BLOCKED"
                 ELSE IF t \in client.started THEN "READY" ELSE "FREE"]
  /\ priority = [t \in Thread \cup {Idle} |-> IF t \in client.started THEN client.priority[t] ELSE 0]
  /\ ready_list \in {r \in SetToSeqs(client.started \ {Main}) :
                       \A i, j \in DOMAIN r : i < j => priority[r[i]] >= priority[r[j]]}
  /\ thread_ticks = 0
  /\ panicked = FALSE
  /\ original_priority = [t \in Thread |-> priority[t]]
  /\ waiting_priority = [t \in Thread |-> 0]
  /\ blocker_thread = [t \in Thread |-> NULL]
  /\ lock_list = [t \in Thread |-> {}]
  /\ value = [s \in AnySema |-> IF s \in Lock THEN 1 ELSE 0]
  /\ waiters = [s \in AnySema |-> <<>>]
  /\ holder = [l \in Lock |-> NULL]
  /\ stack = [t \in Thread |-> <<>>]

-----------------------------------------------------------------------------
(* Semaphores.                                                             *)

(* Faulty variants (_F) of a definition stand before it: each is a slip    *)
(* that the property named with it must catch.                             *)

(* One pass of sema_down's loop: the thread takes the semaphore, or queues *)
(* itself and blocks, to look again when it next runs.                     *)
Takes(s) ==
  /\ value[s] > 0
  /\ value' = [value EXCEPT ![s] = @ - 1]
  /\ UNCHANGED <<schedVars, waiters>>

(* NoLostWakeup, AvailableIsTaken: the value is looked at before interrupts*)
(* are off, and may be up again                                            *)
Waits_F(s) ==
  /\ waiters' = [waiters EXCEPT ![s] = Append(@, current)]
  /\ thread_block
  /\ UNCHANGED value

Waits(s) ==
  /\ value[s] = 0
  /\ waiters' = [waiters EXCEPT ![s] = Append(@, current)]
  /\ thread_block
  /\ UNCHANGED value

(* The orders in which list_sort may leave s: by decreasing priority, and  *)
(* stable.                                                                 *)
StableOrders(s) ==
  {f \in Bijection(DOMAIN s, DOMAIN s) :
     \A i, j \in DOMAIN s :
       i < j => \/ priority[s[f[i]]] > priority[s[f[j]]]
                \/ priority[s[f[i]]] = priority[s[f[j]]] /\ f[i] < f[j]}

(* WokenIsBest: the waiters are not sorted                                 *)
list_sort_F(s, f) == s

list_sort(s, f) == [i \in DOMAIN s |-> s[f[i]]]

Wake(t, intr_context) ==
  \/ intr_context /\ thread_unblock_in_interrupt(t)
  \/ ~intr_context /\ thread_unblock(t) /\ UNCHANGED panicked

(* LocksExact: the value stays, as if it were handed to the thread woken   *)
sema_up_F(s, intr_context) ==
  /\ value' = [value EXCEPT ![s] = IF waiters[s] = <<>> THEN @ + 1 ELSE @]
  /\ IF waiters[s] = <<>>
     THEN UNCHANGED <<schedVars, panicked, waiters>>
     ELSE \E f \in StableOrders(waiters[s]) :
            LET sorted == list_sort(waiters[s], f)
            IN  /\ waiters' = [waiters EXCEPT ![s] = Tail(sorted)]
                /\ Wake(Head(sorted), intr_context)
(* sema_up: the value first, so that the woken thread, which may run       *)
(* before sema_up returns, finds it.                                       *)
sema_up(s, intr_context) ==
  /\ value' = [value EXCEPT ![s] = @ + 1]
  /\ IF waiters[s] = <<>>
     THEN UNCHANGED <<schedVars, panicked, waiters>>
     ELSE \E f \in StableOrders(waiters[s]) :
            LET sorted == list_sort(waiters[s], f)
            IN  /\ waiters' = [waiters EXCEPT ![s] = Tail(sorted)]
                /\ Wake(Head(sorted), intr_context)

SemaDown ==
  /\ \/ /\ In("client") /\ "down" \in client.ops
        /\ \E s \in Sema : \/ Takes(s) /\ UNCHANGED stack
                           \/ Waits(s) /\ Call(At("down_wake", s))
     \/ /\ In("down_wake")
        /\ \/ Takes(Me.obj) /\ Return
           \/ Waits(Me.obj) /\ UNCHANGED stack
  /\ UNCHANGED <<priority, panicked, donationVars, lock_list, holder>>

SemaUp ==
  /\ In("client") /\ "up" \in client.ops
  /\ \E s \in Sema : value[s] < MaxValue /\ sema_up(s, FALSE)
  /\ UNCHANGED <<priority, donationVars, lock_list, holder, stack>>

SemaTryDown ==
  /\ In("client") /\ "try_down" \in client.ops
  /\ \E s \in Sema : value[s] > 0 /\ value' = [value EXCEPT ![s] = @ - 1]
  /\ UNCHANGED <<threadVars, donationVars, lock_list, waiters, holder, stack>>

(* A device's interrupt handler ups a semaphore.                           *)
InterruptUp ==
  /\ ~panicked /\ ~IntrOff(current) /\ "intr_up" \in client.ops
  /\ \E s \in Sema : value[s] < MaxValue /\ sema_up(s, TRUE)
  /\ UNCHANGED <<priority, donationVars, lock_list, holder, stack>>

-----------------------------------------------------------------------------
(* lock_acquire.                                                           *)

(* It reads the holder; if there is one, it records it as blocker_thread   *)
(* and donates.                                                            *)
acquire(l, callers) ==
  IF holder[l] = NULL
  THEN Enter(At("acq_down", l), callers) /\ UNCHANGED blocker_thread
  ELSE /\ blocker_thread' = [blocker_thread EXCEPT ![current] = holder[l]]
       /\ Enter(Donating(l, holder[l], priority[current]), callers)

LockAcquire ==
  /\ In("client") /\ "lock" \in client.ops
  /\ \E l \in client.locks : holder[l] # current /\ acquire(l, stack[current])
  /\ UNCHANGED <<threadVars, original_priority, waiting_priority, lock_list, value, waiters, holder>>

(* thread_set_priority_donated: it reads the receiver's priority, and then *)
(* raises it if what it read was lower; the donation goes on to the thread *)
(* the receiver's blocker_thread names, if that one has a lower priority.  *)
(* The page of a thread that has exited is filled with 0xcc: its priority  *)
(* reads as a negative number and its blocker_thread points nowhere, which *)
(* is a page fault in the kernel.                                          *)
Freed(t) == status[t] = "FREE"

DonateNext(amount, pri) ==
  LET next == blocker_thread[Me.to]
  IN  IF next # NULL /\ (Freed(next) \/ pri[next] < amount)
      THEN Donating(Me.obj, next, amount)
      ELSE At("acq_down", Me.obj)

DonateRead ==
  /\ In("donate")
  /\ Goto(Raising(Me, IF Freed(Me.to) THEN -1 ELSE priority[Me.to]))
  /\ UNCHANGED <<threadVars, donationVars, lock_list, value, waiters, holder>>

(* OwnPriorityKept: the test for a lower priority dropped                  *)
DonateWrite_F ==
  /\ In("raise")
  /\ priority' = [priority EXCEPT ![Me.to] = Me.amount]
  /\ Goto(At("acq_down", Me.obj))
  /\ UNCHANGED <<schedVars, panicked, donationVars, lock_list, value, waiters, holder>>

DonateWrite ==
  /\ In("raise")
  /\ IF Freed(Me.to)
     THEN panicked' = TRUE /\ UNCHANGED <<priority, stack>>
     ELSE /\ priority' = IF Me.amount > Me.seen THEN [priority EXCEPT ![Me.to] = Me.amount]
                         ELSE priority
          /\ Goto(DonateNext(Max({Me.amount, Me.seen}), priority'))
          /\ UNCHANGED panicked
  /\ UNCHANGED <<schedVars, donationVars, lock_list, value, waiters, holder>>

AcquireDown ==
  /\ In("acq_down") \/ In("acq_wake")
  /\ \/ Takes(Me.obj) /\ Goto(At("acq_own", Me.obj))
     \/ Waits(Me.obj) /\ Goto(At("acq_wake", Me.obj))
  /\ UNCHANGED <<priority, panicked, donationVars, lock_list, holder>>

(* It owns the lock's semaphore and says so.                               *)
AcquireOwn ==
  /\ In("acq_own")
  /\ lock_list' = [lock_list EXCEPT ![current] = @ \cup {Me.obj}]
  /\ holder' = [holder EXCEPT ![Me.obj] = current]
  /\ Return
  /\ UNCHANGED <<threadVars, donationVars, value, waiters>>

-----------------------------------------------------------------------------
(* lock_release.                                                           *)

(* What list_max with compare_priority, which is ">", returns: the first   *)
(* of the waiters with the LOWEST priority.  On a lock without waiters it  *)
(* returns the list's tail, and the word the code takes for a priority is  *)
(* whatever lies 24 bytes before the lock.                                 *)
list_max_priority(l) ==
  IF waiters[l] = <<>> THEN client.levels
  ELSE {Min({priority[waiters[l][i]] : i \in DOMAIN waiters[l]})}

(* The priority to fall back to: the original one, or the one a            *)
(* thread_set_priority left waiting, raised for the locks still held.      *)
NextPriority(t, kept) ==
  LET base == IF waiting_priority[t] # 0 THEN waiting_priority[t] ELSE original_priority[t]
  IN  {Max({base} \cup {best[l] : l \in kept}) :
         best \in {b \in [kept -> Priority] : \A l \in kept : b[l] \in list_max_priority(l)}}

release(l, callers) ==
  /\ lock_list' = [lock_list EXCEPT ![current] = @ \ {l}]
  /\ \E next \in NextPriority(current, lock_list'[current]) : Enter(Assigning(l, next), callers)

LockRelease ==
  /\ \/ In("client") /\ \E l \in client.locks : holder[l] = current /\ release(l, stack[current])
     \/ In("tid") /\ release(TidLock, Tail(stack[current]))
  /\ UNCHANGED <<threadVars, donationVars, value, waiters, holder>>

ReleaseAssign ==
  /\ In("assign")
  /\ priority' = [priority EXCEPT ![current] = Me.next]
  /\ Goto(At("disown", Me.obj))
  /\ UNCHANGED <<schedVars, panicked, donationVars, lock_list, value, waiters, holder>>

ReleaseDisown ==
  /\ In("disown")
  /\ holder' = [holder EXCEPT ![Me.obj] = NULL]
  /\ Goto(At("rel_up", Me.obj))
  /\ UNCHANGED <<threadVars, donationVars, lock_list, value, waiters>>

ReleaseUp ==
  /\ In("rel_up")
  /\ sema_up(Me.obj, FALSE)
  /\ Return
  /\ UNCHANGED <<priority, donationVars, lock_list, holder>>

-----------------------------------------------------------------------------
(* thread_set_priority.                                                    *)

(* With interrupts on, it looks whether a lock it holds has a holder of    *)
(* higher priority than the new one; that holder is itself.                *)
SetPriority ==
  /\ In("client") /\ "set_priority" \in client.ops
  /\ \E new \in client.levels :
       LET allow == \A l \in lock_list[current] :
                      holder[l] # NULL => priority[holder[l]] <= new
       IN  Call(Setting("update", new, allow))
  /\ UNCHANGED <<threadVars, donationVars, lock_list, value, waiters, holder>>

SetUpdate ==
  /\ In("update")
  /\ IF Me.allow
     THEN /\ priority' = [priority EXCEPT ![current] = Me.new]
          /\ original_priority' = [original_priority EXCEPT ![current] = Me.new]
          /\ UNCHANGED waiting_priority
     ELSE /\ waiting_priority' = [waiting_priority EXCEPT ![current] = Me.new]
          /\ UNCHANGED <<priority, original_priority>>
  /\ Goto(Setting("look", Me.new, Me.allow))
  /\ UNCHANGED <<schedVars, panicked, blocker_thread, lock_list, value, waiters, holder>>

(* list_empty (&ready_list), with interrupts on again.                     *)
SetLook ==
  /\ In("look")
  /\ IF ready_list = <<>> THEN Return ELSE Goto(Setting("front", Me.new, Me.allow))
  /\ UNCHANGED <<threadVars, donationVars, lock_list, value, waiters, holder>>

(* list_front (&ready_list), which asserts that the list is not empty.     *)
SetYield ==
  /\ In("front")
  /\ panicked' = (ready_list = <<>>)
  /\ IF ready_list # <<>> /\ priority[Head(ready_list)] > Me.new
     THEN thread_yield(ready_list, status, priority)
     ELSE UNCHANGED schedVars
  /\ Return
  /\ UNCHANGED <<priority, donationVars, lock_list, value, waiters, holder>>

-----------------------------------------------------------------------------
(* Creation and exit.                                                      *)

(* thread_create: init_thread, allocate_tid under tid_lock, thread_unblock.*)
Create ==
  /\ In("client") /\ "create" \in client.ops
  /\ \E t \in Thread, p \in client.levels :
       /\ init_thread(t, p)
       /\ original_priority' = [original_priority EXCEPT ![t] = p]
       /\ waiting_priority' = [waiting_priority EXCEPT ![t] = 0]
       /\ lock_list' = [lock_list EXCEPT ![t] = {}]
       /\ blocker_thread' = [blocker_thread EXCEPT ![t] = NULL]
       /\ stack' = [stack EXCEPT ![current] = <<At("new", TidLock), At("tid", TidLock), Creating(t)>>]
  /\ UNCHANGED <<current, ready_list, thread_ticks, panicked, value, waiters, holder>>

AllocateTid ==
  /\ In("new")
  /\ acquire(TidLock, Tail(stack[current]))
  /\ UNCHANGED <<threadVars, original_priority, waiting_priority, lock_list, value, waiters, holder>>

(* The new thread runs; the caller goes on, now or later.                  *)
CreateUnblock ==
  /\ In("create")
  /\ thread_unblock(Me.child)
  /\ Return
  /\ UNCHANGED <<priority, panicked, donationVars, lock_list, value, waiters, holder>>

ThreadExit ==
  /\ In("client") /\ "exit" \in client.ops
  /\ \A l \in Lock : holder[l] # current
  /\ thread_exit
  /\ UNCHANGED <<priority, panicked, synchVars>>

Tick ==
  /\ ~panicked /\ ~IntrOff(current)
  /\ thread_tick
  /\ UNCHANGED <<priority, panicked, synchVars>>

IdleStep == IdleLoop /\ UNCHANGED synchVars

ThreadStep ==
  \/ SemaDown \/ SemaUp \/ SemaTryDown
  \/ LockAcquire \/ DonateRead \/ DonateWrite \/ AcquireDown \/ AcquireOwn
  \/ LockRelease \/ ReleaseAssign \/ ReleaseDisown \/ ReleaseUp
  \/ SetPriority \/ SetUpdate \/ SetLook \/ SetYield
  \/ Create \/ AllocateTid \/ CreateUnblock \/ ThreadExit

Next == (ThreadStep \/ InterruptUp \/ Tick \/ IdleStep) /\ UNCHANGED client

(* A thread inside a kernel call goes on with it, and one that holds a     *)
(* lock releases it in the end.                                            *)
Progress ==
  \/ Me.pc # "client" /\ ThreadStep /\ UNCHANGED client
  \/ LockRelease /\ UNCHANGED client

(* The timer interrupts for ever.  A thread that gets the processor again  *)
(* and again executes: a time slice is TIME_SLICE ticks, and an            *)
(* instruction is less.                                                    *)
Fairness ==
  /\ WF_vars(Tick /\ UNCHANGED client)
  /\ WF_vars(IdleStep /\ UNCHANGED client)
  /\ \A t \in Thread : SF_vars(current = t /\ Progress)

Spec == Init /\ [][Next]_vars
FairSpec == Spec /\ Fairness

-----------------------------------------------------------------------------
SynchTypeOK ==
  /\ ThreadsTypeOK
  /\ original_priority \in [Thread -> Priority]
  /\ waiting_priority \in [Thread -> Priority]
  /\ blocker_thread \in [Thread -> Thread \cup {NULL}]
  /\ lock_list \in [Thread -> SUBSET Lock]
  /\ value \in [AnySema -> 0 .. MaxValue]
  /\ waiters \in [AnySema -> Seq(Thread)]
  /\ holder \in [Lock -> Thread \cup {NULL}]
  /\ \A t \in Thread : Len(stack[t]) <= 3

(* A lock's semaphore is 1, or exactly one thread is between its sema_down *)
(* and its sema_up: mutual exclusion, and the semaphore is never lost.     *)
Owners(l) ==
  {t \in Thread : \/ holder[l] = t
                  \/ Frame(t).pc \in {"acq_own", "rel_up"} /\ Frame(t).obj = l}
LockConserved == \A l \in Lock : value[l] + Cardinality(Owners(l)) = 1

(* The lock lists are exactly the holders' locks, except between the first *)
(* and the last assignment of lock_release.                                *)
LockListExact ==
  \A t \in Thread, l \in Lock :
    l \in lock_list[t] <=> holder[l] = t /\ ~(Frame(t).pc \in {"assign", "disown"} /\ Frame(t).obj = l)

(* sema_up raises the value before it wakes a waiter, and any thread may   *)
(* take it first: still, a semaphore is never available while a thread     *)
(* sleeps on it for which no wakeup is on its way.                         *)
WokenFor(s) ==
  {t \in Thread : /\ Frame(t).pc \in {"acq_wake", "down_wake"} /\ Frame(t).obj = s
                  /\ status[t] # "BLOCKED"}
NoLostWakeup ==
  \A s \in AnySema : waiters[s] # <<>> => value[s] <= Cardinality(WokenFor(s))

(* thread.h: "only a thread in the blocked state is on a semaphore wait    *)
(* list".  elem is on one list at most: the threads on wait lists are the  *)
(* blocked ones, each on the list of the semaphore its call waits for, and *)
(* the other blocked threads are being created.                            *)
Waiting(t, s) == \E i \in DOMAIN waiters[s] : waiters[s][i] = t
WaitListsExact ==
  /\ \A s \in AnySema : IsInjective(waiters[s])
  /\ \A t \in Thread, s \in AnySema :
       Waiting(t, s) <=> /\ status[t] = "BLOCKED"
                         /\ Frame(t).pc \in {"acq_wake", "down_wake"} /\ Frame(t).obj = s

(* The locks, whatever interleaves with acquire and release: each is held  *)
(* or free, the lists of locks and of waiters are those of the threads     *)
(* that hold them and wait, and every variable has its type.               *)
LocksExact == SynchTypeOK /\ LockConserved /\ LockListExact /\ WaitListsExact

(* "the highest priority waiting thread should be awakened first"          *)
(* (threads.texi): also when priorities changed while the threads waited.  *)
WokenIsBest ==
  [][\A s \in AnySema, t, u \in Thread :
       Waiting(t, s) /\ ~Waiting(t, s)' /\ Waiting(u, s) => priority[u] <= priority[t]]_vars

(* As long as nobody calls thread_set_priority, no interleaving of         *)
(* donations and releases leaves a thread below its own priority: a donor  *)
(* writes what was more than it read, however stale.  (If threads both     *)
(* come and go, it may write to the next thread in the page of the one     *)
(* whose priority it read.)                                                *)
PagesOnce == ~({"create", "exit"} \subseteq client.ops)
OwnPriorityKept ==
  PagesOnce /\ "set_priority" \notin client.ops =>
    \A t \in Thread : original_priority[t] <= priority[t]

(* Among equals an available semaphore does not stay available while       *)
(* threads wait for it.                                                    *)
Equals ==
  /\ client.ops \cap {"set_priority", "create"} = {}
  /\ \A t, u \in client.started : client.priority[t] = client.priority[u]
AvailableIsTaken ==
  \A s \in AnySema : (Equals /\ value[s] > 0 /\ waiters[s] # <<>>) ~> (value[s] = 0 \/ waiters[s] = <<>>)

-----------------------------------------------------------------------------
(* What the comments and the project's text promise of donation.           *)

(* threads.texi, on "priority inversion": donation is there so that the    *)
(* low-priority holder gets processor time before the threads in between:  *)
(* a thread that blocks leaves the processor to the ready thread of the    *)
(* highest priority, donated or not.                                       *)
SwitchesToBest ==
  [][status[current] = "RUNNING" /\ status'[current] = "BLOCKED" /\ current' # Idle =>
       \A t \in Thread : status'[t] = "READY" => priority'[t] <= priority'[current']]_vars

(* synch.c: "next_priority is set the to the max among all those threads". *)
ReleaseKeepsBest ==
  [][\A t, u \in Thread : Frame(t).pc # "assign" /\ Frame(t)'.pc = "assign" =>
       \A l \in lock_list'[t] : Waiting(u, l) => priority[u] <= Frame(t)'.next]_vars

(* threads.texi: "then recall the donation once L releases".               *)
DonationRecalled ==
  \A t \in Thread :
    lock_list[t] = {} /\ Frame(t).pc = "client" /\ status[t] \in {"RUNNING", "READY"} =>
      priority[t] = original_priority[t]

(* threads.texi: "If H needs to wait for L ... donate its priority to L    *)
(* while L is holding the lock": a waiter never outranks the holder.       *)
HolderOutranksWaiters ==
  \A l \in Lock, t \in Thread :
    Waiting(t, l) /\ holder[l] # NULL /\ Frame(holder[l]).pc \notin {"assign", "disown"} =>
      priority[t] <= priority[holder[l]]

(* thread.h: waiting_priority, "Priority thread wants to change to as soon *)
(* as donating lock is released".                                          *)
NothingWaitsWithoutLock ==
  \A t \in Thread : waiting_priority[t] # 0 /\ Frame(t).pc = "client" => lock_list[t] # {}

(* thread.h: blocker_thread, "If waiting for a lock, pointer to thread     *)
(* holding lock we need": what thread_set_priority_donated writes to is    *)
(* still a thread.                                                         *)
DonatesToThread ==
  \A t \in Thread : Frame(t).pc = "raise" => ~Freed(Frame(t).to)

(* list.c: ASSERT (!list_empty (list)) of list_front.                      *)
FrontExists == ~panicked
==============================================================================
