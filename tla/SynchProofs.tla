----------------------------- MODULE SynchProofs -----------------------------
(***************************************************************************)
(* Proofs about the scheduler and what is built on it.                     *)
(*                                                                         *)
(* Threads, for any number of threads, priorities and ticks in a time      *)
(* slice: the ready list holds exactly the ready threads, in order of      *)
(* priority, equals in the order they came, and no ready thread outranks   *)
(* the running one.  AlarmClock, Threads with a clock: who is on the sleep *)
(* list, and that every sleeper wakes at the tick that timer_sleep         *)
(* promises.                                                               *)
(*                                                                         *)
(* Synch and Monitor, for any threads, locks, semaphores and clients: the  *)
(* locks exclude one another's holders, their lists are exact, and so are  *)
(* the semaphores' wait lists, however the steps of lock_acquire,          *)
(* lock_release, the donation and thread_create interleave; and with those *)
(* of cond_wait, cond_signal and cond_broadcast among them, each waiter is *)
(* on the condition's list or has one signal.                              *)
(***************************************************************************)
EXTENDS Monitor, AlarmClock, SequenceTheorems, FiniteSetTheorems, WellFoundedInduction, TLAPS

(* A non-empty set of natural numbers has a least element, which Min gives.*)
LEMMA MinOfNats ==
  ASSUME NEW S, S \subseteq Nat, S # {}
  PROVE  Min(S) \in S /\ \A n \in S : Min(S) <= n
<1>1. PICK m \in S : \A n \in S : ~(<<n, m>> \in OpToRel(<, Nat))
  BY NatLessThanWellFounded, WFMin
<1>2. \A n \in S : m <= n
  <2> SUFFICES ASSUME NEW n \in S, n < m PROVE FALSE
    OBVIOUS
  <2> <<n, m>> \in OpToRel(<, Nat)
    BY DEF OpToRel
  <2> QED
    BY <1>1
<1> QED
  BY <1>1, <1>2 DEF Min

(* What InsertAt returns.                                                  *)
LEMMA InsertAtIs ==
  ASSUME NEW S, NEW s \in Seq(S), NEW i \in 1 .. Len(s) + 1, NEW e \in S
  PROVE  /\ InsertAt(s, i, e) \in Seq(S)
         /\ Len(InsertAt(s, i, e)) = Len(s) + 1
         /\ \A j \in 1 .. Len(s) + 1 :
              InsertAt(s, i, e)[j] = IF j < i THEN s[j] ELSE IF j = i THEN e ELSE s[j - 1]
<1> DEFINE a == SubSeq(s, 1, i - 1)
           b == SubSeq(s, i, Len(s))
           c == a \o <<e>>
           r == c \o b
<1>0. Len(s) \in Nat
  BY LenProperties
<1>1. /\ a \in Seq(S) /\ Len(a) = i - 1
      /\ \A j \in 1 .. i - 1 : a[j] = s[j]
  BY <1>0, SubSeqProperties
<1>2. /\ b \in Seq(S) /\ Len(b) = Len(s) - i + 1
      /\ \A j \in 1 .. Len(s) - i + 1 : b[j] = s[i + j - 1]
  BY <1>0, SubSeqProperties
<1>3. /\ <<e>> \in Seq(S) /\ Len(<<e>>) = 1 /\ <<e>>[1] = e
  OBVIOUS
<1>4. /\ c \in Seq(S) /\ Len(c) = i
      /\ \A j \in 1 .. i : c[j] = IF j < i THEN s[j] ELSE e
  <2> HIDE DEF a
  <2>1. /\ c \in Seq(S) /\ Len(c) = Len(a) + 1
        /\ \A j \in 1 .. Len(a) + 1 : c[j] = IF j <= Len(a) THEN a[j] ELSE <<e>>[j - Len(a)]
    BY <1>1, <1>3, ConcatProperties, LenProperties
  <2> HIDE DEF c
  <2> QED
    BY <2>1, <1>0, <1>1, <1>3
<1> HIDE DEF a, b, c
<1>5. /\ r \in Seq(S) /\ Len(r) = Len(c) + Len(b)
      /\ \A j \in 1 .. Len(c) + Len(b) : r[j] = IF j <= Len(c) THEN c[j] ELSE b[j - Len(c)]
  BY <1>2, <1>4, ConcatProperties, LenProperties
<1> HIDE DEF r
<1>6. /\ r \in Seq(S) /\ Len(r) = Len(s) + 1
      /\ \A j \in 1 .. Len(s) + 1 : r[j] = IF j < i THEN s[j] ELSE IF j = i THEN e ELSE s[j - 1]
  BY <1>0, <1>2, <1>4, <1>5
<1> QED
  BY <1>6 DEF InsertAt, a, b, c, r

-----------------------------------------------------------------------------

AnyThread == Thread \cup {Idle}

(* ReadyListExact and ReadyListSorted of a list, statuses and priorities   *)
(* that are not, or not yet, the current ones.                             *)
QueueOf(r, stat) ==
  /\ r \in Seq(Thread)
  /\ stat \in [AnyThread -> Status]
  /\ \A i \in 1 .. Len(r) : stat[r[i]] = "READY"
  /\ \A i, j \in 1 .. Len(r) : r[i] = r[j] => i = j
  /\ \A t \in Thread : stat[t] = "READY" => \E i \in 1 .. Len(r) : r[i] = t

SortedBy(r, pri) == \A i, j \in 1 .. Len(r) : i < j => pri[r[i]] >= pri[r[j]]

NoneRunning(stat) == \A t \in AnyThread : stat[t] # "RUNNING"

(* What holds of the scheduler's state even where priorities change while  *)
(* threads are queued: the part of the invariant that modules built on     *)
(* this one keep.                                                          *)
SchedOK == ThreadsTypeOK /\ ReadyListExact

(* A switch makes a running thread ready and a ready one run, no more.     *)
Live(st) == st \in {"RUNNING", "READY"}
KeepsClass(old, new) == new = old \/ (Live(old) /\ Live(new))

-----------------------------------------------------------------------------
(* Where InsertOrdered puts the new element.                               *)
LEMMA InsertOrderedIs ==
  ASSUME NEW r \in Seq(Thread), NEW t \in Thread, NEW pri \in [AnyThread -> Priority]
  PROVE  \E k \in 1 .. Len(r) + 1 :
           /\ InsertOrdered(r, t, pri) \in Seq(Thread)
           /\ Len(InsertOrdered(r, t, pri)) = Len(r) + 1
           /\ \A j \in 1 .. Len(r) + 1 :
                InsertOrdered(r, t, pri)[j] = IF j < k THEN r[j] ELSE IF j = k THEN t ELSE r[j - 1]
           /\ \A j \in 1 .. Len(r) : j < k => pri[r[j]] >= pri[t]
           /\ k <= Len(r) => pri[t] > pri[r[k]]
<1> DEFINE lower == {i \in 1 .. Len(r) : pri[t] > pri[r[i]]}
           k == IF lower = {} THEN Len(r) + 1 ELSE Min(lower)
<1>1. Len(r) \in Nat /\ \A i \in 1 .. Len(r) : r[i] \in Thread
  BY LenProperties
<1>2. \A u \in Thread : pri[u] \in Int
  BY DEF AnyThread, Priority
<1>3. /\ k \in 1 .. Len(r) + 1
      /\ \A j \in 1 .. Len(r) : j < k => pri[r[j]] >= pri[t]
      /\ k <= Len(r) => pri[t] > pri[r[k]]
  <2>1. CASE lower = {}
    BY <1>1, <1>2, <2>1
  <2>2. CASE lower # {}
    <3>1. lower \subseteq Nat
      BY <1>1
    <3>2. Min(lower) \in lower /\ \A n \in lower : Min(lower) <= n
      BY <2>2, <3>1, MinOfNats
    <3>3. k = Min(lower)
      BY <2>2
    <3>4. k \in 1 .. Len(r) /\ pri[t] > pri[r[k]]
      BY <3>2, <3>3
    <3>5. ASSUME NEW j \in 1 .. Len(r), j < k PROVE pri[r[j]] >= pri[t]
      <4>1. j \notin lower
        BY <3>2, <3>3, <3>4, <3>5
      <4> QED
        BY <1>1, <1>2, <4>1
    <3> HIDE DEF k
    <3> QED
      BY <1>1, <3>4, <3>5
  <2> QED
    BY <2>1, <2>2
<1>4. InsertOrdered(r, t, pri) = InsertAt(r, k, t)
  BY DEF InsertOrdered
<1> HIDE DEF lower, k
<1>5. PICK n \in 1 .. Len(r) + 1 :
        /\ InsertOrdered(r, t, pri) = InsertAt(r, n, t)
        /\ \A j \in 1 .. Len(r) : j < n => pri[r[j]] >= pri[t]
        /\ n <= Len(r) => pri[t] > pri[r[n]]
  BY <1>3, <1>4
<1>6. InsertAt(r, n, t) \in Seq(Thread) /\ Len(InsertAt(r, n, t)) = Len(r) + 1
  BY InsertAtIs
<1>7. \A j \in 1 .. Len(r) + 1 :
        InsertAt(r, n, t)[j] = IF j < n THEN r[j] ELSE IF j = n THEN t ELSE r[j - 1]
  BY InsertAtIs
<1> QED
  BY <1>5, <1>6, <1>7

(* Inserting a thread that was not ready keeps the queue exact.            *)
LEMMA InsertKeepsQueue ==
  ASSUME NEW r, NEW stat, NEW t \in Thread, NEW pri \in [AnyThread -> Priority],
         QueueOf(r, stat), stat[t] # "READY"
  PROVE  /\ QueueOf(InsertOrdered(r, t, pri), [stat EXCEPT ![t] = "READY"])
         /\ \A i \in 1 .. Len(InsertOrdered(r, t, pri)) :
              \/ InsertOrdered(r, t, pri)[i] = t
              \/ \E j \in 1 .. Len(r) : InsertOrdered(r, t, pri)[i] = r[j]
<1> DEFINE q == InsertOrdered(r, t, pri)
           st == [stat EXCEPT ![t] = "READY"]
<1>0. /\ r \in Seq(Thread) /\ Len(r) \in Nat
      /\ \A i \in 1 .. Len(r) : r[i] \in Thread
      /\ \A u \in Thread : pri[u] \in Int
      /\ t \in AnyThread
  BY LenProperties DEF QueueOf, AnyThread, Priority
<1>1. PICK k \in 1 .. Len(r) + 1 :
        /\ q \in Seq(Thread) /\ Len(q) = Len(r) + 1
        /\ \A j \in 1 .. Len(r) + 1 : q[j] = IF j < k THEN r[j] ELSE IF j = k THEN t ELSE r[j - 1]
        /\ \A j \in 1 .. Len(r) : j < k => pri[r[j]] >= pri[t]
        /\ k <= Len(r) => pri[t] > pri[r[k]]
  BY <1>0, InsertOrderedIs
<1> HIDE DEF q
<1>2. \A i \in 1 .. Len(q) : q[i] = t \/ \E j \in 1 .. Len(r) : q[i] = r[j]
  <2> SUFFICES ASSUME NEW i \in 1 .. Len(q), i # k
               PROVE  \E j \in 1 .. Len(r) : q[i] = r[j]
    BY <1>0, <1>1
  <2>1. CASE i < k
    BY <1>0, <1>1, <2>1
  <2>2. CASE i > k
    <3>1. i - 1 \in 1 .. Len(r) /\ q[i] = r[i - 1]
      BY <1>0, <1>1, <2>2
    <3> QED
      BY <3>1
  <2> QED
    BY <1>0, <1>1, <2>1, <2>2
<1>3. \A j \in 1 .. Len(r) : r[j] # t /\ r[j] \in Thread
  BY <1>0 DEF QueueOf
<1>4. st \in [AnyThread -> Status] /\ st[t] = "READY"
      /\ \A u \in AnyThread : u # t => st[u] = stat[u]
  BY <1>0 DEF QueueOf, Status
<1> HIDE DEF st
<1>5. \A i \in 1 .. Len(q) : st[q[i]] = "READY"
  <2> SUFFICES ASSUME NEW i \in 1 .. Len(q), NEW j \in 1 .. Len(r), q[i] = r[j]
               PROVE  st[q[i]] = "READY"
    BY <1>2, <1>4
  <2> QED
    BY <1>3, <1>4 DEF QueueOf, AnyThread
<1>6. \A i, j \in 1 .. Len(q) : q[i] = q[j] => i = j
  <2> SUFFICES ASSUME NEW i \in 1 .. Len(q), NEW j \in 1 .. Len(q), i < j, q[i] = q[j]
               PROVE  FALSE
    BY <1>0, <1>1
  <2>1. CASE j = k
    BY <1>0, <1>1, <1>3, <2>1
  <2>2. CASE i = k
    BY <1>0, <1>1, <1>3, <2>2
  <2>3. CASE j < k
    <3>1. i \in 1 .. Len(r) /\ j \in 1 .. Len(r) /\ i # j /\ q[i] = r[i] /\ q[j] = r[j]
      BY <1>0, <1>1, <2>3
    <3> QED
      BY <3>1 DEF QueueOf
  <2>4. CASE i < k /\ k < j
    <3>1. i \in 1 .. Len(r) /\ j - 1 \in 1 .. Len(r) /\ i # j - 1
      BY <1>0, <1>1, <2>4
    <3>2. q[i] = r[i] /\ q[j] = r[j - 1]
      BY <1>0, <1>1, <2>4
    <3> QED
      BY <3>1, <3>2 DEF QueueOf
  <2>5. CASE k < i
    <3>1. i - 1 \in 1 .. Len(r) /\ j - 1 \in 1 .. Len(r) /\ i - 1 # j - 1
      BY <1>0, <1>1, <2>5
    <3>2. q[i] = r[i - 1] /\ q[j] = r[j - 1]
      BY <1>0, <1>1, <2>5
    <3> QED
      BY <3>1, <3>2 DEF QueueOf
  <2> QED
    BY <1>0, <1>1, <2>1, <2>2, <2>3, <2>4, <2>5
<1>7. \A u \in Thread : st[u] = "READY" => \E i \in 1 .. Len(q) : q[i] = u
  <2> SUFFICES ASSUME NEW u \in Thread, st[u] = "READY"
               PROVE  \E i \in 1 .. Len(q) : q[i] = u
    OBVIOUS
  <2>1. CASE u = t
    BY <1>0, <1>1, <2>1
  <2>2. CASE u # t
    <3>1. PICK i \in 1 .. Len(r) : r[i] = u
      BY <1>4, <2>2 DEF QueueOf, AnyThread
    <3>2. CASE i < k
      BY <1>0, <1>1, <3>1, <3>2
    <3>3. CASE i >= k
      <4>1. i + 1 \in 1 .. Len(q) /\ q[i + 1] = r[(i + 1) - 1] /\ (i + 1) - 1 = i
        BY <1>0, <1>1, <3>3
      <4> QED
        BY <3>1, <4>1
    <3> QED
      BY <1>0, <1>1, <3>2, <3>3
  <2> QED
    BY <2>1, <2>2
<1> QED
  BY <1>1, <1>2, <1>4, <1>5, <1>6, <1>7 DEF QueueOf, q, st

(* list_insert_ordered keeps a sorted list sorted.                         *)
LEMMA InsertKeepsSorted ==
  ASSUME NEW r \in Seq(Thread), NEW t \in Thread, NEW pri \in [AnyThread -> Priority],
         SortedBy(r, pri)
  PROVE  SortedBy(InsertOrdered(r, t, pri), pri)
<1> DEFINE q == InsertOrdered(r, t, pri)
<1>1. /\ r \in Seq(Thread) /\ Len(r) \in Nat
      /\ \A i \in 1 .. Len(r) : r[i] \in Thread
      /\ \A u \in Thread : pri[u] \in Int
  BY LenProperties DEF AnyThread, Priority
<1>2. PICK k \in 1 .. Len(r) + 1 :
        /\ q \in Seq(Thread) /\ Len(q) = Len(r) + 1
        /\ \A j \in 1 .. Len(r) + 1 : q[j] = IF j < k THEN r[j] ELSE IF j = k THEN t ELSE r[j - 1]
        /\ \A j \in 1 .. Len(r) : j < k => pri[r[j]] >= pri[t]
        /\ k <= Len(r) => pri[t] > pri[r[k]]
  BY InsertOrderedIs
<1> HIDE DEF q
<1>3. SortedBy(q, pri)
  <2> SUFFICES ASSUME NEW i \in 1 .. Len(q), NEW j \in 1 .. Len(q), i < j
               PROVE  pri[q[i]] >= pri[q[j]]
    BY DEF SortedBy
  <2>1. \A m, n \in 1 .. Len(r) : m <= n => pri[r[m]] >= pri[r[n]]
    BY <1>1 DEF SortedBy
  <2>2. CASE j <= k
    <3>1. i \in 1 .. Len(r) /\ i < k /\ q[i] = r[i]
      BY <1>1, <1>2, <2>2
    <3>2. CASE j = k
      BY <1>1, <1>2, <3>1, <3>2
    <3>3. CASE j < k
      <4>1. j \in 1 .. Len(r) /\ q[j] = r[j] /\ i <= j
        BY <1>1, <1>2, <3>3
      <4> QED
        BY <2>1, <3>1, <4>1
    <3> QED
      BY <1>1, <1>2, <2>2, <3>2, <3>3
  <2>3. CASE i < k /\ k < j
    <3>1. i \in 1 .. Len(r) /\ j - 1 \in 1 .. Len(r) /\ i <= j - 1
          /\ q[i] = r[i] /\ q[j] = r[j - 1]
      BY <1>1, <1>2, <2>3
    <3> QED
      BY <2>1, <3>1
  <2>4. CASE i = k
    <3>1. k \in 1 .. Len(r) /\ j - 1 \in 1 .. Len(r) /\ k <= j - 1
          /\ q[i] = t /\ q[j] = r[j - 1]
      BY <1>1, <1>2, <2>4
    <3>2. pri[t] > pri[r[k]] /\ pri[r[k]] >= pri[r[j - 1]]
      BY <1>1, <1>2, <2>1, <3>1
    <3> QED
      BY <1>1, <3>1, <3>2
  <2>5. CASE k < i
    <3>1. i - 1 \in 1 .. Len(r) /\ j - 1 \in 1 .. Len(r) /\ i - 1 <= j - 1
          /\ q[i] = r[i - 1] /\ q[j] = r[j - 1]
      BY <1>1, <1>2, <2>5
    <3> QED
      BY <2>1, <3>1
  <2> QED
    BY <1>1, <1>2, <2>2, <2>3, <2>4, <2>5
<1> QED
  BY <1>3 DEF q

LEMMA QueueOfSched == SchedOK => QueueOf(ready_list, status)
BY DEF SchedOK, ThreadsTypeOK, ReadyListExact, QueueOf, AnyThread

-----------------------------------------------------------------------------
(* The operations keep the ready list exact, whatever the priorities.      *)

(* schedule, called with an exact queue and nobody running.                *)
LEMMA ScheduleExact ==
  ASSUME NEW r, NEW stat, QueueOf(r, stat), NoneRunning(stat),
         ThreadsTypeOK, ThreadsAssumption, Schedule(r, stat), UNCHANGED priority,
         panicked' \in BOOLEAN
  PROVE  /\ SchedOK'
         /\ \A t \in Thread : \/ KeepsClass(stat[t], status'[t])
                              \/ t = current /\ stat[t] = "DYING" /\ status'[t] = "FREE"
<1> DEFINE next == next_thread_to_run(r)
<1>0. /\ r \in Seq(Thread) /\ Len(r) \in Nat
      /\ \A i \in 1 .. Len(r) : r[i] \in Thread
      /\ Idle \notin Thread
  BY LenProperties DEF QueueOf, ThreadsAssumption
<1>1. /\ next \in AnyThread /\ current' = next
      /\ next # Idle => r # <<>> /\ Len(r) > 0 /\ next = r[1]
      /\ next = Idle => r = <<>>
  BY <1>0, LenProperties, EmptySeq DEF Schedule, next_thread_to_run, AnyThread
<1>2. /\ status' \in [AnyThread -> Status] /\ thread_ticks' = 0
      /\ status'[next] = "RUNNING"
      /\ \A t \in AnyThread : t # next =>
           \/ status'[t] = stat[t]
           \/ t = current /\ stat[t] = "DYING" /\ status'[t] = "FREE"
  BY <1>1 DEF Schedule, thread_schedule_tail, QueueOf, Status
<1>3. /\ ready_list' \in Seq(Thread) /\ Len(ready_list') \in Nat
      /\ r = <<>> => ready_list' = <<>> /\ Len(ready_list') = 0
      /\ r # <<>> => /\ Len(ready_list') = Len(r) - 1
                     /\ \A i \in 1 .. Len(ready_list') : ready_list'[i] = r[i + 1]
  BY <1>0, LenProperties, EmptySeq, HeadTailProperties DEF Schedule
<1> HIDE DEF next
<1>4. \A i \in 1 .. Len(ready_list') :
        i + 1 \in 1 .. Len(r) /\ ready_list'[i] = r[i + 1] /\ r[i + 1] # next
        /\ r # <<>> /\ Len(r) > 0
  BY <1>0, <1>1, <1>3 DEF QueueOf
<1>5. ThreadsTypeOK'
  BY <1>1, <1>2, <1>3 DEF ThreadsTypeOK, AnyThread, ThreadsAssumption
<1>6. ReadyListExact'
  <2>1. ASSUME NEW i \in 1 .. Len(ready_list') PROVE status'[ready_list'[i]] = "READY"
    BY <1>0, <1>2, <1>4 DEF QueueOf, AnyThread
  <2>2. ASSUME NEW i \in 1 .. Len(ready_list'), NEW j \in 1 .. Len(ready_list'),
               ready_list'[i] = ready_list'[j]
        PROVE  i = j
    <3>1. i + 1 = j + 1
      BY <1>4, <2>2 DEF QueueOf
    <3> QED
      BY <3>1, <1>3
  <2>3. ASSUME NEW t \in Thread, status'[t] = "READY"
        PROVE  \E i \in 1 .. Len(ready_list') : ready_list'[i] = t
    <3>1. t # next /\ stat[t] = "READY"
      BY <1>2, <2>3 DEF AnyThread
    <3>2. PICK i \in 1 .. Len(r) : r[i] = t
      BY <3>1 DEF QueueOf
    <3>3. r # <<>> /\ next = r[1]
      BY <1>0, <1>1, <3>2, EmptySeq
    <3>4. i # 1
      BY <3>1, <3>2, <3>3
    <3>5. i - 1 \in 1 .. Len(ready_list') /\ (i - 1) + 1 = i
      BY <1>0, <1>3, <3>3, <3>4
    <3> QED
      BY <1>4, <3>2, <3>5
  <2>4. ASSUME NEW t \in Thread \cup {Idle} PROVE status'[t] = "RUNNING" <=> t = current'
    BY <1>1, <1>2 DEF NoneRunning, AnyThread
  <2> QED
    BY <2>1, <2>2, <2>3, <2>4 DEF ReadyListExact
<1>7. ASSUME NEW t \in Thread
      PROVE  \/ KeepsClass(stat[t], status'[t])
             \/ t = current /\ stat[t] = "DYING" /\ status'[t] = "FREE"
  <2>1. CASE t # next
    BY <1>2, <2>1 DEF KeepsClass, AnyThread
  <2>2. CASE t = next
    <3>1. 1 \in 1 .. Len(r) /\ t = r[1]
      BY <1>0, <1>1, <2>2
    <3>2. stat[t] = "READY"
      BY <3>1 DEF QueueOf
    <3> QED
      BY <1>2, <2>2, <3>2 DEF KeepsClass, Live
  <2> QED
    BY <2>1, <2>2
<1> QED
  BY <1>5, <1>6, <1>7 DEF SchedOK

(* What thread_yield hands to schedule.                                    *)
LEMMA YieldQueue ==
  ASSUME NEW r, NEW stat, QueueOf(r, stat),
         \A t \in AnyThread : stat[t] = "RUNNING" <=> t = current,
         ThreadsTypeOK, ThreadsAssumption
  PROVE  LET st == [stat EXCEPT ![current] = "READY"]
             q == IF current = Idle THEN r ELSE InsertOrdered(r, current, priority)
         IN  /\ NoneRunning(st) /\ QueueOf(q, st)
             /\ \A t \in AnyThread : t # current => st[t] = stat[t]
             /\ st[current] = "READY" /\ stat[current] = "RUNNING"
<1> DEFINE st == [stat EXCEPT ![current] = "READY"]
           q == IF current = Idle THEN r ELSE InsertOrdered(r, current, priority)
<1>1. /\ current \in AnyThread /\ stat[current] = "RUNNING"
      /\ stat \in [AnyThread -> Status] /\ priority \in [AnyThread -> Priority]
      /\ Idle \notin Thread
  BY DEF ThreadsTypeOK, AnyThread, QueueOf, ThreadsAssumption
<1>2. NoneRunning(st)
  BY <1>1 DEF NoneRunning
<1>3. QueueOf(q, st)
  <2>1. CASE current = Idle
    <3>1. st \in [AnyThread -> Status] /\ \A t \in Thread : st[t] = stat[t]
      BY <1>1, <2>1 DEF AnyThread, Status
    <3>2. \A i \in 1 .. Len(r) : r[i] \in Thread
      BY LenProperties DEF QueueOf
    <3> QED
      BY <2>1, <3>1, <3>2 DEF QueueOf
  <2>2. CASE current # Idle
    <3>1. current \in Thread /\ stat[current] # "READY"
      BY <1>1, <2>2 DEF AnyThread
    <3> QED
      BY <1>1, <2>2, <3>1, InsertKeepsQueue
  <2> QED
    BY <2>1, <2>2
<1>4. /\ \A t \in AnyThread : t # current => st[t] = stat[t]
      /\ st[current] = "READY"
  BY <1>1
<1> HIDE DEF st, q
<1>5. /\ NoneRunning(st) /\ QueueOf(q, st)
      /\ \A t \in AnyThread : t # current => st[t] = stat[t]
      /\ st[current] = "READY" /\ stat[current] = "RUNNING"
  BY <1>1, <1>2, <1>3, <1>4
<1> QED
  BY <1>5 DEF st, q

(* thread_yield puts the current thread back in its place first.           *)
LEMMA YieldExact ==
  ASSUME NEW r, NEW stat, QueueOf(r, stat),
         \A t \in AnyThread : stat[t] = "RUNNING" <=> t = current,
         ThreadsTypeOK, ThreadsAssumption, thread_yield(r, stat, priority), UNCHANGED priority,
         panicked' \in BOOLEAN
  PROVE  SchedOK' /\ \A t \in Thread : KeepsClass(stat[t], status'[t])
<1> DEFINE st == [stat EXCEPT ![current] = "READY"]
           q == IF current = Idle THEN r ELSE InsertOrdered(r, current, priority)
<1>1. /\ NoneRunning(st) /\ QueueOf(q, st)
      /\ \A t \in AnyThread : t # current => st[t] = stat[t]
      /\ st[current] = "READY" /\ stat[current] = "RUNNING"
  BY YieldQueue
<1>2. Schedule(q, st)
  BY DEF thread_yield
<1> HIDE DEF st, q
<1>3. /\ SchedOK'
      /\ \A t \in Thread : \/ KeepsClass(st[t], status'[t])
                           \/ t = current /\ st[t] = "DYING" /\ status'[t] = "FREE"
  BY <1>1, <1>2, ScheduleExact
<1> QED
  BY <1>1, <1>3 DEF KeepsClass, Live, AnyThread

(* What a thread that blocks or exits hands to schedule.                   *)
LEMMA LeaveQueue ==
  ASSUME SchedOK, ThreadsAssumption, NEW st \in {"BLOCKED", "DYING"}
  PROVE  LET stat == [status EXCEPT ![current] = st]
         IN  /\ NoneRunning(stat) /\ QueueOf(ready_list, stat)
             /\ stat[current] = st /\ \A t \in AnyThread : t # current => stat[t] = status[t]
<1> DEFINE stat == [status EXCEPT ![current] = st]
<1>1. /\ current \in AnyThread /\ status[current] = "RUNNING"
      /\ status \in [AnyThread -> Status]
      /\ stat \in [AnyThread -> Status] /\ stat[current] = st
      /\ \A t \in AnyThread : t # current => stat[t] = status[t]
  BY DEF SchedOK, ThreadsTypeOK, ReadyListExact, AnyThread, Status
<1> HIDE DEF stat
<1>2. NoneRunning(stat)
  BY <1>1 DEF NoneRunning, SchedOK, ReadyListExact, AnyThread
<1>3. \A i \in 1 .. Len(ready_list) : ready_list[i] \in Thread /\ ready_list[i] # current
  BY <1>1, LenProperties DEF SchedOK, ThreadsTypeOK, ReadyListExact
<1>4. QueueOf(ready_list, stat)
  BY <1>1, <1>3 DEF QueueOf, SchedOK, ThreadsTypeOK, ReadyListExact, AnyThread
<1>5. /\ NoneRunning(stat) /\ QueueOf(ready_list, stat)
      /\ stat[current] = st /\ \A t \in AnyThread : t # current => stat[t] = status[t]
  BY <1>1, <1>2, <1>4
<1> QED
  BY <1>5 DEF stat

(* thread_block and thread_exit: the current thread stops running and is   *)
(* not put on the ready list.                                              *)
LEMMA LeaveExact ==
  ASSUME SchedOK, ThreadsAssumption, NEW st \in {"BLOCKED", "DYING"},
         Schedule(ready_list, [status EXCEPT ![current] = st]),
         UNCHANGED <<priority, panicked>>
  PROVE  /\ SchedOK'
         /\ \A t \in Thread : t # current => KeepsClass(status[t], status'[t])
         /\ current \in Thread => \/ status'[current] = st
                                  \/ st = "DYING" /\ status'[current] = "FREE"
<1> DEFINE stat == [status EXCEPT ![current] = st]
<1>1. /\ NoneRunning(stat) /\ QueueOf(ready_list, stat)
      /\ stat[current] = st /\ \A t \in AnyThread : t # current => stat[t] = status[t]
  BY LeaveQueue
<1>2. ThreadsTypeOK /\ panicked' \in BOOLEAN
  BY DEF SchedOK, ThreadsTypeOK
<1>3. Schedule(ready_list, stat)
  OBVIOUS
<1> HIDE DEF stat
<1>4. /\ SchedOK'
      /\ \A t \in Thread : \/ KeepsClass(stat[t], status'[t])
                           \/ t = current /\ stat[t] = "DYING" /\ status'[t] = "FREE"
  BY <1>1, <1>2, <1>3, ScheduleExact
<1> QED
  BY <1>1, <1>4 DEF KeepsClass, Live, AnyThread

(* What thread_unblock makes of the ready list and the statuses.           *)
LEMMA UnblockQueue ==
  ASSUME SchedOK, NEW t \in Thread, status[t] = "BLOCKED"
  PROVE  LET r == InsertOrdered(ready_list, t, priority)
             stat == [status EXCEPT ![t] = "READY"]
         IN  /\ QueueOf(r, stat)
             /\ \A i \in 1 .. Len(r) : r[i] = t \/ \E j \in 1 .. Len(ready_list) : r[i] = ready_list[j]
             /\ \A u \in AnyThread : stat[u] = "RUNNING" <=> u = current
             /\ stat[t] = "READY" /\ \A u \in AnyThread : u # t => stat[u] = status[u]
<1> DEFINE r == InsertOrdered(ready_list, t, priority)
           stat == [status EXCEPT ![t] = "READY"]
<1>1. QueueOf(ready_list, status) /\ status[t] # "READY" /\ priority \in [AnyThread -> Priority]
  BY QueueOfSched DEF SchedOK, ThreadsTypeOK, AnyThread
<1>2. /\ QueueOf(r, stat)
      /\ \A i \in 1 .. Len(r) : r[i] = t \/ \E j \in 1 .. Len(ready_list) : r[i] = ready_list[j]
  <2> DEFINE rl == ready_list
             st == status
             pri == priority
  <2> HIDE DEF rl, st, pri
  <2>1. QueueOf(rl, st) /\ st[t] # "READY" /\ pri \in [AnyThread -> Priority]
    BY <1>1 DEF rl, st, pri
  <2>2. /\ QueueOf(InsertOrdered(rl, t, pri), [st EXCEPT ![t] = "READY"])
        /\ \A i \in 1 .. Len(InsertOrdered(rl, t, pri)) :
             \/ InsertOrdered(rl, t, pri)[i] = t
             \/ \E j \in 1 .. Len(rl) : InsertOrdered(rl, t, pri)[i] = rl[j]
    BY <2>1, InsertKeepsQueue
  <2> QED
    BY <2>2 DEF rl, st, pri
<1>3. \A u \in AnyThread : stat[u] = "RUNNING" <=> u = current
  BY DEF SchedOK, ThreadsTypeOK, ReadyListExact, AnyThread
<1>4. stat[t] = "READY" /\ \A u \in AnyThread : u # t => stat[u] = status[u]
  BY DEF SchedOK, ThreadsTypeOK, AnyThread
<1> HIDE DEF r, stat
<1>5. /\ QueueOf(r, stat)
      /\ \A i \in 1 .. Len(r) : r[i] = t \/ \E j \in 1 .. Len(ready_list) : r[i] = ready_list[j]
      /\ \A u \in AnyThread : stat[u] = "RUNNING" <=> u = current
      /\ stat[t] = "READY" /\ \A u \in AnyThread : u # t => stat[u] = status[u]
  BY <1>2, <1>3, <1>4
<1> QED
  BY <1>5 DEF r, stat

(* thread_unblock, which yields when the woken thread is the better one.   *)
LEMMA UnblockExact ==
  ASSUME SchedOK, ThreadsAssumption, NEW t \in Thread, status[t] = "BLOCKED",
         thread_unblock(t), UNCHANGED <<priority, panicked>>
  PROVE  /\ SchedOK' /\ Live(status'[t])
         /\ \A u \in Thread : u # t => KeepsClass(status[u], status'[u])
<1> DEFINE r == InsertOrdered(ready_list, t, priority)
           stat == [status EXCEPT ![t] = "READY"]
<1>1. /\ QueueOf(r, stat)
      /\ \A u \in AnyThread : stat[u] = "RUNNING" <=> u = current
      /\ stat[t] = "READY" /\ \A u \in AnyThread : u # t => stat[u] = status[u]
  BY UnblockQueue
<1>2. ThreadsTypeOK /\ panicked' \in BOOLEAN
  BY DEF SchedOK, ThreadsTypeOK
<1>3. CASE Outranks(t)
  <2>1. thread_yield(r, stat, priority)
    BY <1>3 DEF thread_unblock
  <2> HIDE DEF r, stat
  <2>2. SchedOK' /\ \A u \in Thread : KeepsClass(stat[u], status'[u])
    BY <1>1, <1>2, <2>1, YieldExact
  <2> QED
    BY <1>1, <2>2 DEF KeepsClass, Live, AnyThread
<1>4. CASE ~Outranks(t)
  <2>1. ready_list' = r /\ status' = stat /\ UNCHANGED <<current, thread_ticks>>
    BY <1>4 DEF thread_unblock
  <2> HIDE DEF r, stat
  <2>2. ThreadsTypeOK'
    <3>1. r \in Seq(Thread) /\ stat \in [Thread \cup {Idle} -> Status]
      BY <1>1 DEF QueueOf, AnyThread
    <3> QED
      BY <1>2, <2>1, <3>1 DEF ThreadsTypeOK
  <2>3. ReadyListExact'
    BY <1>1, <2>1 DEF ReadyListExact, QueueOf, AnyThread
  <2> QED
    BY <1>1, <2>1, <2>2, <2>3 DEF SchedOK, KeepsClass, Live, AnyThread
<1> QED
  BY <1>3, <1>4

(* thread_unblock in an interrupt handler only queues the thread.          *)
LEMMA InterruptUnblockExact ==
  ASSUME SchedOK, NEW t \in Thread, status[t] = "BLOCKED",
         thread_unblock_in_interrupt(t), UNCHANGED priority
  PROVE  /\ SchedOK' /\ Live(status'[t])
         /\ \A u \in Thread : u # t => KeepsClass(status[u], status'[u])
<1> DEFINE r == InsertOrdered(ready_list, t, priority)
           stat == [status EXCEPT ![t] = "READY"]
<1>1. /\ QueueOf(r, stat)
      /\ \A u \in AnyThread : stat[u] = "RUNNING" <=> u = current
      /\ stat[t] = "READY" /\ \A u \in AnyThread : u # t => stat[u] = status[u]
  BY UnblockQueue
<1>2. /\ ready_list' = r /\ status' = stat /\ panicked' = Outranks(t)
      /\ UNCHANGED <<current, thread_ticks>>
  BY DEF thread_unblock_in_interrupt
<1>3. panicked' \in BOOLEAN
  BY <1>2 DEF Outranks
<1> HIDE DEF r, stat
<1>4. ThreadsTypeOK'
  BY <1>1, <1>2, <1>3 DEF SchedOK, ThreadsTypeOK, QueueOf, AnyThread
<1>5. ReadyListExact'
  BY <1>1, <1>2 DEF ReadyListExact, QueueOf, AnyThread
<1> QED
  BY <1>1, <1>2, <1>4, <1>5 DEF SchedOK, KeepsClass, Live, AnyThread

(* The timer's interrupt, which may take the processor away.               *)
LEMMA TickExact ==
  ASSUME SchedOK, ThreadsAssumption, thread_tick, UNCHANGED <<priority, panicked>>
  PROVE  SchedOK' /\ \A t \in Thread : KeepsClass(status[t], status'[t])
<1>1. CASE thread_ticks + 1 >= TimeSlice
  <2>1. \A t \in AnyThread : status[t] = "RUNNING" <=> t = current
    BY DEF SchedOK, ReadyListExact, AnyThread
  <2>2. ThreadsTypeOK /\ panicked' \in BOOLEAN /\ thread_yield(ready_list, status, priority)
    BY <1>1 DEF SchedOK, ThreadsTypeOK, thread_tick
  <2> QED
    BY <2>1, <2>2, QueueOfSched, YieldExact
<1>2. CASE ~(thread_ticks + 1 >= TimeSlice)
  BY <1>2 DEF thread_tick, SchedOK, ThreadsTypeOK, ReadyListExact, KeepsClass
<1> QED
  BY <1>1, <1>2

-----------------------------------------------------------------------------
(* The invariant: what each part says of the queue needs the others, since *)
(* list_insert_ordered sorts only a sorted list and schedule takes the     *)
(* front of the list for the best.                                         *)
IInv == ThreadsTypeOK /\ ReadyListExact /\ ReadyListSorted /\ HighestPriorityRuns

LEMMA QueueOfInv == IInv => SchedOK /\ QueueOf(ready_list, status) /\ SortedBy(ready_list, priority)
BY QueueOfSched DEF IInv, SchedOK, ReadyListSorted, SortedBy

(* schedule, called with an exact and sorted queue and nobody running,     *)
(* leaves the processor to a thread no ready one outranks.                 *)
LEMMA ScheduleInv ==
  ASSUME NEW r, NEW stat, QueueOf(r, stat), SortedBy(r, priority), NoneRunning(stat),
         ThreadsTypeOK, ThreadsAssumption, Schedule(r, stat), UNCHANGED priority,
         panicked' \in BOOLEAN
  PROVE  IInv'
<1> DEFINE next == next_thread_to_run(r)
<1>0. /\ r \in Seq(Thread) /\ Len(r) \in Nat
      /\ \A i \in 1 .. Len(r) : r[i] \in Thread
      /\ \A t \in AnyThread : priority[t] \in Int
      /\ Idle \notin Thread
  BY LenProperties DEF QueueOf, ThreadsTypeOK, AnyThread, Priority, ThreadsAssumption
<1>1. /\ current' = next
      /\ next # Idle => r # <<>> /\ Len(r) > 0 /\ next = r[1]
  BY <1>0, LenProperties, EmptySeq DEF Schedule, next_thread_to_run
<1>2. \A i \in 1 .. Len(ready_list') :
        i + 1 \in 1 .. Len(r) /\ ready_list'[i] = r[i + 1] /\ Len(r) > 0 /\ i \in Nat
  BY <1>0, LenProperties, EmptySeq, HeadTailProperties DEF Schedule
<1> HIDE DEF next
<1>3. SchedOK'
  BY ScheduleExact
<1>4. Len(ready_list') \in Nat
  BY <1>3, LenProperties DEF SchedOK, ThreadsTypeOK
<1>5. ReadyListSorted'
  BY <1>2, <1>4 DEF ReadyListSorted, SortedBy
<1>6. HighestPriorityRuns'
  <2> SUFFICES ASSUME NEW i \in 1 .. Len(ready_list'), next # Idle
               PROVE  priority[ready_list'[i]] <= priority[next]
    BY <1>1 DEF HighestPriorityRuns
  <2>1. next = r[1] /\ 1 \in 1 .. Len(r) /\ i + 1 \in 1 .. Len(r) /\ 1 < i + 1
    BY <1>0, <1>1, <1>2, <1>4
  <2>2. priority[r[1]] >= priority[r[i + 1]]
    BY <2>1 DEF SortedBy
  <2> QED
    BY <1>0, <1>2, <2>1, <2>2 DEF AnyThread
<1> QED
  BY <1>3, <1>5, <1>6 DEF IInv, SchedOK

LEMMA YieldInv ==
  ASSUME NEW r, NEW stat, QueueOf(r, stat), SortedBy(r, priority),
         \A t \in AnyThread : stat[t] = "RUNNING" <=> t = current,
         ThreadsTypeOK, ThreadsAssumption, thread_yield(r, stat, priority), UNCHANGED priority,
         panicked' \in BOOLEAN
  PROVE  IInv'
<1> DEFINE st == [stat EXCEPT ![current] = "READY"]
           q == IF current = Idle THEN r ELSE InsertOrdered(r, current, priority)
<1>1. NoneRunning(st) /\ QueueOf(q, st)
  BY YieldQueue
<1>2. SortedBy(q, priority)
  <2>1. r \in Seq(Thread) /\ priority \in [AnyThread -> Priority] /\ current \in AnyThread
    BY DEF QueueOf, ThreadsTypeOK, AnyThread
  <2>2. CASE current = Idle
    BY <2>2
  <2>3. CASE current # Idle
    <3>1. current \in Thread
      BY <2>1, <2>3 DEF AnyThread
    <3> QED
      BY <2>1, <2>3, <3>1, InsertKeepsSorted
  <2> QED
    BY <2>2, <2>3
<1>3. Schedule(q, st)
  BY DEF thread_yield
<1> HIDE DEF st, q
<1> QED
  BY <1>1, <1>2, <1>3, ScheduleInv

LEMMA LeaveInv ==
  ASSUME IInv, ThreadsAssumption, NEW st \in {"BLOCKED", "DYING"},
         Schedule(ready_list, [status EXCEPT ![current] = st]),
         UNCHANGED <<priority, panicked>>
  PROVE  IInv'
<1> DEFINE stat == [status EXCEPT ![current] = st]
<1>1. SchedOK /\ SortedBy(ready_list, priority)
  BY QueueOfInv
<1>2. NoneRunning(stat) /\ QueueOf(ready_list, stat)
  BY <1>1, LeaveQueue
<1>3. ThreadsTypeOK /\ panicked' \in BOOLEAN
  BY DEF IInv, ThreadsTypeOK
<1>4. Schedule(ready_list, stat)
  OBVIOUS
<1> HIDE DEF stat
<1> QED
  BY <1>1, <1>2, <1>3, <1>4, ScheduleInv

LEMMA UnblockInv ==
  ASSUME IInv, ThreadsAssumption, NEW t \in Thread, status[t] = "BLOCKED",
         thread_unblock(t), UNCHANGED <<priority, panicked>>
  PROVE  IInv'
<1> DEFINE r == InsertOrdered(ready_list, t, priority)
           stat == [status EXCEPT ![t] = "READY"]
<1>1. SchedOK /\ QueueOf(ready_list, status) /\ SortedBy(ready_list, priority)
  BY QueueOfInv
<1>2. /\ QueueOf(r, stat)
      /\ \A i \in 1 .. Len(r) : r[i] = t \/ \E j \in 1 .. Len(ready_list) : r[i] = ready_list[j]
      /\ \A u \in AnyThread : stat[u] = "RUNNING" <=> u = current
  BY <1>1, UnblockQueue
<1>3. SortedBy(r, priority)
  <2>1. ready_list \in Seq(Thread) /\ priority \in [AnyThread -> Priority]
    BY DEF IInv, ThreadsTypeOK, AnyThread
  <2> QED
    BY <1>1, <2>1, InsertKeepsSorted
<1>4. ThreadsTypeOK /\ panicked' \in BOOLEAN
  BY DEF IInv, ThreadsTypeOK
<1>5. CASE Outranks(t)
  <2>1. thread_yield(r, stat, priority)
    BY <1>5 DEF thread_unblock
  <2> HIDE DEF r, stat
  <2> QED
    BY <1>2, <1>3, <1>4, <2>1, YieldInv
<1>6. CASE ~Outranks(t)
  <2>1. ready_list' = r /\ UNCHANGED current
    BY <1>6 DEF thread_unblock
  <2>2. current # Idle => priority[t] <= priority[current]
    BY <1>6 DEF Outranks, IInv, ThreadsTypeOK, AnyThread, Priority
  <2> HIDE DEF r, stat
  <2>3. SchedOK'
    BY <1>1, UnblockExact
  <2>4. ReadyListSorted'
    BY <1>3, <2>1 DEF ReadyListSorted, SortedBy
  <2>5. HighestPriorityRuns'
    BY <1>2, <2>1, <2>2 DEF HighestPriorityRuns, IInv
  <2> QED
    BY <2>3, <2>4, <2>5 DEF IInv, SchedOK
<1> QED
  BY <1>5, <1>6

(* In an interrupt handler the kernel panics if the thread woken should    *)
(* have run at once.                                                       *)
LEMMA InterruptUnblockInv ==
  ASSUME IInv, NEW t \in Thread, status[t] = "BLOCKED", ~panicked,
         thread_unblock_in_interrupt(t), UNCHANGED priority
  PROVE  IInv'
<1> DEFINE r == InsertOrdered(ready_list, t, priority)
<1>1. SchedOK /\ QueueOf(ready_list, status) /\ SortedBy(ready_list, priority)
  BY QueueOfInv
<1>2. \A i \in 1 .. Len(r) : r[i] = t \/ \E j \in 1 .. Len(ready_list) : r[i] = ready_list[j]
  BY <1>1, UnblockQueue
<1>3. SortedBy(r, priority)
  <2>1. ready_list \in Seq(Thread) /\ priority \in [AnyThread -> Priority]
    BY DEF IInv, ThreadsTypeOK, AnyThread
  <2> QED
    BY <1>1, <2>1, InsertKeepsSorted
<1>4. ready_list' = r /\ panicked' = Outranks(t) /\ UNCHANGED current
  BY DEF thread_unblock_in_interrupt
<1>5. ~panicked' => ~Outranks(t)
  BY <1>4
<1>6. current # Idle /\ ~panicked' => priority[t] <= priority[current]
  BY <1>5 DEF Outranks, IInv, ThreadsTypeOK, AnyThread, Priority
<1> HIDE DEF r
<1>7. SchedOK'
  BY <1>1, InterruptUnblockExact
<1>8. ReadyListSorted'
  BY <1>3, <1>4 DEF ReadyListSorted, SortedBy
<1>9. HighestPriorityRuns'
  <2> SUFFICES ASSUME current # Idle, ~panicked', NEW i \in 1 .. Len(r)
               PROVE  priority[r[i]] <= priority[current]
    BY <1>4 DEF HighestPriorityRuns
  <2> QED
    BY <1>2, <1>6 DEF HighestPriorityRuns, IInv
<1> QED
  BY <1>7, <1>8, <1>9 DEF IInv, SchedOK

-----------------------------------------------------------------------------
(* The invariant holds in every state: one step for each operation of      *)
(* thread.c.                                                               *)
LEMMA Invariance == ThreadsSpec => []IInv
<1> USE ThreadsAssumption
<1>1. ThreadsInit => IInv
  <2> SUFFICES ASSUME ThreadsInit PROVE IInv
    OBVIOUS
  <2>1. ThreadsTypeOK
    <3>1. current \in Thread \cup {Idle} /\ status \in [Thread \cup {Idle} -> Status]
      BY DEF ThreadsInit, Status, ThreadsAssumption
    <3>2. 0 \in Priority /\ priority \in [Thread \cup {Idle} -> Priority]
      BY DEF ThreadsInit, Priority, ThreadsAssumption
    <3>3. ready_list \in Seq(Thread)
      BY EmptySeq DEF ThreadsInit
    <3>4. thread_ticks \in 0 .. TimeSlice - 1
      BY DEF ThreadsInit, ThreadsAssumption
    <3>5. panicked \in BOOLEAN
      BY DEF ThreadsInit
    <3> QED
      BY <3>1, <3>2, <3>3, <3>4, <3>5 DEF ThreadsTypeOK
  <2>2. ReadyListExact /\ ReadyListSorted /\ HighestPriorityRuns
    BY EmptySeq DEF ThreadsInit, ReadyListExact, ReadyListSorted, HighestPriorityRuns,
                    ThreadsAssumption
  <2> QED
    BY <2>1, <2>2 DEF IInv
<1>2. IInv /\ [ThreadsNext]_threadVars => IInv'
  <2> SUFFICES ASSUME IInv, [ThreadsNext]_threadVars PROVE IInv'
    OBVIOUS
  <2>1. CASE CreateThread
    <3>1. PICK t \in Thread, p \in Priority : init_thread(t, p)
      BY <2>1 DEF CreateThread
    <3>2. \A i \in 1 .. Len(ready_list) : ready_list[i] \in Thread /\ ready_list[i] # t
      BY <3>1, LenProperties DEF init_thread, IInv, ThreadsTypeOK, ReadyListExact
    <3>3. t # current
      BY <3>1 DEF init_thread, IInv, ReadyListExact
    <3>4. UNCHANGED <<current, ready_list, thread_ticks, panicked>>
      BY <2>1 DEF CreateThread
    <3>5. ThreadsTypeOK'
      BY <3>1, <3>4 DEF init_thread, IInv, ThreadsTypeOK, Status
    <3>6. ReadyListExact' /\ ReadyListSorted' /\ HighestPriorityRuns'
      BY <3>1, <3>2, <3>3, <3>4
         DEF init_thread, IInv, ThreadsTypeOK, ReadyListExact, ReadyListSorted, HighestPriorityRuns
    <3> QED
      BY <3>5, <3>6 DEF IInv
  <2>2. CASE UnblockOther
    BY <2>2, UnblockInv DEF UnblockOther
  <2>3. CASE Block
    BY <2>3, LeaveInv DEF Block, thread_block
  <2>4. CASE Yield
    <3>1. \A t \in AnyThread : status[t] = "RUNNING" <=> t = current
      BY DEF IInv, ReadyListExact, AnyThread
    <3> QED
      BY <2>4, <3>1, QueueOfInv, YieldInv DEF Yield, IInv, ThreadsTypeOK
  <2>5. CASE Exit
    BY <2>5, LeaveInv DEF Exit, thread_exit
  <2>6. CASE IdleLoop
    BY <2>6, LeaveInv DEF IdleLoop, thread_block
  <2>7. CASE TimerTick
    <3>1. CASE thread_ticks + 1 >= TimeSlice
      <4>1. \A t \in AnyThread : status[t] = "RUNNING" <=> t = current
        BY DEF IInv, ReadyListExact, AnyThread
      <4> QED
        BY <2>7, <3>1, <4>1, QueueOfInv, YieldInv DEF TimerTick, thread_tick, IInv, ThreadsTypeOK
    <3>2. CASE ~(thread_ticks + 1 >= TimeSlice)
      BY <2>7, <3>2 DEF TimerTick, thread_tick, IInv, ThreadsTypeOK, ReadyListExact, ReadyListSorted,
                        HighestPriorityRuns
    <3> QED
      BY <3>1, <3>2
  <2>8. CASE DeviceInterrupt
    <3>1. PICK t \in Thread : status[t] = "BLOCKED" /\ thread_unblock_in_interrupt(t)
      BY <2>8 DEF DeviceInterrupt
    <3>2. UNCHANGED priority
      BY <2>8 DEF DeviceInterrupt
    <3>3. ~panicked
      BY <2>8 DEF DeviceInterrupt
    <3> QED
      BY <3>1, <3>2, <3>3, InterruptUnblockInv
  <2>9. CASE UNCHANGED threadVars
    BY <2>9 DEF threadVars, schedVars, IInv, ThreadsTypeOK, ReadyListExact, ReadyListSorted,
                HighestPriorityRuns
  <2> QED
    BY <2>1, <2>2, <2>3, <2>4, <2>5, <2>6, <2>7, <2>8, <2>9 DEF ThreadsNext
<1> QED
  BY <1>1, <1>2, PTL DEF ThreadsSpec

(* thread.h's rule for the member elem (list_insert_ordered, list_pop_front*)
(* and the status changes around them): the ready list is exactly the      *)
(* ready threads, each once, and one thread runs.                          *)
THEOREM RunQueueIsReadyThreads == ThreadsSpec => []ReadyListExact
<1>1. IInv => ReadyListExact
  BY DEF IInv
<1> QED
  BY <1>1, Invariance, PTL

(* Strict priority scheduling (thread_unblock, thread_yield, schedule): no *)
(* ready thread ever outranks the running one.                             *)
THEOREM StrictPriority == ThreadsSpec => []HighestPriorityRuns
<1>1. IInv => HighestPriorityRuns
  BY DEF IInv
<1> QED
  BY <1>1, Invariance, PTL

(* FifoAmongEquals.  From one list to the next, nobody who is on both is   *)
(* overtaken by one that does not outrank him.                             *)
KeepsOrder(r, q) ==
  \A t, u \in Thread :
    /\ \E i \in 1 .. Len(r) : r[i] = t
    /\ priority[u] <= priority[t] /\ Precedes(q, u, t)
    => Precedes(r, u, t)

(* An insertion passes only threads of a lower priority, since the list is *)
(* sorted.                                                                 *)
LEMMA InsertKeepsOrder ==
  ASSUME NEW r \in Seq(Thread), NEW x \in Thread, priority \in [AnyThread -> Priority],
         SortedBy(r, priority), \A i \in 1 .. Len(r) : r[i] # x
  PROVE  KeepsOrder(r, InsertOrdered(r, x, priority))
<1> DEFINE q == InsertOrdered(r, x, priority)
<1>1. /\ Len(r) \in Nat /\ \A i \in 1 .. Len(r) : r[i] \in Thread
      /\ \A t \in Thread : priority[t] \in Int
  BY LenProperties DEF AnyThread, Priority
<1>2. PICK k \in 1 .. Len(r) + 1 :
        /\ q \in Seq(Thread) /\ Len(q) = Len(r) + 1
        /\ \A j \in 1 .. Len(r) + 1 : q[j] = IF j < k THEN r[j] ELSE IF j = k THEN x ELSE r[j - 1]
        /\ k <= Len(r) => priority[x] > priority[r[k]]
  BY InsertOrderedIs
<1> HIDE DEF q
<1> SUFFICES ASSUME NEW t \in Thread, NEW u \in Thread, NEW n \in 1 .. Len(r), r[n] = t,
                    priority[u] <= priority[t],
                    NEW i \in 1 .. Len(q), NEW j \in 1 .. Len(q), i < j, q[i] = u, q[j] = t
             PROVE  Precedes(r, u, t)
  <2>1. DOMAIN q = 1 .. Len(q)
    BY <1>2, LenProperties
  <2> QED
    BY <2>1 DEF KeepsOrder, Precedes, q
<1>3. DOMAIN r = 1 .. Len(r)
  BY LenProperties
<1>4. t # x /\ j # k
  BY <1>1, <1>2
<1>5. CASE i < k
  <2>1. i \in 1 .. Len(r) /\ r[i] = u
    BY <1>1, <1>2, <1>5
  <2>2. CASE j < k
    BY <1>1, <1>2, <1>3, <2>1, <2>2 DEF Precedes
  <2>3. CASE j > k
    <3>1. j - 1 \in 1 .. Len(r) /\ r[j - 1] = t /\ i < j - 1
      BY <1>1, <1>2, <1>5, <2>3
    <3> QED
      BY <1>3, <2>1, <3>1 DEF Precedes
  <2> QED
    BY <1>1, <1>2, <1>4, <2>2, <2>3
<1>6. CASE i = k
  <2>1. u = x /\ j - 1 \in 1 .. Len(r) /\ r[j - 1] = t /\ k <= j - 1 /\ k \in 1 .. Len(r)
    BY <1>1, <1>2, <1>6
  <2>2. priority[r[k]] >= priority[t]
    <3>1. CASE k = j - 1
      BY <1>1, <2>1, <3>1
    <3>2. CASE k < j - 1
      BY <1>1, <2>1, <3>2 DEF SortedBy
    <3> QED
      BY <1>1, <1>2, <2>1, <3>1, <3>2
  <2>3. priority[x] > priority[r[k]] /\ priority[r[k]] \in Int
    BY <1>1, <1>2, <2>1
  <2> QED
    BY <1>1, <2>1, <2>2, <2>3
<1>7. CASE i > k
  <2>1. /\ i - 1 \in 1 .. Len(r) /\ r[i - 1] = u /\ j - 1 \in 1 .. Len(r) /\ r[j - 1] = t
        /\ i - 1 < j - 1
    BY <1>1, <1>2, <1>7
  <2> QED
    BY <1>3, <2>1 DEF Precedes
<1> QED
  BY <1>1, <1>2, <1>5, <1>6, <1>7

(* schedule takes the front away.                                          *)
LEMMA ScheduleKeepsOrder ==
  ASSUME NEW r \in Seq(Thread), NEW stat, Schedule(r, stat)
  PROVE  /\ KeepsOrder(r, ready_list')
         /\ \A t \in Thread : (\E i \in 1 .. Len(ready_list') : ready_list'[i] = t)
              => \E i \in 1 .. Len(r) : r[i] = t
<1>1. Len(r) \in Nat /\ DOMAIN r = 1 .. Len(r)
  BY LenProperties
<1>2. CASE r = <<>>
  BY <1>2 DEF Schedule, KeepsOrder
<1>3. CASE r # <<>>
  <2> DEFINE q == Tail(r)
  <2>1. /\ q \in Seq(Thread) /\ Len(q) = Len(r) - 1 /\ Len(r) > 0
        /\ \A i \in 1 .. Len(r) - 1 : q[i] = r[i + 1]
    BY <1>1, <1>3, HeadTailProperties, EmptySeq
  <2>2. DOMAIN q = 1 .. Len(r) - 1
    BY <2>1, LenProperties
  <2>3. ready_list' = q
    BY <1>3 DEF Schedule
  <2> HIDE DEF q
  <2>4. ASSUME NEW t \in Thread, NEW u \in Thread, Precedes(q, u, t)
        PROVE  Precedes(r, u, t)
    <3>1. PICK i \in 1 .. Len(r) - 1, j \in 1 .. Len(r) - 1 : i < j /\ q[i] = u /\ q[j] = t
      BY <2>2, <2>4 DEF Precedes
    <3>2. /\ i + 1 \in 1 .. Len(r) /\ j + 1 \in 1 .. Len(r) /\ i + 1 < j + 1
          /\ r[i + 1] = u /\ r[j + 1] = t
      BY <1>1, <2>1, <3>1
    <3> QED
      BY <1>1, <3>2 DEF Precedes
  <2>5. ASSUME NEW t \in Thread, NEW i \in 1 .. Len(q), q[i] = t
        PROVE  \E j \in 1 .. Len(r) : r[j] = t
    BY <1>1, <2>1, <2>5, i + 1 \in 1 .. Len(r)
  <2> QED
    BY <2>3, <2>4, <2>5 DEF KeepsOrder
<1> QED
  BY <1>2, <1>3

(* A list that has all of another, in its order.                           *)
KeepsAll(r, q) ==
  /\ KeepsOrder(r, q)
  /\ \A t \in Thread : (\E i \in 1 .. Len(r) : r[i] = t) => \E i \in 1 .. Len(q) : q[i] = t

LEMMA KeepsAllTwice ==
  ASSUME NEW r, NEW q, NEW s, KeepsAll(r, q), KeepsAll(q, s)
  PROVE  KeepsAll(r, s)
BY DEF KeepsAll, KeepsOrder

LEMMA KeepsAllSame == ASSUME NEW r PROVE KeepsAll(r, r)
BY DEF KeepsAll, KeepsOrder

LEMMA InsertKeepsAll ==
  ASSUME NEW r, NEW stat, QueueOf(r, stat), NEW x \in Thread, stat[x] # "READY",
         priority \in [AnyThread -> Priority], SortedBy(r, priority)
  PROVE  KeepsAll(r, InsertOrdered(r, x, priority))
<1> DEFINE q == InsertOrdered(r, x, priority)
           st == [stat EXCEPT ![x] = "READY"]
<1>1. r \in Seq(Thread) /\ \A i \in 1 .. Len(r) : r[i] # x
  BY DEF QueueOf
<1>2. KeepsOrder(r, q)
  BY <1>1, InsertKeepsOrder
<1>3. QueueOf(q, st)
  BY InsertKeepsQueue
<1>4. \A t \in Thread : stat[t] = "READY" => st[t] = "READY"
  BY DEF QueueOf, AnyThread
<1> HIDE DEF q, st
<1>5. \A t \in Thread : st[t] = "READY" => \E i \in 1 .. Len(q) : q[i] = t
  BY <1>3 DEF QueueOf
<1>6. \A t \in Thread : (\E i \in 1 .. Len(r) : r[i] = t) => stat[t] = "READY"
  BY DEF QueueOf
<1>7. KeepsAll(r, q)
  BY <1>2, <1>4, <1>5, <1>6 DEF KeepsAll
<1> QED
  BY <1>7 DEF q

(* What a step makes of the list before it may take the front away.        *)
LEMMA OrderIsEnough ==
  ASSUME ReadyListExact, NEW r, KeepsAll(ready_list, r), KeepsOrder(r, ready_list')
  PROVE  NotOvertaken
<1> SUFFICES ASSUME NEW t \in Thread, NEW u \in Thread, status[t] = "READY",
                    priority[u] <= priority[t], Precedes(ready_list', u, t)
             PROVE  Precedes(ready_list, u, t)
  BY DEF NotOvertaken
<1>1. \E i \in 1 .. Len(ready_list) : ready_list[i] = t
  BY DEF ReadyListExact
<1>2. \E i \in 1 .. Len(r) : r[i] = t
  BY <1>1 DEF KeepsAll
<1>3. Precedes(r, u, t)
  BY <1>2 DEF KeepsOrder
<1> QED
  BY <1>1, <1>3 DEF KeepsAll, KeepsOrder

LEMMA YieldKeepsOrder ==
  ASSUME ReadyListExact, ThreadsTypeOK, ThreadsAssumption, NEW r, NEW stat, QueueOf(r, stat),
         SortedBy(r, priority), \A t \in AnyThread : stat[t] = "RUNNING" <=> t = current,
         KeepsAll(ready_list, r), thread_yield(r, stat, priority)
  PROVE  NotOvertaken
<1> DEFINE q == IF current = Idle THEN r ELSE InsertOrdered(r, current, priority)
           st == [stat EXCEPT ![current] = "READY"]
<1>1. Schedule(q, st)
  BY DEF thread_yield
<1>2. QueueOf(q, st)
  BY YieldQueue
<1>3. KeepsAll(r, q)
  <2>1. CASE current = Idle
    BY <2>1, KeepsAllSame
  <2>2. CASE current # Idle
    <3>1. current \in Thread /\ priority \in [AnyThread -> Priority]
      BY <2>2 DEF ThreadsTypeOK, AnyThread
    <3>2. stat[current] # "READY"
      BY <3>1 DEF AnyThread
    <3> QED
      BY <2>2, <3>1, <3>2, InsertKeepsAll
  <2> QED
    BY <2>1, <2>2
<1> HIDE DEF q, st
<1>4. KeepsAll(ready_list, q)
  BY <1>3, KeepsAllTwice
<1>5. q \in Seq(Thread)
  BY <1>2 DEF QueueOf
<1>6. KeepsOrder(q, ready_list')
  BY <1>1, <1>5, ScheduleKeepsOrder
<1> QED
  BY <1>4, <1>6, OrderIsEnough

LEMMA LeaveKeepsOrder ==
  ASSUME ReadyListExact, ThreadsTypeOK, NEW stat, Schedule(ready_list, stat)
  PROVE  NotOvertaken
<1>1. ready_list \in Seq(Thread)
  BY DEF ThreadsTypeOK
<1>2. KeepsOrder(ready_list, ready_list')
  BY <1>1, ScheduleKeepsOrder
<1> QED
  BY <1>2, KeepsAllSame, OrderIsEnough

LEMMA QueuedKeepsAll ==
  ASSUME IInv, NEW t \in Thread, status[t] = "BLOCKED"
  PROVE  KeepsAll(ready_list, InsertOrdered(ready_list, t, priority))
<1>1. QueueOf(ready_list, status) /\ SortedBy(ready_list, priority) /\ status[t] # "READY"
  BY QueueOfInv
<1>2. priority \in [AnyThread -> Priority]
  BY DEF IInv, ThreadsTypeOK, AnyThread
<1> QED
  BY <1>1, <1>2, InsertKeepsAll

LEMMA StepKeepsOrder ==
  ASSUME ThreadsAssumption, IInv, [ThreadsNext]_threadVars
  PROVE  NotOvertaken
<1>1. /\ ReadyListExact /\ ThreadsTypeOK /\ priority \in [AnyThread -> Priority]
      /\ QueueOf(ready_list, status) /\ SortedBy(ready_list, priority) /\ SchedOK
      /\ \A t \in AnyThread : status[t] = "RUNNING" <=> t = current
  BY QueueOfInv DEF IInv, ThreadsTypeOK, ReadyListExact, AnyThread
<1>2. CASE UNCHANGED ready_list
  BY <1>2 DEF NotOvertaken
<1>3. CASE CreateThread \/ UNCHANGED threadVars
  BY <1>2, <1>3 DEF CreateThread, threadVars, schedVars
<1>4. CASE UnblockOther
  <2>1. PICK t \in Thread : status[t] = "BLOCKED" /\ thread_unblock(t)
    BY <1>4 DEF UnblockOther
  <2> DEFINE r == InsertOrdered(ready_list, t, priority)
             stat == [status EXCEPT ![t] = "READY"]
  <2>2. KeepsAll(ready_list, r)
    BY <2>1, QueuedKeepsAll
  <2>3. QueueOf(r, stat) /\ \A u \in AnyThread : stat[u] = "RUNNING" <=> u = current
    BY <1>1, <2>1, UnblockQueue
  <2>4. SortedBy(r, priority)
    BY <1>1, InsertKeepsSorted DEF QueueOf
  <2>5. thread_yield(r, stat, priority) \/ ready_list' = r
    BY <2>1 DEF thread_unblock
  <2> HIDE DEF r, stat
  <2>6. CASE thread_yield(r, stat, priority)
    BY <1>1, <2>2, <2>3, <2>4, <2>6, YieldKeepsOrder
  <2>7. CASE ready_list' = r
    BY <1>1, <2>2, <2>7, KeepsAllSame, OrderIsEnough DEF KeepsAll
  <2> QED
    BY <2>5, <2>6, <2>7
<1>5. CASE Block \/ Exit \/ IdleLoop
  BY <1>1, <1>5, LeaveKeepsOrder DEF Block, Exit, IdleLoop, thread_block, thread_exit
<1>6. CASE Yield
  BY <1>1, <1>6, KeepsAllSame, YieldKeepsOrder DEF Yield
<1>7. CASE TimerTick
  <2>1. CASE thread_ticks + 1 >= TimeSlice
    BY <1>1, <1>7, <2>1, KeepsAllSame, YieldKeepsOrder DEF TimerTick, thread_tick
  <2>2. CASE ~(thread_ticks + 1 >= TimeSlice)
    BY <1>2, <1>7, <2>2 DEF TimerTick, thread_tick
  <2> QED
    BY <2>1, <2>2
<1>8. CASE DeviceInterrupt
  <2>1. PICK t \in Thread : status[t] = "BLOCKED" /\ thread_unblock_in_interrupt(t)
    BY <1>8 DEF DeviceInterrupt
  <2> DEFINE r == InsertOrdered(ready_list, t, priority)
  <2>2. KeepsAll(ready_list, r)
    BY <2>1, QueuedKeepsAll
  <2>3. ready_list' = r
    BY <2>1 DEF thread_unblock_in_interrupt
  <2> HIDE DEF r
  <2> QED
    BY <1>1, <2>2, <2>3, KeepsAllSame, OrderIsEnough DEF KeepsAll
<1> QED
  BY <1>3, <1>4, <1>5, <1>6, <1>7, <1>8 DEF ThreadsNext

(* list_insert_ordered, schedule and whoever calls them share the          *)
(* processor among equals: no step puts a thread before another one that   *)
(* was queued already and is no worse.                                     *)
THEOREM EqualsTakeTurns == ThreadsSpec => FifoAmongEquals
<1>1. IInv /\ [ThreadsNext]_threadVars => [NotOvertaken]_threadVars
  BY StepKeepsOrder, ThreadsAssumption
<1> QED
  BY <1>1, Invariance, PTL DEF ThreadsSpec, FifoAmongEquals

-----------------------------------------------------------------------------
(* AlarmClock.  Neither property is inductive: the handler looks at the    *)
(* front of the list alone, which tells of the others because the list is  *)
(* in the order of the times to wake; and it may wake the thread it finds  *)
(* there because a thread on the list is blocked.                          *)
WakeInOrder ==
  \A i, j \in 1 .. Len(sleep_list) : i < j => wakeup[sleep_list[i]] <= wakeup[sleep_list[j]]

ClockInv == SchedOK /\ SleepListExact /\ WakeInOrder

(* What SetToSeqs is made of: each element of S once.                      *)
LEMMA SetToSeqsIs ==
  ASSUME NEW S, IsFiniteSet(S), NEW r \in SetToSeqs(S)
  PROVE  /\ r \in Seq(S) /\ \A i, j \in 1 .. Len(r) : r[i] = r[j] => i = j
         /\ \A s \in S : \E i \in 1 .. Len(r) : r[i] = s
<1> DEFINE n == Cardinality(S)
<1>1. n \in Nat
  BY FS_CardinalityType
<1>2. r \in [1 .. n -> S] /\ \A i, j \in 1 .. n : i # j => r[i] # r[j]
  BY DEF SetToSeqs
<1>3. r \in Seq(S) /\ Len(r) = n
  BY <1>1, <1>2, SeqDef, LenProperties
<1>4. IsFiniteSet(1 .. n) /\ Cardinality(1 .. n) = n
  BY <1>1, FS_Interval
<1>5. r \in Injection(1 .. n, S)
  BY <1>2 DEF Injection, IsInjective
<1>6. r \in Surjection(1 .. n, S)
  BY <1>4, <1>5, FS_Injection
<1>7. \A s \in S : \E i \in 1 .. n : r[i] = s
  BY <1>6 DEF Surjection
<1> QED
  BY <1>2, <1>3, <1>7

(* The sleep list in terms of positions, and its elements.                 *)
LEMMA SleepFacts ==
  ASSUME SleepListExact
  PROVE  /\ sleep_list \in Seq(Thread) /\ Len(sleep_list) \in Nat
         /\ DOMAIN sleep_list = 1 .. Len(sleep_list)
         /\ \A i \in 1 .. Len(sleep_list) :
              /\ sleep_list[i] \in Thread /\ status[sleep_list[i]] = "BLOCKED"
              /\ wakeup[sleep_list[i]] \in Nat
         /\ \A i, j \in 1 .. Len(sleep_list) : sleep_list[i] = sleep_list[j] => i = j
         /\ wakeup \in [Thread -> 0 .. MaxTicks] /\ ticks \in Nat
         /\ \A t \in Thread : wakeup[t] \in Nat
<1>1. sleep_list \in Seq(Thread) /\ Len(sleep_list) \in Nat /\ DOMAIN sleep_list = 1 .. Len(sleep_list)
  BY LenProperties DEF SleepListExact, AlarmTypeOK
<1>2. \A i \in 1 .. Len(sleep_list) : sleep_list[i] \in Thread
  BY <1>1
<1>3. \A i \in 1 .. Len(sleep_list) : Contains(sleep_list, sleep_list[i])
  BY DEF Contains
<1>4. wakeup \in [Thread -> 0 .. MaxTicks] /\ ticks \in Nat
  BY DEF SleepListExact, AlarmTypeOK
<1>5. \A i \in 1 .. Len(sleep_list) : status[sleep_list[i]] = "BLOCKED"
  BY <1>2, <1>3 DEF SleepListExact
<1>6. \A i, j \in 1 .. Len(sleep_list) : sleep_list[i] = sleep_list[j] => i = j
  BY <1>1 DEF SleepListExact, IsInjective
<1>7. \A t \in Thread : wakeup[t] \in Nat
  BY <1>4
<1> QED
  BY <1>1, <1>2, <1>4, <1>5, <1>6, <1>7

(* list_insert_ordered with compare_wakeup puts t before the first that is *)
(* to wake later.                                                          *)
LEMMA InsertByWakeupIs ==
  ASSUME SleepListExact, NEW t \in Thread
  PROVE  \E k \in 1 .. Len(sleep_list) + 1 :
           /\ InsertByWakeup(t) \in Seq(Thread)
           /\ Len(InsertByWakeup(t)) = Len(sleep_list) + 1
           /\ \A j \in 1 .. Len(sleep_list) + 1 :
                InsertByWakeup(t)[j] =
                  IF j < k THEN sleep_list[j] ELSE IF j = k THEN t ELSE sleep_list[j - 1]
           /\ \A j \in 1 .. Len(sleep_list) : j < k => wakeup[sleep_list[j]] <= wakeup[t]
           /\ k <= Len(sleep_list) => wakeup[t] < wakeup[sleep_list[k]]
<1> DEFINE later == {i \in DOMAIN sleep_list : wakeup[t] < wakeup[sleep_list[i]]}
           k == IF later = {} THEN Len(sleep_list) + 1 ELSE Min(later)
<1>1. /\ sleep_list \in Seq(Thread) /\ Len(sleep_list) \in Nat
      /\ DOMAIN sleep_list = 1 .. Len(sleep_list)
      /\ \A i \in 1 .. Len(sleep_list) : wakeup[sleep_list[i]] \in Nat
      /\ wakeup[t] \in Nat
  BY SleepFacts
<1>2. /\ k \in 1 .. Len(sleep_list) + 1
      /\ \A j \in 1 .. Len(sleep_list) : j < k => wakeup[sleep_list[j]] <= wakeup[t]
      /\ k <= Len(sleep_list) => wakeup[t] < wakeup[sleep_list[k]]
  <2>1. CASE later = {}
    BY <1>1, <2>1
  <2>2. CASE later # {}
    <3>1. later \subseteq Nat
      BY <1>1
    <3>2. Min(later) \in later /\ \A n \in later : Min(later) <= n
      BY <2>2, <3>1, MinOfNats
    <3>3. k = Min(later)
      BY <2>2
    <3> HIDE DEF k
    <3>4. k \in 1 .. Len(sleep_list) /\ wakeup[t] < wakeup[sleep_list[k]]
      BY <1>1, <3>2, <3>3
    <3>5. ASSUME NEW j \in 1 .. Len(sleep_list), j < k
          PROVE  wakeup[sleep_list[j]] <= wakeup[t]
      <4>1. ASSUME wakeup[t] < wakeup[sleep_list[j]] PROVE FALSE
        <5>1. j \in later
          BY <1>1, <4>1
        <5>2. k <= j
          BY <3>2, <3>3, <5>1
        <5> QED
          BY <1>1, <3>4, <3>5, <5>2
      <4> QED
        BY <1>1, <4>1
    <3> QED
      BY <1>1, <3>4, <3>5
  <2> QED
    BY <2>1, <2>2
<1>3. InsertByWakeup(t) = InsertAt(sleep_list, k, t)
  BY DEF InsertByWakeup
<1> HIDE DEF k
<1>4. PICK s \in Seq(Thread) : s = sleep_list
  BY <1>1
<1>5. PICK n \in 1 .. Len(s) + 1 : n = k
  BY <1>2, <1>4
<1>6. /\ InsertAt(s, n, t) \in Seq(Thread)
      /\ Len(InsertAt(s, n, t)) = Len(s) + 1
      /\ \A j \in 1 .. Len(s) + 1 :
           InsertAt(s, n, t)[j] = IF j < n THEN s[j] ELSE IF j = n THEN t ELSE s[j - 1]
  BY InsertAtIs
<1> QED
  BY <1>2, <1>3, <1>4, <1>5, <1>6

(* The initial states: one thread runs, the others are queued.             *)
LEMMA ClockInitInv ==
  ASSUME ThreadsAssumption, AlarmAssumption, ClockInit
  PROVE  ClockInv
<1>1. IsFiniteSet(Thread \ {Main})
  BY FS_Subset DEF AlarmAssumption
<1>2. ready_list \in SetToSeqs(Thread \ {Main})
  BY DEF ClockInit
<1>3. /\ ready_list \in Seq(Thread \ {Main}) /\ Len(ready_list) \in Nat
      /\ \A i, j \in 1 .. Len(ready_list) : ready_list[i] = ready_list[j] => i = j
      /\ \A t \in Thread \ {Main} : \E i \in 1 .. Len(ready_list) : ready_list[i] = t
  <2>1. /\ ready_list \in Seq(Thread \ {Main})
        /\ \A i, j \in 1 .. Len(ready_list) : ready_list[i] = ready_list[j] => i = j
        /\ \A t \in Thread \ {Main} : \E i \in 1 .. Len(ready_list) : ready_list[i] = t
    <3> DEFINE S == Thread \ {Main}
    <3>1. IsFiniteSet(S) /\ ready_list \in SetToSeqs(S)
      BY <1>1, <1>2
    <3> HIDE DEF S
    <3>2. /\ ready_list \in Seq(S)
          /\ \A i, j \in 1 .. Len(ready_list) : ready_list[i] = ready_list[j] => i = j
          /\ \A t \in S : \E i \in 1 .. Len(ready_list) : ready_list[i] = t
      BY <3>1, SetToSeqsIs
    <3> QED
      BY <3>2 DEF S
  <2> QED
    BY <2>1, LenProperties
<1>4. \A i \in 1 .. Len(ready_list) : ready_list[i] \in Thread \ {Main}
  BY <1>3
<1>5. ready_list \in Seq(Thread)
  BY <1>3, SeqDef
<1>6. ThreadsTypeOK
  <2>1. current \in Thread \cup {Idle} /\ status \in [Thread \cup {Idle} -> Status]
    BY DEF ClockInit, Status, ThreadsAssumption
  <2>2. priority \in [Thread \cup {Idle} -> Priority]
    BY DEF ClockInit, Priority, ThreadsAssumption, AlarmAssumption
  <2>3. thread_ticks \in 0 .. TimeSlice - 1
    BY DEF ClockInit, ThreadsAssumption
  <2>4. panicked \in BOOLEAN
    BY DEF ClockInit
  <2> QED
    BY <1>5, <2>1, <2>2, <2>3, <2>4 DEF ThreadsTypeOK
<1>7. /\ current = Main
      /\ status = [t \in Thread \cup {Idle} |->
                     IF t = Main THEN "RUNNING" ELSE IF t = Idle THEN "BLOCKED" ELSE "READY"]
  BY DEF ClockInit
<1>8. ReadyListExact
  BY <1>3, <1>4, <1>7 DEF ReadyListExact, ThreadsAssumption
<1>9. /\ sleep_list = <<>> /\ ticks = 0 /\ wakeup = [t \in Thread |-> 0]
      /\ inserting = {} /\ in_handler = FALSE
  BY DEF ClockInit
<1>10. Len(sleep_list) = 0 /\ sleep_list \in Seq(Thread) /\ DOMAIN sleep_list = {}
  BY <1>9, EmptySeq
<1>11. AlarmTypeOK
  <2>1. ticks \in 0 .. MaxTicks /\ wakeup \in [Thread -> 0 .. MaxTicks]
    BY <1>9 DEF AlarmAssumption
  <2>2. inserting \subseteq Thread /\ in_handler \in BOOLEAN
    BY <1>9
  <2> QED
    BY <1>6, <1>10, <2>1, <2>2 DEF AlarmTypeOK
<1>12. SleepListExact
  <2>1. IsInjective(sleep_list)
    BY <1>10 DEF IsInjective
  <2>2. \A t \in Thread : status[t] # "BLOCKED" /\ ~Contains(sleep_list, t)
    BY <1>7, <1>10 DEF Contains, ThreadsAssumption
  <2> QED
    BY <1>11, <2>1, <2>2 DEF SleepListExact, Contains
<1> QED
  BY <1>6, <1>8, <1>10, <1>12 DEF ClockInv, SchedOK, WakeInOrder

(* A step of the scheduler that blocks and wakes nobody.                   *)
LEMMA ClockQuietInv ==
  ASSUME ClockInv, SchedOK', \A t \in Thread : KeepsClass(status[t], status'[t]),
         UNCHANGED <<ticks, sleep_list, wakeup, inserting>>, in_handler' \in BOOLEAN
  PROVE  ClockInv'
<1>1. AlarmTypeOK'
  BY DEF ClockInv, SleepListExact, AlarmTypeOK, SchedOK
<1>2. \A t \in Thread : status'[t] = "BLOCKED" <=> status[t] = "BLOCKED"
  BY DEF KeepsClass, Live
<1>3. \A t \in Thread : (status'[t] = "BLOCKED") = Contains(sleep_list, t)
  BY <1>2 DEF ClockInv, SleepListExact
<1>4. SleepListExact'
  BY <1>1, <1>3 DEF ClockInv, SleepListExact, Contains
<1> QED
  BY <1>4 DEF ClockInv, WakeInOrder

(* A thread about to sleep is on no list yet, so that its new time         *)
(* disturbs no order.                                                      *)
LEMMA SleepInv ==
  ASSUME ThreadsAssumption, AlarmAssumption, ClockInv, Sleep
  PROVE  ClockInv'
<1>1. current \in Thread /\ status[current] = "RUNNING"
  BY DEF Sleep, Running, ClockInv, SchedOK, ThreadsTypeOK, ReadyListExact
<1>2. SleepListExact
  BY DEF ClockInv
<1>3. PICK n \in 0 .. MaxSleep :
        ticks + n <= MaxTicks /\ wakeup' = [wakeup EXCEPT ![current] = n + ticks]
  BY DEF Sleep
<1>4. UNCHANGED <<threadVars, ticks, sleep_list, in_handler>> /\ inserting' = inserting \cup {current}
  BY DEF Sleep
<1>5. SchedOK'
  BY <1>4 DEF ClockInv, SchedOK, ThreadsTypeOK, ReadyListExact, threadVars, schedVars
<1>6. n + ticks \in 0 .. MaxTicks
  BY <1>2, <1>3, SleepFacts DEF AlarmAssumption
<1>7. wakeup' \in [Thread -> 0 .. MaxTicks]
  BY <1>2, <1>3, <1>6, SleepFacts
<1>8. AlarmTypeOK'
  BY <1>1, <1>2, <1>4, <1>5, <1>7 DEF SleepListExact, AlarmTypeOK, SchedOK
<1>9. status' = status
  BY <1>4 DEF threadVars, schedVars
<1>10. SleepListExact'
  BY <1>2, <1>4, <1>8, <1>9 DEF SleepListExact, Contains
<1>11. \A i \in 1 .. Len(sleep_list) : wakeup'[sleep_list[i]] = wakeup[sleep_list[i]]
  BY <1>1, <1>2, <1>3, SleepFacts
<1>12. WakeInOrder'
  BY <1>4, <1>11 DEF ClockInv, WakeInOrder
<1> QED
  BY <1>5, <1>10, <1>12 DEF ClockInv

LEMMA InsertAndBlockInv ==
  ASSUME ThreadsAssumption, ClockInv, InsertAndBlock
  PROVE  ClockInv' /\ \A t \in Thread : Contains(sleep_list', t) <=> Contains(sleep_list, t) \/ t = current
<1>1. current \in Thread /\ status[current] = "RUNNING"
  BY DEF InsertAndBlock, Running, ClockInv, SchedOK, ThreadsTypeOK, ReadyListExact
<1>2. SleepListExact /\ SchedOK /\ WakeInOrder
  BY DEF ClockInv
<1>3. /\ sleep_list' = InsertByWakeup(current) /\ thread_block
      /\ UNCHANGED <<priority, panicked, ticks, wakeup, in_handler>>
      /\ inserting' = inserting \ {current}
  BY DEF InsertAndBlock
<1>4. /\ SchedOK' /\ status'[current] = "BLOCKED"
      /\ \A t \in Thread : t # current => KeepsClass(status[t], status'[t])
  BY <1>1, <1>2, <1>3, LeaveExact DEF thread_block
<1> DEFINE s == sleep_list
           q == sleep_list'
<1>5. PICK k \in 1 .. Len(s) + 1 :
        /\ q \in Seq(Thread) /\ Len(q) = Len(s) + 1
        /\ \A j \in 1 .. Len(s) + 1 : q[j] = IF j < k THEN s[j] ELSE IF j = k THEN current ELSE s[j - 1]
        /\ \A j \in 1 .. Len(s) : j < k => wakeup[s[j]] <= wakeup[current]
        /\ k <= Len(s) => wakeup[current] < wakeup[s[k]]
  BY <1>1, <1>2, <1>3, InsertByWakeupIs
<1>6. /\ Len(s) \in Nat /\ DOMAIN q = 1 .. Len(s) + 1
      /\ \A i \in 1 .. Len(s) : s[i] \in Thread /\ s[i] # current /\ wakeup[s[i]] \in Nat
      /\ \A i, j \in 1 .. Len(s) : s[i] = s[j] => i = j
      /\ wakeup[current] \in Nat
  BY <1>1, <1>2, <1>5, SleepFacts, LenProperties
<1>7. \A i, j \in 1 .. Len(s) : i < j => wakeup[s[i]] <= wakeup[s[j]]
  BY <1>2 DEF WakeInOrder
<1>8. \A t \in Thread : Contains(q, t) <=> Contains(s, t) \/ t = current
  <2> SUFFICES ASSUME NEW t \in Thread
               PROVE  Contains(q, t) <=> Contains(s, t) \/ t = current
    OBVIOUS
  <2>1. ASSUME NEW i \in 1 .. Len(q), q[i] = t
        PROVE  Contains(s, t) \/ t = current
    <3>1. CASE i < k
      BY <1>5, <1>6, <2>1, <3>1 DEF Contains
    <3>2. CASE i = k
      BY <1>5, <1>6, <2>1, <3>2
    <3>3. CASE i > k
      BY <1>5, <1>6, <2>1, <3>3, i - 1 \in 1 .. Len(s) DEF Contains
    <3> QED
      BY <1>5, <1>6, <3>1, <3>2, <3>3
  <2>2. ASSUME NEW i \in 1 .. Len(s), s[i] = t
        PROVE  Contains(q, t)
    <3>1. CASE i < k
      BY <1>5, <1>6, <2>2, <3>1 DEF Contains
    <3>2. CASE ~(i < k)
      <4>1. i + 1 \in 1 .. Len(q) /\ ~(i + 1 < k) /\ i + 1 # k /\ (i + 1) - 1 = i
        BY <1>5, <1>6, <3>2
      <4>2. q[i + 1] = t
        BY <1>5, <2>2, <4>1
      <4> QED
        BY <4>1, <4>2 DEF Contains
    <3> QED
      BY <3>1, <3>2
  <2>3. Contains(q, current)
    BY <1>5, <1>6 DEF Contains
  <2> QED
    BY <2>1, <2>2, <2>3 DEF Contains
<1>9. \A i, j \in 1 .. Len(q) : q[i] = q[j] => i = j
  <2> SUFFICES ASSUME NEW i \in 1 .. Len(q), NEW j \in 1 .. Len(q), q[i] = q[j] PROVE i = j
    OBVIOUS
  <2>1. CASE i = k \/ j = k
    <3>1. ASSUME NEW n \in 1 .. Len(q), n # k PROVE q[n] # current
      BY <1>5, <1>6, <3>1, IF n < k THEN n \in 1 .. Len(s) ELSE n - 1 \in 1 .. Len(s)
    <3>2. q[k] = current
      BY <1>5, <1>6
    <3> QED
      BY <2>1, <3>1, <3>2
  <2>2. CASE i # k /\ j # k
    <3> DEFINE a == IF i < k THEN i ELSE i - 1
               b == IF j < k THEN j ELSE j - 1
    <3>1. a \in 1 .. Len(s) /\ q[i] = s[a] /\ b \in 1 .. Len(s) /\ q[j] = s[b]
      BY <1>5, <1>6, <2>2
    <3>2. a = b
      <4> HIDE DEF a, b
      <4> QED
        BY <1>6, <3>1
    <3> QED
      BY <1>5, <1>6, <2>2, <3>2
  <2> QED
    BY <2>1, <2>2
<1>10. \A i, j \in 1 .. Len(q) : i < j => wakeup[q[i]] <= wakeup[q[j]]
  <2> SUFFICES ASSUME NEW i \in 1 .. Len(q), NEW j \in 1 .. Len(q), i < j
               PROVE  wakeup[q[i]] <= wakeup[q[j]]
    OBVIOUS
  <2>1. CASE i < k /\ j < k
    BY <1>5, <1>6, <1>7, <2>1
  <2>2. CASE i < k /\ j = k
    BY <1>5, <1>6, <2>2
  <2>3. CASE i < k /\ j > k
    <3>1. i \in 1 .. Len(s) /\ j - 1 \in 1 .. Len(s) /\ i < j - 1 /\ q[i] = s[i] /\ q[j] = s[j - 1]
      BY <1>5, <1>6, <2>3
    <3> QED
      BY <1>7, <3>1
  <2>4. CASE i = k
    <3>1. /\ k \in 1 .. Len(s) /\ j - 1 \in 1 .. Len(s) /\ (k = j - 1 \/ k < j - 1)
          /\ q[i] = current /\ q[j] = s[j - 1]
      BY <1>5, <1>6, <2>4
    <3>2. wakeup[current] < wakeup[s[k]]
      BY <1>5, <3>1
    <3>3. wakeup[s[k]] <= wakeup[s[j - 1]]
      BY <1>6, <1>7, <3>1
    <3>4. wakeup[s[k]] \in Nat /\ wakeup[s[j - 1]] \in Nat
      BY <1>6, <3>1
    <3> QED
      BY <1>6, <3>1, <3>2, <3>3, <3>4
  <2>5. CASE i > k
    <3>1. /\ i - 1 \in 1 .. Len(s) /\ j - 1 \in 1 .. Len(s) /\ i - 1 < j - 1
          /\ q[i] = s[i - 1] /\ q[j] = s[j - 1]
      BY <1>5, <1>6, <2>5
    <3> QED
      BY <1>7, <3>1
  <2> QED
    BY <1>5, <1>6, <2>1, <2>2, <2>3, <2>4, <2>5
<1>11. \A t \in Thread : t # current => (status'[t] = "BLOCKED" <=> status[t] = "BLOCKED")
  BY <1>4 DEF KeepsClass, Live
<1>12. \A t \in Thread : (status'[t] = "BLOCKED") = Contains(q, t)
  BY <1>2, <1>4, <1>8, <1>11 DEF SleepListExact, Contains
<1>13. AlarmTypeOK'
  BY <1>2, <1>3, <1>4, <1>5 DEF SleepListExact, AlarmTypeOK, SchedOK
<1>14. SleepListExact'
  BY <1>5, <1>6, <1>9, <1>12, <1>13 DEF SleepListExact, IsInjective
<1>15. WakeInOrder'
  BY <1>3, <1>10 DEF WakeInOrder
<1> QED
  BY <1>4, <1>8, <1>14, <1>15 DEF ClockInv

LEMMA WakeFrontInv ==
  ASSUME ThreadsAssumption, ClockInv, WakeFront
  PROVE  /\ ClockInv' /\ wakeup[Head(sleep_list)] <= ticks
         /\ \A t \in Thread : Contains(sleep_list', t) <=> Contains(sleep_list, t) /\ t # Head(sleep_list)
<1> DEFINE s == sleep_list
           q == sleep_list'
           h == Head(sleep_list)
<1>1. SleepListExact /\ SchedOK /\ WakeInOrder
  BY DEF ClockInv
<1>2. /\ s # <<>> /\ wakeup[h] <= ticks /\ q = Tail(s) /\ thread_unblock_in_interrupt(h)
      /\ UNCHANGED <<priority, ticks, wakeup, inserting, in_handler>>
  BY DEF WakeFront, FrontIsDue
<1>3. /\ s \in Seq(Thread) /\ Len(s) \in Nat
      /\ \A i \in 1 .. Len(s) : s[i] \in Thread /\ status[s[i]] = "BLOCKED"
      /\ \A i, j \in 1 .. Len(s) : s[i] = s[j] => i = j
  BY <1>1, SleepFacts
<1>4. /\ Len(s) > 0 /\ h = s[1] /\ q \in Seq(Thread) /\ Len(q) = Len(s) - 1
      /\ \A i \in 1 .. Len(s) - 1 : q[i] = s[i + 1]
  BY <1>2, <1>3, EmptySeq, HeadTailProperties
<1>5. h \in Thread /\ status[h] = "BLOCKED"
  BY <1>3, <1>4
<1>6. /\ SchedOK' /\ Live(status'[h])
      /\ \A u \in Thread : u # h => KeepsClass(status[u], status'[u])
  BY <1>1, <1>2, <1>5, InterruptUnblockExact
<1>7. DOMAIN q = 1 .. Len(s) - 1
  BY <1>4, LenProperties
<1>8. \A t \in Thread : Contains(q, t) <=> Contains(s, t) /\ t # h
  <2> SUFFICES ASSUME NEW t \in Thread
               PROVE  Contains(q, t) <=> Contains(s, t) /\ t # h
    OBVIOUS
  <2>1. ASSUME NEW i \in 1 .. Len(q), q[i] = t
        PROVE  Contains(s, t) /\ t # h
    BY <1>3, <1>4, <2>1, i + 1 \in 1 .. Len(s) DEF Contains
  <2>2. ASSUME NEW i \in 1 .. Len(s), s[i] = t, t # h
        PROVE  Contains(q, t)
    <3>1. i # 1
      BY <1>4, <2>2
    <3>2. i - 1 \in 1 .. Len(s) - 1 /\ (i - 1) + 1 = i
      BY <1>3, <3>1
    <3>3. q[i - 1] = t
      BY <1>4, <2>2, <3>2
    <3> QED
      BY <1>4, <3>2, <3>3 DEF Contains
  <2> QED
    BY <2>1, <2>2 DEF Contains
<1>9. \A i, j \in 1 .. Len(q) : q[i] = q[j] => i = j
  BY <1>3, <1>4
<1>10. WakeInOrder'
  <2>1. \A i, j \in 1 .. Len(s) : i < j => wakeup[s[i]] <= wakeup[s[j]]
    BY <1>1 DEF WakeInOrder
  <2>2. ASSUME NEW i \in 1 .. Len(q), NEW j \in 1 .. Len(q), i < j
        PROVE  wakeup[q[i]] <= wakeup[q[j]]
    <3>1. i + 1 \in 1 .. Len(s) /\ j + 1 \in 1 .. Len(s) /\ i + 1 < j + 1
      BY <1>3, <1>4, <2>2
    <3>2. q[i] = s[i + 1] /\ q[j] = s[j + 1]
      BY <1>4, <2>2
    <3> QED
      BY <2>1, <3>1, <3>2
  <2> QED
    BY <1>2, <2>2 DEF WakeInOrder
<1>11. \A t \in Thread : t # h => (status'[t] = "BLOCKED" <=> status[t] = "BLOCKED")
  BY <1>6 DEF KeepsClass, Live
<1>12. \A t \in Thread : (status'[t] = "BLOCKED") = Contains(q, t)
  <2>1. ASSUME NEW t \in Thread PROVE status'[t] = "BLOCKED" <=> Contains(q, t)
    <3>1. status[t] = "BLOCKED" <=> Contains(s, t)
      BY <1>1 DEF SleepListExact
    <3>2. status'[h] # "BLOCKED"
      BY <1>6 DEF Live
    <3> QED
      BY <1>8, <1>11, <3>1, <3>2
  <2> QED
    BY <2>1 DEF Contains
<1>13. AlarmTypeOK'
  BY <1>1, <1>2, <1>4, <1>6 DEF SleepListExact, AlarmTypeOK, SchedOK
<1>14. SleepListExact'
  BY <1>4, <1>7, <1>9, <1>12, <1>13 DEF SleepListExact, IsInjective
<1> QED
  BY <1>2, <1>6, <1>8, <1>10, <1>14 DEF ClockInv

(* The end of the handler: the front of the list is not due, nor therefore *)
(* is any other.                                                           *)
LEMMA NoneDue ==
  ASSUME ClockInv, ~FrontIsDue
  PROVE  \A t \in Thread : Contains(sleep_list, t) => wakeup[t] > ticks
<1>1. SleepListExact
  BY DEF ClockInv
<1> SUFFICES ASSUME NEW i \in 1 .. Len(sleep_list)
             PROVE  wakeup[sleep_list[i]] > ticks
  BY DEF Contains
<1>2. /\ sleep_list \in Seq(Thread) /\ Len(sleep_list) \in Nat /\ ticks \in Nat
      /\ \A j \in 1 .. Len(sleep_list) : wakeup[sleep_list[j]] \in Nat
  BY <1>1, SleepFacts
<1>3. sleep_list # <<>> /\ Head(sleep_list) = sleep_list[1] /\ 1 \in 1 .. Len(sleep_list)
  BY <1>2, EmptySeq, HeadTailProperties
<1>4. wakeup[sleep_list[1]] > ticks
  BY <1>2, <1>3 DEF FrontIsDue
<1>5. i = 1 \/ wakeup[sleep_list[1]] <= wakeup[sleep_list[i]]
  BY <1>2, <1>3 DEF ClockInv, WakeInOrder
<1> QED
  BY <1>2, <1>3, <1>4, <1>5

LEMMA InterruptReturnInv ==
  ASSUME ThreadsAssumption, ClockInv, InterruptReturn
  PROVE  ClockInv'
<1>1. thread_tick /\ UNCHANGED <<priority, panicked>>
  BY DEF InterruptReturn
<1>2. SchedOK' /\ \A t \in Thread : KeepsClass(status[t], status'[t])
  BY <1>1, TickExact DEF ClockInv
<1> QED
  BY <1>2, ClockQuietInv DEF InterruptReturn

LEMMA ClockYieldInv ==
  ASSUME ThreadsAssumption, ClockInv, ClockYield
  PROVE  ClockInv'
<1>1. SchedOK
  BY DEF ClockInv
<1>2. \A t \in AnyThread : status[t] = "RUNNING" <=> t = current
  BY <1>1 DEF SchedOK, ReadyListExact, AnyThread
<1>3. ThreadsTypeOK /\ panicked' \in BOOLEAN
  BY <1>1 DEF SchedOK, ThreadsTypeOK, ClockYield, Yield
<1>4. SchedOK' /\ \A t \in Thread : KeepsClass(status[t], status'[t])
  BY <1>1, <1>2, <1>3, QueueOfSched, YieldExact DEF ClockYield, Yield
<1>5. in_handler' \in BOOLEAN
  BY DEF ClockYield, alarmVars, ClockInv, SleepListExact, AlarmTypeOK
<1> QED
  BY <1>4, <1>5, ClockQuietInv DEF ClockYield, alarmVars

LEMMA ClockIdleInv ==
  ASSUME ThreadsAssumption, ClockInv, ClockIdle
  PROVE  ClockInv'
<1>1. /\ current \notin Thread /\ thread_block /\ UNCHANGED <<priority, panicked>>
  BY DEF ClockIdle, IdleLoop, ThreadsAssumption
<1>2. SchedOK' /\ \A t \in Thread : KeepsClass(status[t], status'[t])
  BY <1>1, LeaveExact DEF ClockInv, thread_block
<1>3. in_handler' \in BOOLEAN
  BY DEF ClockIdle, alarmVars, ClockInv, SleepListExact, AlarmTypeOK
<1> QED
  BY <1>2, <1>3, ClockQuietInv DEF ClockIdle, alarmVars

LEMMA TimerInterruptInv ==
  ASSUME ThreadsAssumption, AlarmAssumption, ClockInv, TimerInterrupt
  PROVE  ClockInv'
<1>1. UNCHANGED <<threadVars, sleep_list, wakeup, inserting>> /\ in_handler' \in BOOLEAN
  BY DEF TimerInterrupt
<1>2. ticks \in 0 .. MaxTicks
  BY DEF ClockInv, SleepListExact, AlarmTypeOK
<1>3. ticks' \in 0 .. MaxTicks
  BY <1>2 DEF TimerInterrupt, AlarmAssumption
<1>4. SchedOK'
  BY <1>1 DEF ClockInv, SchedOK, ThreadsTypeOK, ReadyListExact, threadVars, schedVars
<1>5. AlarmTypeOK'
  BY <1>1, <1>3, <1>4 DEF ClockInv, SleepListExact, AlarmTypeOK, SchedOK
<1>6. status' = status
  BY <1>1 DEF threadVars, schedVars
<1>7. SleepListExact'
  BY <1>1, <1>5, <1>6 DEF ClockInv, SleepListExact, Contains
<1>8. WakeInOrder'
  BY <1>1 DEF ClockInv, WakeInOrder
<1> QED
  BY <1>4, <1>7, <1>8 DEF ClockInv

LEMMA ClockStepInv ==
  ASSUME ThreadsAssumption, AlarmAssumption, ClockInv, [ClockNext]_clockVars
  PROVE  ClockInv'
<1>1. CASE Sleep
  BY <1>1, SleepInv
<1>2. CASE InsertAndBlock
  BY <1>2, InsertAndBlockInv
<1>3. CASE TimerInterrupt
  BY <1>3, TimerInterruptInv
<1>4. CASE WakeFront
  BY <1>4, WakeFrontInv
<1>5. CASE InterruptReturn
  BY <1>5, InterruptReturnInv
<1>6. CASE ClockYield
  BY <1>6, ClockYieldInv
<1>7. CASE ClockIdle
  BY <1>7, ClockIdleInv
<1>8. CASE UNCHANGED clockVars
  <2>1. UNCHANGED threadVars /\ UNCHANGED alarmVars
    BY <1>8 DEF clockVars
  <2>2. SchedOK' /\ status' = status
    BY <2>1 DEF ClockInv, SchedOK, ThreadsTypeOK, ReadyListExact, threadVars, schedVars
  <2>3. \A t \in Thread : KeepsClass(status[t], status'[t])
    BY <2>2 DEF KeepsClass
  <2>4. in_handler' \in BOOLEAN
    BY <2>1 DEF alarmVars, ClockInv, SleepListExact, AlarmTypeOK
  <2> QED
    BY <2>1, <2>2, <2>3, <2>4, ClockQuietInv DEF alarmVars
<1> QED
  BY <1>1, <1>2, <1>3, <1>4, <1>5, <1>6, <1>7, <1>8 DEF ClockNext, Interrupt

(* The scheduler, the sleep list and its order, at every step of           *)
(* timer_sleep and of timer_interrupt.                                     *)
THEOREM ClockInvariance == ClockSpec => []ClockInv
<1>1. ClockInit => ClockInv
  BY ThreadsAssumption, AlarmAssumption, ClockInitInv
<1>2. ClockInv /\ [ClockNext]_clockVars => ClockInv'
  BY ThreadsAssumption, AlarmAssumption, ClockStepInv
<1> QED
  BY <1>1, <1>2, PTL DEF ClockSpec

(* timer_sleep and timer_interrupt: a thread is on the sleep list, once,   *)
(* exactly while it is blocked, also between two turns of the handler's    *)
(* loop.                                                                   *)
THEOREM SleepersListed == ClockSpec => []SleepListExact
<1>1. ClockInv => SleepListExact
  BY DEF ClockInv
<1> QED
  BY <1>1, ClockInvariance, PTL

(* Each step is a step of AlarmSpec: the tick wakes all that are due, and  *)
(* the turns of the loop that follow are no news to the callers.           *)
LEMMA ClockRefines ==
  ASSUME ThreadsAssumption, AlarmAssumption, ClockInv, [ClockNext]_clockVars
  PROVE  [Abstract!SpecNext]_<<ticks, wakeup, StillAsleep>>
<1> USE DEF Abstract!SpecNext, Abstract!TickAll, Abstract!Ask, Abstract!FallAsleep
<1>0. /\ SleepListExact
      /\ ticks \in 0 .. MaxTicks /\ ticks \in Nat /\ in_handler \in BOOLEAN
      /\ wakeup \in [Thread -> 0 .. MaxTicks]
      /\ \A t \in Thread : Contains(sleep_list, t) => status[t] = "BLOCKED"
  BY SleepFacts DEF ClockInv, SleepListExact, AlarmTypeOK
<1>1. ASSUME Running PROVE current \in Thread /\ ~Contains(sleep_list, current)
  BY <1>0, <1>1 DEF Running, ClockInv, SchedOK, ThreadsTypeOK, ReadyListExact
<1>2. CASE Sleep
  <2>1. PICK n \in 0 .. MaxSleep :
          ticks + n <= MaxTicks /\ wakeup' = [wakeup EXCEPT ![current] = n + ticks]
    BY <1>2 DEF Sleep
  <2>2. current \in Thread /\ ~Contains(sleep_list, current) /\ UNCHANGED <<ticks, sleep_list, in_handler>>
    BY <1>1, <1>2 DEF Sleep
  <2>3. n + ticks \in ticks .. MaxTicks
    BY <1>0, <2>1 DEF AlarmAssumption
  <2>4. StillAsleep' = StillAsleep
    BY <1>0, <2>1, <2>2 DEF StillAsleep, Contains
  <2>5. current \notin StillAsleep
    BY <2>2 DEF StillAsleep
  <2> QED
    BY <2>1, <2>2, <2>3, <2>4, <2>5
<1>3. CASE InsertAndBlock
  <2>1. /\ current \in Thread /\ ~Contains(sleep_list, current)
        /\ ~in_handler /\ UNCHANGED <<ticks, wakeup, in_handler>>
    BY <1>1, <1>3 DEF InsertAndBlock
  <2>2. \A t \in Thread : Contains(sleep_list', t) <=> Contains(sleep_list, t) \/ t = current
    BY <1>3, InsertAndBlockInv
  <2>3. StillAsleep' = StillAsleep \cup {current} /\ current \notin StillAsleep
    BY <2>1, <2>2 DEF StillAsleep
  <2> QED
    BY <2>1, <2>3
<1>4. CASE TimerInterrupt
  <2>1. /\ ticks' = IF ticks < MaxTicks THEN ticks + 1 ELSE ticks
        /\ ~in_handler /\ in_handler' /\ UNCHANGED <<sleep_list, wakeup>>
    BY <1>4 DEF TimerInterrupt
  <2>2. StillAsleep' = {t \in StillAsleep : wakeup[t] > ticks'}
    BY <2>1 DEF StillAsleep, Contains
  <2> QED
    BY <2>1, <2>2
<1>5. CASE WakeFront
  <2>1. /\ wakeup[Head(sleep_list)] <= ticks
        /\ \A t \in Thread : Contains(sleep_list', t) <=> Contains(sleep_list, t) /\ t # Head(sleep_list)
    BY <1>5, WakeFrontInv
  <2>2. in_handler /\ UNCHANGED <<ticks, wakeup, in_handler>>
    BY <1>5 DEF WakeFront
  <2>3. \A t \in Thread : wakeup[t] \in Nat
    BY <1>0, SleepFacts
  <2>4. StillAsleep' = StillAsleep
    BY <1>0, <2>1, <2>2, <2>3 DEF StillAsleep
  <2> QED
    BY <2>2, <2>4
<1>6. CASE InterruptReturn
  <2>1. \A t \in Thread : Contains(sleep_list, t) => wakeup[t] > ticks
    BY <1>6, NoneDue DEF InterruptReturn
  <2>2. ~in_handler' /\ UNCHANGED <<ticks, wakeup, sleep_list>>
    BY <1>6 DEF InterruptReturn
  <2>3. StillAsleep' = StillAsleep
    BY <2>1, <2>2 DEF StillAsleep, Contains
  <2> QED
    BY <2>2, <2>3
<1>7. CASE ClockYield \/ ClockIdle \/ UNCHANGED clockVars
  <2>1. UNCHANGED <<ticks, wakeup, sleep_list, in_handler>>
    BY <1>7 DEF ClockYield, ClockIdle, clockVars, alarmVars
  <2> QED
    BY <2>1 DEF StillAsleep, Contains
<1> QED
  BY <1>2, <1>3, <1>4, <1>5, <1>6, <1>7 DEF ClockNext, Interrupt

(* timer.c: "Sleeps for approximately TICKS timer ticks": the first tick   *)
(* at or after the time asked for wakes the sleeper, none before and none  *)
(* later, however many sleep and in whatever order they came.              *)
THEOREM TimerKeepsPromise == ClockSpec => Refines
<1>1. ClockInit => Abstract!SpecInit
  <2> SUFFICES ASSUME ClockInit PROVE Abstract!SpecInit
    OBVIOUS
  <2>1. sleep_list = <<>> /\ ticks = 0 /\ wakeup = [t \in Thread |-> 0]
    BY DEF ClockInit
  <2>2. StillAsleep = {}
    BY <2>1, EmptySeq DEF StillAsleep, Contains
  <2> QED
    BY <2>1, <2>2 DEF Abstract!SpecInit
<1>2. ClockInv /\ [ClockNext]_clockVars => [Abstract!SpecNext]_Abstract!specVars
  BY ThreadsAssumption, AlarmAssumption, ClockRefines DEF Abstract!specVars
<1> QED
  BY <1>1, <1>2, ClockInvariance, PTL DEF ClockSpec, Refines, Abstract!AlarmSpec

-----------------------------------------------------------------------------
(* The calls below the innermost one: none, those of a thread_create that  *)
(* has, or has not yet, given the new thread its number, or what is left   *)
(* of a cond_wait on the semaphore s, or of one past its sema_down.        *)
Made(c) == <<Creating(c)>>
Numbered(c) == <<At("tid", TidLock), Creating(c)>>
Again == <<At("cond_acq", MonitorLock)>>
Parked(s) == <<At("cond_down", s), At("cond_acq", MonitorLock)>>
Callers ==
  {<<>>, Again} \cup {Made(c) : c \in Thread} \cup {Numbered(c) : c \in Thread}
    \cup {Parked(s) : s \in Sema}

Acquiring == {"acq_down", "acq_wake", "acq_own", "donate", "raise"}
Releasing == {"assign", "disown", "rel_up"}
PrioritySetting == {"update", "look", "front"}

(* A frame f with the calls k below it.                                    *)
FrameOK(f, k) ==
  /\ f.pc \in Acquiring \cup Releasing \cup PrioritySetting
              \cup {"down_wake", "new", "tid", "create", "cond_down", "cond_acq", "broadcast"}
  /\ f.pc \in Acquiring => /\ f.obj \in Lock
                           /\ k = <<>> \/ (f.obj = TidLock /\ \E c \in Thread : k = Numbered(c))
  /\ f.pc \in Releasing => /\ f.obj \in Lock
                           /\ \/ k = <<>> \/ \E c \in Thread : k = Made(c)
                              \/ \E s \in Sema : k = Parked(s)
  /\ f.pc \in PrioritySetting => f.new \in Priority /\ k = <<>>
  /\ f.pc \in {"donate", "raise"} => f.to \in Thread /\ f.amount \in Priority
  /\ f.pc = "raise" => f.seen \in Priority \cup {-1}
  /\ f.pc = "assign" => f.next \in Priority
  /\ f.pc = "down_wake" => f.obj \in Sema /\ k \in {<<>>, Again}
  /\ f.pc = "new" => \E c \in Thread : k = Numbered(c)
  /\ f.pc = "tid" => f.obj = TidLock /\ \E c \in Thread : k = Made(c)
  /\ f.pc = "create" => f.child \in Thread /\ k = <<>>
  /\ f.pc = "cond_down" => f.obj \in Sema /\ k = Again
  /\ f.pc = "cond_acq" => f.obj = MonitorLock /\ k = <<>>
  /\ f.pc = "broadcast" => k = <<>>

StackOK(s) ==
  \/ s = <<>>
  \/ (s = <<Head(s)>> \o Tail(s) /\ Tail(s) \in Callers /\ FrameOK(Head(s), Tail(s)))

StacksOK == stack = [t \in Thread |-> stack[t]] /\ \A t \in Thread : StackOK(stack[t])

DataOK ==
  /\ original_priority \in [Thread -> Priority]
  /\ waiting_priority \in [Thread -> Priority]
  /\ blocker_thread \in [Thread -> Thread \cup {NULL}]
  /\ lock_list \in [Thread -> SUBSET Lock]
  /\ value \in [AnySema -> 0 .. MaxValue]
  /\ waiters \in [AnySema -> Seq(Thread)]
  /\ holder \in [Lock -> Thread \cup {NULL}]
  /\ client \in Client

(* A thread being created has one creator, and waits for it to go on.      *)
Makes(s, c) ==
  s # <<>> /\ ((Head(s).pc = "create" /\ Head(s).child = c) \/ Tail(s) = Made(c) \/ Tail(s) = Numbered(c))

ChildrenWait ==
  \A t, c \in Thread : Makes(stack[t], c) =>
    status[c] = "BLOCKED" /\ stack[c] = <<>> /\ \A u \in Thread : Makes(stack[u], c) => u = t

(* A thread that is gone is in no call and holds no lock.                  *)
Gone(st) == st \in {"FREE", "DYING"}
GoneHoldNothing ==
  \A t \in Thread : Gone(status[t]) => stack[t] = <<>> /\ \A l \in Lock : holder[l] # t

(* The holder's name is right where lock_release relies on it, and not yet *)
(* or no more written where a thread owns the semaphore alone.             *)
HolderKnown ==
  \A t \in Thread :
    /\ Frame(t).pc \in {"assign", "disown", "tid"} => holder[Frame(t).obj] = t
    /\ Frame(t).pc \in {"acq_own", "rel_up"} => holder[Frame(t).obj] = NULL

(* LockConserved, without counting.                                        *)
Owns(t, l) == holder[l] = t \/ (Frame(t).pc \in {"acq_own", "rel_up"} /\ Frame(t).obj = l)
OneOwner ==
  \A l \in Lock :
    /\ value[l] \in {0, 1}
    /\ value[l] = 1 => \A t \in Thread : ~Owns(t, l)
    /\ value[l] = 0 => \E t \in Thread : Owns(t, l)
    /\ \A t, u \in Thread : Owns(t, l) /\ Owns(u, l) => t = u

LocksOK == HolderKnown /\ OneOwner /\ LockListExact

SynchInv ==
  /\ SchedOK /\ DataOK /\ StacksOK
  /\ ChildrenWait /\ GoneHoldNothing
  /\ LocksOK /\ WaitListsExact

-----------------------------------------------------------------------------
(* Stacks of calls.                                                        *)

LEMMA CallersAre ==
  ASSUME NEW c \in Thread
  PROVE  /\ Made(c) \in Callers /\ Numbered(c) \in Callers /\ <<>> \in Callers
         /\ Made(c) # <<>> /\ Head(Made(c)) = Creating(c) /\ Tail(Made(c)) = <<>>
         /\ Numbered(c) # <<>> /\ Head(Numbered(c)) = At("tid", TidLock)
         /\ Tail(Numbered(c)) = Made(c)
         /\ Made(c) = <<Creating(c)>> \o <<>>
         /\ Numbered(c) = <<At("tid", TidLock)>> \o Made(c)
         /\ Made(c)[1].child = c /\ Numbered(c)[2].child = c
         /\ Len(Made(c)) = 1 /\ Len(Numbered(c)) = 2
<1> DEFINE x == Creating(c)
           y == At("tid", TidLock)
<1>1. /\ <<x>> # <<>> /\ Head(<<x>>) = x /\ Tail(<<x>>) = <<>>
      /\ <<y, x>> # <<>> /\ Head(<<y, x>>) = y /\ Tail(<<y, x>>) = <<x>>
      /\ Len(<<x>>) = 1 /\ Len(<<y, x>>) = 2
      /\ <<x>>[1] = x /\ <<y, x>>[2] = x
  <2> HIDE DEF x, y
  <2> QED
    OBVIOUS
<1>2. <<x>> = <<x>> \o <<>> /\ <<y, x>> = <<y>> \o <<x>>
  <2> HIDE DEF x, y
  <2> QED
    OBVIOUS
<1>3. x.child = c
  BY DEF Creating
<1> QED
  BY <1>1, <1>2, <1>3 DEF Made, Numbered, Callers

LEMMA CondCallersAre ==
  ASSUME NEW s
  PROVE  /\ Again \in Callers /\ (s \in Sema => Parked(s) \in Callers)
         /\ Again # <<>> /\ Head(Again) = At("cond_acq", MonitorLock) /\ Tail(Again) = <<>>
         /\ Parked(s) # <<>> /\ Head(Parked(s)) = At("cond_down", s) /\ Tail(Parked(s)) = Again
         /\ Again = <<At("cond_acq", MonitorLock)>> \o <<>>
         /\ Parked(s) = <<At("cond_down", s)>> \o Again
         /\ \A c \in Thread : /\ Again # Made(c) /\ Again # Numbered(c)
                             /\ Parked(s) # Made(c) /\ Parked(s) # Numbered(c)
<1> DEFINE x == At("cond_acq", MonitorLock)
           y == At("cond_down", s)
<1>1. /\ <<x>> # <<>> /\ Head(<<x>>) = x /\ Tail(<<x>>) = <<>>
      /\ <<y, x>> # <<>> /\ Head(<<y, x>>) = y /\ Tail(<<y, x>>) = <<x>>
  <2> HIDE DEF x, y
  <2> QED
    OBVIOUS
<1>2. <<x>> = <<x>> \o <<>> /\ <<y, x>> = <<y>> \o <<x>>
  <2> HIDE DEF x, y
  <2> QED
    OBVIOUS
<1>3. ASSUME NEW c \in Thread
      PROVE  x # Creating(c) /\ y # Creating(c) /\ x # At("tid", TidLock) /\ y # At("tid", TidLock)
  <2>1. x.pc = "cond_acq" /\ y.pc = "cond_down" /\ Creating(c).pc = "create" /\ At("tid", TidLock).pc = "tid"
    BY DEF At, Creating
  <2> QED
    BY <2>1
<1> QED
  BY <1>1, <1>2, <1>3, CallersAre DEF Again, Parked, Callers

LEMMA OnTop ==
  ASSUME NEW S, NEW f \in S, NEW k \in Seq(S)
  PROVE  /\ <<f>> \o k # <<>> /\ Head(<<f>> \o k) = f /\ Tail(<<f>> \o k) = k
         /\ Len(<<f>> \o k) = Len(k) + 1
<1> DEFINE s == <<f>> \o k
<1>1. <<f>> \in Seq(S) /\ Len(<<f>>) = 1 /\ <<f>>[1] = f /\ Len(k) \in Nat
  BY LenProperties
<1>2. /\ s \in Seq(S) /\ Len(s) = 1 + Len(k)
      /\ \A j \in 1 .. 1 + Len(k) : s[j] = IF j <= 1 THEN <<f>>[j] ELSE k[j - 1]
  BY <1>1, ConcatProperties
<1> HIDE DEF s
<1>3. s # <<>> /\ s[1] = f /\ \A j \in 1 .. Len(k) : s[j + 1] = k[j]
  <2>1. s # <<>> /\ s[1] = f
    BY <1>1, <1>2, EmptySeq
  <2>2. ASSUME NEW j \in 1 .. Len(k) PROVE s[j + 1] = k[j]
    <3>1. j + 1 \in 1 .. 1 + Len(k) /\ ~(j + 1 <= 1) /\ (j + 1) - 1 = j
      BY <1>1
    <3> QED
      BY <1>2, <3>1
  <2> QED
    BY <2>1, <2>2
<1>4. /\ Head(s) = f /\ Tail(s) \in Seq(S) /\ Len(Tail(s)) = Len(k)
      /\ \A j \in 1 .. Len(k) : Tail(s)[j] = k[j]
  BY <1>1, <1>2, <1>3, HeadTailProperties
<1>5. Tail(s) = k
  BY <1>4, SeqEqual
<1> QED
  BY <1>1, <1>2, <1>3, <1>4, <1>5 DEF s

(* A call on top of others.                                                *)
LEMMA Pushed ==
  ASSUME NEW f, NEW k \in Callers
  PROVE  /\ <<f>> \o k # <<>> /\ Head(<<f>> \o k) = f /\ Tail(<<f>> \o k) = k
         /\ <<f>> \o k = <<Head(<<f>> \o k)>> \o Tail(<<f>> \o k)
         /\ Len(<<f>> \o k) <= 3
<1> DEFINE s == <<f>> \o k
           Goal == s # <<>> /\ Head(s) = f /\ Tail(s) = k /\ Len(s) <= 3
<1>1. ASSUME NEW S, f \in S, k \in Seq(S), Len(k) \in 0 .. 2 PROVE Goal
  <2>1. s # <<>> /\ Head(s) = f /\ Tail(s) = k /\ Len(s) = Len(k) + 1
    BY <1>1, OnTop
  <2> HIDE DEF s
  <2> QED
    BY <1>1, <2>1
<1> HIDE DEF Goal
<1>2. ASSUME k = <<>> PROVE Goal
  <2> DEFINE S == {f}
  <2>1. f \in S
    OBVIOUS
  <2> HIDE DEF S
  <2>2. k \in Seq(S) /\ Len(k) \in 0 .. 2
    BY <1>2, EmptySeq
  <2> QED
    BY <1>1, <2>1, <2>2
<1>3. ASSUME NEW c \in Thread, k = Made(c) PROVE Goal
  <2> DEFINE x == Creating(c)
  <2>1. k = <<x>>
    BY <1>3 DEF Made
  <2> HIDE DEF x
  <2>2. <<x>> \in Seq({f, x}) /\ Len(<<x>>) \in 0 .. 2
    OBVIOUS
  <2> QED
    BY <1>1, <2>1, <2>2
<1>4. ASSUME NEW c \in Thread, k = Numbered(c) PROVE Goal
  <2> DEFINE x == Creating(c)
             y == At("tid", TidLock)
  <2>1. k = <<y, x>>
    BY <1>4 DEF Numbered
  <2> HIDE DEF x, y
  <2>2. <<y, x>> \in Seq({f, x, y}) /\ Len(<<y, x>>) \in 0 .. 2
    OBVIOUS
  <2> QED
    BY <1>1, <2>1, <2>2
<1>5. ASSUME k = Again PROVE Goal
  <2> DEFINE x == At("cond_acq", MonitorLock)
  <2>1. k = <<x>>
    BY <1>5 DEF Again
  <2> HIDE DEF x
  <2>2. <<x>> \in Seq({f, x}) /\ Len(<<x>>) \in 0 .. 2
    OBVIOUS
  <2> QED
    BY <1>1, <2>1, <2>2
<1>6. ASSUME NEW z \in Sema, k = Parked(z) PROVE Goal
  <2> DEFINE x == At("cond_acq", MonitorLock)
             y == At("cond_down", z)
  <2>1. k = <<y, x>>
    BY <1>6 DEF Parked
  <2> HIDE DEF x, y
  <2>2. <<y, x>> \in Seq({f, x, y}) /\ Len(<<y, x>>) \in 0 .. 2
    OBVIOUS
  <2> QED
    BY <1>1, <2>1, <2>2
<1>7. \/ k = <<>> \/ k = Again
      \/ (\E c \in Thread : k = Made(c)) \/ (\E c \in Thread : k = Numbered(c))
      \/ \E z \in Sema : k = Parked(z)
  BY DEF Callers
<1>8. Goal
  BY <1>2, <1>3, <1>4, <1>5, <1>6, <1>7
<1> QED
  BY <1>8 DEF Goal

(* A frame on allowed callers is a stack.                                  *)
LEMMA PushedOK ==
  ASSUME NEW f, NEW k \in Callers, FrameOK(f, k)
  PROVE  StackOK(<<f>> \o k)
BY Pushed DEF StackOK

LEMMA StackLength ==
  ASSUME NEW s, StackOK(s)
  PROVE  Len(s) <= 3
<1>1. CASE s = <<>>
  BY <1>1
<1>2. CASE s # <<>>
  BY <1>2, Pushed DEF StackOK
<1> QED
  BY <1>1, <1>2

(* What is left of a stack when its innermost call returns.                *)
LEMMA ReturnedOK ==
  ASSUME NEW s, StackOK(s), s # <<>>
  PROVE  /\ StackOK(Tail(s))
         /\ \/ Tail(s) = <<>> \/ Tail(s) = Again
            \/ (\E c \in Thread : Tail(s) = Made(c)) \/ (\E c \in Thread : Tail(s) = Numbered(c))
            \/ \E z \in Sema : Tail(s) = Parked(z)
<1>1. \/ Tail(s) = <<>> \/ Tail(s) = Again
      \/ (\E c \in Thread : Tail(s) = Made(c)) \/ (\E c \in Thread : Tail(s) = Numbered(c))
      \/ \E z \in Sema : Tail(s) = Parked(z)
  BY DEF StackOK, Callers
<1>2. ASSUME NEW c \in Thread PROVE StackOK(Made(c)) /\ StackOK(Numbered(c))
  <2>1. FrameOK(Creating(c), <<>>)
    BY DEF FrameOK, Creating, Acquiring, Releasing, PrioritySetting
  <2>2. FrameOK(At("tid", TidLock), Made(c))
    BY SynchAssumption DEF FrameOK, At, Acquiring, Releasing, PrioritySetting
  <2> QED
    BY <2>1, <2>2, CallersAre, PushedOK
<1>3. StackOK(<<>>)
  BY DEF StackOK
<1>4. ASSUME NEW z \in Sema PROVE StackOK(Parked(z))
  <2>1. FrameOK(At("cond_down", z), Again)
    BY DEF FrameOK, At, Acquiring, Releasing, PrioritySetting
  <2> QED
    BY <2>1, CondCallersAre, PushedOK
<1>5. StackOK(Again)
  <2>1. FrameOK(At("cond_acq", MonitorLock), <<>>)
    BY DEF FrameOK, At, Acquiring, Releasing, PrioritySetting
  <2>2. <<>> \in Callers
    BY DEF Callers
  <2> QED
    BY <2>1, <2>2, CondCallersAre, PushedOK
<1> QED
  BY <1>1, <1>2, <1>3, <1>4, <1>5

(* The current thread's stack becomes s, the others' stay.                 *)
Sets(s) == stack' = [stack EXCEPT ![current] = s]

LEMMA StackStep ==
  ASSUME StacksOK, NEW me \in Thread, current = me, NEW s, StackOK(s), Sets(s)
  PROVE  /\ StacksOK' /\ stack'[me] = s
         /\ \A t \in Thread : t # me => stack'[t] = stack[t]
<1>1. /\ stack' = [t \in Thread |-> IF t = me THEN s ELSE stack[t]]
  BY DEF Sets, StacksOK
<1> QED
  BY <1>1 DEF StacksOK

LEMMA EnterIs ==
  ASSUME NEW f, NEW k, Enter(f, k)
  PROVE  Sets(<<f>> \o k)
BY DEF Enter, Sets

LEMMA ReturnIs ==
  ASSUME StacksOK, NEW me \in Thread, current = me, Return
  PROVE  Sets(Tail(stack[me]))
BY DEF Return, Sets, StacksOK

(* Where the current thread is.                                            *)
LEMMA InIs ==
  ASSUME StacksOK, SchedOK, ThreadsAssumption, NEW pc, In(pc)
  PROVE  /\ current \in Thread /\ panicked = FALSE /\ status[current] = "RUNNING"
         /\ pc = "client" => stack[current] = <<>>
         /\ pc # "client" => /\ stack[current] # <<>> /\ Me = Head(stack[current])
                             /\ Tail(stack[current]) \in Callers
                             /\ FrameOK(Head(stack[current]), Tail(stack[current]))
         /\ Me.pc = pc
<1>1. current \in Thread /\ panicked = FALSE /\ status[current] = "RUNNING" /\ current # Idle
  BY DEF In, SchedOK, ThreadsTypeOK, ReadyListExact
<1>2. Frame(current).pc = pc
  BY DEF In
<1>3. StackOK(stack[current])
  BY <1>1 DEF StacksOK
<1>4. CASE stack[current] = <<>>
  BY <1>1, <1>2, <1>4 DEF Frame, Me
<1>5. CASE stack[current] # <<>>
  <2>1. Frame(current) = Head(stack[current])
    BY <1>1, <1>5 DEF Frame
  <2>2. Tail(stack[current]) \in Callers /\ FrameOK(Head(stack[current]), Tail(stack[current]))
    BY <1>3, <1>5 DEF StackOK
  <2>3. pc # "client"
    BY <1>2, <2>1, <2>2 DEF FrameOK, Acquiring, Releasing, PrioritySetting
  <2> QED
    BY <1>1, <1>2, <1>5, <2>1, <2>2, <2>3 DEF Me
<1> QED
  BY <1>4, <1>5

-----------------------------------------------------------------------------
(* Steps that leave the locks' owners alone.                               *)

(* Only the thread me may have changed its stack.                          *)
Others(me) == \A t \in Thread : t # me => stack'[t] = stack[t]

LEMMA FramesKept ==
  ASSUME NEW me, Others(me)
  PROVE  \A t \in Thread : t # me => Frame(t)' = Frame(t)
BY DEF Others, Frame

(* The frame g says of the locks what f said.                              *)
Neutral(pc) == pc \notin {"assign", "disown", "tid", "acq_own", "rel_up"}
KeepsRole(f, g) ==
  \/ g = f
  \/ (Neutral(f.pc) /\ Neutral(g.pc))
  \/ (f.pc = "assign" /\ g.pc = "disown" /\ g.obj = f.obj)

LEMMA LocksKept ==
  ASSUME LocksOK, \A t \in Thread : KeepsRole(Frame(t), Frame(t)'),
         UNCHANGED <<holder, lock_list>>, \A l \in Lock : value'[l] = value[l]
  PROVE  LocksOK'
<1>1. HolderKnown'
  BY DEF LocksOK, HolderKnown, KeepsRole, Neutral
<1>2. \A t \in Thread, l \in Lock : Owns(t, l)' <=> Owns(t, l)
  BY DEF Owns, KeepsRole, Neutral
<1>3. OneOwner'
  BY <1>2 DEF LocksOK, OneOwner
<1>4. LockListExact'
  BY DEF LocksOK, LockListExact, KeepsRole, Neutral
<1> QED
  BY <1>1, <1>3, <1>4 DEF LocksOK

(* Nobody is gone who was not, and no thread being created starts.         *)
Calm ==
  \A t \in Thread :
    /\ Gone(status'[t]) => Gone(status[t])
    /\ status[t] = "BLOCKED" /\ stack[t] = <<>> => status'[t] = "BLOCKED"

(* The thread me goes on in its call, or returns, or calls another.        *)
GoesOn(me) ==
  /\ Others(me) /\ status[me] = "RUNNING"
  /\ me \in Thread => /\ KeepsRole(Frame(me), Frame(me)')
                      /\ \A c \in Thread : Makes(stack'[me], c) => Makes(stack[me], c)

LEMMA ChildrenKept ==
  ASSUME ChildrenWait, Calm, NEW me, Others(me), status[me] = "RUNNING",
         me \in Thread => \A c \in Thread : Makes(stack'[me], c) => Makes(stack[me], c)
  PROVE  ChildrenWait'
<1>1. \A t, c \in Thread : Makes(stack'[t], c) => Makes(stack[t], c)
  BY DEF Others
<1>2. \A t, c \in Thread : Makes(stack[t], c) => status'[c] = "BLOCKED" /\ stack'[c] = <<>>
  BY DEF ChildrenWait, Calm, Others
<1> QED
  BY <1>1, <1>2 DEF ChildrenWait

LEMMA GoneKept ==
  ASSUME GoneHoldNothing, Calm, NEW me, Others(me), status[me] = "RUNNING",
         \A l \in Lock : holder'[l] \in {holder[l], me, NULL}, SynchAssumption
  PROVE  GoneHoldNothing'
<1> SUFFICES ASSUME NEW t \in Thread, Gone(status'[t])
             PROVE  stack'[t] = <<>> /\ \A l \in Lock : holder'[l] # t
  BY DEF GoneHoldNothing
<1>1. Gone(status[t]) /\ t # me /\ t # NULL
  BY SynchAssumption DEF Calm, Gone
<1> QED
  BY <1>1 DEF GoneHoldNothing, Others

LEMMA Ordinary ==
  ASSUME ChildrenWait, GoneHoldNothing, LocksOK, SynchAssumption,
         Calm, NEW me, GoesOn(me),
         UNCHANGED <<holder, lock_list>>, \A l \in Lock : value'[l] = value[l]
  PROVE  ChildrenWait' /\ GoneHoldNothing' /\ LocksOK'
<1>1. ChildrenWait'
  BY ChildrenKept DEF GoesOn
<1>2. GoneHoldNothing'
  BY GoneKept DEF GoesOn
<1>3. \A t \in Thread : KeepsRole(Frame(t), Frame(t)')
  BY FramesKept DEF GoesOn, KeepsRole
<1>4. LocksOK'
  BY <1>3, LocksKept
<1> QED
  BY <1>1, <1>2, <1>4

-----------------------------------------------------------------------------
(* The wait lists.                                                         *)
Asleep(t, s) ==
  status[t] = "BLOCKED" /\ Frame(t).pc \in {"acq_wake", "down_wake"} /\ Frame(t).obj = s

LEMMA WaitListsKept ==
  ASSUME WaitListsExact, UNCHANGED waiters,
         \A t \in Thread, s \in AnySema : Asleep(t, s)' <=> Asleep(t, s)
  PROVE  WaitListsExact'
BY DEF WaitListsExact, Asleep, Waiting

(* No thread falls asleep or is woken by a step of me.                     *)
LEMMA NobodyStirs ==
  ASSUME WaitListsExact, UNCHANGED waiters, NEW me, Others(me),
         \A t \in Thread : t # me => KeepsClass(status[t], status'[t]),
         status[me] = "RUNNING", me \in Thread => status'[me] # "BLOCKED"
  PROVE  WaitListsExact'
<1>1. ASSUME NEW t \in Thread, NEW s \in AnySema PROVE Asleep(t, s)' <=> Asleep(t, s)
  <2>1. CASE t = me
    BY <2>1 DEF Asleep
  <2>2. CASE t # me
    BY <2>2, FramesKept DEF Asleep, KeepsClass, Live
  <2> QED
    BY <2>1, <2>2
<1> QED
  BY <1>1, WaitListsKept

(* sema_down: the thread me queues itself.                                 *)
LEMMA QueuedLast ==
  ASSUME NEW S, NEW q \in Seq(S), NEW e \in S, IsInjective(q), \A i \in DOMAIN q : q[i] # e
  PROVE  /\ Append(q, e) \in Seq(S) /\ IsInjective(Append(q, e))
         /\ \A x \in S : (\E i \in DOMAIN Append(q, e) : Append(q, e)[i] = x)
                     <=> (x = e \/ \E i \in DOMAIN q : q[i] = x)
<1> DEFINE r == Append(q, e)
<1>1. Len(q) \in Nat /\ DOMAIN q = 1 .. Len(q)
  BY LenProperties
<1>2. /\ r \in Seq(S) /\ DOMAIN r = 1 .. Len(q) + 1
      /\ \A i \in 1 .. Len(q) : r[i] = q[i]
      /\ r[Len(q) + 1] = e
  BY <1>1, AppendProperties, LenProperties
<1> HIDE DEF r
<1>3. IsInjective(r)
  <2> SUFFICES ASSUME NEW i \in 1 .. Len(q) + 1, NEW j \in 1 .. Len(q) + 1, r[i] = r[j]
               PROVE  i = j
    BY <1>2 DEF IsInjective
  <2>1. CASE i \in 1 .. Len(q) /\ j \in 1 .. Len(q)
    BY <1>1, <1>2, <2>1 DEF IsInjective
  <2>2. CASE i = Len(q) + 1 \/ j = Len(q) + 1
    BY <1>1, <1>2, <2>2
  <2> QED
    BY <1>1, <2>1, <2>2
<1>4. ASSUME NEW x \in S
      PROVE  (\E i \in DOMAIN r : r[i] = x) <=> (x = e \/ \E i \in DOMAIN q : q[i] = x)
  <2>1. ASSUME NEW i \in DOMAIN q, q[i] = x PROVE i \in DOMAIN r /\ r[i] = x
    BY <1>1, <1>2, <2>1
  <2>2. Len(q) + 1 \in DOMAIN r
    BY <1>1, <1>2
  <2>3. ASSUME NEW i \in DOMAIN r, r[i] = x PROVE x = e \/ \E j \in DOMAIN q : q[j] = x
    BY <1>1, <1>2, <2>3
  <2> QED
    BY <1>2, <2>1, <2>2, <2>3
<1> QED
  BY <1>2, <1>3, <1>4 DEF r

LEMMA FallsAsleep ==
  ASSUME SchedOK, waiters \in [AnySema -> Seq(Thread)], WaitListsExact, ThreadsAssumption,
         NEW me \in Thread, current = me, NEW s \in AnySema, Waits(s),
         UNCHANGED <<priority, panicked>>, Others(me),
         Frame(me)'.pc \in {"acq_wake", "down_wake"}, Frame(me)'.obj = s
  PROVE  /\ SchedOK' /\ WaitListsExact' /\ Calm /\ value' = value
         /\ waiters' \in [AnySema -> Seq(Thread)] /\ waiters'[s] # <<>>
<1> DEFINE q == waiters[s]
           r == Append(q, me)
<1>1. status[me] = "RUNNING" /\ q \in Seq(Thread)
  BY DEF SchedOK, ReadyListExact
<1>2. \A z \in AnySema : ~Waiting(me, z)
  BY <1>1 DEF WaitListsExact
<1>3. /\ SchedOK' /\ status'[me] = "BLOCKED"
      /\ \A t \in Thread : t # me => KeepsClass(status[t], status'[t])
  BY LeaveExact DEF Waits, thread_block
<1>4. waiters' = [waiters EXCEPT ![s] = r] /\ value' = value
  BY DEF Waits
<1>5. /\ r \in Seq(Thread) /\ IsInjective(r) /\ r # <<>>
      /\ \A t \in Thread : (\E i \in DOMAIN r : r[i] = t) <=> (t = me \/ \E i \in DOMAIN q : q[i] = t)
  <2>1. IsInjective(q) /\ \A i \in DOMAIN q : q[i] # me
    BY <1>2 DEF WaitListsExact, Waiting
  <2> QED
    BY <1>1, <2>1, QueuedLast, AppendProperties
<1> HIDE DEF q, r
<1>6. /\ waiters' \in [AnySema -> Seq(Thread)] /\ waiters'[s] = r
      /\ \A z \in AnySema : z # s => waiters'[z] = waiters[z]
  BY <1>4, <1>5
<1>7. \A z \in AnySema : IsInjective(waiters'[z])
  BY <1>5, <1>6 DEF WaitListsExact
<1>8. ASSUME NEW t \in Thread, NEW z \in AnySema
      PROVE  Waiting(t, z)' <=> Asleep(t, z)'
  <2>1. CASE t = me
    <3>1. Asleep(me, z)' <=> z = s
      BY <1>3 DEF Asleep
    <3>2. Waiting(me, z)' <=> z = s
      BY <1>2, <1>5, <1>6 DEF Waiting
    <3> QED
      BY <2>1, <3>1, <3>2
  <2>2. CASE t # me
    <3>1. Asleep(t, z)' <=> Asleep(t, z)
      BY <1>3, <2>2, FramesKept DEF Asleep, KeepsClass, Live
    <3>2. Waiting(t, z)' <=> Waiting(t, z)
      <4>1. CASE z = s
        <5>1. Waiting(t, s)' <=> \E i \in DOMAIN r : r[i] = t
          BY <1>6 DEF Waiting
        <5>2. Waiting(t, s) <=> \E i \in DOMAIN q : q[i] = t
          BY DEF Waiting, q
        <5> QED
          BY <1>5, <2>2, <4>1, <5>1, <5>2
      <4>2. CASE z # s
        BY <1>6, <4>2 DEF Waiting
      <4> QED
        BY <4>1, <4>2
    <3> QED
      BY <3>1, <3>2 DEF WaitListsExact, Asleep
  <2> QED
    BY <2>1, <2>2
<1>9. WaitListsExact'
  BY <1>7, <1>8 DEF WaitListsExact, Asleep
<1>10. Calm
  BY <1>1, <1>3 DEF Calm, Gone, KeepsClass, Live
<1> QED
  BY <1>3, <1>4, <1>5, <1>6, <1>9, <1>10

(* sema_up: the waiters in order, and the best of them taken off.          *)
LEMMA SortedIs ==
  ASSUME NEW q \in Seq(Thread), q # <<>>, IsInjective(q), NEW f \in StableOrders(q),
         priority \in [AnyThread -> Priority]
  PROVE  LET r == list_sort(q, f)
         IN  /\ Tail(r) \in Seq(Thread) /\ IsInjective(Tail(r))
             /\ Head(r) \in Thread /\ \E i \in DOMAIN q : q[i] = Head(r)
             /\ \A t \in Thread : (\E i \in DOMAIN Tail(r) : Tail(r)[i] = t)
                                    <=> (t # Head(r) /\ \E i \in DOMAIN q : q[i] = t)
             /\ \A i \in DOMAIN q : priority[q[i]] <= priority[Head(r)]
<1> DEFINE n == Len(q)
           r == list_sort(q, f)
<1>1. /\ n \in Nat \ {0} /\ DOMAIN q = 1 .. n /\ \A i \in 1 .. n : q[i] \in Thread
  BY LenProperties, EmptySeq
<1> HIDE DEF n
<1>2. /\ f \in [1 .. n -> 1 .. n]
      /\ \A i, j \in 1 .. n : f[i] = f[j] => i = j
      /\ \A j \in 1 .. n : \E i \in 1 .. n : f[i] = j
  <2>1. f \in Bijection(DOMAIN q, DOMAIN q)
    BY DEF StableOrders
  <2> QED
    BY <1>1, <2>1 DEF Bijection, Injection, Surjection, IsInjective
<1>3. r = [i \in 1 .. n |-> q[f[i]]]
  BY <1>1 DEF list_sort
<1>4. /\ r \in Seq(Thread) /\ Len(r) = n /\ \A i \in 1 .. n : r[i] = q[f[i]]
  <2>1. r \in [1 .. n -> Thread]
    BY <1>1, <1>2, <1>3
  <2> QED
    BY <1>1, <1>3, <2>1
<1> HIDE DEF r
<1>5. ASSUME NEW i \in 1 .. n, NEW j \in 1 .. n, r[i] = r[j] PROVE i = j
  <2>1. f[i] \in DOMAIN q /\ f[j] \in DOMAIN q /\ q[f[i]] = q[f[j]]
    BY <1>1, <1>2, <1>4, <1>5
  <2>2. f[i] = f[j]
    BY <2>1 DEF IsInjective
  <2> QED
    BY <1>2, <2>2
<1>6. \A t \in Thread : (\E i \in 1 .. n : r[i] = t) <=> (\E i \in 1 .. n : q[i] = t)
  <2> TAKE t \in Thread
  <2>1. ASSUME NEW i \in 1 .. n, r[i] = t PROVE f[i] \in 1 .. n /\ q[f[i]] = t
    BY <1>2, <1>4, <2>1
  <2>2. ASSUME NEW j \in 1 .. n, q[j] = t PROVE \E i \in 1 .. n : r[i] = t
    <3>1. PICK i \in 1 .. n : f[i] = j
      BY <1>2
    <3> QED
      BY <1>4, <2>2, <3>1
  <2> QED
    BY <2>1, <2>2
<1>7. /\ r # <<>> /\ Head(r) = r[1] /\ Tail(r) \in Seq(Thread) /\ Len(Tail(r)) = n - 1
      /\ \A i \in 1 .. n - 1 : Tail(r)[i] = r[i + 1]
      /\ DOMAIN Tail(r) = 1 .. n - 1
  <2>1. r # <<>>
    BY <1>1, <1>4, EmptySeq
  <2>2. Head(r) = r[1]
    BY <1>4
  <2> QED
    BY <1>4, <2>1, <2>2, HeadTailProperties, LenProperties
<1>8. IsInjective(Tail(r))
  <2> SUFFICES ASSUME NEW i \in 1 .. n - 1, NEW j \in 1 .. n - 1, Tail(r)[i] = Tail(r)[j]
               PROVE  i = j
    BY <1>7 DEF IsInjective
  <2>1. i + 1 \in 1 .. n /\ j + 1 \in 1 .. n /\ r[i + 1] = r[j + 1]
    BY <1>1, <1>7
  <2>2. i + 1 = j + 1
    BY <1>5, <2>1
  <2> QED
    BY <2>2
<1>9. Head(r) \in Thread /\ \E i \in DOMAIN q : q[i] = Head(r)
  <2>1. 1 \in 1 .. n /\ f[1] \in 1 .. n /\ Head(r) = q[f[1]]
    BY <1>1, <1>2, <1>4, <1>7
  <2> QED
    BY <1>1, <2>1
<1>10. ASSUME NEW t \in Thread
       PROVE  (\E i \in DOMAIN Tail(r) : Tail(r)[i] = t) <=> (t # Head(r) /\ \E i \in DOMAIN q : q[i] = t)
  <2>1. ASSUME NEW i \in 1 .. n - 1, Tail(r)[i] = t
        PROVE  t # Head(r) /\ \E j \in 1 .. n : q[j] = t
    <3>1. i + 1 \in 1 .. n /\ 1 \in 1 .. n /\ i + 1 # 1 /\ r[i + 1] = t
      BY <1>1, <1>7, <2>1
    <3>2. t # r[1]
      BY <1>5, <3>1
    <3> QED
      BY <1>6, <1>7, <3>1, <3>2
  <2>2. ASSUME t # Head(r), NEW j \in 1 .. n, q[j] = t
        PROVE  \E i \in 1 .. n - 1 : Tail(r)[i] = t
    <3>1. PICK i \in 1 .. n : r[i] = t
      BY <1>6, <2>2
    <3>2. i # 1
      BY <1>7, <2>2, <3>1
    <3>3. i - 1 \in 1 .. n - 1 /\ (i - 1) + 1 = i
      BY <1>1, <3>2
    <3>4. Tail(r)[i - 1] = t
      BY <1>7, <3>1, <3>3
    <3> QED
      BY <3>3, <3>4
  <2> QED
    BY <1>1, <1>7, <2>1, <2>2
<1>11. ASSUME NEW i \in DOMAIN q PROVE priority[q[i]] <= priority[Head(r)]
  <2>1. PICK j \in 1 .. n : f[j] = i
    BY <1>1, <1>2
  <2>2. /\ 1 \in 1 .. n /\ f[1] \in 1 .. n /\ Head(r) = q[f[1]] /\ q[i] \in Thread /\ q[f[1]] \in Thread
        /\ priority[q[i]] \in Int /\ priority[q[f[1]]] \in Int
    BY <1>1, <1>2, <1>4, <1>7 DEF AnyThread, Priority
  <2>3. CASE j = 1
    BY <2>1, <2>2, <2>3
  <2>4. CASE j # 1
    <3>1. 1 < j
      BY <2>1, <2>4
    <3>2. \/ priority[q[f[1]]] > priority[q[f[j]]]
          \/ (priority[q[f[1]]] = priority[q[f[j]]] /\ f[1] < f[j])
      BY <1>1, <2>2, <3>1 DEF StableOrders
    <3> QED
      BY <2>1, <2>2, <3>2
  <2> QED
    BY <2>3, <2>4
<1>12. /\ Tail(r) \in Seq(Thread) /\ IsInjective(Tail(r))
       /\ Head(r) \in Thread /\ \E i \in DOMAIN q : q[i] = Head(r)
       /\ \A t \in Thread : (\E i \in DOMAIN Tail(r) : Tail(r)[i] = t)
                              <=> (t # Head(r) /\ \E i \in DOMAIN q : q[i] = t)
       /\ \A i \in DOMAIN q : priority[q[i]] <= priority[Head(r)]
  BY <1>7, <1>8, <1>9, <1>10, <1>11
<1> QED
  BY <1>12 DEF r

(* What sema_up does when there are waiters: it takes the best, w, off the *)
(* list of s and makes it ready.                                           *)
Wakes(s, w) ==
  /\ Waiting(w, s) /\ Live(status'[w])
  /\ \A t \in Thread : t # w => KeepsClass(status[t], status'[t])
  /\ waiters' \in [AnySema -> Seq(Thread)]
  /\ \A z \in AnySema : IsInjective(waiters'[z])
  /\ \A z \in AnySema : z # s => waiters'[z] = waiters[z]
  /\ \A t \in Thread : Waiting(t, s)' <=> (Waiting(t, s) /\ t # w)
  /\ \A t \in Thread : Waiting(t, s) => priority[t] <= priority[w]

LEMMA SemaUpIs ==
  ASSUME SchedOK, waiters \in [AnySema -> Seq(Thread)], WaitListsExact, ThreadsAssumption,
         NEW s \in AnySema, NEW intr \in BOOLEAN, sema_up(s, intr), UNCHANGED priority
  PROVE  /\ SchedOK' /\ value' = [value EXCEPT ![s] = @ + 1]
         /\ \/ waiters[s] = <<>> /\ UNCHANGED <<schedVars, panicked, waiters>>
            \/ \E w \in Thread : Wakes(s, w)
<1>0. value' = [value EXCEPT ![s] = @ + 1]
  BY DEF sema_up
<1>1. CASE waiters[s] = <<>>
  <2>1. UNCHANGED <<schedVars, panicked, waiters>>
    BY <1>1 DEF sema_up
  <2>2. SchedOK'
    BY <2>1 DEF SchedOK, schedVars, ThreadsTypeOK, ReadyListExact
  <2> QED
    BY <1>0, <1>1, <2>1, <2>2
<1>2. CASE waiters[s] # <<>>
  <2> DEFINE q == waiters[s]
  <2>1. PICK f \in StableOrders(q) :
          /\ waiters' = [waiters EXCEPT ![s] = Tail(list_sort(q, f))]
          /\ Wake(Head(list_sort(q, f)), intr)
    BY <1>2 DEF sema_up
  <2> DEFINE r == list_sort(q, f)
             w == Head(r)
             rest == Tail(r)
  <2>2. q \in Seq(Thread) /\ q # <<>> /\ IsInjective(q) /\ priority \in [AnyThread -> Priority]
    BY <1>2 DEF WaitListsExact, SchedOK, ThreadsTypeOK, AnyThread
  <2>3. /\ rest \in Seq(Thread) /\ IsInjective(rest)
        /\ w \in Thread /\ \E i \in DOMAIN q : q[i] = w
        /\ \A t \in Thread : (\E i \in DOMAIN rest : rest[i] = t)
                               <=> (t # w /\ \E i \in DOMAIN q : q[i] = t)
        /\ \A i \in DOMAIN q : priority[q[i]] <= priority[w]
    BY <2>2, SortedIs
  <2>4. waiters' = [waiters EXCEPT ![s] = rest] /\ Wake(w, intr)
    BY <2>1
  <2>5. \A t \in Thread : Waiting(t, s) <=> \E i \in DOMAIN q : q[i] = t
    BY DEF Waiting
  <2> HIDE DEF q, r, w, rest
  <2>6. status[w] = "BLOCKED" /\ Waiting(w, s)
    BY <2>3, <2>5 DEF WaitListsExact
  <2>7. /\ SchedOK' /\ Live(status'[w])
        /\ \A t \in Thread : t # w => KeepsClass(status[t], status'[t])
    <3>1. CASE thread_unblock_in_interrupt(w)
      BY <2>3, <2>6, <3>1, InterruptUnblockExact
    <3>2. CASE thread_unblock(w) /\ UNCHANGED panicked
      BY <2>3, <2>6, <3>2, UnblockExact
    <3> QED
      BY <2>4, <3>1, <3>2 DEF Wake
  <2>8. /\ waiters' \in [AnySema -> Seq(Thread)] /\ waiters'[s] = rest
        /\ \A z \in AnySema : z # s => waiters'[z] = waiters[z]
    BY <2>3, <2>4
  <2>9. \A z \in AnySema : IsInjective(waiters'[z])
    BY <2>3, <2>8 DEF WaitListsExact
  <2>10. \A t \in Thread : Waiting(t, s)' <=> (Waiting(t, s) /\ t # w)
    <3>1. \A t \in Thread : Waiting(t, s)' <=> \E i \in DOMAIN rest : rest[i] = t
      BY <2>8 DEF Waiting
    <3> QED
      BY <2>3, <2>5, <3>1
  <2>11. \A t \in Thread : Waiting(t, s) => priority[t] <= priority[w]
    BY <2>3, <2>5
  <2>12. Wakes(s, w)
    BY <2>6, <2>7, <2>8, <2>9, <2>10, <2>11 DEF Wakes
  <2> QED
    BY <1>0, <2>3, <2>7, <2>12
<1> QED
  BY <1>1, <1>2

LEMMA WokenListsExact ==
  ASSUME WaitListsExact, NEW me, Others(me), status[me] = "RUNNING",
         NEW s \in AnySema, NEW w \in Thread, Wakes(s, w)
  PROVE  WaitListsExact' /\ Calm
<1>1. status[w] = "BLOCKED" /\ Asleep(w, s) /\ Frame(w).pc \in {"acq_wake", "down_wake"} /\ w # me
  BY DEF WaitListsExact, Wakes, Asleep
<1>2. stack[w] # <<>>
  BY <1>1 DEF Frame
<1>3. Calm
  BY <1>1, <1>2 DEF Calm, Wakes, KeepsClass, Live, Gone
<1>4. ASSUME NEW t \in Thread, NEW z \in AnySema PROVE Waiting(t, z)' <=> Asleep(t, z)'
  <2>1. Waiting(t, z) <=> Asleep(t, z)
    BY DEF WaitListsExact, Asleep
  <2>2. CASE t = w
    <3>1. ~Asleep(w, z)'
      BY DEF Asleep, Wakes, Live
    <3>2. z # s => ~Asleep(w, z)
      BY <1>1 DEF Asleep
    <3>3. ~Waiting(w, z)'
      <4>1. CASE z = s
        BY <4>1 DEF Wakes
      <4>2. CASE z # s
        BY <2>1, <2>2, <3>2, <4>2 DEF Wakes, Waiting
      <4> QED
        BY <4>1, <4>2
    <3> QED
      BY <2>2, <3>1, <3>3
  <2>3. CASE t # w
    <3>1. Waiting(t, z)' <=> Waiting(t, z)
      <4>1. CASE z = s
        BY <2>3, <4>1 DEF Wakes
      <4>2. CASE z # s
        BY <4>2 DEF Wakes, Waiting
      <4> QED
        BY <4>1, <4>2
    <3>2. CASE t = me
      BY <2>1, <2>3, <3>1, <3>2 DEF Asleep, Wakes, KeepsClass, Live
    <3>3. CASE t # me
      <4>1. Frame(t)' = Frame(t)
        BY <3>3, FramesKept
      <4> QED
        BY <2>1, <2>3, <3>1, <4>1 DEF Asleep, Wakes, KeepsClass, Live
    <3> QED
      BY <3>2, <3>3
  <2> QED
    BY <2>2, <2>3
<1>5. WaitListsExact'
  BY <1>4 DEF WaitListsExact, Asleep, Wakes
<1> QED
  BY <1>3, <1>5

-----------------------------------------------------------------------------
(* The greatest of some priorities is a priority.                          *)
LEMMA MaxOfPriorities ==
  ASSUME NEW S, S \subseteq Priority, S # {}, ThreadsAssumption
  PROVE  Max(S) \in S /\ Max(S) \in Priority /\ \A x \in S : x <= Max(S)
<1> DEFINE D == {MaxPriority - x : x \in S}
<1>1. MaxPriority \in Nat /\ \A x \in S : x \in Nat /\ x <= MaxPriority
  BY DEF Priority, ThreadsAssumption
<1>2. D \subseteq Nat /\ D # {}
  BY <1>1
<1>3. Min(D) \in D /\ \A d \in D : Min(D) <= d
  BY <1>2, MinOfNats
<1>4. PICK m \in S : Min(D) = MaxPriority - m
  BY <1>3
<1>5. \A y \in S : m >= y
  <2> TAKE y \in S
  <2>1. MaxPriority - y \in D
    OBVIOUS
  <2>2. MaxPriority - m <= MaxPriority - y
    BY <1>3, <1>4, <2>1
  <2> QED
    BY <1>1, <2>2
<1>6. Max(S) \in S /\ \A x \in S : Max(S) >= x
  BY <1>4, <1>5 DEF Max
<1> QED
  BY <1>1, <1>6

(* What a donor passes on: its amount, or what it read if that was more.   *)
LEMMA MaxOfTwo ==
  ASSUME NEW a \in Priority, NEW b \in Priority \cup {-1}, ThreadsAssumption
  PROVE  Max({a, b}) \in Priority
<1>1. CASE b \in Priority
  <2>1. {a, b} \subseteq Priority /\ {a, b} # {}
    BY <1>1
  <2> QED
    BY <2>1, MaxOfPriorities
<1>2. CASE b = -1
  <2>1. a \in {a, b} /\ \A y \in {a, b} : a >= y
    BY <1>2 DEF Priority
  <2>2. \A x \in {a, b} : (\A y \in {a, b} : x >= y) => x = a
    BY <1>2 DEF Priority
  <2> QED
    BY <2>1, <2>2 DEF Max
<1> QED
  BY <1>1, <1>2

-----------------------------------------------------------------------------
(* How a step of the thread me changes its stack.                          *)

LEMMA FrameIs ==
  ASSUME ThreadsAssumption, NEW t \in Thread
  PROVE  /\ stack[t] = <<>> => Frame(t) = [pc |-> "client"] /\ Frame(t).pc = "client"
         /\ stack[t] # <<>> => Frame(t) = Head(stack[t])
         /\ stack'[t] = <<>> => Frame(t)' = [pc |-> "client"] /\ Frame(t)'.pc = "client"
         /\ stack'[t] # <<>> => Frame(t)' = Head(stack'[t])
BY DEF Frame, ThreadsAssumption

LEMMA PushedMakes ==
  ASSUME NEW g, NEW k \in Callers, NEW c \in Thread
  PROVE  Makes(<<g>> \o k, c) <=> \/ (g.pc = "create" /\ g.child = c)
                                  \/ k = Made(c) \/ k = Numbered(c)
BY Pushed DEF Makes

LEMMA NothingMade ==
  ASSUME NEW c \in Thread
  PROVE  <<>> # Made(c) /\ <<>> # Numbered(c) /\ ~Makes(<<>>, c)
BY CallersAre DEF Makes

LEMMA MadeMakes ==
  ASSUME NEW d \in Thread, NEW c \in Thread
  PROVE  /\ Made(d) = Made(c) => d = c
         /\ Numbered(d) = Numbered(c) => d = c
         /\ Made(d) # Numbered(c)
         /\ Makes(Made(d), c) => d = c
         /\ Makes(Numbered(d), c) => d = c
<1>1. Made(d) = Made(c) => d = c
  BY CallersAre
<1>2. Numbered(d) = Numbered(c) => d = c
  BY CallersAre
<1>3. Made(d) # Numbered(c)
  BY CallersAre
<1>4. Makes(Made(d), c) => d = c
  <2>1. Head(Made(d)) = Creating(d) /\ Tail(Made(d)) = <<>>
    BY CallersAre
  <2>2. Creating(d).child = d
    BY DEF Creating
  <2>3. <<>> # Made(c) /\ <<>> # Numbered(c)
    BY NothingMade
  <2> QED
    BY <2>1, <2>2, <2>3 DEF Makes
<1>5. Makes(Numbered(d), c) => d = c
  <2>1. Head(Numbered(d)).pc = "tid" /\ Tail(Numbered(d)) = Made(d)
    BY CallersAre DEF At
  <2> QED
    BY <1>1, <1>3, <2>1 DEF Makes
<1> QED
  BY <1>1, <1>2, <1>3, <1>4, <1>5

(* It calls g, or goes on at g in the call it is in.                       *)
LEMMA Enters ==
  ASSUME StacksOK, ThreadsAssumption, NEW me \in Thread, current = me, NEW g, NEW k \in Callers,
         FrameOK(g, k), g.pc # "create", Enter(g, k),
         \/ k = <<>> \/ (stack[me] # <<>> /\ k = Tail(stack[me]))
         \/ \E z \in Sema : k = Parked(z)
  PROVE  /\ StacksOK' /\ Others(me) /\ Frame(me)' = g /\ stack'[me] # <<>> /\ Tail(stack'[me]) = k
         /\ \A c \in Thread : Makes(stack'[me], c) => Makes(stack[me], c)
<1> DEFINE s == <<g>> \o k
<1>1. StackOK(s) /\ s # <<>> /\ Head(s) = g /\ Tail(s) = k
  BY PushedOK, Pushed
<1>2. Sets(s)
  BY EnterIs
<1>3. \A c \in Thread : Makes(s, c) => k = Made(c) \/ k = Numbered(c)
  BY PushedMakes
<1> HIDE DEF s
<1>4. StacksOK' /\ stack'[me] = s /\ Others(me)
  BY <1>1, <1>2, StackStep DEF Others
<1>5. Frame(me)' = g
  BY <1>1, <1>4, FrameIs
<1>6. ASSUME NEW c \in Thread, Makes(s, c) PROVE Makes(stack[me], c)
  <2>1. k = Made(c) \/ k = Numbered(c)
    BY <1>3, <1>6
  <2>2. k # <<>> /\ \A z \in Sema : k # Parked(z)
    BY <2>1, NothingMade, CondCallersAre
  <2> QED
    BY <2>1, <2>2 DEF Makes
<1> QED
  BY <1>1, <1>4, <1>5, <1>6

(* It returns from the innermost call.                                     *)
LEMMA Returns ==
  ASSUME StacksOK, ThreadsAssumption, SynchAssumption, NEW me \in Thread, current = me,
         stack[me] # <<>>, Return
  PROVE  /\ StacksOK' /\ Others(me) /\ stack'[me] = Tail(stack[me])
         /\ \A c \in Thread : Makes(stack'[me], c) => Makes(stack[me], c)
         /\ Tail(stack[me]) = <<>> => Frame(me)'.pc = "client"
         /\ \A c \in Thread : Tail(stack[me]) = Made(c) => Frame(me)' = Creating(c)
         /\ \A c \in Thread : Tail(stack[me]) = Numbered(c) => Frame(me)' = At("tid", TidLock)
         /\ Tail(stack[me]) = Again => Frame(me)' = At("cond_acq", MonitorLock)
         /\ \A z \in Sema : Tail(stack[me]) = Parked(z) => Frame(me)' = At("cond_down", z)
<1> DEFINE s == Tail(stack[me])
<1>1. StackOK(stack[me])
  BY DEF StacksOK
<1>2. /\ StackOK(s)
      /\ \/ s = <<>> \/ s = Again
         \/ (\E c \in Thread : s = Made(c)) \/ (\E c \in Thread : s = Numbered(c))
         \/ \E z \in Sema : s = Parked(z)
  BY <1>1, ReturnedOK
<1>3. Sets(s)
  BY ReturnIs
<1> HIDE DEF s
<1>4. StacksOK' /\ stack'[me] = s /\ Others(me)
  BY <1>2, <1>3, StackStep DEF Others
<1>5. s = <<>> => Frame(me)'.pc = "client"
  BY <1>4, FrameIs
<1>6. ASSUME NEW c \in Thread, s = Made(c) PROVE Frame(me)' = Creating(c)
  BY <1>4, <1>6, FrameIs, CallersAre
<1>7. ASSUME NEW c \in Thread, s = Numbered(c) PROVE Frame(me)' = At("tid", TidLock)
  BY <1>4, <1>7, FrameIs, CallersAre
<1>8. ASSUME NEW c \in Thread, Makes(s, c) PROVE Makes(stack[me], c)
  <2>1. CASE s = <<>>
    BY <1>8, <2>1, NothingMade
  <2>2. ASSUME NEW d \in Thread, s = Made(d) \/ s = Numbered(d) PROVE Makes(stack[me], c)
    <3>1. d = c
      BY <1>8, <2>2, MadeMakes
    <3> QED
      BY <2>2, <3>1 DEF Makes, s
  <2>3. ASSUME NEW z \in Sema, s = Parked(z) PROVE FALSE
    <3>1. At("cond_down", z).pc = "cond_down"
      BY DEF At
    <3> QED
      BY <1>8, <2>3, <3>1, CondCallersAre, NothingMade DEF Makes
  <2>4. ASSUME s = Again PROVE FALSE
    <3>1. At("cond_acq", MonitorLock).pc = "cond_acq"
      BY DEF At
    <3> QED
      BY <1>8, <2>4, <3>1, CondCallersAre, NothingMade DEF Makes
  <2> QED
    BY <1>2, <2>1, <2>2, <2>3, <2>4
<1>9. s = Again => Frame(me)' = At("cond_acq", MonitorLock)
  BY <1>4, FrameIs, CondCallersAre
<1>10. ASSUME NEW z \in Sema, s = Parked(z) PROVE Frame(me)' = At("cond_down", z)
  BY <1>4, <1>10, FrameIs, CondCallersAre
<1> QED
  BY <1>4, <1>5, <1>6, <1>7, <1>8, <1>9, <1>10 DEF s

(* A step that leaves locks, wait lists and the other threads alone.       *)
LEMMA PrivateStep ==
  ASSUME SynchInv, SynchAssumption, NEW me, GoesOn(me), SchedOK', DataOK', StacksOK',
         \A t \in Thread : KeepsClass(status[t], status'[t]),
         UNCHANGED <<waiters, holder, lock_list>>, \A l \in Lock : value'[l] = value[l]
  PROVE  SynchInv'
<1>1. Calm
  BY DEF Calm, KeepsClass, Live, Gone
<1>2. ChildrenWait' /\ GoneHoldNothing' /\ LocksOK'
  BY <1>1, Ordinary DEF SynchInv
<1>3. WaitListsExact'
  <2>1. Others(me) /\ status[me] = "RUNNING" /\ (me \in Thread => status'[me] # "BLOCKED")
    BY DEF GoesOn, KeepsClass, Live
  <2> QED
    BY <2>1, NobodyStirs DEF SynchInv
<1> QED
  BY <1>2, <1>3 DEF SynchInv

LEMMA SchedSame ==
  ASSUME SchedOK, UNCHANGED schedVars, priority' \in [AnyThread -> Priority], panicked' \in BOOLEAN
  PROVE  SchedOK' /\ \A t \in Thread : KeepsClass(status[t], status'[t])
BY DEF SchedOK, schedVars, ThreadsTypeOK, ReadyListExact, KeepsClass, AnyThread

LEMMA StackSame ==
  ASSUME StacksOK, UNCHANGED stack, NEW me, status[me] = "RUNNING"
  PROVE  StacksOK' /\ Others(me) /\ GoesOn(me) /\ \A t \in Thread : Frame(t)' = Frame(t)
BY DEF StacksOK, Others, GoesOn, KeepsRole, Frame

(* What the clients use are locks, and the priorities they set are some.   *)
LEMMA ClientOK ==
  ASSUME DataOK, SynchAssumption
  PROVE  client.locks \subseteq Lock /\ client.levels \subseteq Priority
BY DEF DataOK, SynchAssumption

LEMMA SchedTypes ==
  ASSUME SchedOK
  PROVE  /\ priority \in [AnyThread -> Priority] /\ panicked \in BOOLEAN
         /\ current \in AnyThread /\ status[current] = "RUNNING"
BY DEF SchedOK, ThreadsTypeOK, ReadyListExact, AnyThread

-----------------------------------------------------------------------------
(* lock_acquire, up to its sema_down.                                      *)
LEMMA AcquireInv ==
  ASSUME SynchInv, ThreadsAssumption, SynchAssumption, NEW me \in Thread, current = me,
         NEW l \in Lock, NEW k \in Callers, acquire(l, k), Neutral(Frame(me).pc),
         \/ k = <<>>
         \/ (stack[me] # <<>> /\ k = Tail(stack[me]) /\ l = TidLock /\ \E c \in Thread : k = Numbered(c)),
         UNCHANGED <<threadVars, original_priority, waiting_priority, lock_list, value, waiters, holder, client>>
  PROVE  SynchInv'
<1>1. SchedOK /\ DataOK /\ StacksOK
  BY DEF SynchInv
<1>2. SchedOK' /\ \A t \in Thread : KeepsClass(status[t], status'[t])
  BY <1>1, SchedSame, SchedTypes DEF threadVars
<1>3. status[me] = "RUNNING" /\ priority[me] \in Priority
  BY <1>1, SchedTypes DEF AnyThread
<1>4. k = <<>> \/ (stack[me] # <<>> /\ k = Tail(stack[me]))
  OBVIOUS
<1>5. CASE holder[l] = NULL
  <2> DEFINE g == At("acq_down", l)
  <2>1. Enter(g, k) /\ UNCHANGED blocker_thread
    BY <1>5 DEF acquire
  <2>2. FrameOK(g, k) /\ g.pc # "create" /\ Neutral(g.pc)
    BY DEF FrameOK, At, Acquiring, Releasing, PrioritySetting, Neutral
  <2> HIDE DEF g
  <2>3. /\ StacksOK' /\ Others(me) /\ Frame(me)' = g
        /\ \A c \in Thread : Makes(stack'[me], c) => Makes(stack[me], c)
    BY <1>1, <1>4, <2>1, <2>2, Enters
  <2>4. GoesOn(me)
    BY <1>3, <2>2, <2>3 DEF GoesOn, KeepsRole
  <2>5. DataOK'
    BY <1>1, <2>1 DEF DataOK
  <2> QED
    BY <1>2, <2>3, <2>4, <2>5, PrivateStep
<1>6. CASE holder[l] # NULL
  <2> DEFINE g == Donating(l, holder[l], priority[me])
  <2>1. Enter(g, k) /\ blocker_thread' = [blocker_thread EXCEPT ![me] = holder[l]]
    BY <1>6 DEF acquire
  <2>2. holder[l] \in Thread
    BY <1>1, <1>6 DEF DataOK
  <2>3. FrameOK(g, k) /\ g.pc # "create" /\ Neutral(g.pc)
    BY <1>3, <2>2 DEF FrameOK, Donating, Acquiring, Releasing, PrioritySetting, Neutral
  <2> HIDE DEF g
  <2>4. /\ StacksOK' /\ Others(me) /\ Frame(me)' = g
        /\ \A c \in Thread : Makes(stack'[me], c) => Makes(stack[me], c)
    BY <1>1, <1>4, <2>1, <2>3, Enters
  <2>5. GoesOn(me)
    BY <1>3, <2>3, <2>4 DEF GoesOn, KeepsRole
  <2>6. DataOK'
    BY <1>1, <2>1, <2>2 DEF DataOK
  <2> QED
    BY <1>2, <2>4, <2>5, <2>6, PrivateStep
<1> QED
  BY <1>5, <1>6

LEMMA LockAcquireInv ==
  ASSUME SynchInv, ThreadsAssumption, SynchAssumption, LockAcquire, UNCHANGED client
  PROVE  SynchInv'
<1>1. SchedOK /\ DataOK /\ StacksOK
  BY DEF SynchInv
<1>2. In("client")
  BY DEF LockAcquire
<1>3. PICK me \in Thread : current = me /\ stack[me] = <<>>
  BY <1>1, <1>2, InIs
<1>4. PICK l \in Lock : acquire(l, stack[current])
  BY <1>1, ClientOK DEF LockAcquire
<1>5. Neutral(Frame(me).pc) /\ stack[me] \in Callers
  BY <1>3, FrameIs DEF Neutral, Callers
<1> QED
  BY <1>3, <1>4, <1>5, AcquireInv DEF LockAcquire

LEMMA AllocateTidInv ==
  ASSUME SynchInv, ThreadsAssumption, SynchAssumption, AllocateTid, UNCHANGED client
  PROVE  SynchInv'
<1>1. SchedOK /\ DataOK /\ StacksOK
  BY DEF SynchInv
<1>2. In("new")
  BY DEF AllocateTid
<1>3. PICK me \in Thread : current = me
  BY <1>1, <1>2, InIs
<1> DEFINE k == Tail(stack[me])
<1>4. /\ stack[me] # <<>> /\ Frame(me).pc = "new" /\ k \in Callers
      /\ FrameOK(Head(stack[me]), k) /\ Head(stack[me]).pc = "new"
  BY <1>1, <1>2, <1>3, InIs, FrameIs
<1>5. (\E c \in Thread : k = Numbered(c)) /\ Neutral(Frame(me).pc)
  BY <1>4 DEF FrameOK, Neutral
<1>6. acquire(TidLock, k) /\ TidLock \in Lock
  BY <1>3, SynchAssumption DEF AllocateTid
<1> HIDE DEF k
<1>7. k = Tail(stack[me])
  BY DEF k
<1> QED
  BY <1>3, <1>4, <1>5, <1>6, <1>7, AcquireInv DEF AllocateTid

(* The donation.                                                           *)
LEMMA DonateReadInv ==
  ASSUME SynchInv, ThreadsAssumption, SynchAssumption, DonateRead, UNCHANGED client
  PROVE  SynchInv'
<1>1. SchedOK /\ DataOK /\ StacksOK
  BY DEF SynchInv
<1>2. In("donate")
  BY DEF DonateRead
<1>3. PICK me \in Thread : current = me
  BY <1>1, <1>2, InIs
<1> DEFINE k == Tail(stack[me])
           f == Head(stack[me])
           seen == IF Freed(f.to) THEN -1 ELSE priority[f.to]
           g == Raising(f, seen)
<1>4. /\ stack[me] # <<>> /\ Frame(me) = f /\ Me = f /\ k \in Callers
      /\ FrameOK(f, k) /\ f.pc = "donate" /\ status[me] = "RUNNING"
  BY <1>1, <1>2, <1>3, InIs, FrameIs
<1>5. SchedOK' /\ \A t \in Thread : KeepsClass(status[t], status'[t])
  BY <1>1, SchedSame, SchedTypes DEF threadVars, DonateRead
<1>6. Enter(g, k)
  BY <1>3, <1>4 DEF DonateRead, Goto
<1>7. FrameOK(g, k) /\ g.pc # "create" /\ Neutral(g.pc) /\ Neutral(f.pc)
  <2>1. f.to \in Thread /\ seen \in Priority \cup {-1}
    BY <1>1, <1>4, SchedTypes DEF FrameOK, AnyThread
  <2> HIDE DEF seen
  <2> QED
    BY <1>4, <2>1 DEF FrameOK, Raising, Acquiring, Releasing, PrioritySetting, Neutral
<1> HIDE DEF g
<1>8. /\ StacksOK' /\ Others(me) /\ Frame(me)' = g
      /\ \A c \in Thread : Makes(stack'[me], c) => Makes(stack[me], c)
  BY <1>1, <1>3, <1>4, <1>6, <1>7, Enters
<1>9. GoesOn(me)
  BY <1>4, <1>7, <1>8 DEF GoesOn, KeepsRole
<1>10. DataOK'
  BY <1>1 DEF DataOK, DonateRead, donationVars
<1> QED
  BY <1>5, <1>8, <1>9, <1>10, PrivateStep DEF DonateRead

LEMMA DonateWriteInv ==
  ASSUME SynchInv, ThreadsAssumption, SynchAssumption, DonateWrite, UNCHANGED client
  PROVE  SynchInv'
<1>1. SchedOK /\ DataOK /\ StacksOK
  BY DEF SynchInv
<1>2. In("raise")
  BY DEF DonateWrite
<1>3. PICK me \in Thread : current = me
  BY <1>1, <1>2, InIs
<1> DEFINE k == Tail(stack[me])
           f == Head(stack[me])
<1>4. /\ stack[me] # <<>> /\ Frame(me) = f /\ Me = f /\ k \in Callers
      /\ FrameOK(f, k) /\ f.pc = "raise" /\ status[me] = "RUNNING"
  BY <1>1, <1>2, <1>3, InIs, FrameIs
<1>5. /\ UNCHANGED <<schedVars, donationVars, lock_list, value, waiters, holder>>
      /\ priority \in [AnyThread -> Priority] /\ panicked \in BOOLEAN
  BY <1>1, SchedTypes DEF DonateWrite
<1>6. DataOK'
  BY <1>1, <1>5 DEF DataOK, donationVars
<1>7. /\ f.to \in Thread /\ f.amount \in Priority /\ f.seen \in Priority \cup {-1} /\ f.obj \in Lock
      /\ k = <<>> \/ (f.obj = TidLock /\ \E c \in Thread : k = Numbered(c))
  BY <1>4 DEF FrameOK, Acquiring
<1>8. CASE Freed(f.to)
  <2>1. panicked' = TRUE /\ UNCHANGED <<priority, stack>>
    BY <1>4, <1>8 DEF DonateWrite
  <2>2. SchedOK' /\ \A t \in Thread : KeepsClass(status[t], status'[t])
    BY <1>1, <1>5, <2>1, SchedSame
  <2>3. StacksOK' /\ GoesOn(me)
    BY <1>1, <1>4, <2>1, StackSame
  <2> QED
    BY <1>5, <1>6, <2>2, <2>3, PrivateStep
<1>9. CASE ~Freed(f.to)
  <2> DEFINE max == Max({f.amount, f.seen})
             g == DonateNext(max, priority')
  <2>1. max \in Priority
    BY <1>7, MaxOfTwo
  <2>2. /\ priority' = IF f.amount > f.seen THEN [priority EXCEPT ![f.to] = f.amount] ELSE priority
        /\ Enter(g, k) /\ UNCHANGED panicked
    BY <1>3, <1>4, <1>9 DEF DonateWrite, Goto
  <2> HIDE DEF max
  <2>3. priority' \in [AnyThread -> Priority]
    BY <1>5, <1>7, <2>2 DEF AnyThread
  <2>4. FrameOK(g, k) /\ g.pc # "create" /\ Neutral(g.pc) /\ Neutral(f.pc)
    <3>1. blocker_thread[f.to] \in Thread \cup {NULL}
      BY <1>1, <1>7 DEF DataOK
    <3>2. g = At("acq_down", f.obj) \/ \E t \in Thread : g = Donating(f.obj, t, max)
      BY <1>4, <3>1 DEF DonateNext
    <3>3. CASE g = At("acq_down", f.obj)
      BY <1>4, <1>7, <3>3 DEF FrameOK, At, Acquiring, Releasing, PrioritySetting, Neutral
    <3>4. ASSUME NEW t \in Thread, g = Donating(f.obj, t, max)
          PROVE  FrameOK(g, k) /\ g.pc # "create" /\ Neutral(g.pc) /\ Neutral(f.pc)
      <4> HIDE DEF g
      <4> QED
        BY <1>4, <1>7, <2>1, <3>4 DEF FrameOK, Donating, Acquiring, Releasing, PrioritySetting, Neutral
    <3> QED
      BY <3>2, <3>3, <3>4
  <2> HIDE DEF g
  <2>5. /\ StacksOK' /\ Others(me) /\ Frame(me)' = g
        /\ \A c \in Thread : Makes(stack'[me], c) => Makes(stack[me], c)
    BY <1>1, <1>3, <1>4, <2>2, <2>4, Enters
  <2>6. GoesOn(me)
    BY <1>4, <2>4, <2>5 DEF GoesOn, KeepsRole
  <2>7. SchedOK' /\ \A t \in Thread : KeepsClass(status[t], status'[t])
    BY <1>1, <1>5, <2>2, <2>3, SchedSame
  <2> QED
    BY <1>5, <1>6, <2>5, <2>6, <2>7, PrivateStep
<1> QED
  BY <1>8, <1>9

-----------------------------------------------------------------------------
(* thread_set_priority.                                                    *)
LEMMA SetPriorityInv ==
  ASSUME SynchInv, ThreadsAssumption, SynchAssumption, SetPriority, UNCHANGED client
  PROVE  SynchInv'
<1>1. SchedOK /\ DataOK /\ StacksOK
  BY DEF SynchInv
<1>2. In("client")
  BY DEF SetPriority
<1>3. PICK me \in Thread : current = me /\ stack[me] = <<>> /\ status[me] = "RUNNING"
  BY <1>1, <1>2, InIs
<1>4. SchedOK' /\ \A t \in Thread : KeepsClass(status[t], status'[t])
  BY <1>1, SchedSame, SchedTypes DEF threadVars, SetPriority
<1> DEFINE allow(new) == \A l \in lock_list[current] :
                           holder[l] # NULL => priority[holder[l]] <= new
<1>5. PICK new \in Priority : Enter(Setting("update", new, allow(new)), stack[me])
  BY <1>1, <1>3, ClientOK DEF SetPriority, Call
<1> HIDE DEF allow
<1> DEFINE g == Setting("update", new, allow(new))
<1>6. FrameOK(g, <<>>) /\ g.pc # "create" /\ Neutral(g.pc)
  BY DEF FrameOK, Setting, Acquiring, Releasing, PrioritySetting, Neutral
<1> HIDE DEF g
<1>7. <<>> \in Callers /\ Enter(g, <<>>)
  BY <1>3, <1>5 DEF Callers, g
<1>8. /\ StacksOK' /\ Others(me) /\ Frame(me)' = g
      /\ \A c \in Thread : Makes(stack'[me], c) => Makes(stack[me], c)
  BY <1>1, <1>3, <1>6, <1>7, Enters
<1>9. Neutral(Frame(me).pc)
  BY <1>3, FrameIs DEF Neutral
<1>10. GoesOn(me)
  BY <1>3, <1>6, <1>8, <1>9 DEF GoesOn, KeepsRole
<1>11. DataOK'
  BY <1>1 DEF DataOK, SetPriority, donationVars
<1> QED
  BY <1>4, <1>8, <1>10, <1>11, PrivateStep DEF SetPriority

LEMMA SetUpdateInv ==
  ASSUME SynchInv, ThreadsAssumption, SynchAssumption, SetUpdate, UNCHANGED client
  PROVE  SynchInv'
<1>1. SchedOK /\ DataOK /\ StacksOK
  BY DEF SynchInv
<1>2. In("update")
  BY DEF SetUpdate
<1>3. PICK me \in Thread : current = me
  BY <1>1, <1>2, InIs
<1> DEFINE k == Tail(stack[me])
           f == Head(stack[me])
           g == Setting("look", f.new, f.allow)
<1>4. /\ stack[me] # <<>> /\ Frame(me) = f /\ Me = f /\ k \in Callers
      /\ FrameOK(f, k) /\ f.pc = "update" /\ status[me] = "RUNNING"
  BY <1>1, <1>2, <1>3, InIs, FrameIs
<1>5. f.new \in Priority /\ k = <<>>
  BY <1>4 DEF FrameOK, PrioritySetting
<1>6. /\ priority' \in [AnyThread -> Priority] /\ original_priority' \in [Thread -> Priority]
      /\ waiting_priority' \in [Thread -> Priority]
  <2>1. priority \in [AnyThread -> Priority] /\ original_priority \in [Thread -> Priority]
        /\ waiting_priority \in [Thread -> Priority]
    BY <1>1, SchedTypes DEF DataOK
  <2>2. CASE f.allow
    BY <1>3, <1>4, <1>5, <2>1, <2>2 DEF SetUpdate, AnyThread
  <2>3. CASE ~f.allow
    BY <1>3, <1>4, <1>5, <2>1, <2>3 DEF SetUpdate
  <2> QED
    BY <2>2, <2>3
<1>7. SchedOK' /\ \A t \in Thread : KeepsClass(status[t], status'[t])
  BY <1>1, <1>6, SchedSame, SchedTypes DEF SetUpdate
<1>8. Enter(g, k)
  BY <1>3, <1>4 DEF SetUpdate, Goto
<1>9. FrameOK(g, k) /\ g.pc # "create" /\ Neutral(g.pc) /\ Neutral(f.pc)
  BY <1>4, <1>5 DEF FrameOK, Setting, Acquiring, Releasing, PrioritySetting, Neutral
<1> HIDE DEF g
<1>10. /\ StacksOK' /\ Others(me) /\ Frame(me)' = g
       /\ \A c \in Thread : Makes(stack'[me], c) => Makes(stack[me], c)
  BY <1>1, <1>3, <1>4, <1>8, <1>9, Enters
<1>11. GoesOn(me)
  BY <1>4, <1>9, <1>10 DEF GoesOn, KeepsRole
<1>12. DataOK'
  BY <1>1, <1>6 DEF DataOK, SetUpdate
<1> QED
  BY <1>7, <1>10, <1>11, <1>12, PrivateStep DEF SetUpdate

(* It returns to the client.                                               *)
LEMMA BackToClient ==
  ASSUME SynchInv, ThreadsAssumption, SynchAssumption, NEW me \in Thread, current = me,
         stack[me] # <<>>, Tail(stack[me]) \in {<<>>, Again}, Neutral(Frame(me).pc), Return
  PROVE  StacksOK' /\ GoesOn(me) /\ Frame(me)'.pc \in {"client", "cond_acq"}
<1>1. StacksOK /\ status[me] = "RUNNING"
  BY SchedTypes DEF SynchInv
<1>2. /\ StacksOK' /\ Others(me) /\ Frame(me)'.pc \in {"client", "cond_acq"}
      /\ \A c \in Thread : Makes(stack'[me], c) => Makes(stack[me], c)
  <2>1. At("cond_acq", MonitorLock).pc = "cond_acq"
    BY DEF At
  <2> QED
    BY <1>1, <2>1, Returns
<1> QED
  BY <1>1, <1>2 DEF GoesOn, KeepsRole, Neutral

LEMMA SetLookInv ==
  ASSUME SynchInv, ThreadsAssumption, SynchAssumption, SetLook, UNCHANGED client
  PROVE  SynchInv'
<1>1. SchedOK /\ DataOK /\ StacksOK
  BY DEF SynchInv
<1>2. In("look")
  BY DEF SetLook
<1>3. PICK me \in Thread : current = me
  BY <1>1, <1>2, InIs
<1> DEFINE k == Tail(stack[me])
           f == Head(stack[me])
           g == Setting("front", f.new, f.allow)
<1>4. /\ stack[me] # <<>> /\ Frame(me) = f /\ Me = f /\ k \in Callers
      /\ FrameOK(f, k) /\ f.pc = "look" /\ status[me] = "RUNNING"
  BY <1>1, <1>2, <1>3, InIs, FrameIs
<1>5. f.new \in Priority /\ k = <<>> /\ Neutral(f.pc)
  BY <1>4 DEF FrameOK, PrioritySetting, Neutral
<1>6. SchedOK' /\ \A t \in Thread : KeepsClass(status[t], status'[t])
  BY <1>1, SchedSame, SchedTypes DEF threadVars, SetLook
<1>7. DataOK'
  BY <1>1 DEF DataOK, SetLook, donationVars
<1>8. CASE Return
  <2>1. StacksOK' /\ GoesOn(me)
    BY <1>3, <1>4, <1>5, <1>8, BackToClient
  <2> QED
    BY <1>6, <1>7, <2>1, PrivateStep DEF SetLook
<1>9. CASE Goto(Setting("front", Me.new, Me.allow))
  <2>1. Enter(g, k)
    BY <1>3, <1>4, <1>9 DEF Goto
  <2>2. FrameOK(g, k) /\ g.pc # "create" /\ Neutral(g.pc)
    BY <1>4, <1>5 DEF FrameOK, Setting, Acquiring, Releasing, PrioritySetting, Neutral
  <2> HIDE DEF g
  <2>3. /\ StacksOK' /\ Others(me) /\ Frame(me)' = g
        /\ \A c \in Thread : Makes(stack'[me], c) => Makes(stack[me], c)
    BY <1>1, <1>3, <1>4, <2>1, <2>2, Enters
  <2>4. GoesOn(me)
    BY <1>4, <1>5, <2>2, <2>3 DEF GoesOn, KeepsRole
  <2> QED
    BY <1>6, <1>7, <2>3, <2>4, PrivateStep DEF SetLook
<1> QED
  BY <1>8, <1>9 DEF SetLook

LEMMA SetYieldInv ==
  ASSUME SynchInv, ThreadsAssumption, SynchAssumption, SetYield, UNCHANGED client
  PROVE  SynchInv'
<1>1. SchedOK /\ DataOK /\ StacksOK
  BY DEF SynchInv
<1>2. In("front")
  BY DEF SetYield
<1>3. PICK me \in Thread : current = me
  BY <1>1, <1>2, InIs
<1> DEFINE k == Tail(stack[me])
           f == Head(stack[me])
<1>4. /\ stack[me] # <<>> /\ Frame(me) = f /\ FrameOK(f, k) /\ f.pc = "front"
  BY <1>1, <1>2, <1>3, InIs, FrameIs
<1>5. k = <<>> /\ Neutral(f.pc)
  BY <1>4 DEF FrameOK, PrioritySetting, Neutral
<1>6. panicked' \in BOOLEAN /\ UNCHANGED priority
  <2> DEFINE b == ready_list = <<>>
  <2>1. panicked' = b /\ b \in BOOLEAN /\ UNCHANGED priority
    BY DEF SetYield
  <2> QED
    BY <2>1
<1>7. SchedOK' /\ \A t \in Thread : KeepsClass(status[t], status'[t])
  <2>1. CASE UNCHANGED schedVars
    BY <1>1, <1>6, <2>1, SchedSame, SchedTypes
  <2>2. CASE thread_yield(ready_list, status, priority)
    <3>1. ThreadsTypeOK /\ \A t \in AnyThread : status[t] = "RUNNING" <=> t = current
      BY <1>1 DEF SchedOK, ReadyListExact, AnyThread
    <3> QED
      BY <1>1, <1>6, <2>2, <3>1, QueueOfSched, YieldExact
  <2> QED
    BY <2>1, <2>2 DEF SetYield
<1>8. DataOK'
  BY <1>1 DEF DataOK, SetYield, donationVars
<1>9. StacksOK' /\ GoesOn(me)
  BY <1>3, <1>4, <1>5, BackToClient DEF SetYield
<1> QED
  BY <1>7, <1>8, <1>9, PrivateStep DEF SetYield

LEMMA ReleaseAssignInv ==
  ASSUME SynchInv, ThreadsAssumption, SynchAssumption, ReleaseAssign, UNCHANGED client
  PROVE  SynchInv'
<1>1. SchedOK /\ DataOK /\ StacksOK
  BY DEF SynchInv
<1>2. In("assign")
  BY DEF ReleaseAssign
<1>3. PICK me \in Thread : current = me
  BY <1>1, <1>2, InIs
<1> DEFINE k == Tail(stack[me])
           f == Head(stack[me])
           g == At("disown", f.obj)
<1>4. /\ stack[me] # <<>> /\ Frame(me) = f /\ Me = f /\ k \in Callers
      /\ FrameOK(f, k) /\ f.pc = "assign" /\ status[me] = "RUNNING"
  BY <1>1, <1>2, <1>3, InIs, FrameIs
<1>5. /\ f.next \in Priority /\ f.obj \in Lock
      /\ k = <<>> \/ (\E c \in Thread : k = Made(c)) \/ (\E z \in Sema : k = Parked(z))
  BY <1>4 DEF FrameOK, Releasing
<1>6. priority' \in [AnyThread -> Priority]
  BY <1>1, <1>3, <1>4, <1>5, SchedTypes DEF ReleaseAssign, AnyThread
<1>7. SchedOK' /\ \A t \in Thread : KeepsClass(status[t], status'[t])
  BY <1>1, <1>6, SchedSame, SchedTypes DEF ReleaseAssign
<1>8. Enter(g, k)
  BY <1>3, <1>4 DEF ReleaseAssign, Goto
<1>9. FrameOK(g, k) /\ g.pc = "disown" /\ g.obj = f.obj
  BY <1>4, <1>5 DEF FrameOK, At, Acquiring, Releasing, PrioritySetting
<1> HIDE DEF g
<1>10. /\ StacksOK' /\ Others(me) /\ Frame(me)' = g
       /\ \A c \in Thread : Makes(stack'[me], c) => Makes(stack[me], c)
  BY <1>1, <1>3, <1>4, <1>8, <1>9, Enters
<1>11. GoesOn(me)
  BY <1>4, <1>9, <1>10 DEF GoesOn, KeepsRole
<1>12. DataOK'
  BY <1>1 DEF DataOK, ReleaseAssign, donationVars
<1> QED
  BY <1>7, <1>10, <1>11, <1>12, PrivateStep DEF ReleaseAssign

-----------------------------------------------------------------------------
(* Semaphores.                                                             *)
LEMMA TakesIs ==
  ASSUME SchedOK, value \in [AnySema -> 0 .. MaxValue], NEW s \in AnySema, Takes(s),
         UNCHANGED <<priority, panicked>>, SynchAssumption
  PROVE  /\ SchedOK' /\ \A t \in Thread : KeepsClass(status[t], status'[t])
         /\ UNCHANGED waiters /\ value' \in [AnySema -> 0 .. MaxValue]
         /\ value[s] > 0 /\ value'[s] = value[s] - 1
         /\ \A z \in AnySema : z # s => value'[z] = value[z]
<1>1. SchedOK' /\ \A t \in Thread : KeepsClass(status[t], status'[t])
  BY SchedSame, SchedTypes DEF Takes
<1>2. value' = [value EXCEPT ![s] = value[s] - 1] /\ value[s] > 0 /\ UNCHANGED waiters
  BY DEF Takes
<1>3. value[s] - 1 \in 0 .. MaxValue
  BY <1>2, SynchAssumption
<1> QED
  BY <1>1, <1>2, <1>3

(* It queues itself and blocks.                                            *)
LEMMA SleepStep ==
  ASSUME SynchInv, ThreadsAssumption, SynchAssumption, NEW me \in Thread, current = me,
         NEW s \in AnySema, Waits(s), GoesOn(me), StacksOK',
         Frame(me)'.pc \in {"acq_wake", "down_wake"}, Frame(me)'.obj = s,
         UNCHANGED <<priority, panicked, donationVars, lock_list, holder, client>>
  PROVE  SynchInv'
<1>1. /\ SchedOK' /\ WaitListsExact' /\ Calm /\ value' = value
      /\ waiters' \in [AnySema -> Seq(Thread)]
  BY FallsAsleep DEF SynchInv, DataOK, GoesOn
<1>2. ChildrenWait' /\ GoneHoldNothing' /\ LocksOK'
  BY <1>1, Ordinary DEF SynchInv
<1>3. DataOK'
  BY <1>1 DEF SynchInv, DataOK, donationVars
<1> QED
  BY <1>1, <1>2, <1>3 DEF SynchInv

LEMMA SemaDownInv ==
  ASSUME SynchInv, ThreadsAssumption, SynchAssumption, SemaDown, UNCHANGED client
  PROVE  SynchInv'
<1>1. SchedOK /\ DataOK /\ StacksOK
  BY DEF SynchInv
<1>2. /\ UNCHANGED <<priority, panicked, donationVars, lock_list, holder>>
      /\ Sema \subseteq AnySema /\ \A s \in Sema : s \notin Lock
      /\ value \in [AnySema -> 0 .. MaxValue] /\ Lock \subseteq AnySema
  BY <1>1, SynchAssumption DEF SemaDown, AnySema, DataOK
<1>3. ASSUME NEW me \in Thread, NEW s \in Sema, Takes(s), GoesOn(me), StacksOK' PROVE SynchInv'
  <2>1. /\ SchedOK' /\ \A t \in Thread : KeepsClass(status[t], status'[t])
        /\ UNCHANGED waiters /\ value' \in [AnySema -> 0 .. MaxValue]
        /\ \A z \in AnySema : z # s => value'[z] = value[z]
    BY <1>1, <1>2, <1>3, TakesIs
  <2>2. DataOK'
    BY <1>1, <1>2, <2>1 DEF DataOK, donationVars
  <2>3. \A l \in Lock : value'[l] = value[l]
    BY <1>2, <2>1
  <2> QED
    BY <1>2, <1>3, <2>1, <2>2, <2>3, PrivateStep
<1>4. CASE In("client")
  <2>1. PICK me \in Thread : current = me /\ stack[me] = <<>> /\ status[me] = "RUNNING"
    BY <1>1, <1>4, InIs
  <2>2. Frame(me).pc = "client"
    BY <2>1, FrameIs
  <2>3. ~In("down_wake")
    BY <2>1, <2>2 DEF In
  <2>4. PICK s \in Sema : \/ Takes(s) /\ UNCHANGED stack
                          \/ Waits(s) /\ Call(At("down_wake", s))
    BY <2>3 DEF SemaDown
  <2>5. CASE Takes(s) /\ UNCHANGED stack
    BY <1>1, <1>3, <2>1, <2>5, StackSame
  <2>6. CASE Waits(s) /\ Call(At("down_wake", s))
    <3> DEFINE g == At("down_wake", s)
    <3>1. FrameOK(g, <<>>) /\ g.pc = "down_wake" /\ g.obj = s
      BY DEF FrameOK, At, Acquiring, Releasing, PrioritySetting
    <3>2. Enter(g, <<>>) /\ <<>> \in Callers
      BY <2>1, <2>6 DEF Call, Callers
    <3> HIDE DEF g
    <3>3. /\ StacksOK' /\ Others(me) /\ Frame(me)' = g
          /\ \A c \in Thread : Makes(stack'[me], c) => Makes(stack[me], c)
      BY <1>1, <2>1, <3>1, <3>2, Enters
    <3>4. GoesOn(me)
      BY <2>1, <2>2, <3>1, <3>3 DEF GoesOn, KeepsRole, Neutral
    <3> QED
      BY <1>2, <2>1, <2>6, <3>1, <3>3, <3>4, SleepStep
  <2> QED
    BY <2>4, <2>5, <2>6
<1>5. CASE In("down_wake")
  <2>1. PICK me \in Thread : current = me
    BY <1>1, <1>5, InIs
  <2> DEFINE k == Tail(stack[me])
             f == Head(stack[me])
  <2>2. /\ stack[me] # <<>> /\ Frame(me) = f /\ Me = f
        /\ FrameOK(f, k) /\ f.pc = "down_wake" /\ status[me] = "RUNNING"
    BY <1>1, <1>5, <2>1, InIs, FrameIs
  <2>3. f.obj \in Sema /\ k \in {<<>>, Again} /\ Neutral(f.pc)
    BY <2>2 DEF FrameOK, Neutral
  <2>4. ~In("client")
    BY <2>1, <2>2 DEF In
  <2>5. CASE Takes(f.obj) /\ Return
    <3>1. StacksOK' /\ GoesOn(me)
      BY <2>1, <2>2, <2>3, <2>5, BackToClient
    <3> QED
      BY <1>3, <2>3, <2>5, <3>1
  <2>6. CASE Waits(f.obj) /\ UNCHANGED stack
    <3>1. StacksOK' /\ GoesOn(me) /\ Frame(me)' = f
      BY <1>1, <2>2, <2>6, StackSame
    <3> QED
      BY <1>2, <2>1, <2>2, <2>3, <2>6, <3>1, SleepStep
  <2> QED
    BY <2>2, <2>4, <2>5, <2>6 DEF SemaDown
<1> QED
  BY <1>4, <1>5 DEF SemaDown

LEMMA SemaTryDownInv ==
  ASSUME SynchInv, ThreadsAssumption, SynchAssumption, SemaTryDown, UNCHANGED client
  PROVE  SynchInv'
<1>1. SchedOK /\ DataOK /\ StacksOK
  BY DEF SynchInv
<1>2. PICK me \in Thread : current = me /\ status[me] = "RUNNING"
  BY <1>1, InIs DEF SemaTryDown
<1>3. PICK s \in Sema : value[s] > 0 /\ value' = [value EXCEPT ![s] = @ - 1]
  BY DEF SemaTryDown
<1>4. UNCHANGED <<threadVars, donationVars, lock_list, waiters, holder, stack>>
  BY DEF SemaTryDown
<1>5. s \in AnySema /\ s \notin Lock /\ Lock \subseteq AnySema /\ value \in [AnySema -> 0 .. MaxValue]
  BY <1>1, SynchAssumption DEF AnySema, DataOK
<1>6. Takes(s) /\ UNCHANGED <<priority, panicked>>
  BY <1>3, <1>4 DEF Takes, threadVars
<1>7. /\ SchedOK' /\ \A t \in Thread : KeepsClass(status[t], status'[t])
      /\ UNCHANGED waiters /\ value' \in [AnySema -> 0 .. MaxValue]
      /\ \A z \in AnySema : z # s => value'[z] = value[z]
  BY <1>1, <1>5, <1>6, TakesIs
<1>8. DataOK'
  BY <1>1, <1>4, <1>7 DEF DataOK, donationVars
<1>9. StacksOK' /\ GoesOn(me)
  BY <1>1, <1>2, <1>4, StackSame
<1>10. \A l \in Lock : value'[l] = value[l]
  BY <1>5, <1>7
<1> QED
  BY <1>4, <1>7, <1>8, <1>9, <1>10, PrivateStep

(* sema_up of a client's semaphore, by a thread or an interrupt handler.   *)
LEMMA UpStep ==
  ASSUME SynchInv, ThreadsAssumption, SynchAssumption, NEW s \in Sema, NEW intr \in BOOLEAN,
         value[s] < MaxValue, sema_up(s, intr), NEW me, current = me, StacksOK', GoesOn(me),
         UNCHANGED <<priority, donationVars, lock_list, holder, client>>
  PROVE  SynchInv'
<1>1. SchedOK /\ DataOK /\ StacksOK /\ WaitListsExact
  BY DEF SynchInv
<1>2. me \in AnyThread /\ status[me] = "RUNNING"
  BY <1>1, SchedTypes
<1>3. s \in AnySema /\ s \notin Lock /\ Lock \subseteq AnySema /\ value \in [AnySema -> 0 .. MaxValue]
      /\ waiters \in [AnySema -> Seq(Thread)]
  BY <1>1, SynchAssumption DEF AnySema, DataOK
<1>4. /\ SchedOK' /\ value' = [value EXCEPT ![s] = value[s] + 1]
      /\ \/ waiters[s] = <<>> /\ UNCHANGED <<schedVars, panicked, waiters>>
         \/ \E w \in Thread : Wakes(s, w)
  BY <1>1, <1>3, SemaUpIs
<1>5. value' \in [AnySema -> 0 .. MaxValue] /\ \A l \in Lock : value'[l] = value[l]
  <2>1. value[s] + 1 \in 0 .. MaxValue
    BY <1>3, SynchAssumption
  <2> QED
    BY <1>3, <1>4, <2>1
<1>6. StacksOK' /\ GoesOn(me) /\ Others(me)
  BY DEF GoesOn
<1>7. CASE UNCHANGED <<schedVars, panicked, waiters>>
  <2>1. DataOK'
    BY <1>1, <1>5, <1>7 DEF DataOK, donationVars
  <2>2. \A t \in Thread : KeepsClass(status[t], status'[t])
    BY <1>7 DEF KeepsClass, schedVars
  <2> QED
    BY <1>4, <1>5, <1>6, <1>7, <2>1, <2>2, PrivateStep
<1>8. ASSUME NEW w \in Thread, Wakes(s, w) PROVE SynchInv'
  <2>1. WaitListsExact' /\ Calm
    BY <1>1, <1>2, <1>3, <1>6, <1>8, WokenListsExact
  <2>2. waiters' \in [AnySema -> Seq(Thread)]
    BY <1>8 DEF Wakes
  <2>3. DataOK'
    BY <1>1, <1>5, <2>2 DEF DataOK, donationVars
  <2>4. ChildrenWait' /\ GoneHoldNothing' /\ LocksOK'
    BY <1>5, <1>6, <2>1, Ordinary DEF SynchInv
  <2> QED
    BY <1>4, <1>6, <2>1, <2>3, <2>4 DEF SynchInv
<1> QED
  BY <1>4, <1>7, <1>8

LEMMA SemaUpInv ==
  ASSUME SynchInv, ThreadsAssumption, SynchAssumption, SemaUp \/ InterruptUp, UNCHANGED client
  PROVE  SynchInv'
<1>1. PICK s \in Sema, intr \in BOOLEAN : value[s] < MaxValue /\ sema_up(s, intr)
  BY DEF SemaUp, InterruptUp
<1>2. UNCHANGED <<priority, donationVars, lock_list, holder, stack>>
  BY DEF SemaUp, InterruptUp
<1>3. PICK me : current = me
  OBVIOUS
<1>4. StacksOK' /\ GoesOn(me)
  BY <1>2, <1>3, StackSame, SchedTypes DEF SynchInv
<1> QED
  BY <1>1, <1>2, <1>3, <1>4, UpStep

-----------------------------------------------------------------------------
(* Time, idling, exit.                                                     *)
LEMMA TickInv ==
  ASSUME SynchInv, ThreadsAssumption, SynchAssumption, Tick, UNCHANGED client
  PROVE  SynchInv'
<1>1. SchedOK /\ DataOK /\ StacksOK
  BY DEF SynchInv
<1>2. PICK me \in AnyThread : current = me /\ status[me] = "RUNNING"
  BY <1>1, SchedTypes
<1>3. SchedOK' /\ \A t \in Thread : KeepsClass(status[t], status'[t])
  BY <1>1, TickExact DEF Tick
<1>4. StacksOK' /\ GoesOn(me)
  BY <1>1, <1>2, StackSame DEF Tick, synchVars
<1>5. DataOK' /\ UNCHANGED <<waiters, holder, lock_list, value>>
  BY <1>1 DEF DataOK, Tick, synchVars, donationVars
<1> QED
  BY <1>3, <1>4, <1>5, PrivateStep

LEMMA IdleInv ==
  ASSUME SynchInv, ThreadsAssumption, SynchAssumption, IdleStep, UNCHANGED client
  PROVE  SynchInv'
<1>1. SchedOK /\ DataOK /\ StacksOK
  BY DEF SynchInv
<1>2. current = Idle /\ status[Idle] = "RUNNING" /\ Idle \notin Thread
  BY <1>1, SchedTypes DEF IdleStep, IdleLoop, ThreadsAssumption
<1>3. SchedOK' /\ \A t \in Thread : KeepsClass(status[t], status'[t])
  BY <1>1, <1>2, LeaveExact DEF IdleStep, IdleLoop, thread_block
<1>4. StacksOK' /\ GoesOn(Idle)
  BY <1>1, <1>2, StackSame DEF IdleStep, synchVars
<1>5. DataOK' /\ UNCHANGED <<waiters, holder, lock_list, value>>
  BY <1>1 DEF DataOK, IdleStep, synchVars, donationVars
<1> QED
  BY <1>3, <1>4, <1>5, PrivateStep

LEMMA ThreadExitInv ==
  ASSUME SynchInv, ThreadsAssumption, SynchAssumption, ThreadExit, UNCHANGED client
  PROVE  SynchInv'
<1>1. SchedOK /\ DataOK /\ StacksOK
  BY DEF SynchInv
<1>2. PICK me \in Thread : current = me /\ stack[me] = <<>> /\ status[me] = "RUNNING"
  BY <1>1, InIs DEF ThreadExit
<1>3. /\ SchedOK' /\ \A t \in Thread : t # me => KeepsClass(status[t], status'[t])
      /\ Gone(status'[me])
  BY <1>1, <1>2, LeaveExact DEF ThreadExit, thread_exit, Gone
<1>4. /\ StacksOK' /\ Others(me) /\ \A t \in Thread : Frame(t)' = Frame(t)
      /\ \A t \in Thread : stack'[t] = stack[t]
  BY <1>1, <1>2, StackSame DEF ThreadExit, synchVars
<1>5. DataOK' /\ UNCHANGED <<waiters, holder, lock_list, value>>
  BY <1>1 DEF DataOK, ThreadExit, synchVars, donationVars
<1>6. LocksOK'
  BY <1>4, <1>5, LocksKept DEF SynchInv, KeepsRole
<1>7. WaitListsExact'
  BY <1>2, <1>3, <1>4, <1>5, NobodyStirs DEF SynchInv, Gone
<1>8. \A l \in Lock : holder[l] # me
  BY <1>2 DEF ThreadExit
<1>9. GoneHoldNothing'
  BY <1>2, <1>3, <1>4, <1>5, <1>8 DEF SynchInv, GoneHoldNothing, KeepsClass, Live, Gone
<1>10. ChildrenWait'
  BY <1>2, <1>3, <1>4 DEF SynchInv, ChildrenWait, KeepsClass, Live
<1> QED
  BY <1>3, <1>4, <1>5, <1>6, <1>7, <1>9, <1>10 DEF SynchInv

-----------------------------------------------------------------------------
(* Steps that change what the locks say.                                   *)
LEMMA LockStep ==
  ASSUME SynchInv, SynchAssumption, NEW me \in Thread, Others(me), status[me] = "RUNNING",
         \A c \in Thread : Makes(stack'[me], c) => Makes(stack[me], c),
         SchedOK', DataOK', StacksOK', LocksOK',
         \A t \in Thread : KeepsClass(status[t], status'[t]), UNCHANGED waiters,
         \A l \in Lock : holder'[l] \in {holder[l], me, NULL}
  PROVE  SynchInv'
<1>1. Calm
  BY DEF Calm, KeepsClass, Live, Gone
<1>2. ChildrenWait'
  BY <1>1, ChildrenKept DEF SynchInv
<1>3. GoneHoldNothing'
  BY <1>1, GoneKept DEF SynchInv
<1>4. status'[me] # "BLOCKED"
  BY DEF KeepsClass, Live
<1>5. WaitListsExact'
  BY <1>4, NobodyStirs DEF SynchInv
<1> QED
  BY <1>2, <1>3, <1>5 DEF SynchInv

(* The frames that say something of a lock name one.                       *)
LEMMA FrameLock ==
  ASSUME StacksOK, ThreadsAssumption, SynchAssumption, NEW t \in Thread, ~Neutral(Frame(t).pc)
  PROVE  Frame(t).obj \in Lock
<1>1. StackOK(stack[t])
  BY DEF StacksOK
<1>2. stack[t] # <<>>
  BY FrameIs DEF Neutral
<1>3. FrameOK(Frame(t), Tail(stack[t]))
  BY <1>1, <1>2, FrameIs DEF StackOK
<1> QED
  BY <1>3, SynchAssumption DEF FrameOK, Acquiring, Releasing, Neutral

(* A lock's holder's name is a thread's, or none.                          *)
LEMMA HolderOwns ==
  ASSUME OneOwner, DataOK, SynchAssumption, NEW l \in Lock
  PROVE  /\ value[l] = 1 => holder[l] = NULL
         /\ NULL \notin Thread
BY SynchAssumption DEF OneOwner, DataOK, Owns

LEMMA SameOwners ==
  ASSUME OneOwner, \A t \in Thread, l \in Lock : Owns(t, l)' <=> Owns(t, l),
         \A l \in Lock : value'[l] = value[l]
  PROVE  OneOwner'
BY DEF OneOwner

LEMMA AcquireDownInv ==
  ASSUME SynchInv, ThreadsAssumption, SynchAssumption, AcquireDown, UNCHANGED client
  PROVE  SynchInv'
<1>1. SchedOK /\ DataOK /\ StacksOK /\ HolderKnown /\ OneOwner /\ LockListExact
  BY DEF SynchInv, LocksOK
<1>2. PICK pc \in {"acq_down", "acq_wake"} : In(pc)
  BY DEF AcquireDown
<1>3. PICK me \in Thread : current = me
  BY <1>1, <1>2, InIs
<1> DEFINE k == Tail(stack[me])
           f == Head(stack[me])
           l == f.obj
<1>4. /\ stack[me] # <<>> /\ Frame(me) = f /\ Me = f /\ k \in Callers
      /\ FrameOK(f, k) /\ f.pc \in {"acq_down", "acq_wake"} /\ status[me] = "RUNNING"
  BY <1>1, <1>2, <1>3, InIs, FrameIs
<1>5. l \in Lock /\ (k = <<>> \/ (l = TidLock /\ \E c \in Thread : k = Numbered(c)))
  BY <1>4 DEF FrameOK, Acquiring
<1>6. /\ UNCHANGED <<priority, panicked, donationVars, lock_list, holder>>
      /\ value \in [AnySema -> 0 .. MaxValue] /\ Lock \subseteq AnySema /\ l \in AnySema
  BY <1>1, <1>5 DEF AcquireDown, AnySema, DataOK
<1>7. ASSUME NEW p \in {"acq_own", "acq_wake"}, Enter(At(p, l), k)
      PROVE  /\ StacksOK' /\ Others(me) /\ Frame(me)' = At(p, l)
             /\ \A c \in Thread : Makes(stack'[me], c) => Makes(stack[me], c)
  <2> DEFINE g == At(p, l)
  <2>1. FrameOK(g, k) /\ g.pc # "create"
    BY <1>5 DEF FrameOK, At, Acquiring, Releasing, PrioritySetting
  <2>2. Enter(g, k)
    BY <1>7
  <2> HIDE DEF g
  <2>3. /\ StacksOK' /\ Others(me) /\ Frame(me)' = g
        /\ \A c \in Thread : Makes(stack'[me], c) => Makes(stack[me], c)
    BY <1>1, <1>3, <1>4, <2>1, <2>2, Enters
  <2> QED
    BY <2>3 DEF g
<1> HIDE DEF l
<1>8. CASE Takes(l) /\ Enter(At("acq_own", l), k)
  <2>1. /\ SchedOK' /\ \A t \in Thread : KeepsClass(status[t], status'[t])
        /\ UNCHANGED waiters /\ value' \in [AnySema -> 0 .. MaxValue]
        /\ value[l] > 0 /\ value'[l] = value[l] - 1
        /\ \A z \in AnySema : z # l => value'[z] = value[z]
    BY <1>1, <1>6, <1>8, TakesIs
  <2>2. value[l] = 1 /\ value'[l] = 0 /\ (\A z \in Lock : z # l => value'[z] = value[z])
    BY <1>1, <1>5, <1>6, <2>1 DEF OneOwner
  <2>3. holder[l] = NULL /\ NULL \notin Thread /\ \A t \in Thread : ~Owns(t, l)
    BY <1>1, <1>5, <2>2, HolderOwns DEF OneOwner
  <2>4. /\ StacksOK' /\ Others(me) /\ Frame(me)'.pc = "acq_own" /\ Frame(me)'.obj = l
        /\ \A c \in Thread : Makes(stack'[me], c) => Makes(stack[me], c)
    BY <1>7, <1>8 DEF At
  <2>5. \A t \in Thread : t # me => Frame(t)' = Frame(t)
    BY <2>4, FramesKept
  <2>6. HolderKnown'
    BY <1>1, <1>6, <2>3, <2>4, <2>5 DEF HolderKnown
  <2>7. \A t \in Thread, z \in Lock : Owns(t, z)' <=> (Owns(t, z) \/ (t = me /\ z = l))
    BY <1>4, <1>6, <2>4, <2>5 DEF Owns
  <2>8. OneOwner'
    <3> SUFFICES ASSUME NEW z \in Lock
                 PROVE  /\ value'[z] \in {0, 1}
                        /\ value'[z] = 1 => \A t \in Thread : ~Owns(t, z)'
                        /\ value'[z] = 0 => \E t \in Thread : Owns(t, z)'
                        /\ \A t, u \in Thread : Owns(t, z)' /\ Owns(u, z)' => t = u
      BY DEF OneOwner
    <3>1. CASE z = l
      BY <2>2, <2>3, <2>7, <3>1
    <3>2. CASE z # l
      BY <1>1, <2>2, <2>7, <3>2 DEF OneOwner
    <3> QED
      BY <3>1, <3>2
  <2>9. LockListExact'
    BY <1>1, <1>4, <1>6, <2>4, <2>5 DEF LockListExact
  <2>10. DataOK'
    BY <1>1, <1>6, <2>1 DEF DataOK, donationVars
  <2>11. LocksOK'
    BY <2>6, <2>8, <2>9 DEF LocksOK
  <2> QED
    BY <1>4, <1>6, <2>1, <2>4, <2>10, <2>11, LockStep
<1>9. CASE Waits(l) /\ Enter(At("acq_wake", l), k)
  <2>1. /\ StacksOK' /\ Others(me) /\ Frame(me)'.pc = "acq_wake" /\ Frame(me)'.obj = l
        /\ \A c \in Thread : Makes(stack'[me], c) => Makes(stack[me], c)
    BY <1>7, <1>9 DEF At
  <2>2. GoesOn(me)
    BY <1>4, <2>1 DEF GoesOn, KeepsRole, Neutral
  <2> QED
    BY <1>3, <1>6, <1>9, <2>1, <2>2, SleepStep
<1> QED
  BY <1>3, <1>4, <1>8, <1>9 DEF AcquireDown, Goto, l

LEMMA AcquireOwnInv ==
  ASSUME SynchInv, ThreadsAssumption, SynchAssumption, AcquireOwn, UNCHANGED client
  PROVE  SynchInv'
<1>1. SchedOK /\ DataOK /\ StacksOK /\ HolderKnown /\ OneOwner /\ LockListExact
  BY DEF SynchInv, LocksOK
<1>2. In("acq_own")
  BY DEF AcquireOwn
<1>3. PICK me \in Thread : current = me
  BY <1>1, <1>2, InIs
<1> DEFINE k == Tail(stack[me])
           f == Head(stack[me])
           l == f.obj
<1>4. /\ stack[me] # <<>> /\ Frame(me) = f /\ Me = f /\ k \in Callers
      /\ FrameOK(f, k) /\ f.pc = "acq_own" /\ status[me] = "RUNNING"
  BY <1>1, <1>2, <1>3, InIs, FrameIs
<1>5. l \in Lock /\ (k = <<>> \/ (l = TidLock /\ \E c \in Thread : k = Numbered(c)))
  BY <1>4 DEF FrameOK, Acquiring
<1>6. SchedOK' /\ \A t \in Thread : KeepsClass(status[t], status'[t])
  BY <1>1, SchedSame, SchedTypes DEF threadVars, AcquireOwn
<1>7. /\ UNCHANGED <<donationVars, value, waiters>> /\ Return
      /\ lock_list' = [lock_list EXCEPT ![me] = lock_list[me] \cup {l}]
      /\ holder' = [holder EXCEPT ![l] = me]
  BY <1>3, <1>4 DEF AcquireOwn
<1>8. /\ StacksOK' /\ Others(me)
      /\ \A c \in Thread : Makes(stack'[me], c) => Makes(stack[me], c)
      /\ Frame(me)'.pc \notin {"assign", "disown", "acq_own", "rel_up"}
      /\ Frame(me)'.pc = "tid" => Frame(me)'.obj = l
  <2>1. /\ StacksOK' /\ Others(me)
        /\ \A c \in Thread : Makes(stack'[me], c) => Makes(stack[me], c)
        /\ k = <<>> => Frame(me)'.pc = "client"
        /\ \A c \in Thread : k = Numbered(c) => Frame(me)' = At("tid", TidLock)
    BY <1>1, <1>3, <1>4, <1>7, Returns
  <2> QED
    BY <1>5, <2>1 DEF At
<1>9. Frame(me).pc = "acq_own" /\ Frame(me).obj = l
  BY <1>4
<1> HIDE DEF k, f, l
<1>10. \A t \in Thread : t # me => Frame(t)' = Frame(t)
  BY <1>8, FramesKept
<1>11. /\ holder[l] = NULL /\ NULL \notin Thread /\ holder'[l] = me
       /\ \A z \in Lock : z # l => holder'[z] = holder[z]
       /\ \A t \in Thread : Owns(t, l) => t = me
  <2>1. Owns(me, l)
    BY <1>9 DEF Owns
  <2> QED
    BY <1>1, <1>5, <1>7, <1>9, <2>1, SynchAssumption DEF DataOK, HolderKnown, OneOwner
<1>12. HolderKnown'
  <2> SUFFICES ASSUME NEW t \in Thread
               PROVE  /\ Frame(t)'.pc \in {"assign", "disown", "tid"} => holder'[Frame(t)'.obj] = t
                      /\ Frame(t)'.pc \in {"acq_own", "rel_up"} => holder'[Frame(t)'.obj] = NULL
    BY DEF HolderKnown
  <2>1. CASE t = me
    BY <1>8, <1>11, <2>1
  <2>2. CASE t # me
    <3>1. ~Neutral(Frame(t).pc) => Frame(t).obj \in Lock
      BY <1>1, FrameLock
    <3>2. Frame(t).pc \in {"acq_own", "rel_up"} => Frame(t).obj # l
      BY <1>11, <2>2 DEF Owns
    <3> QED
      BY <1>1, <1>10, <1>11, <2>2, <3>1, <3>2 DEF HolderKnown, Neutral
  <2> QED
    BY <2>1, <2>2
<1>13. ASSUME NEW t \in Thread, NEW z \in Lock PROVE Owns(t, z)' <=> Owns(t, z)
  <2>1. CASE t = me
    BY <1>8, <1>9, <1>11, <2>1 DEF Owns
  <2>2. CASE t # me
    BY <1>10, <1>11, <2>2 DEF Owns
  <2> QED
    BY <2>1, <2>2
<1>14. OneOwner'
  BY <1>1, <1>7, <1>13, SameOwners
<1>15. LockListExact'
  <2> SUFFICES ASSUME NEW t \in Thread, NEW z \in Lock
               PROVE  z \in lock_list'[t] <=>
                        holder'[z] = t /\ ~(Frame(t)'.pc \in {"assign", "disown"} /\ Frame(t)'.obj = z)
    BY DEF LockListExact
  <2>1. lock_list'[me] = lock_list[me] \cup {l} /\ (t # me => lock_list'[t] = lock_list[t])
    BY <1>1, <1>7 DEF DataOK
  <2>2. CASE t = me
    BY <1>1, <1>8, <1>9, <1>11, <2>1, <2>2 DEF LockListExact
  <2>3. CASE t # me
    BY <1>1, <1>10, <1>11, <2>1, <2>3 DEF LockListExact
  <2> QED
    BY <2>2, <2>3
<1>16. DataOK'
  BY <1>1, <1>5, <1>7 DEF DataOK, donationVars
<1>17. LocksOK'
  BY <1>12, <1>14, <1>15 DEF LocksOK
<1> QED
  BY <1>6, <1>7, <1>8, <1>11, <1>16, <1>17, <1>4, LockStep

-----------------------------------------------------------------------------
(* lock_release.                                                           *)
LEMMA NextPriorityIs ==
  ASSUME DataOK, ThreadsAssumption, NEW t \in Thread, NEW kept, NEW next \in NextPriority(t, kept)
  PROVE  /\ next \in Priority
         /\ waiting_priority[t] = 0 => original_priority[t] <= next
<1> DEFINE base == IF waiting_priority[t] # 0 THEN waiting_priority[t] ELSE original_priority[t]
<1>1. base \in Priority /\ (waiting_priority[t] = 0 => base = original_priority[t])
  BY DEF DataOK
<1>2. PICK best \in [kept -> Priority] : next = Max({base} \cup {best[l] : l \in kept})
  BY DEF NextPriority
<1> HIDE DEF base
<1> DEFINE S == {base} \cup {best[l] : l \in kept}
<1>3. S \subseteq Priority /\ base \in S
  BY <1>1
<1> HIDE DEF S
<1>4. Max(S) \in Priority /\ base <= Max(S)
  BY <1>3, MaxOfPriorities
<1> QED
  BY <1>1, <1>2, <1>4 DEF S

LEMMA ReleaseInv ==
  ASSUME SynchInv, ThreadsAssumption, SynchAssumption, NEW me \in Thread, current = me,
         NEW l \in Lock, holder[l] = me, NEW k,
         \/ k = <<>> \/ \E c \in Thread : k = Made(c) /\ stack[me] # <<>> /\ k = Tail(stack[me])
         \/ \E z \in Sema : k = Parked(z),
         Frame(me).pc \in {"client", "tid"}, release(l, k),
         UNCHANGED <<threadVars, donationVars, value, waiters, holder, client>>
  PROVE  SynchInv'
<1>1. /\ SchedOK /\ DataOK /\ StacksOK /\ HolderKnown /\ OneOwner /\ LockListExact
      /\ status[me] = "RUNNING"
  BY SchedTypes DEF SynchInv, LocksOK
<1>2. SchedOK' /\ \A t \in Thread : KeepsClass(status[t], status'[t])
  BY <1>1, SchedSame, SchedTypes DEF threadVars
<1>3. lock_list' = [lock_list EXCEPT ![me] = lock_list[me] \ {l}]
  BY DEF release
<1>4. PICK next \in NextPriority(me, lock_list'[me]) : Enter(Assigning(l, next), k)
  BY DEF release
<1>5. next \in Priority
  BY <1>1, <1>4, NextPriorityIs
<1> DEFINE g == Assigning(l, next)
<1>6. FrameOK(g, k) /\ g.pc = "assign" /\ g.obj = l
  BY <1>5 DEF FrameOK, Assigning, Acquiring, Releasing, PrioritySetting
<1>7. Enter(g, k) /\ k \in Callers
  BY <1>4 DEF Callers
<1> HIDE DEF g
<1>8. /\ StacksOK' /\ Others(me) /\ Frame(me)'.pc = "assign" /\ Frame(me)'.obj = l
      /\ \A c \in Thread : Makes(stack'[me], c) => Makes(stack[me], c)
  BY <1>1, <1>6, <1>7, Enters
<1>9. \A t \in Thread : t # me => Frame(t)' = Frame(t)
  BY <1>8, FramesKept
<1>10. HolderKnown'
  BY <1>1, <1>8, <1>9 DEF HolderKnown
<1>11. \A t \in Thread, z \in Lock : Owns(t, z)' <=> Owns(t, z)
  BY <1>8, <1>9 DEF Owns
<1>12. OneOwner'
  BY <1>1, <1>11, SameOwners
<1>13. LockListExact'
  <2> SUFFICES ASSUME NEW t \in Thread, NEW z \in Lock
               PROVE  z \in lock_list'[t] <=>
                        holder'[z] = t /\ ~(Frame(t)'.pc \in {"assign", "disown"} /\ Frame(t)'.obj = z)
    BY DEF LockListExact
  <2>1. lock_list'[me] = lock_list[me] \ {l} /\ (t # me => lock_list'[t] = lock_list[t])
    BY <1>1, <1>3 DEF DataOK
  <2>2. CASE t = me
    BY <1>1, <1>8, <2>1, <2>2 DEF LockListExact
  <2>3. CASE t # me
    BY <1>1, <1>9, <2>1, <2>3 DEF LockListExact
  <2> QED
    BY <2>2, <2>3
<1>14. DataOK'
  BY <1>1, <1>3 DEF DataOK, donationVars
<1>15. LocksOK'
  BY <1>10, <1>12, <1>13 DEF LocksOK
<1> QED
  BY <1>1, <1>2, <1>8, <1>14, <1>15, LockStep

LEMMA LockReleaseInv ==
  ASSUME SynchInv, ThreadsAssumption, SynchAssumption, LockRelease, UNCHANGED client
  PROVE  SynchInv'
<1>1. SchedOK /\ DataOK /\ StacksOK /\ HolderKnown
  BY DEF SynchInv, LocksOK
<1>2. UNCHANGED <<threadVars, donationVars, value, waiters, holder>>
  BY DEF LockRelease
<1>3. ASSUME In("client"), NEW l \in client.locks, holder[l] = current, release(l, stack[current])
      PROVE  SynchInv'
  <2>1. PICK me \in Thread : current = me /\ stack[me] = <<>>
    BY <1>1, <1>3, InIs
  <2>2. Frame(me).pc = "client" /\ l \in Lock
    BY <1>1, <2>1, FrameIs, ClientOK
  <2>3. release(l, <<>>) /\ holder[l] = me
    BY <1>3, <2>1
  <2> QED
    BY <1>2, <2>1, <2>2, <2>3, ReleaseInv
<1>4. ASSUME In("tid"), release(TidLock, Tail(stack[current])) PROVE SynchInv'
  <2>1. PICK me \in Thread : current = me
    BY <1>1, <1>4, InIs
  <2> DEFINE k == Tail(stack[me])
             f == Head(stack[me])
  <2>2. stack[me] # <<>> /\ Frame(me) = f /\ FrameOK(f, k) /\ f.pc = "tid"
    BY <1>1, <1>4, <2>1, InIs, FrameIs
  <2>3. f.obj = TidLock /\ \E c \in Thread : k = Made(c)
    BY <2>2 DEF FrameOK
  <2>4. holder[TidLock] = me /\ Frame(me).pc = "tid" /\ TidLock \in Lock
    BY <1>1, <2>2, <2>3, SynchAssumption DEF HolderKnown
  <2>5. release(TidLock, k)
    BY <1>4, <2>1
  <2> HIDE DEF k
  <2>6. stack[me] # <<>> /\ k = Tail(stack[me])
    BY <2>2 DEF k
  <2> QED
    BY <1>2, <2>1, <2>3, <2>4, <2>5, <2>6, ReleaseInv
<1> QED
  BY <1>3, <1>4 DEF LockRelease

LEMMA ReleaseDisownInv ==
  ASSUME SynchInv, ThreadsAssumption, SynchAssumption, ReleaseDisown, UNCHANGED client
  PROVE  SynchInv'
<1>1. SchedOK /\ DataOK /\ StacksOK /\ HolderKnown /\ OneOwner /\ LockListExact
  BY DEF SynchInv, LocksOK
<1>2. In("disown")
  BY DEF ReleaseDisown
<1>3. PICK me \in Thread : current = me
  BY <1>1, <1>2, InIs
<1> DEFINE k == Tail(stack[me])
           f == Head(stack[me])
           l == f.obj
<1>4. /\ stack[me] # <<>> /\ Frame(me) = f /\ Me = f /\ k \in Callers
      /\ FrameOK(f, k) /\ f.pc = "disown" /\ status[me] = "RUNNING"
  BY <1>1, <1>2, <1>3, InIs, FrameIs
<1>5. /\ l \in Lock
      /\ k = <<>> \/ (\E c \in Thread : k = Made(c)) \/ (\E z \in Sema : k = Parked(z))
  BY <1>4 DEF FrameOK, Releasing
<1>6. SchedOK' /\ \A t \in Thread : KeepsClass(status[t], status'[t])
  BY <1>1, SchedSame, SchedTypes DEF threadVars, ReleaseDisown
<1>7. /\ UNCHANGED <<donationVars, lock_list, value, waiters>>
      /\ holder' = [holder EXCEPT ![l] = NULL] /\ Enter(At("rel_up", l), k)
  BY <1>3, <1>4 DEF ReleaseDisown, Goto
<1> DEFINE g == At("rel_up", l)
<1>8. FrameOK(g, k) /\ g.pc = "rel_up" /\ g.obj = l
  BY <1>5 DEF FrameOK, At, Acquiring, Releasing, PrioritySetting
<1>9. Enter(g, k)
  BY <1>7
<1> HIDE DEF g
<1>10. /\ StacksOK' /\ Others(me) /\ Frame(me)'.pc = "rel_up" /\ Frame(me)'.obj = l
       /\ \A c \in Thread : Makes(stack'[me], c) => Makes(stack[me], c)
  BY <1>1, <1>3, <1>4, <1>8, <1>9, Enters
<1>11. Frame(me).pc = "disown" /\ Frame(me).obj = l
  BY <1>4
<1> HIDE DEF k, f, l
<1>12. \A t \in Thread : t # me => Frame(t)' = Frame(t)
  BY <1>10, FramesKept
<1>13. /\ holder[l] = me /\ NULL \notin Thread /\ holder'[l] = NULL
       /\ \A z \in Lock : z # l => holder'[z] = holder[z]
  BY <1>1, <1>5, <1>7, <1>11, SynchAssumption DEF DataOK, HolderKnown
<1>14. HolderKnown'
  <2> SUFFICES ASSUME NEW t \in Thread
               PROVE  /\ Frame(t)'.pc \in {"assign", "disown", "tid"} => holder'[Frame(t)'.obj] = t
                      /\ Frame(t)'.pc \in {"acq_own", "rel_up"} => holder'[Frame(t)'.obj] = NULL
    BY DEF HolderKnown
  <2>1. CASE t = me
    BY <1>10, <1>13, <2>1
  <2>2. CASE t # me
    <3>1. ~Neutral(Frame(t).pc) => Frame(t).obj \in Lock
      BY <1>1, FrameLock
    <3> QED
      BY <1>1, <1>12, <1>13, <2>2, <3>1 DEF HolderKnown, Neutral
  <2> QED
    BY <2>1, <2>2
<1>15. ASSUME NEW t \in Thread, NEW z \in Lock PROVE Owns(t, z)' <=> Owns(t, z)
  <2>1. CASE t = me
    BY <1>10, <1>11, <1>13, <2>1 DEF Owns
  <2>2. CASE t # me
    BY <1>12, <1>13, <2>2 DEF Owns
  <2> QED
    BY <2>1, <2>2
<1>16. OneOwner'
  BY <1>1, <1>7, <1>15, SameOwners
<1>17. LockListExact'
  <2> SUFFICES ASSUME NEW t \in Thread, NEW z \in Lock
               PROVE  z \in lock_list'[t] <=>
                        holder'[z] = t /\ ~(Frame(t)'.pc \in {"assign", "disown"} /\ Frame(t)'.obj = z)
    BY DEF LockListExact
  <2>1. CASE t = me
    BY <1>1, <1>7, <1>10, <1>11, <1>13, <2>1 DEF LockListExact
  <2>2. CASE t # me
    BY <1>1, <1>7, <1>12, <1>13, <2>2 DEF LockListExact
  <2> QED
    BY <2>1, <2>2
<1>18. DataOK'
  BY <1>1, <1>5, <1>7 DEF DataOK, donationVars
<1>19. LocksOK'
  BY <1>14, <1>16, <1>17 DEF LocksOK
<1>20. \A z \in Lock : holder'[z] \in {holder[z], me, NULL}
  BY <1>13
<1> QED
  BY <1>4, <1>6, <1>7, <1>10, <1>18, <1>19, <1>20, LockStep

LEMMA ReleaseUpInv ==
  ASSUME SynchInv, ThreadsAssumption, SynchAssumption, ReleaseUp, UNCHANGED client
  PROVE  SynchInv'
<1>1. /\ SchedOK /\ DataOK /\ StacksOK /\ HolderKnown /\ OneOwner /\ LockListExact
      /\ ChildrenWait /\ GoneHoldNothing /\ WaitListsExact
  BY DEF SynchInv, LocksOK
<1>2. In("rel_up")
  BY DEF ReleaseUp
<1>3. PICK me \in Thread : current = me
  BY <1>1, <1>2, InIs
<1> DEFINE k == Tail(stack[me])
           f == Head(stack[me])
<1>4. /\ stack[me] # <<>> /\ Frame(me) = f /\ Me = f /\ k \in Callers
      /\ FrameOK(f, k) /\ f.pc = "rel_up" /\ status[me] = "RUNNING"
  BY <1>1, <1>2, <1>3, InIs, FrameIs
<1>5. PICK l \in Lock :
        /\ f.obj = l
        /\ k = <<>> \/ (\E c \in Thread : k = Made(c)) \/ (\E z \in Sema : k = Parked(z))
  BY <1>4 DEF FrameOK, Releasing
<1>6. /\ UNCHANGED <<priority, donationVars, lock_list, holder>>
      /\ sema_up(l, FALSE) /\ Return
      /\ value \in [AnySema -> 0 .. MaxValue] /\ Lock \subseteq AnySema /\ l \in AnySema
      /\ waiters \in [AnySema -> Seq(Thread)]
  BY <1>1, <1>4, <1>5 DEF ReleaseUp, AnySema, DataOK
<1>7. /\ StacksOK' /\ Others(me)
      /\ \A c \in Thread : Makes(stack'[me], c) => Makes(stack[me], c)
      /\ Frame(me)'.pc \in {"client", "create", "cond_down"}
  <2>1. /\ StacksOK' /\ Others(me)
        /\ \A c \in Thread : Makes(stack'[me], c) => Makes(stack[me], c)
        /\ k = <<>> => Frame(me)'.pc = "client"
        /\ \A c \in Thread : k = Made(c) => Frame(me)' = Creating(c)
        /\ \A z \in Sema : k = Parked(z) => Frame(me)' = At("cond_down", z)
    BY <1>1, <1>3, <1>4, <1>6, Returns
  <2> QED
    BY <1>5, <2>1 DEF Creating, At
<1>8. Frame(me).pc = "rel_up" /\ Frame(me).obj = l
  BY <1>4, <1>5
<1> HIDE DEF k, f
<1>9. \A t \in Thread : t # me => Frame(t)' = Frame(t)
  BY <1>7, FramesKept
<1>10. /\ SchedOK' /\ value' = [value EXCEPT ![l] = value[l] + 1]
       /\ \/ waiters[l] = <<>> /\ UNCHANGED <<schedVars, panicked, waiters>>
          \/ \E w \in Thread : Wakes(l, w)
  BY <1>1, <1>6, SemaUpIs
<1>11. /\ Owns(me, l) /\ value[l] = 0 /\ holder[l] = NULL /\ NULL \notin Thread
       /\ \A t \in Thread : Owns(t, l) => t = me
  <2>1. Owns(me, l)
    BY <1>8 DEF Owns
  <2> QED
    BY <1>1, <1>5, <1>8, <2>1, SynchAssumption DEF HolderKnown, OneOwner
<1>12. /\ value' \in [AnySema -> 0 .. MaxValue] /\ value'[l] = 1
       /\ \A z \in Lock : z # l => value'[z] = value[z]
  BY <1>6, <1>10, <1>11, SynchAssumption
<1>13. HolderKnown'
  BY <1>1, <1>6, <1>7, <1>9 DEF HolderKnown
<1>14. ASSUME NEW t \in Thread, NEW z \in Lock PROVE Owns(t, z)' <=> (Owns(t, z) /\ z # l)
  <2>1. CASE t = me
    BY <1>6, <1>7, <1>8, <1>11, <2>1 DEF Owns
  <2>2. CASE t # me
    BY <1>6, <1>9, <1>11, <2>2 DEF Owns
  <2> QED
    BY <2>1, <2>2
<1>15. OneOwner'
  <2> SUFFICES ASSUME NEW z \in Lock
               PROVE  /\ value'[z] \in {0, 1}
                      /\ value'[z] = 1 => \A t \in Thread : ~Owns(t, z)'
                      /\ value'[z] = 0 => \E t \in Thread : Owns(t, z)'
                      /\ \A t, u \in Thread : Owns(t, z)' /\ Owns(u, z)' => t = u
    BY DEF OneOwner
  <2>1. CASE z = l
    BY <1>12, <1>14, <2>1
  <2>2. CASE z # l
    BY <1>1, <1>12, <1>14, <2>2 DEF OneOwner
  <2> QED
    BY <2>1, <2>2
<1>16. LockListExact'
  <2> SUFFICES ASSUME NEW t \in Thread, NEW z \in Lock
               PROVE  z \in lock_list'[t] <=>
                        holder'[z] = t /\ ~(Frame(t)'.pc \in {"assign", "disown"} /\ Frame(t)'.obj = z)
    BY DEF LockListExact
  <2>1. CASE t = me
    BY <1>1, <1>6, <1>7, <1>8, <2>1 DEF LockListExact
  <2>2. CASE t # me
    BY <1>1, <1>6, <1>9, <2>2 DEF LockListExact
  <2> QED
    BY <2>1, <2>2
<1>17. LocksOK'
  BY <1>13, <1>15, <1>16 DEF LocksOK
<1>18. CASE UNCHANGED <<schedVars, panicked, waiters>>
  <2>1. DataOK'
    BY <1>1, <1>6, <1>12, <1>18 DEF DataOK, donationVars
  <2>2. \A t \in Thread : KeepsClass(status[t], status'[t])
    BY <1>18 DEF KeepsClass, schedVars
  <2> QED
    BY <1>4, <1>6, <1>7, <1>10, <1>17, <1>18, <2>1, <2>2, LockStep
<1>19. ASSUME NEW w \in Thread, Wakes(l, w) PROVE SynchInv'
  <2>1. WaitListsExact' /\ Calm
    BY <1>1, <1>4, <1>6, <1>7, <1>19, WokenListsExact
  <2>2. waiters' \in [AnySema -> Seq(Thread)]
    BY <1>19 DEF Wakes
  <2>3. DataOK'
    BY <1>1, <1>6, <1>12, <2>2 DEF DataOK, donationVars
  <2>4. ChildrenWait'
    BY <1>1, <1>4, <1>7, <2>1, ChildrenKept
  <2>5. GoneHoldNothing'
    BY <1>1, <1>4, <1>6, <1>7, <2>1, GoneKept
  <2> QED
    BY <1>7, <1>10, <1>17, <2>1, <2>3, <2>4, <2>5 DEF SynchInv
<1> QED
  BY <1>10, <1>18, <1>19

-----------------------------------------------------------------------------
(* thread_create.                                                          *)
LEMMA OnTwo ==
  ASSUME NEW x, NEW y, NEW z
  PROVE  <<x>> \o <<y, z>> = <<x, y, z>>
<1> DEFINE s == <<x>> \o <<y, z>>
<1>1. <<x>> \in Seq({x, y, z}) /\ <<y, z>> \in Seq({x, y, z}) /\ <<x, y, z>> \in Seq({x, y, z})
  OBVIOUS
<1>2. /\ s \in Seq({x, y, z}) /\ Len(s) = 3
      /\ s[1] = x /\ s[2] = y /\ s[3] = z
  BY <1>1, ConcatProperties
<1> HIDE DEF s
<1>3. s = <<x, y, z>>
  BY <1>1, <1>2, SeqEqual
<1> QED
  BY <1>3 DEF s

LEMMA CreateInv ==
  ASSUME SynchInv, ThreadsAssumption, SynchAssumption, Create, UNCHANGED client
  PROVE  SynchInv'
<1>1. /\ SchedOK /\ DataOK /\ StacksOK /\ ChildrenWait /\ GoneHoldNothing /\ LocksOK
      /\ WaitListsExact
  BY DEF SynchInv
<1>2. PICK me \in Thread : current = me /\ stack[me] = <<>> /\ status[me] = "RUNNING"
  BY <1>1, InIs DEF Create
<1> DEFINE made(t, p) ==
             /\ init_thread(t, p)
             /\ original_priority' = [original_priority EXCEPT ![t] = p]
             /\ waiting_priority' = [waiting_priority EXCEPT ![t] = 0]
             /\ lock_list' = [lock_list EXCEPT ![t] = {}]
             /\ blocker_thread' = [blocker_thread EXCEPT ![t] = NULL]
             /\ stack' = [stack EXCEPT ![current] = <<At("new", TidLock), At("tid", TidLock), Creating(t)>>]
<1>3. PICK t \in Thread, p \in Priority : made(t, p)
  BY <1>1, ClientOK DEF Create
<1>4. UNCHANGED <<current, ready_list, thread_ticks, panicked, value, waiters, holder>>
  BY DEF Create
<1>5. /\ status[t] = "FREE" /\ status \in [AnyThread -> Status] /\ t \in AnyThread
      /\ t # me /\ stack[t] = <<>> /\ \A l \in Lock : holder[l] # t
      /\ status'[t] = "BLOCKED" /\ \A u \in AnyThread : u # t => status'[u] = status[u]
  BY <1>1, <1>2, <1>3
     DEF init_thread, SchedOK, ThreadsTypeOK, AnyThread, GoneHoldNothing, Gone
<1>6. SchedOK'
  <2>1. \A i \in 1 .. Len(ready_list) : ready_list[i] \in Thread /\ ready_list[i] # t
    BY <1>1, <1>5, LenProperties DEF SchedOK, ThreadsTypeOK, ReadyListExact
  <2>2. ThreadsTypeOK'
    BY <1>1, <1>3, <1>4 DEF init_thread, SchedOK, ThreadsTypeOK, Status
  <2>3. ReadyListExact'
    BY <1>1, <1>2, <1>4, <1>5, <2>1 DEF SchedOK, ReadyListExact, AnyThread
  <2> QED
    BY <2>2, <2>3 DEF SchedOK
<1> DEFINE g == At("new", TidLock)
           k == Numbered(t)
           s == <<g>> \o k
<1>7. s = <<At("new", TidLock), At("tid", TidLock), Creating(t)>>
  <2> DEFINE x == At("tid", TidLock)
             y == Creating(t)
  <2>1. k = <<x, y>>
    BY DEF Numbered
  <2> HIDE DEF g, x, y, k
  <2>2. s = <<g, x, y>>
    BY <2>1, OnTwo
  <2> QED
    BY <2>2 DEF g, x, y
<1>8. FrameOK(g, k) /\ g.pc = "new" /\ k \in Callers
  BY CallersAre DEF FrameOK, At, Acquiring, Releasing, PrioritySetting
<1>9. /\ StackOK(s) /\ s # <<>> /\ Head(s) = g
      /\ \A c \in Thread : Makes(s, c) => c = t
  <2>1. StackOK(s) /\ s # <<>> /\ Head(s) = g
    BY <1>8, PushedOK, Pushed
  <2>2. ASSUME NEW c \in Thread, Makes(s, c) PROVE c = t
    <3>1. k = Made(c) \/ k = Numbered(c)
      BY <1>8, <2>2, PushedMakes
    <3> QED
      BY <3>1, MadeMakes
  <2> QED
    BY <2>1, <2>2
<1>10. Sets(s)
  BY <1>3, <1>7 DEF Sets
<1> HIDE DEF s, g, k
<1>11. /\ StacksOK' /\ stack'[me] = s /\ Others(me)
       /\ \A u \in Thread : u # me => stack'[u] = stack[u]
  BY <1>1, <1>2, <1>9, <1>10, StackStep DEF Others
<1>12. Frame(me)'.pc = "new" /\ Frame(me).pc = "client" /\ Frame(t).pc = "client" /\ Frame(t)'.pc = "client"
  BY <1>2, <1>5, <1>8, <1>9, <1>11, FrameIs
<1>13. \A u \in Thread : u # me => Frame(u)' = Frame(u)
  BY <1>11, FramesKept
<1>14. lock_list' = lock_list
  <2>1. lock_list[t] = {} /\ lock_list \in [Thread -> SUBSET Lock]
    BY <1>1, <1>5 DEF LocksOK, LockListExact, DataOK
  <2> QED
    BY <1>3, <2>1
<1>15. LocksOK'
  <2>1. \A u \in Thread : KeepsRole(Frame(u), Frame(u)')
    BY <1>12, <1>13 DEF KeepsRole, Neutral
  <2> QED
    BY <1>1, <1>4, <1>14, <2>1, LocksKept
<1>16. WaitListsExact'
  <2>1. ASSUME NEW u \in Thread, NEW z \in AnySema PROVE Asleep(u, z)' <=> Asleep(u, z)
    BY <1>5, <1>12, <1>13 DEF Asleep, AnyThread
  <2> QED
    BY <1>1, <1>4, <2>1, WaitListsKept
<1>17. GoneHoldNothing'
  BY <1>1, <1>2, <1>4, <1>5, <1>11 DEF GoneHoldNothing, Gone, AnyThread
<1>18. ChildrenWait'
  <2> SUFFICES ASSUME NEW u \in Thread, NEW c \in Thread, Makes(stack'[u], c)
               PROVE  /\ status'[c] = "BLOCKED" /\ stack'[c] = <<>>
                      /\ \A v \in Thread : Makes(stack'[v], c) => v = u
    BY DEF ChildrenWait
  <2>1. \A v \in Thread : v # me => ~Makes(stack[v], t)
    BY <1>1, <1>5 DEF ChildrenWait
  <2>2. CASE u = me
    BY <1>5, <1>9, <1>11, <2>1, <2>2
  <2>3. CASE u # me
    <3>1. /\ status[c] = "BLOCKED" /\ stack[c] = <<>>
          /\ \A v \in Thread : Makes(stack[v], c) => v = u
      BY <1>1, <1>11, <2>3 DEF ChildrenWait
    <3>2. c # t /\ c # me
      BY <1>2, <1>5, <3>1
    <3> QED
      BY <1>5, <1>9, <1>11, <2>3, <3>1, <3>2 DEF AnyThread
  <2> QED
    BY <2>2, <2>3
<1>19. DataOK'
  <2>1. 0 \in Priority
    BY DEF Priority, ThreadsAssumption
  <2> QED
    BY <1>1, <1>3, <1>4, <1>14, <2>1 DEF DataOK
<1> QED
  BY <1>6, <1>11, <1>15, <1>16, <1>17, <1>18, <1>19 DEF SynchInv

LEMMA CreateUnblockInv ==
  ASSUME SynchInv, ThreadsAssumption, SynchAssumption, CreateUnblock, UNCHANGED client
  PROVE  SynchInv'
<1>1. /\ SchedOK /\ DataOK /\ StacksOK /\ ChildrenWait /\ GoneHoldNothing /\ LocksOK
      /\ WaitListsExact
  BY DEF SynchInv
<1>2. In("create")
  BY DEF CreateUnblock
<1>3. PICK me \in Thread : current = me
  BY <1>1, <1>2, InIs
<1> DEFINE k == Tail(stack[me])
           f == Head(stack[me])
<1>4. /\ stack[me] # <<>> /\ Frame(me) = f /\ Me = f
      /\ FrameOK(f, k) /\ f.pc = "create" /\ status[me] = "RUNNING"
  BY <1>1, <1>2, <1>3, InIs, FrameIs
<1>5. PICK c \in Thread : f.child = c /\ k = <<>>
  BY <1>4 DEF FrameOK
<1>6. Makes(stack[me], c)
  BY <1>4, <1>5 DEF Makes
<1>7. thread_unblock(c) /\ Return
  BY <1>4, <1>5 DEF CreateUnblock
<1>8. UNCHANGED <<priority, panicked, donationVars, lock_list, value, waiters, holder>>
  BY DEF CreateUnblock
<1>9. /\ StacksOK' /\ Others(me) /\ stack'[me] = <<>> /\ Frame(me)'.pc = "client"
      /\ \A u \in Thread : u # me => stack'[u] = stack[u]
  BY <1>1, <1>3, <1>4, <1>5, <1>7, Returns DEF Others
<1>10. Frame(me).pc = "create"
  BY <1>4
<1> HIDE DEF k, f
<1>11. /\ status[c] = "BLOCKED" /\ stack[c] = <<>> /\ c # me
       /\ \A u \in Thread : Makes(stack[u], c) => u = me
  BY <1>1, <1>4, <1>5, <1>6 DEF ChildrenWait
<1>12. /\ SchedOK' /\ Live(status'[c])
       /\ \A u \in Thread : u # c => KeepsClass(status[u], status'[u])
  BY <1>1, <1>5, <1>7, <1>8, <1>11, UnblockExact
<1>13. \A u \in Thread : u # me => Frame(u)' = Frame(u)
  BY <1>9, FramesKept
<1>14. LocksOK'
  <2>1. \A u \in Thread : KeepsRole(Frame(u), Frame(u)')
    BY <1>9, <1>10, <1>13 DEF KeepsRole, Neutral
  <2> QED
    BY <1>1, <1>8, <2>1, LocksKept
<1>15. Frame(c).pc = "client" /\ Frame(c)'.pc = "client"
  <2>1. Frame(c)' = Frame(c)
    BY <1>5, <1>11, <1>13
  <2>2. Frame(c).pc = "client"
    BY <1>5, <1>11, FrameIs
  <2> QED
    BY <2>1, <2>2
<1>16. WaitListsExact'
  <2>1. ASSUME NEW u \in Thread, NEW z \in AnySema PROVE Asleep(u, z)' <=> Asleep(u, z)
    BY <1>9, <1>10, <1>12, <1>13, <1>15 DEF Asleep, KeepsClass, Live
  <2> QED
    BY <1>1, <1>8, <2>1, WaitListsKept
<1>17. GoneHoldNothing'
  BY <1>1, <1>4, <1>8, <1>9, <1>12 DEF GoneHoldNothing, Gone, KeepsClass, Live
<1>18. ChildrenWait'
  <2> SUFFICES ASSUME NEW u \in Thread, NEW d \in Thread, Makes(stack'[u], d)
               PROVE  /\ status'[d] = "BLOCKED" /\ stack'[d] = <<>>
                      /\ \A v \in Thread : Makes(stack'[v], d) => v = u
    BY DEF ChildrenWait
  <2>1. \A x \in Thread : ~Makes(<<>>, x)
    BY NothingMade
  <2>2. u # me /\ Makes(stack[u], d)
    BY <1>9, <2>1
  <2>3. /\ status[d] = "BLOCKED" /\ stack[d] = <<>>
        /\ \A v \in Thread : Makes(stack[v], d) => v = u
    BY <1>1, <2>2 DEF ChildrenWait
  <2>4. d # c /\ d # me
    BY <1>4, <1>11, <2>2, <2>3
  <2> QED
    BY <1>9, <1>12, <2>1, <2>3, <2>4 DEF KeepsClass, Live
<1>19. DataOK'
  BY <1>1, <1>8 DEF DataOK, donationVars
<1> QED
  BY <1>9, <1>12, <1>14, <1>16, <1>17, <1>18, <1>19 DEF SynchInv

-----------------------------------------------------------------------------
(* The start.                                                              *)

(* A list of a finite set has all its members, each once.                  *)
LEMMA ListOfSet ==
  ASSUME NEW S, IsFiniteSet(S), NEW r \in SetToSeqs(S)
  PROVE  /\ r \in Seq(S)
         /\ \A i, j \in 1 .. Len(r) : r[i] = r[j] => i = j
         /\ \A x \in S : \E i \in 1 .. Len(r) : r[i] = x
<1> DEFINE n == Cardinality(S)
<1>1. n \in Nat
  BY FS_CardinalityType
<1>2. r \in [1 .. n -> S] /\ \A i, j \in 1 .. n : i # j => r[i] # r[j]
  BY DEF SetToSeqs
<1> HIDE DEF n
<1>3. r \in Seq(S) /\ Len(r) = n
  BY <1>1, <1>2
<1>4. r \in Injection(1 .. n, S)
  BY <1>2 DEF Injection, IsInjective
<1>5. Cardinality(1 .. n) = n
  BY <1>1, FS_Interval
<1>6. r \in Surjection(1 .. n, S)
  BY <1>4, <1>5, FS_Injection DEF n
<1> QED
  BY <1>2, <1>3, <1>6 DEF Surjection

LEMMA InitInv ==
  ASSUME Init, ThreadsAssumption, SynchAssumption
  PROVE  SynchInv
<1>1. /\ client \in Client /\ Main \in client.started /\ client.started \subseteq Thread
      /\ client.priority \in [Thread -> Priority]
      /\ Main \in Thread /\ Idle \notin Thread /\ NULL \notin Thread
      /\ 0 \in Priority /\ TimeSlice \in Nat \ {0} /\ MaxValue \in Nat \ {0}
  BY DEF Init, SynchAssumption, ThreadsAssumption, Priority
<1>2. /\ current = Main /\ thread_ticks = 0 /\ panicked = FALSE
      /\ status = [t \in Thread \cup {Idle} |->
                     IF t = Main THEN "RUNNING"
                     ELSE IF t = Idle THEN "BLOCKED"
                     ELSE IF t \in client.started THEN "READY" ELSE "FREE"]
      /\ priority = [t \in Thread \cup {Idle} |-> IF t \in client.started THEN client.priority[t] ELSE 0]
      /\ ready_list \in SetToSeqs(client.started \ {Main})
  BY DEF Init
<1>3. /\ original_priority = [t \in Thread |-> priority[t]]
      /\ waiting_priority = [t \in Thread |-> 0]
      /\ blocker_thread = [t \in Thread |-> NULL]
      /\ lock_list = [t \in Thread |-> {}]
      /\ value = [s \in AnySema |-> IF s \in Lock THEN 1 ELSE 0]
      /\ waiters = [s \in AnySema |-> <<>>]
      /\ holder = [l \in Lock |-> NULL]
      /\ stack = [t \in Thread |-> <<>>]
  BY DEF Init
<1>4. priority \in [AnyThread -> Priority]
  BY <1>1, <1>2 DEF AnyThread
<1>5. /\ ready_list \in Seq(client.started \ {Main})
      /\ \A i, j \in 1 .. Len(ready_list) : ready_list[i] = ready_list[j] => i = j
      /\ \A x \in client.started \ {Main} : \E i \in 1 .. Len(ready_list) : ready_list[i] = x
  <2>1. IsFiniteSet(client.started)
    BY <1>1, SynchAssumption, FS_Subset
  <2> DEFINE S == client.started \ {Main}
  <2>2. IsFiniteSet(S) /\ ready_list \in SetToSeqs(S)
    BY <1>2, <2>1, FS_RemoveElement
  <2> HIDE DEF S
  <2>3. /\ ready_list \in Seq(S)
        /\ \A i, j \in 1 .. Len(ready_list) : ready_list[i] = ready_list[j] => i = j
        /\ \A x \in S : \E i \in 1 .. Len(ready_list) : ready_list[i] = x
    BY <2>2, ListOfSet
  <2> QED
    BY <2>3 DEF S
<1>6. /\ ready_list \in Seq(Thread)
      /\ \A i \in 1 .. Len(ready_list) : ready_list[i] \in client.started \ {Main}
  <2> DEFINE S == client.started \ {Main}
  <2>1. S \subseteq Thread /\ ready_list \in Seq(S)
    BY <1>1, <1>5
  <2> HIDE DEF S
  <2>2. \A i \in 1 .. Len(ready_list) : ready_list[i] \in S
    BY <2>1, LenProperties
  <2>3. ready_list \in Seq(Thread)
    BY <2>1, <2>2
  <2> QED
    BY <2>2, <2>3 DEF S
<1>7. ThreadsTypeOK
  <2>1. status \in [Thread \cup {Idle} -> Status]
    BY <1>2 DEF Status
  <2>2. thread_ticks \in 0 .. TimeSlice - 1
    BY <1>1, <1>2
  <2>3. panicked \in BOOLEAN /\ current \in Thread \cup {Idle}
    BY <1>1, <1>2
  <2> QED
    BY <1>4, <1>6, <2>1, <2>2, <2>3 DEF ThreadsTypeOK, AnyThread
<1>8. ReadyListExact
  <2>1. \A i \in 1 .. Len(ready_list) : status[ready_list[i]] = "READY"
    BY <1>1, <1>2, <1>6
  <2>2. \A t \in Thread : status[t] = "READY" => t \in client.started \ {Main}
    BY <1>1, <1>2
  <2>3. \A t \in Thread \cup {Idle} : status[t] = "RUNNING" <=> t = current
    BY <1>1, <1>2
  <2> QED
    BY <1>5, <2>1, <2>2, <2>3 DEF ReadyListExact
<1>9. DataOK
  <2>1. original_priority \in [Thread -> Priority] /\ waiting_priority \in [Thread -> Priority]
    BY <1>1, <1>3, <1>4 DEF AnyThread
  <2>2. value \in [AnySema -> 0 .. MaxValue] /\ waiters \in [AnySema -> Seq(Thread)]
    BY <1>1, <1>3
  <2> QED
    BY <1>1, <1>3, <2>1, <2>2 DEF DataOK
<1>10. \A t \in Thread : stack[t] = <<>> /\ Frame(t).pc = "client"
  BY <1>1, <1>3 DEF Frame
<1>11. StacksOK /\ ChildrenWait
  BY <1>3, <1>10, NothingMade DEF StacksOK, StackOK, ChildrenWait
<1>12. GoneHoldNothing
  BY <1>1, <1>3, <1>10 DEF GoneHoldNothing
<1>13. LocksOK
  <2>1. \A t \in Thread, l \in Lock : ~Owns(t, l)
    BY <1>1, <1>3, <1>10 DEF Owns
  <2>2. \A l \in Lock : value[l] = 1
    BY <1>3 DEF AnySema
  <2>3. LockListExact
    BY <1>1, <1>3, <1>10 DEF LockListExact
  <2> QED
    BY <1>10, <2>1, <2>2, <2>3 DEF LocksOK, OneOwner, HolderKnown
<1>14. WaitListsExact
  <2>1. \A s \in AnySema : waiters[s] = <<>>
    BY <1>3
  <2>2. \A t \in Thread, s \in AnySema : ~Waiting(t, s)
    BY <2>1 DEF Waiting
  <2>3. IsInjective(<<>>)
    BY DEF IsInjective
  <2> QED
    BY <1>10, <2>1, <2>2, <2>3 DEF WaitListsExact
<1> QED
  BY <1>7, <1>8, <1>9, <1>11, <1>12, <1>13, <1>14 DEF SynchInv, SchedOK

LEMMA StutterInv ==
  ASSUME SynchInv, UNCHANGED vars
  PROVE  SynchInv'
<1>1. UNCHANGED <<current, status, ready_list, priority, thread_ticks, panicked>>
  BY DEF vars, threadVars, schedVars
<1>2. /\ UNCHANGED <<original_priority, waiting_priority, blocker_thread, lock_list>>
      /\ UNCHANGED <<value, waiters, holder, stack, client>>
  BY DEF vars, synchVars, donationVars
<1>3. \A t \in Thread : Frame(t)' = Frame(t)
  BY <1>2 DEF Frame
<1>4. SchedOK' /\ DataOK' /\ StacksOK'
  BY <1>1, <1>2 DEF SynchInv, SchedOK, ThreadsTypeOK, ReadyListExact, DataOK, StacksOK
<1>5. ChildrenWait' /\ GoneHoldNothing'
  BY <1>1, <1>2 DEF SynchInv, ChildrenWait, GoneHoldNothing
<1>6. LocksOK'
  BY <1>2, <1>3, LocksKept DEF SynchInv, KeepsRole
<1>7. WaitListsExact'
  BY <1>1, <1>2, <1>3, WaitListsKept DEF SynchInv, Asleep
<1> QED
  BY <1>4, <1>5, <1>6, <1>7 DEF SynchInv

LEMMA StepInv ==
  ASSUME SynchInv, ThreadsAssumption, SynchAssumption, Next
  PROVE  SynchInv'
<1>1. UNCHANGED client
  BY DEF Next
<1>2. CASE SemaDown \/ SemaUp \/ SemaTryDown \/ InterruptUp
  BY <1>1, <1>2, SemaDownInv, SemaUpInv, SemaTryDownInv
<1>3. CASE LockAcquire \/ DonateRead \/ DonateWrite \/ AcquireDown \/ AcquireOwn
  BY <1>1, <1>3, LockAcquireInv, DonateReadInv, DonateWriteInv, AcquireDownInv, AcquireOwnInv
<1>4. CASE LockRelease \/ ReleaseAssign \/ ReleaseDisown \/ ReleaseUp
  BY <1>1, <1>4, LockReleaseInv, ReleaseAssignInv, ReleaseDisownInv, ReleaseUpInv
<1>5. CASE SetPriority \/ SetUpdate \/ SetLook \/ SetYield
  BY <1>1, <1>5, SetPriorityInv, SetUpdateInv, SetLookInv, SetYieldInv
<1>6. CASE Create \/ AllocateTid \/ CreateUnblock \/ ThreadExit
  BY <1>1, <1>6, CreateInv, AllocateTidInv, CreateUnblockInv, ThreadExitInv
<1>7. CASE Tick \/ IdleStep
  BY <1>1, <1>7, TickInv, IdleInv
<1> QED
  BY <1>2, <1>3, <1>4, <1>5, <1>6, <1>7 DEF Next, ThreadStep

LEMMA SynchInvariance == Spec => []SynchInv
<1>1. Init => SynchInv
  BY InitInv, ThreadsAssumption, SynchAssumption
<1>2. SynchInv /\ [Next]_vars => SynchInv'
  BY StepInv, StutterInv, ThreadsAssumption, SynchAssumption
<1> QED
  BY <1>1, <1>2, PTL DEF Spec

(* OneOwner counts to one.                                                 *)
LEMMA OwnersCounted ==
  ASSUME OneOwner
  PROVE  LockConserved
<1> SUFFICES ASSUME NEW l \in Lock
             PROVE  value[l] + Cardinality(Owners(l)) = 1
  BY DEF LockConserved
<1>1. \A t \in Thread : t \in Owners(l) <=> Owns(t, l)
  BY DEF Owners, Owns
<1>2. Owners(l) \subseteq Thread
  BY DEF Owners
<1>3. CASE value[l] = 1
  <2>1. Owners(l) = {}
    BY <1>1, <1>2, <1>3 DEF OneOwner
  <2> QED
    BY <1>3, <2>1, FS_EmptySet
<1>4. CASE value[l] = 0
  <2>1. PICK t \in Thread : Owns(t, l)
    BY <1>4 DEF OneOwner
  <2>2. Owners(l) = {t}
    BY <1>1, <1>2, <2>1 DEF OneOwner
  <2>3. Cardinality({t}) = 1
    BY FS_Singleton
  <2> QED
    BY <1>4, <2>2, <2>3
<1> QED
  BY <1>3, <1>4 DEF OneOwner

LEMMA LocksExactIs ==
  ASSUME SynchInv
  PROVE  LocksExact
<1>1. \A t \in Thread : Len(stack[t]) <= 3
  BY StackLength DEF SynchInv, StacksOK
<1>2. SynchTypeOK
  BY <1>1 DEF SynchInv, SchedOK, DataOK, SynchTypeOK
<1>3. LockConserved
  BY OwnersCounted DEF SynchInv, LocksOK
<1> QED
  BY <1>2, <1>3 DEF SynchInv, LocksOK, LocksExact

(* lock_acquire and lock_release, each several steps with interrupts on,   *)
(* whatever interleaves with them, donations and thread_create's tid_lock  *)
(* included: a lock's semaphore is taken exactly while one thread is       *)
(* between its sema_down and its sema_up, lock_list is exactly the locks   *)
(* whose holder the thread is, and a thread is on a semaphore's wait list  *)
(* exactly while it sleeps there.                                          *)
THEOREM LocksAlwaysExact == Spec => []LocksExact
BY LocksExactIs, SynchInvariance, PTL

-----------------------------------------------------------------------------
(* Wakeups.                                                                *)
Awake(t, s) == IntrOff(t) /\ Frame(t).obj = s /\ status[t] # "BLOCKED"

(* A thread taken off a wait list is the best on it.                       *)
BestWoken ==
  \A s \in AnySema, t, u \in Thread :
    Waiting(t, s) /\ ~Waiting(t, s)' /\ Waiting(u, s) => priority[u] <= priority[t]

WakeupsOK == NoLostWakeup' /\ BestWoken

LEMMA WokenAre ==
  ASSUME SynchAssumption, NEW s
  PROVE  /\ WokenFor(s) = {t \in Thread : Awake(t, s)}
         /\ WokenFor(s)' = {t \in Thread : Awake(t, s)'}
         /\ IsFiniteSet(WokenFor(s)) /\ IsFiniteSet(WokenFor(s)')
         /\ Cardinality(WokenFor(s)) \in Nat /\ Cardinality(WokenFor(s)') \in Nat
<1>1. /\ WokenFor(s) = {t \in Thread : Awake(t, s)}
      /\ WokenFor(s)' = {t \in Thread : Awake(t, s)'}
  BY DEF WokenFor, Awake, IntrOff
<1>2. WokenFor(s) \in SUBSET Thread /\ WokenFor(s)' \in SUBSET Thread
  BY <1>1
<1>3. IsFiniteSet(WokenFor(s)) /\ IsFiniteSet(WokenFor(s)')
  BY <1>2, SynchAssumption, FS_Subset
<1> QED
  BY <1>1, <1>3, FS_CardinalityType

(* Nobody woken for s goes to sleep or on, the thread me excepted.         *)
LEMMA WokenKept ==
  ASSUME SynchAssumption, NEW s, NEW me, \A t \in Thread : t # me /\ Awake(t, s) => Awake(t, s)'
  PROVE  /\ Cardinality(WokenFor(s)) - 1 <= Cardinality(WokenFor(s)')
         /\ (me \in Thread => ~Awake(me, s)) => Cardinality(WokenFor(s)) <= Cardinality(WokenFor(s)')
<1> DEFINE W == WokenFor(s)
           V == WokenFor(s)'
<1>1. /\ W = {t \in Thread : Awake(t, s)} /\ V = {t \in Thread : Awake(t, s)'}
      /\ IsFiniteSet(W) /\ IsFiniteSet(V) /\ Cardinality(W) \in Nat /\ Cardinality(V) \in Nat
  BY WokenAre
<1>2. (W \ {me}) \in SUBSET V
  BY <1>1
<1>3. (me \in Thread => ~Awake(me, s)) => W \ {me} = W
  BY <1>1
<1> HIDE DEF W, V
<1>4. Cardinality(W \ {me}) <= Cardinality(V)
  BY <1>1, <1>2, FS_Subset
<1>5. Cardinality(W \ {me}) = IF me \in W THEN Cardinality(W) - 1 ELSE Cardinality(W)
  BY <1>1, FS_RemoveElement
<1>6. Cardinality(W) - 1 <= Cardinality(V)
  BY <1>1, <1>4, <1>5
<1>7. (me \in Thread => ~Awake(me, s)) => Cardinality(W) <= Cardinality(V)
  BY <1>3, <1>4
<1> QED
  BY <1>6, <1>7 DEF W, V

(* The steps that neither take nor raise a semaphore that has waiters.     *)
Undisturbed(me) ==
  /\ Others(me) /\ ~IntrOff(me)
  /\ \A t \in Thread : status'[t] = "BLOCKED" => status[t] = "BLOCKED" \/ ~IntrOff(t)

LEMMA StaysAwake ==
  ASSUME NEW me, Undisturbed(me), NEW s
  PROVE  \A t \in Thread : Awake(t, s) => Awake(t, s)'
BY FramesKept DEF Undisturbed, Awake, IntrOff

LEMMA QuietStep ==
  ASSUME SynchInv, SynchInv', NoLostWakeup, SynchAssumption, NEW me, Undisturbed(me),
         UNCHANGED waiters, \A s \in AnySema : value'[s] <= value[s]
  PROVE  WakeupsOK
<1>1. BestWoken
  BY DEF BestWoken, Waiting
<1>2. ASSUME NEW s \in AnySema, waiters'[s] # <<>>
      PROVE  value'[s] <= Cardinality(WokenFor(s)')
  <2>1. value[s] <= Cardinality(WokenFor(s))
    BY <1>2 DEF NoLostWakeup
  <2>2. \A t \in Thread : Awake(t, s) => Awake(t, s)'
    BY StaysAwake
  <2>3. ~Awake(me, s)
    BY DEF Undisturbed, Awake
  <2>4. Cardinality(WokenFor(s)) <= Cardinality(WokenFor(s)')
    BY <2>2, <2>3, WokenKept
  <2>5. value[s] \in Int /\ value'[s] \in Int
    BY DEF SynchInv, DataOK
  <2> QED
    BY <2>1, <2>4, <2>5, WokenAre
<1> QED
  BY <1>1, <1>2 DEF WakeupsOK, NoLostWakeup

(* The thread me, which may have been woken for s, takes it.               *)
LEMMA TakeStep ==
  ASSUME SynchInv, SynchInv', NoLostWakeup, ThreadsAssumption, SynchAssumption,
         NEW me \in Thread, Others(me),
         NEW s \in AnySema, Takes(s), IntrOff(me) => Frame(me).obj = s
  PROVE  WakeupsOK
<1>1. /\ UNCHANGED <<schedVars, waiters>> /\ value' = [value EXCEPT ![s] = value[s] - 1]
      /\ UNCHANGED status /\ value \in [AnySema -> 0 .. MaxValue]
  BY DEF Takes, schedVars, SynchInv, DataOK
<1>2. BestWoken
  BY <1>1 DEF BestWoken, Waiting
<1>3. ASSUME NEW z \in AnySema, waiters'[z] # <<>>
      PROVE  value'[z] <= Cardinality(WokenFor(z)')
  <2>1. value[z] <= Cardinality(WokenFor(z)) /\ value[z] \in Int
    BY <1>1, <1>3 DEF NoLostWakeup
  <2>2. \A t \in Thread : t # me /\ Awake(t, z) => Awake(t, z)'
    BY <1>1, FramesKept DEF Awake, IntrOff
  <2>3. CASE z = s
    <3>1. Cardinality(WokenFor(z)) - 1 <= Cardinality(WokenFor(z)')
      BY <2>2, WokenKept
    <3>2. value'[z] = value[z] - 1
      BY <1>1, <2>3
    <3> QED
      BY <2>1, <3>1, <3>2, WokenAre
  <2>4. CASE z # s
    <3>1. ~Awake(me, z)
      BY <2>4 DEF Awake
    <3>2. Cardinality(WokenFor(z)) <= Cardinality(WokenFor(z)')
      BY <2>2, <3>1, WokenKept
    <3>3. value'[z] = value[z]
      BY <1>1, <2>4
    <3> QED
      BY <2>1, <3>2, <3>3, WokenAre
  <2> QED
    BY <2>3, <2>4
<1> QED
  BY <1>2, <1>3 DEF WakeupsOK, NoLostWakeup

(* It finds it taken and sleeps.                                           *)
LEMMA WaitStep ==
  ASSUME SynchInv, SynchInv', NoLostWakeup, ThreadsAssumption, SynchAssumption,
         NEW me \in Thread, current = me, Others(me), UNCHANGED <<priority, panicked>>,
         NEW s \in AnySema, Waits(s), IntrOff(me) => Frame(me).obj = s
  PROVE  WakeupsOK
<1>1. /\ waiters' = [waiters EXCEPT ![s] = Append(waiters[s], me)] /\ value' = value /\ value[s] = 0
      /\ value \in [AnySema -> 0 .. MaxValue] /\ waiters \in [AnySema -> Seq(Thread)]
  BY DEF Waits, SynchInv, DataOK
<1>2. \A t \in Thread : t # me => KeepsClass(status[t], status'[t])
  BY LeaveExact DEF Waits, thread_block, SynchInv
<1>3. ASSUME NEW z \in AnySema, NEW t \in Thread, Waiting(t, z) PROVE Waiting(t, z)'
  <2>1. CASE z = s
    <3> DEFINE q == waiters[s]
               r == Append(q, me)
    <3>1. q \in Seq(Thread) /\ waiters'[s] = r
      BY <1>1
    <3>2. PICK i \in DOMAIN q : q[i] = t
      BY <1>3, <2>1 DEF Waiting
    <3> HIDE DEF q
    <3>3. i \in DOMAIN r /\ r[i] = t
      BY <3>1, <3>2, AppendProperties, LenProperties
    <3> HIDE DEF r
    <3> QED
      BY <2>1, <3>1, <3>3 DEF Waiting
  <2>2. CASE z # s
    BY <1>1, <1>3, <2>2 DEF Waiting
  <2> QED
    BY <2>1, <2>2
<1>4. BestWoken
  BY <1>3 DEF BestWoken
<1>5. ASSUME NEW z \in AnySema, waiters'[z] # <<>>
      PROVE  value'[z] <= Cardinality(WokenFor(z)')
  <2>1. CASE z = s
    BY <1>1, <2>1, WokenAre
  <2>2. CASE z # s
    <3>1. value[z] <= Cardinality(WokenFor(z)) /\ value[z] \in Int
      BY <1>1, <1>5, <2>2 DEF NoLostWakeup
    <3>2. \A t \in Thread : t # me /\ Awake(t, z) => Awake(t, z)'
      BY <1>2, FramesKept DEF Awake, IntrOff, KeepsClass, Live
    <3>3. ~Awake(me, z)
      BY <2>2 DEF Awake
    <3>4. Cardinality(WokenFor(z)) <= Cardinality(WokenFor(z)')
      BY <3>2, <3>3, WokenKept
    <3> QED
      BY <1>1, <3>1, <3>4, WokenAre
  <2> QED
    BY <2>1, <2>2
<1> QED
  BY <1>4, <1>5 DEF WakeupsOK, NoLostWakeup

(* sema_up: the value, and one of the waiters woken if there are any.      *)
LEMMA RaiseStep ==
  ASSUME SynchInv, SynchInv', NoLostWakeup, ThreadsAssumption, SynchAssumption,
         NEW me, Others(me), ~IntrOff(me), UNCHANGED priority,
         NEW s \in AnySema, NEW intr \in BOOLEAN, sema_up(s, intr)
  PROVE  WakeupsOK
<1>1. /\ SchedOK /\ WaitListsExact /\ waiters \in [AnySema -> Seq(Thread)]
      /\ value \in [AnySema -> 0 .. MaxValue]
  BY DEF SynchInv, DataOK
<1>2. /\ value' = [value EXCEPT ![s] = value[s] + 1]
      /\ \/ waiters[s] = <<>> /\ UNCHANGED <<schedVars, panicked, waiters>>
         \/ \E w \in Thread : Wakes(s, w)
  BY <1>1, SemaUpIs
<1>3. CASE waiters[s] = <<>> /\ UNCHANGED <<schedVars, panicked, waiters>>
  <2>1. BestWoken
    BY <1>3 DEF BestWoken, Waiting
  <2>2. Undisturbed(me)
    BY <1>3 DEF Undisturbed, schedVars
  <2>3. ASSUME NEW z \in AnySema, waiters'[z] # <<>>
        PROVE  value'[z] <= Cardinality(WokenFor(z)')
    <3>1. z # s
      BY <1>3, <2>3
    <3>2. value[z] <= Cardinality(WokenFor(z)) /\ value'[z] = value[z] /\ value[z] \in Int
      BY <1>1, <1>2, <1>3, <2>3, <3>1 DEF NoLostWakeup
    <3>3. \A t \in Thread : Awake(t, z) => Awake(t, z)'
      BY <2>2, StaysAwake
    <3>4. ~Awake(me, z)
      BY DEF Awake
    <3>5. Cardinality(WokenFor(z)) <= Cardinality(WokenFor(z)')
      BY <3>3, <3>4, WokenKept
    <3> QED
      BY <3>2, <3>5, WokenAre
  <2> QED
    BY <2>1, <2>3 DEF WakeupsOK, NoLostWakeup
<1>4. ASSUME NEW w \in Thread, Wakes(s, w) PROVE WakeupsOK
  <2>1. /\ status[w] = "BLOCKED" /\ IntrOff(w) /\ Frame(w).obj = s /\ w # me
        /\ Waiting(w, s)
    BY <1>1, <1>4 DEF WaitListsExact, Wakes, IntrOff
  <2>2. /\ Live(status'[w]) /\ \A t \in Thread : t # w => KeepsClass(status[t], status'[t])
        /\ \A z \in AnySema : z # s => waiters'[z] = waiters[z]
        /\ \A t \in Thread : Waiting(t, s)' <=> (Waiting(t, s) /\ t # w)
        /\ \A t \in Thread : Waiting(t, s) => priority[t] <= priority[w]
    BY <1>4 DEF Wakes
  <2>3. BestWoken
    <3> SUFFICES ASSUME NEW z \in AnySema, NEW t \in Thread, NEW u \in Thread,
                        Waiting(t, z), ~Waiting(t, z)', Waiting(u, z)
                 PROVE  priority[u] <= priority[t]
      BY DEF BestWoken
    <3>1. z = s
      BY <2>2 DEF Waiting
    <3> QED
      BY <2>2, <3>1
  <2>4. Undisturbed(me)
    BY <2>1, <2>2 DEF Undisturbed, KeepsClass, Live
  <2>5. ASSUME NEW z \in AnySema, waiters'[z] # <<>>
        PROVE  value'[z] <= Cardinality(WokenFor(z)')
    <3>1. \A t \in Thread : Awake(t, z) => Awake(t, z)'
      BY <2>4, StaysAwake
    <3>2. CASE z # s
      <4>1. value[z] <= Cardinality(WokenFor(z)) /\ value'[z] = value[z] /\ value[z] \in Int
        BY <1>1, <1>2, <2>2, <2>5, <3>2 DEF NoLostWakeup
      <4>2. ~Awake(me, z)
        BY DEF Awake
      <4>3. Cardinality(WokenFor(z)) <= Cardinality(WokenFor(z)')
        BY <3>1, <4>2, WokenKept
      <4> QED
        BY <4>1, <4>3, WokenAre
    <3>3. CASE z = s
      <4> DEFINE W == WokenFor(s)
                 V == WokenFor(s)'
      <4>1. waiters[s] # <<>>
        BY <2>1, EmptySeq DEF Waiting
      <4>2. value[s] <= Cardinality(W) /\ value'[s] = value[s] + 1 /\ value[s] \in Int
        BY <1>1, <1>2, <4>1 DEF NoLostWakeup
      <4>3. Awake(w, s)' /\ ~Awake(w, s)
        <5>1. Frame(w)' = Frame(w)
          BY <2>1, FramesKept
        <5> QED
          BY <2>1, <2>2, <5>1 DEF Awake, IntrOff, Live
      <4>4. /\ W = {t \in Thread : Awake(t, s)} /\ V = {t \in Thread : Awake(t, s)'}
            /\ IsFiniteSet(W) /\ IsFiniteSet(V) /\ Cardinality(W) \in Nat /\ Cardinality(V) \in Nat
        BY WokenAre
      <4>5. (W \cup {w}) \in SUBSET V /\ w \notin W
        BY <3>1, <3>3, <4>3, <4>4
      <4> HIDE DEF W, V
      <4>6. Cardinality(W \cup {w}) = Cardinality(W) + 1
        BY <4>4, <4>5, FS_AddElement
      <4>7. Cardinality(W \cup {w}) <= Cardinality(V)
        BY <4>4, <4>5, FS_Subset
      <4>8. value'[s] <= Cardinality(V)
        BY <4>2, <4>4, <4>6, <4>7
      <4> QED
        BY <3>3, <4>8 DEF V
    <3> QED
      BY <3>2, <3>3
  <2> QED
    BY <2>3, <2>5 DEF WakeupsOK, NoLostWakeup
<1> QED
  BY <1>2, <1>3, <1>4

(* The steps of a thread are on its own stack.                             *)
LEMMA OwnStack ==
  ASSUME StacksOK
  PROVE  /\ UNCHANGED stack => Others(current)
         /\ Return => Others(current)
BY DEF StacksOK, Others, Return

LEMMA OwnCall ==
  ASSUME StacksOK, NEW f, NEW k, Enter(f, k)
  PROVE  Others(current)
BY DEF StacksOK, Others, Enter

LEMMA OwnCalls ==
  ASSUME StacksOK, NEW f
  PROVE  (Call(f) => Others(current)) /\ (Goto(f) => Others(current))
BY OwnCall DEF Call, Goto

LEMMA AcquireOwnCall ==
  ASSUME StacksOK, NEW l, NEW k, acquire(l, k)
  PROVE  Others(current)
BY OwnCall DEF acquire

LEMMA ReleaseOwnCall ==
  ASSUME StacksOK, NEW l, NEW k, release(l, k)
  PROVE  Others(current)
<1>1. PICK next \in NextPriority(current, lock_list'[current]) : Enter(Assigning(l, next), k)
  BY DEF release
<1> QED
  BY <1>1, OwnCall

(* The steps of a call that leave semaphores and statuses alone.           *)
Private ==
  \/ SemaTryDown
  \/ LockAcquire \/ DonateRead \/ DonateWrite \/ AcquireOwn
  \/ LockRelease \/ ReleaseAssign \/ ReleaseDisown
  \/ SetPriority \/ SetUpdate \/ SetLook \/ AllocateTid

LEMMA PrivateIs ==
  ASSUME SynchInv, Private
  PROVE  /\ Others(current) /\ ~IntrOff(current)
         /\ UNCHANGED <<status, waiters>> /\ \A s \in AnySema : value'[s] <= value[s]
<1>1. StacksOK /\ value \in [AnySema -> 0 .. MaxValue]
  BY DEF SynchInv, DataOK
<1>2. ~IntrOff(current) /\ UNCHANGED waiters
  <2>1. PICK pc \in {"client", "donate", "raise", "acq_own", "tid", "assign", "disown", "update",
                     "look", "new"} : In(pc)
    BY DEF Private, SemaTryDown, LockAcquire, DonateRead, DonateWrite, AcquireOwn, LockRelease,
           ReleaseAssign, ReleaseDisown, SetPriority, SetUpdate, SetLook, AllocateTid
  <2>2. ~IntrOff(current)
    BY <2>1 DEF In, IntrOff
  <2>3. UNCHANGED waiters
    BY DEF Private, SemaTryDown, LockAcquire, DonateRead, DonateWrite, AcquireOwn, LockRelease,
           ReleaseAssign, ReleaseDisown, SetPriority, SetUpdate, SetLook, AllocateTid
  <2> QED
    BY <2>2, <2>3
<1>3. UNCHANGED status
  BY DEF Private, SemaTryDown, LockAcquire, DonateRead, DonateWrite, AcquireOwn, LockRelease,
         ReleaseAssign, ReleaseDisown, SetPriority, SetUpdate, SetLook, AllocateTid,
         threadVars, schedVars
<1>4. \A s \in AnySema : value'[s] <= value[s]
  <2>1. CASE SemaTryDown
    <3>1. PICK z \in Sema : value' = [value EXCEPT ![z] = value[z] - 1]
      BY <2>1 DEF SemaTryDown
    <3> QED
      BY <1>1, <3>1 DEF AnySema
  <2>2. CASE UNCHANGED value
    BY <1>1, <2>2
  <2> QED
    BY <2>1, <2>2 DEF Private, LockAcquire, DonateRead, DonateWrite, AcquireOwn, LockRelease,
           ReleaseAssign, ReleaseDisown, SetPriority, SetUpdate, SetLook, AllocateTid
<1>5. Others(current)
  <2>1. CASE SemaTryDown
    BY <1>1, <2>1, OwnStack DEF SemaTryDown
  <2>2. CASE LockAcquire \/ AllocateTid
    BY <1>1, <2>2, AcquireOwnCall DEF LockAcquire, AllocateTid
  <2>3. CASE DonateRead \/ DonateWrite
    BY <1>1, <2>3, OwnStack, OwnCalls DEF DonateRead, DonateWrite
  <2>4. CASE AcquireOwn
    BY <1>1, <2>4, OwnStack DEF AcquireOwn
  <2>5. CASE LockRelease
    BY <1>1, <2>5, ReleaseOwnCall DEF LockRelease
  <2>6. CASE ReleaseAssign \/ ReleaseDisown
    BY <1>1, <2>6, OwnCalls DEF ReleaseAssign, ReleaseDisown
  <2>7. CASE SetPriority \/ SetUpdate \/ SetLook
    BY <1>1, <2>7, OwnStack, OwnCalls DEF SetPriority, SetUpdate, SetLook
  <2> QED
    BY <2>1, <2>2, <2>3, <2>4, <2>5, <2>6, <2>7 DEF Private
<1> QED
  BY <1>2, <1>3, <1>4, <1>5

LEMMA InFrame ==
  ASSUME StacksOK, SchedOK, ThreadsAssumption, NEW pc \in {"down_wake", "rel_up", "create"}, In(pc)
  PROVE  /\ current \in Thread /\ stack[current] # <<>> /\ Me = Head(stack[current])
         /\ FrameOK(Me, Tail(stack[current])) /\ Me.pc = pc
<1>1. pc # "client"
  OBVIOUS
<1> QED
  BY <1>1, InIs

LEMMA StepWakeups ==
  ASSUME SynchInv, SynchInv', NoLostWakeup, ThreadsAssumption, SynchAssumption, Next
  PROVE  WakeupsOK
<1>1. /\ SchedOK /\ DataOK /\ StacksOK /\ ChildrenWait /\ GoneHoldNothing
      /\ value \in [AnySema -> 0 .. MaxValue]
  BY DEF SynchInv, DataOK
<1>2. PICK me \in AnyThread : current = me /\ status[me] = "RUNNING"
  BY <1>1, SchedTypes
<1>3. /\ UNCHANGED stack => Others(me)
      /\ Return => Others(me)
  BY <1>1, <1>2, OwnStack
<1>4. ASSUME NEW z \in AnySema PROVE value[z] <= value[z]
  BY <1>1
<1>5. CASE Private
  <2>1. /\ Others(me) /\ ~IntrOff(me)
        /\ UNCHANGED <<status, waiters>> /\ \A s \in AnySema : value'[s] <= value[s]
    BY <1>2, <1>5, PrivateIs
  <2>2. Undisturbed(me)
    BY <2>1 DEF Undisturbed
  <2> QED
    BY <2>1, <2>2, QuietStep
<1>6. CASE SemaDown \/ AcquireDown
  <2>1. PICK s \in AnySema : /\ Takes(s) \/ Waits(s)
                             /\ IntrOff(current) => Frame(current).obj = s
    <3>1. CASE SemaDown /\ In("client")
      <4>1. ~IntrOff(current) /\ ~In("down_wake")
        BY <3>1 DEF In, IntrOff
      <4> QED
        BY <3>1, <4>1 DEF SemaDown, AnySema
    <3>2. CASE SemaDown /\ In("down_wake")
      <4>1. ~In("client") /\ (Takes(Me.obj) \/ Waits(Me.obj))
        BY <3>2 DEF SemaDown, In
      <4>2. FrameOK(Me, Tail(stack[current])) /\ Me.pc = "down_wake"
        BY <1>1, <3>2, InFrame
      <4>3. Me.obj \in Sema
        BY <4>2 DEF FrameOK
      <4> QED
        BY <4>1, <4>3 DEF Me, AnySema
    <3>3. CASE AcquireDown
      <4>1. PICK pc \in {"acq_down", "acq_wake"} : In(pc)
        BY <3>3 DEF AcquireDown
      <4>2. Me.obj \in Lock
        BY <1>1, <4>1, InIs DEF FrameOK, Acquiring
      <4> QED
        BY <3>3, <4>2 DEF AcquireDown, Me, AnySema
    <3> QED
      BY <1>6, <3>1, <3>2, <3>3 DEF SemaDown
  <2>2. Others(me) /\ UNCHANGED <<priority, panicked>> /\ current # Idle
    <3>1. CASE SemaDown
      BY <1>1, <1>2, <3>1, OwnStack, OwnCalls DEF SemaDown, In
    <3>2. CASE AcquireDown
      BY <1>1, <1>2, <3>2, OwnCalls DEF AcquireDown, In
    <3> QED
      BY <1>6, <3>1, <3>2
  <2>3. me \in Thread
    BY <1>2, <2>2 DEF AnyThread
  <2> QED
    BY <1>2, <2>1, <2>2, <2>3, TakeStep, WaitStep
<1>7. CASE SemaUp \/ InterruptUp
  <2>1. PICK s \in Sema, intr \in BOOLEAN : sema_up(s, intr)
    BY <1>7 DEF SemaUp, InterruptUp
  <2>2. ~IntrOff(me) /\ Others(me) /\ UNCHANGED priority
    BY <1>2, <1>3, <1>7 DEF SemaUp, InterruptUp, In, IntrOff
  <2>3. s \in AnySema
    BY DEF AnySema
  <2> QED
    BY <2>1, <2>2, <2>3, RaiseStep
<1>8. CASE ReleaseUp
  <2>1. In("rel_up") /\ UNCHANGED priority /\ sema_up(Me.obj, FALSE) /\ Return
    BY <1>8 DEF ReleaseUp
  <2>2. PICK l \in Lock : Me.obj = l
    <3>1. FrameOK(Me, Tail(stack[current])) /\ Me.pc = "rel_up"
      BY <1>1, <2>1, InFrame
    <3> QED
      BY <3>1 DEF FrameOK, Releasing
  <2>3. sema_up(l, FALSE) /\ l \in AnySema
    BY <2>1, <2>2 DEF AnySema
  <2>4. ~IntrOff(me) /\ Others(me)
    BY <1>2, <1>3, <2>1 DEF In, IntrOff
  <2> QED
    BY <2>1, <2>3, <2>4, RaiseStep
<1>9. CASE SetYield \/ Tick
  <2>1. Others(me) /\ ~IntrOff(me) /\ UNCHANGED <<waiters, value>>
    BY <1>2, <1>3, <1>9 DEF SetYield, Tick, synchVars, In, IntrOff
  <2>2. \A t \in Thread : KeepsClass(status[t], status'[t])
    <3>1. CASE UNCHANGED schedVars
      BY <3>1 DEF KeepsClass, schedVars
    <3>2. CASE SetYield /\ thread_yield(ready_list, status, priority)
      <4>1. ThreadsTypeOK /\ \A t \in AnyThread : status[t] = "RUNNING" <=> t = current
        BY <1>1 DEF SchedOK, ReadyListExact, AnyThread
      <4>2. UNCHANGED priority /\ ThreadsTypeOK'
        BY <3>2 DEF SetYield, SynchInv, SchedOK
      <4> QED
        BY <1>1, <3>2, <4>1, <4>2, QueueOfSched, YieldExact DEF ThreadsTypeOK
    <3>3. CASE Tick
      BY <1>1, <3>3, TickExact DEF Tick
    <3> QED
      BY <1>9, <3>1, <3>2, <3>3 DEF SetYield
  <2>3. Undisturbed(me)
    BY <2>1, <2>2 DEF Undisturbed, KeepsClass, Live
  <2> QED
    BY <1>1, <1>4, <2>1, <2>3, QuietStep
<1>10. CASE ThreadExit \/ IdleStep
  <2>1. Others(me) /\ ~IntrOff(me) /\ UNCHANGED <<waiters, value>>
    BY <1>2, <1>3, <1>10 DEF ThreadExit, IdleStep, IdleLoop, synchVars, In, IntrOff, Frame
  <2>2. \A t \in Thread : t # me => KeepsClass(status[t], status'[t])
    <3>1. CASE ThreadExit
      BY <1>1, <1>2, <3>1, LeaveExact DEF ThreadExit, thread_exit
    <3>2. CASE IdleStep
      BY <1>1, <1>2, <3>2, LeaveExact DEF IdleStep, IdleLoop, thread_block
    <3> QED
      BY <1>10, <3>1, <3>2
  <2>3. Undisturbed(me)
    BY <2>1, <2>2 DEF Undisturbed, KeepsClass, Live
  <2> QED
    BY <1>1, <1>4, <2>1, <2>3, QuietStep
<1>11. CASE Create
  <2>1. PICK t \in Thread, p \in Priority : init_thread(t, p)
    BY <1>1, <1>11, ClientOK DEF Create
  <2>2. stack[t] = <<>>
    BY <1>1, <2>1 DEF GoneHoldNothing, Gone, init_thread
  <2>3. ~IntrOff(t)
    BY <2>2, FrameIs DEF IntrOff
  <2>4. \A u \in Thread : u # t => status'[u] = status[u]
    BY <1>1, <2>1 DEF init_thread, SchedOK, ThreadsTypeOK
  <2>5. Others(me) /\ ~IntrOff(me) /\ UNCHANGED <<waiters, value>>
    <3>1. Others(me)
      BY <1>1, <1>2, <1>11 DEF Create, StacksOK, Others
    <3> QED
      BY <1>2, <1>11, <3>1 DEF Create, In, IntrOff
  <2>6. Undisturbed(me)
    BY <2>3, <2>4, <2>5 DEF Undisturbed
  <2> QED
    BY <1>1, <1>4, <2>5, <2>6, QuietStep
<1>12. CASE CreateUnblock
  <2>1. In("create") /\ thread_unblock(Me.child) /\ Return
        /\ UNCHANGED <<priority, panicked, waiters, value>>
    BY <1>12 DEF CreateUnblock
  <2>2. /\ current \in Thread /\ stack[current] # <<>> /\ Me = Head(stack[current])
        /\ FrameOK(Me, Tail(stack[current])) /\ Me.pc = "create"
    BY <1>1, <2>1, InFrame
  <2>3. PICK c \in Thread : Me.child = c /\ status[c] = "BLOCKED"
    <3>1. PICK c \in Thread : Me.child = c
      BY <2>2 DEF FrameOK
    <3>2. Makes(stack[current], c)
      BY <2>2, <3>1 DEF Makes
    <3> QED
      BY <1>1, <2>2, <3>1, <3>2 DEF ChildrenWait
  <2>4. Live(status'[c]) /\ \A u \in Thread : u # c => KeepsClass(status[u], status'[u])
    BY <1>1, <2>1, <2>3, UnblockExact
  <2>5. Others(me) /\ ~IntrOff(me)
    BY <1>2, <1>3, <2>1 DEF In, IntrOff
  <2>6. Undisturbed(me)
    BY <2>4, <2>5 DEF Undisturbed, KeepsClass, Live
  <2> QED
    BY <1>1, <1>4, <2>1, <2>6, QuietStep
<1> QED
  BY <1>5, <1>6, <1>7, <1>8, <1>9, <1>10, <1>11, <1>12 DEF Next, ThreadStep, Private

LEMMA WakeupInvariance == Spec => [](SynchInv /\ NoLostWakeup)
<1>1. Init => NoLostWakeup
  BY DEF Init, NoLostWakeup
<1>2. SynchInv /\ SynchInv' /\ NoLostWakeup /\ [Next]_vars => NoLostWakeup'
  <2> SUFFICES ASSUME SynchInv, SynchInv', NoLostWakeup, [Next]_vars PROVE NoLostWakeup'
    OBVIOUS
  <2>1. CASE Next
    BY <2>1, StepWakeups, ThreadsAssumption, SynchAssumption DEF WakeupsOK
  <2>2. CASE UNCHANGED vars
    <3>1. UNCHANGED <<status, stack, value, waiters>>
      BY <2>2 DEF vars, threadVars, schedVars, synchVars
    <3>2. ASSUME NEW s \in AnySema PROVE WokenFor(s)' = WokenFor(s)
      BY <3>1 DEF WokenFor, Frame
    <3> QED
      BY <3>1, <3>2 DEF NoLostWakeup
  <2> QED
    BY <2>1, <2>2
<1> QED
  BY <1>1, <1>2, SynchInvariance, PTL DEF Spec

(* sema_up raises the value before the thread it wakes runs, and another   *)
(* may take it first: a semaphore is never available while a thread sleeps *)
(* on it for which no wakeup is on its way.                                *)
THEOREM WakeupsNeverLost == Spec => []NoLostWakeup
BY WakeupInvariance, PTL

(* sema_up sorts its waiters at the moment it wakes one, so that no change *)
(* of priorities, donated or set while they waited, makes it wake another  *)
(* than the best.                                                          *)
THEOREM BestIsWoken == Spec => WokenIsBest
<1>1. SynchInv /\ SynchInv' /\ NoLostWakeup /\ [Next]_vars => [BestWoken]_vars
  BY StepWakeups, ThreadsAssumption, SynchAssumption DEF WakeupsOK
<1>2. WokenIsBest <=> [][BestWoken]_vars
  BY PTL DEF WokenIsBest, BestWoken
<1> QED
  BY <1>1, <1>2, WakeupInvariance, PTL DEF Spec

-----------------------------------------------------------------------------
(* No thread falls below its own priority.  What a donor writes was more   *)
(* than it read, and what it read was no less than the receiver's own,     *)
(* which does not change; what lock_release assigns is no less either.     *)
(* Where pages come into use, those that a donor reads already are.        *)
Receiving == {"donate", "raise"}
FrameKeeps(f, t) ==
  /\ f.pc # "update"
  /\ f.pc = "assign" => original_priority[t] <= f.next
  /\ f.pc = "raise" /\ ~Freed(f.to) /\ f.amount > f.seen => original_priority[f.to] <= f.amount
  /\ "create" \in client.ops /\ f.pc \in Receiving => ~Freed(f.to)

OwnInv ==
  /\ \A t \in Thread : waiting_priority[t] = 0 /\ original_priority[t] <= priority[t]
  /\ \A t \in Thread : FrameKeeps(Frame(t), t)
  /\ "create" \in client.ops =>
       \A t \in Thread : blocker_thread[t] # NULL => ~Freed(blocker_thread[t])

(* Nobody sets priorities, and a page comes into use once at most.         *)
Unset == PagesOnce /\ "set_priority" \notin client.ops

Lasting ==
  \A t \in Thread : IF "create" \in client.ops THEN status[t] # "FREE" => status'[t] # "FREE"
                    ELSE status'[t] # "FREE" => status[t] # "FREE"

LEMMA FrameTo ==
  ASSUME StacksOK, ThreadsAssumption, NEW t \in Thread
  PROVE  Frame(t).pc \in Receiving => Frame(t).to \in Thread
<1>1. CASE stack[t] = <<>>
  BY <1>1, FrameIs DEF Receiving
<1>2. CASE stack[t] # <<>>
  BY <1>2, FrameIs DEF StacksOK, StackOK, FrameOK, Receiving
<1> QED
  BY <1>1, <1>2

LEMMA FrameStays ==
  ASSUME Lasting, UNCHANGED <<original_priority, client>>, NEW f, NEW t \in Thread,
         FrameKeeps(f, t), f.pc \in Receiving => f.to \in Thread
  PROVE  FrameKeeps(f, t)'
<1>1. original_priority' = original_priority /\ client' = client
  OBVIOUS
<1>2. CASE f.pc \in Receiving
  <2>1. IF "create" \in client.ops THEN ~Freed(f.to) => ~Freed(f.to)' ELSE ~Freed(f.to)' => ~Freed(f.to)
    BY <1>2 DEF Lasting, Freed
  <2> QED
    BY <1>1, <1>2, <2>1 DEF FrameKeeps, Receiving
<1>3. CASE f.pc \notin Receiving
  BY <1>1, <1>3 DEF FrameKeeps, Receiving
<1> QED
  BY <1>2, <1>3

(* A step of the thread me that leaves the threads' own priorities alone.  *)
LEMMA OwnStep ==
  ASSUME StacksOK, StacksOK', DataOK, OwnInv, ThreadsAssumption, NEW me, Others(me), Lasting,
         UNCHANGED <<original_priority, waiting_priority, client>>,
         me \in Thread => FrameKeeps(Frame(me)', me),
         \A t \in Thread : original_priority[t] <= priority'[t],
         \A t \in Thread : \/ blocker_thread'[t] = blocker_thread[t]
                           \/ blocker_thread'[t] \in Thread /\ ~Freed(blocker_thread'[t])
  PROVE  OwnInv'
<1>1. ASSUME NEW t \in Thread PROVE FrameKeeps(Frame(t), t)'
  <2>1. FrameKeeps(Frame(t)', t)
    <3>1. CASE t = me
      BY <3>1
    <3>2. CASE t # me
      <4>1. Frame(t)' = Frame(t)
        BY <3>2, FramesKept
      <4> QED
        BY <4>1 DEF OwnInv
    <3> QED
      BY <3>1, <3>2
  <2>2. PICK f : f = Frame(t)'
    OBVIOUS
  <2>3. f.pc \in Receiving => f.to \in Thread
    <3>1. (Frame(t).pc \in Receiving => Frame(t).to \in Thread)'
      BY FrameTo, PTL
    <3> QED
      BY <2>2, <3>1 DEF Receiving
  <2>4. FrameKeeps(f, t)'
    BY <2>1, <2>2, <2>3, FrameStays
  <2> QED
    BY <2>2, <2>4 DEF FrameKeeps
<1>2. ASSUME "create" \in client'.ops, NEW t \in Thread, blocker_thread'[t] # NULL
      PROVE  ~Freed(blocker_thread[t])'
  <2>1. PICK b \in Thread : blocker_thread'[t] = b /\ ~Freed(b)
    BY <1>2 DEF OwnInv, DataOK
  <2> QED
    BY <1>2, <2>1 DEF Lasting, Freed
<1>3. \A t \in Thread : (waiting_priority[t] = 0)' /\ (original_priority[t] <= priority[t])'
  BY DEF OwnInv
<1> QED
  BY <1>1, <1>2, <1>3 DEF OwnInv

(* Frames that say nothing of priorities.                                  *)
Plain(f) == f.pc \notin Receiving \cup {"update", "assign"}

LEMMA PlainKeeps ==
  ASSUME NEW f, NEW t, Plain(f)
  PROVE  FrameKeeps(f, t)
BY DEF Plain, FrameKeeps, Receiving

LEMMA Entered ==
  ASSUME StacksOK, ThreadsAssumption, NEW me \in Thread, current = me, NEW f, NEW k \in Callers, Enter(f, k)
  PROVE  Frame(me)' = f
<1>1. stack'[me] = <<f>> \o k
  BY DEF Enter, StacksOK
<1> QED
  BY <1>1, Pushed, FrameIs

LEMMA ReturnedPlain ==
  ASSUME StacksOK, ThreadsAssumption, SynchAssumption, NEW me \in Thread, current = me,
         stack[me] # <<>>, Return
  PROVE  Plain(Frame(me)')
<1>1. StackOK(stack[me])
  BY DEF StacksOK
<1>2. \/ Tail(stack[me]) = <<>> \/ Tail(stack[me]) = Again
      \/ (\E c \in Thread : Tail(stack[me]) = Made(c)) \/ (\E c \in Thread : Tail(stack[me]) = Numbered(c))
      \/ \E z \in Sema : Tail(stack[me]) = Parked(z)
  BY <1>1, ReturnedOK
<1>3. CASE Tail(stack[me]) = <<>>
  BY <1>3, Returns DEF Plain, Receiving
<1>4. ASSUME NEW c \in Thread, Tail(stack[me]) = Made(c) PROVE Plain(Frame(me)')
  BY <1>4, Returns DEF Plain, Receiving, Creating
<1>5. ASSUME NEW c \in Thread, Tail(stack[me]) = Numbered(c) PROVE Plain(Frame(me)')
  BY <1>5, Returns DEF Plain, Receiving, At
<1>6. CASE Tail(stack[me]) = Again
  BY <1>6, Returns DEF Plain, Receiving, At
<1>7. ASSUME NEW z \in Sema, Tail(stack[me]) = Parked(z) PROVE Plain(Frame(me)')
  BY <1>7, Returns DEF Plain, Receiving, At
<1> QED
  BY <1>2, <1>3, <1>4, <1>5, <1>6, <1>7

(* A step that leaves priorities alone, and the current thread at a place  *)
(* that says nothing of them, or where it was.                             *)
LEMMA OwnQuiet ==
  ASSUME SynchInv, SynchInv', OwnInv, ThreadsAssumption, SynchAssumption, NEW me, current = me, Lasting,
         UNCHANGED <<priority, donationVars, client>>,
         \/ UNCHANGED stack
         \/ me \in Thread /\ stack[me] # <<>> /\ Return
         \/ me \in Thread /\ \E f, k : Enter(f, k) /\ k \in Callers /\ Plain(f)
  PROVE  OwnInv'
<1>1. StacksOK /\ StacksOK' /\ DataOK
  BY DEF SynchInv
<1>2. /\ UNCHANGED <<original_priority, waiting_priority, client>>
      /\ priority' = priority /\ blocker_thread' = blocker_thread
  BY DEF donationVars
<1>3. \A t \in Thread : original_priority[t] <= priority'[t]
  BY <1>2 DEF OwnInv
<1>4. Others(me) /\ (me \in Thread => FrameKeeps(Frame(me)', me))
  <2>1. CASE UNCHANGED stack
    <3>1. Others(me)
      BY <1>1, <2>1, OwnStack
    <3>2. me \in Thread => Frame(me)' = Frame(me)
      BY <2>1 DEF Frame
    <3> QED
      BY <3>1, <3>2 DEF OwnInv
  <2>2. CASE me \in Thread /\ stack[me] # <<>> /\ Return
    <3>1. Plain(Frame(me)') /\ Others(me)
      BY <1>1, <2>2, ReturnedPlain, OwnStack
    <3> QED
      BY <3>1, PlainKeeps
  <2>3. ASSUME me \in Thread, NEW f, NEW k \in Callers, Enter(f, k), Plain(f)
        PROVE  Others(me) /\ FrameKeeps(Frame(me)', me)
    <3>1. Frame(me)' = f /\ Others(me)
      BY <1>1, <2>3, Entered, OwnCall
    <3> QED
      BY <2>3, <3>1, PlainKeeps
  <2> QED
    BY <2>1, <2>2, <2>3
<1> QED
  BY <1>1, <1>2, <1>3, <1>4, OwnStep

LEMMA LastingKept ==
  ASSUME \A t \in Thread : KeepsClass(status[t], status'[t])
  PROVE  Lasting
BY DEF Lasting, KeepsClass, Live

(* Where pages come into use none is given back, and the other way round.  *)
LEMMA StepLasts ==
  ASSUME SynchInv, SynchInv', ThreadsAssumption, SynchAssumption, PagesOnce, Next
  PROVE  Lasting
<1>1. /\ SchedOK /\ DataOK /\ StacksOK /\ ChildrenWait /\ WaitListsExact
      /\ waiters \in [AnySema -> Seq(Thread)]
  BY DEF SynchInv, DataOK
<1>2. PICK me \in AnyThread : current = me /\ status[me] = "RUNNING"
  BY <1>1, SchedTypes
<1>3. ASSUME UNCHANGED schedVars PROVE Lasting
  BY <1>3 DEF Lasting, schedVars
<1>4. CASE Private
  BY <1>4, PrivateIs DEF Lasting
<1>5. CASE SemaDown \/ AcquireDown
  <2>1. UNCHANGED <<priority, panicked>> /\ (UNCHANGED schedVars \/ thread_block)
    BY <1>5 DEF SemaDown, AcquireDown, Takes, Waits
  <2>2. CASE thread_block
    <3>1. /\ \A t \in Thread : t # me => KeepsClass(status[t], status'[t])
          /\ me \in Thread => status'[me] = "BLOCKED"
      BY <1>1, <1>2, <2>1, <2>2, LeaveExact DEF thread_block
    <3> QED
      BY <1>2, <3>1 DEF Lasting, KeepsClass, Live
  <2> QED
    BY <1>3, <2>1, <2>2
<1>6. CASE SemaUp \/ InterruptUp \/ ReleaseUp
  <2>1. PICK s \in AnySema, intr \in BOOLEAN : sema_up(s, intr)
    <3>1. CASE SemaUp \/ InterruptUp
      BY <3>1 DEF SemaUp, InterruptUp, AnySema
    <3>2. CASE ReleaseUp
      <4>1. In("rel_up") /\ sema_up(Me.obj, FALSE)
        BY <3>2 DEF ReleaseUp
      <4>2. FrameOK(Me, Tail(stack[current])) /\ Me.pc = "rel_up"
        BY <1>1, <4>1, InFrame
      <4>3. Me.obj \in Lock
        BY <4>2 DEF FrameOK, Releasing
      <4> QED
        BY <4>1, <4>3 DEF AnySema
    <3> QED
      BY <1>6, <3>1, <3>2
  <2>2. UNCHANGED priority
    BY <1>6 DEF SemaUp, InterruptUp, ReleaseUp
  <2>3. UNCHANGED schedVars \/ \E w \in Thread : Wakes(s, w)
    BY <1>1, <2>1, <2>2, SemaUpIs
  <2>4. ASSUME NEW w \in Thread, Wakes(s, w) PROVE Lasting
    <3>1. status[w] = "BLOCKED"
      BY <1>1, <2>4 DEF Wakes, WaitListsExact
    <3>2. Live(status'[w]) /\ \A t \in Thread : t # w => KeepsClass(status[t], status'[t])
      BY <2>4 DEF Wakes
    <3> QED
      BY <3>1, <3>2 DEF Lasting, KeepsClass, Live
  <2> QED
    BY <1>3, <2>3, <2>4
<1>7. CASE SetYield \/ Tick
  <2>1. CASE SetYield /\ thread_yield(ready_list, status, priority)
    <3>1. ThreadsTypeOK /\ \A t \in AnyThread : status[t] = "RUNNING" <=> t = current
      BY <1>1 DEF SchedOK, ReadyListExact, AnyThread
    <3>2. UNCHANGED priority /\ ThreadsTypeOK'
      BY <2>1 DEF SetYield, SynchInv, SchedOK
    <3>3. \A t \in Thread : KeepsClass(status[t], status'[t])
      BY <1>1, <2>1, <3>1, <3>2, QueueOfSched, YieldExact DEF ThreadsTypeOK
    <3> QED
      BY <3>3, LastingKept
  <2>2. CASE Tick
    <3>1. \A t \in Thread : KeepsClass(status[t], status'[t])
      BY <1>1, <2>2, TickExact DEF Tick
    <3> QED
      BY <3>1, LastingKept
  <2> QED
    BY <1>3, <1>7, <2>1, <2>2 DEF SetYield
<1>8. CASE ThreadExit
  <2>1. \A t \in Thread : t # me => KeepsClass(status[t], status'[t])
    BY <1>1, <1>2, <1>8, LeaveExact DEF ThreadExit, thread_exit
  <2>2. "create" \notin client.ops
    BY <1>8 DEF ThreadExit, PagesOnce
  <2> QED
    BY <1>2, <2>1, <2>2 DEF Lasting, KeepsClass, Live
<1>9. CASE IdleStep
  <2>1. \A t \in Thread : t # me => KeepsClass(status[t], status'[t])
    BY <1>1, <1>2, <1>9, LeaveExact DEF IdleStep, IdleLoop, thread_block
  <2>2. me \notin Thread
    BY <1>2, <1>9 DEF IdleStep, IdleLoop, ThreadsAssumption
  <2> QED
    BY <2>1, <2>2 DEF Lasting, KeepsClass, Live
<1>10. CASE Create
  <2>1. PICK t \in Thread, p \in Priority : init_thread(t, p)
    BY <1>1, <1>10, ClientOK DEF Create
  <2>2. status'[t] = "BLOCKED" /\ \A u \in Thread : u # t => status'[u] = status[u]
    BY <1>1, <2>1 DEF init_thread, SchedOK, ThreadsTypeOK, AnyThread
  <2>3. "create" \in client.ops
    BY <1>10 DEF Create
  <2> QED
    BY <2>2, <2>3 DEF Lasting
<1>11. CASE CreateUnblock
  <2>1. In("create") /\ thread_unblock(Me.child) /\ UNCHANGED <<priority, panicked>>
    BY <1>11 DEF CreateUnblock
  <2>2. /\ current \in Thread /\ stack[current] # <<>> /\ Me = Head(stack[current])
        /\ FrameOK(Me, Tail(stack[current])) /\ Me.pc = "create"
    BY <1>1, <2>1, InFrame
  <2>3. PICK c \in Thread : Me.child = c /\ status[c] = "BLOCKED"
    <3>1. PICK c \in Thread : Me.child = c
      BY <2>2 DEF FrameOK
    <3>2. Makes(stack[current], c)
      BY <2>2, <3>1 DEF Makes
    <3> QED
      BY <1>1, <2>2, <3>1, <3>2 DEF ChildrenWait
  <2>4. Live(status'[c]) /\ \A u \in Thread : u # c => KeepsClass(status[u], status'[u])
    BY <1>1, <2>1, <2>3, UnblockExact
  <2> QED
    BY <2>3, <2>4 DEF Lasting, KeepsClass, Live
<1> QED
  BY <1>4, <1>5, <1>6, <1>7, <1>8, <1>9, <1>10, <1>11 DEF Next, ThreadStep, Private

(* lock_acquire records the holder, who is there, and reads its priority.  *)
LEMMA AcquireKeepsOwn ==
  ASSUME SynchInv, SynchInv', OwnInv, ThreadsAssumption, SynchAssumption, Lasting, UNCHANGED client,
         NEW me \in Thread, current = me, NEW l \in Lock, NEW k \in Callers, acquire(l, k),
         UNCHANGED <<priority, original_priority, waiting_priority>>
  PROVE  OwnInv'
<1>1. StacksOK /\ StacksOK' /\ DataOK /\ GoneHoldNothing
  BY DEF SynchInv
<1>2. Others(me)
  BY <1>1, AcquireOwnCall
<1>3. \A t \in Thread : original_priority[t] <= priority'[t]
  BY DEF OwnInv
<1>4. CASE holder[l] = NULL
  <2>1. Enter(At("acq_down", l), k) /\ UNCHANGED blocker_thread
    BY <1>4 DEF acquire
  <2>2. Frame(me)' = At("acq_down", l)
    BY <1>1, <2>1, Entered
  <2>3. FrameKeeps(Frame(me)', me)
    BY <2>2, PlainKeeps DEF Plain, At, Receiving
  <2> QED
    BY <1>1, <1>2, <1>3, <2>1, <2>3, OwnStep
<1>5. CASE holder[l] # NULL
  <2>1. PICK h \in Thread : holder[l] = h
    BY <1>1, <1>5 DEF DataOK
  <2>2. ~Freed(h)
    BY <1>1, <2>1 DEF GoneHoldNothing, Gone, Freed
  <2>3. PICK amount : amount = priority[current]
    OBVIOUS
  <2>4. /\ Enter(Donating(l, h, amount), k)
        /\ blocker_thread' = [blocker_thread EXCEPT ![me] = h]
    BY <1>5, <2>1, <2>3 DEF acquire
  <2>5. \A t \in Thread : blocker_thread'[t] = blocker_thread[t] \/ blocker_thread'[t] = h
    BY <1>1, <2>4 DEF DataOK
  <2>6. Frame(me)' = Donating(l, h, amount)
    BY <1>1, <2>4, Entered
  <2>7. FrameKeeps(Frame(me)', me)
    BY <2>2, <2>6 DEF FrameKeeps, Donating, Receiving
  <2> QED
    BY <1>1, <1>2, <1>3, <2>2, <2>5, <2>7, OwnStep
<1> QED
  BY <1>4, <1>5

(* The donor reads what is no less than the receiver's own priority.       *)
LEMMA DonateReadKeepsOwn ==
  ASSUME SynchInv, SynchInv', OwnInv, ThreadsAssumption, SynchAssumption, Lasting, UNCHANGED client, DonateRead
  PROVE  OwnInv'
<1>1. SchedOK /\ StacksOK /\ StacksOK' /\ DataOK
  BY DEF SynchInv
<1>2. In("donate") /\ UNCHANGED <<priority, donationVars>>
  BY DEF DonateRead, threadVars
<1>3. PICK me \in Thread : current = me
  BY <1>1, <1>2, InIs
<1> DEFINE k == Tail(stack[me])
           f == Head(stack[me])
           seen == IF Freed(f.to) THEN -1 ELSE priority[f.to]
<1>4. /\ k \in Callers /\ Frame(me) = f /\ Me = f /\ FrameOK(f, k) /\ f.pc = "donate"
  BY <1>1, <1>2, <1>3, InIs, FrameIs
<1>5. f.to \in Thread /\ f.amount \in Priority
  BY <1>4 DEF FrameOK
<1>6. Enter(Raising(f, seen), k)
  BY <1>3, <1>4 DEF DonateRead, Goto
<1>7. FrameKeeps(f, me)
  BY <1>4 DEF OwnInv
<1>8. ~Freed(f.to) => original_priority[f.to] <= seen
  BY <1>5 DEF OwnInv
<1>9. FrameKeeps(Raising(f, seen), me)
  <2>1. seen \in Int /\ f.amount \in Int /\ original_priority[f.to] \in Int
    <3>1. priority[f.to] \in Priority /\ original_priority[f.to] \in Priority
      BY <1>1, <1>5, SchedTypes DEF DataOK, AnyThread
    <3>2. \A x \in Priority : x \in Int
      BY ThreadsAssumption DEF Priority
    <3>3. CASE Freed(f.to)
      <4>1. seen = -1
        BY <3>3
      <4> HIDE DEF seen
      <4>2. seen \in Int
        BY <4>1
      <4> QED
        BY <1>5, <3>1, <3>2, <4>2
    <3>4. CASE ~Freed(f.to)
      <4>1. seen = priority[f.to]
        BY <3>4
      <4> HIDE DEF seen
      <4> QED
        BY <1>5, <3>1, <3>2, <4>1
    <3> QED
      BY <3>3, <3>4
  <2> HIDE DEF seen
  <2>2. ~Freed(f.to) /\ f.amount > seen => original_priority[f.to] <= f.amount
    BY <1>8, <2>1
  <2> QED
    BY <1>4, <1>7, <2>2 DEF FrameKeeps, Raising, Receiving
<1> HIDE DEF seen, f, k
<1>10. Frame(me)' = Raising(f, seen) /\ Others(me)
  BY <1>1, <1>3, <1>4, <1>6, Entered, OwnCall
<1>11. \A t \in Thread : original_priority[t] <= priority'[t]
  BY <1>2 DEF OwnInv
<1>12. UNCHANGED <<original_priority, waiting_priority>> /\ blocker_thread' = blocker_thread
  BY <1>2 DEF donationVars
<1> QED
  BY <1>1, <1>9, <1>10, <1>11, <1>12, OwnStep

(* What it writes, late or not, is no less either.                         *)
LEMMA DonateWriteKeepsOwn ==
  ASSUME SynchInv, SynchInv', OwnInv, ThreadsAssumption, SynchAssumption, Lasting, UNCHANGED client, DonateWrite
  PROVE  OwnInv'
<1>1. SchedOK /\ StacksOK /\ StacksOK' /\ DataOK
  BY DEF SynchInv
<1>2. In("raise") /\ UNCHANGED donationVars
  BY DEF DonateWrite
<1>3. PICK me \in Thread : current = me
  BY <1>1, <1>2, InIs
<1> DEFINE k == Tail(stack[me])
           f == Head(stack[me])
<1>4. /\ k \in Callers /\ Frame(me) = f /\ Me = f /\ FrameOK(f, k) /\ f.pc = "raise"
  BY <1>1, <1>2, <1>3, InIs, FrameIs
<1>5. f.to \in Thread /\ f.amount \in Priority /\ priority \in [AnyThread -> Priority]
  BY <1>1, <1>4, SchedTypes DEF FrameOK
<1>6. UNCHANGED <<original_priority, waiting_priority>> /\ blocker_thread' = blocker_thread
  BY <1>2 DEF donationVars
<1>7. CASE Freed(f.to)
  <2>1. UNCHANGED <<priority, stack>>
    BY <1>4, <1>7 DEF DonateWrite
  <2> QED
    BY <1>2, <1>3, <2>1, OwnQuiet
<1>8. CASE ~Freed(f.to)
  <2>1. FrameKeeps(f, me)
    BY <1>4 DEF OwnInv
  <2>2. f.amount > f.seen => original_priority[f.to] <= f.amount
    BY <1>4, <1>8, <2>1 DEF FrameKeeps
  <2>3. priority' = IF f.amount > f.seen THEN [priority EXCEPT ![f.to] = f.amount] ELSE priority
    BY <1>4, <1>8 DEF DonateWrite
  <2>4. \A t \in Thread : original_priority[t] <= priority'[t]
    BY <1>5, <2>2, <2>3 DEF OwnInv, AnyThread
  <2> DEFINE max == Max({f.amount, f.seen})
             g == DonateNext(max, priority')
  <2>5. Enter(g, k)
    BY <1>3, <1>4, <1>8 DEF DonateWrite, Goto
  <2> HIDE DEF max
  <2>6. FrameKeeps(g, me)
    <3>1. blocker_thread[f.to] \in Thread \cup {NULL}
      BY <1>1, <1>5 DEF DataOK
    <3>2. \/ g = At("acq_down", f.obj)
          \/ blocker_thread[f.to] # NULL /\ g = Donating(f.obj, blocker_thread[f.to], max)
      BY <1>4, <3>1 DEF DonateNext
    <3>3. CASE g = At("acq_down", f.obj)
      BY <3>3, PlainKeeps DEF Plain, At, Receiving
    <3>4. CASE blocker_thread[f.to] # NULL /\ g = Donating(f.obj, blocker_thread[f.to], max)
      <4>1. "create" \in client.ops => ~Freed(blocker_thread[f.to])
        BY <1>5, <3>4 DEF OwnInv
      <4> HIDE DEF g
      <4> QED
        BY <3>4, <4>1 DEF FrameKeeps, Donating, Receiving
    <3> QED
      BY <3>2, <3>3, <3>4
  <2> HIDE DEF g, k
  <2>7. Frame(me)' = g /\ Others(me)
    BY <1>1, <1>3, <1>4, <2>5, Entered, OwnCall
  <2> QED
    BY <1>1, <1>6, <2>4, <2>6, <2>7, OwnStep
<1> QED
  BY <1>7, <1>8

(* What lock_release computes is no less than the thread's own priority.   *)
LEMMA ReleaseKeepsOwn ==
  ASSUME SynchInv, SynchInv', OwnInv, ThreadsAssumption, SynchAssumption, Lasting, UNCHANGED client,
         NEW me \in Thread, current = me, NEW l, NEW k \in Callers, release(l, k),
         UNCHANGED <<priority, donationVars>>
  PROVE  OwnInv'
<1>1. StacksOK /\ StacksOK' /\ DataOK
  BY DEF SynchInv
<1>2. PICK kept, next : next \in NextPriority(me, kept) /\ Enter(Assigning(l, next), k)
  BY DEF release
<1>3. original_priority[me] <= next
  BY <1>1, <1>2, NextPriorityIs DEF OwnInv
<1>4. FrameKeeps(Assigning(l, next), me)
  BY <1>3 DEF FrameKeeps, Assigning, Receiving
<1>5. Frame(me)' = Assigning(l, next) /\ Others(me)
  BY <1>1, <1>2, Entered, OwnCall
<1>6. \A t \in Thread : original_priority[t] <= priority'[t]
  BY DEF OwnInv
<1>7. UNCHANGED <<original_priority, waiting_priority>> /\ blocker_thread' = blocker_thread
  BY DEF donationVars
<1> QED
  BY <1>1, <1>4, <1>5, <1>6, <1>7, OwnStep

LEMMA ReleaseAssignKeepsOwn ==
  ASSUME SynchInv, SynchInv', OwnInv, ThreadsAssumption, SynchAssumption, Lasting, UNCHANGED client, ReleaseAssign
  PROVE  OwnInv'
<1>1. SchedOK /\ StacksOK /\ StacksOK' /\ DataOK
  BY DEF SynchInv
<1>2. In("assign") /\ UNCHANGED donationVars
  BY DEF ReleaseAssign
<1>3. PICK me \in Thread : current = me
  BY <1>1, <1>2, InIs
<1> DEFINE k == Tail(stack[me])
           f == Head(stack[me])
<1>4. k \in Callers /\ Frame(me) = f /\ Me = f /\ f.pc = "assign"
  BY <1>1, <1>2, <1>3, InIs, FrameIs
<1>5. priority' = [priority EXCEPT ![me] = f.next] /\ Enter(At("disown", f.obj), k)
  BY <1>3, <1>4 DEF ReleaseAssign, Goto
<1>6. FrameKeeps(Frame(me), me)
  BY DEF OwnInv
<1>7. original_priority[me] <= f.next
  BY <1>4, <1>6 DEF FrameKeeps
<1>8. \A t \in Thread : original_priority[t] <= priority'[t]
  BY <1>1, <1>5, <1>7, SchedTypes DEF OwnInv, AnyThread
<1> HIDE DEF k
<1>9. Frame(me)' = At("disown", f.obj) /\ Others(me)
  BY <1>1, <1>3, <1>4, <1>5, Entered, OwnCall
<1>10. FrameKeeps(Frame(me)', me)
  BY <1>9, PlainKeeps DEF Plain, At, Receiving
<1>11. UNCHANGED <<original_priority, waiting_priority>> /\ blocker_thread' = blocker_thread
  BY <1>2 DEF donationVars
<1> QED
  BY <1>1, <1>8, <1>9, <1>10, <1>11, OwnStep

(* A page that comes into use was free, so that no donor has read it.      *)
LEMMA CreateKeepsOwn ==
  ASSUME SynchInv, SynchInv', OwnInv, ThreadsAssumption, SynchAssumption, Lasting, UNCHANGED client, Create
  PROVE  OwnInv'
<1>1. SchedOK /\ StacksOK /\ StacksOK' /\ DataOK /\ GoneHoldNothing
  BY DEF SynchInv
<1>2. In("client") /\ "create" \in client.ops
  BY DEF Create
<1>3. PICK me \in Thread : current = me
  BY <1>1, <1>2, InIs
<1>4. PICK c \in Thread, p \in client.levels :
        /\ init_thread(c, p)
        /\ original_priority' = [original_priority EXCEPT ![c] = p]
        /\ waiting_priority' = [waiting_priority EXCEPT ![c] = 0]
        /\ blocker_thread' = [blocker_thread EXCEPT ![c] = NULL]
        /\ stack' = [stack EXCEPT ![me] = <<At("new", TidLock), At("tid", TidLock), Creating(c)>>]
  BY <1>3 DEF Create
<1>5. p \in Priority /\ priority' = [priority EXCEPT ![c] = p] /\ Freed(c)
  BY <1>1, <1>4, ClientOK DEF init_thread, Freed
<1>6. ASSUME NEW t \in Thread PROVE waiting_priority'[t] = 0 /\ original_priority'[t] <= priority'[t]
  <2>1. /\ waiting_priority'[t] = IF t = c THEN 0 ELSE waiting_priority[t]
        /\ original_priority'[t] = IF t = c THEN p ELSE original_priority[t]
        /\ priority'[t] = IF t = c THEN p ELSE priority[t]
    BY <1>1, <1>4, <1>5, SchedTypes DEF DataOK, AnyThread
  <2>2. p <= p
    BY <1>5 DEF Priority
  <2> QED
    BY <2>1, <2>2 DEF OwnInv
<1>7. ASSUME NEW t \in Thread PROVE FrameKeeps(Frame(t), t)'
  <2>1. CASE t = me
    <3>1. stack'[me] = <<At("new", TidLock), At("tid", TidLock), Creating(c)>>
      BY <1>1, <1>4 DEF StacksOK
    <3>2. stack'[me] # <<>> /\ Head(stack'[me]) = At("new", TidLock)
      BY <3>1
    <3>3. Frame(me)'.pc = "new"
      BY <3>2, FrameIs DEF At
    <3> QED
      BY <2>1, <3>3 DEF FrameKeeps, Receiving
  <2>2. CASE t # me
    <3>1. stack'[t] = stack[t]
      BY <1>1, <1>4, <2>2 DEF StacksOK
    <3>2. PICK f : f = Frame(t) /\ f = Frame(t)'
      BY <3>1 DEF Frame
    <3>3. FrameKeeps(f, t) /\ (f.pc \in Receiving => f.to \in Thread /\ ~Freed(f.to))
      BY <1>1, <1>2, <3>2, FrameTo DEF OwnInv, FrameKeeps
    <3>4. f.pc \in Receiving => /\ original_priority'[f.to] = original_priority[f.to]
                                /\ ~Freed(f.to)'
      BY <1>1, <1>2, <1>4, <1>5, <3>3 DEF DataOK, Lasting, Freed
    <3>5. f.pc = "assign" => original_priority'[t] = original_priority[t]
      <4>1. f.pc = "assign" => t # c
        BY <1>1, <1>5, <3>2, FrameIs DEF GoneHoldNothing, Gone, Freed
      <4> QED
        BY <1>1, <1>4, <4>1 DEF DataOK
    <3>6. FrameKeeps(f, t)'
      BY <3>3, <3>4, <3>5 DEF FrameKeeps, Receiving
    <3> QED
      BY <3>2, <3>6 DEF FrameKeeps
  <2> QED
    BY <2>1, <2>2
<1>8. ASSUME NEW t \in Thread, blocker_thread'[t] # NULL PROVE ~Freed(blocker_thread[t])'
  <2>1. blocker_thread'[t] = blocker_thread[t]
    BY <1>1, <1>4, <1>8 DEF DataOK
  <2>2. PICK b \in Thread : b = blocker_thread[t] /\ ~Freed(b)
    BY <1>1, <1>2, <1>8, <2>1 DEF OwnInv, DataOK
  <2> QED
    BY <1>2, <2>1, <2>2 DEF Lasting, Freed
<1> QED
  BY <1>6, <1>7, <1>8 DEF OwnInv

(* The steps that touch no priority.                                       *)
LEMMA OthersKeepOwn ==
  ASSUME SynchInv, SynchInv', OwnInv, ThreadsAssumption, SynchAssumption, Lasting, UNCHANGED client,
         \/ SemaDown \/ SemaUp \/ SemaTryDown \/ InterruptUp \/ AcquireDown \/ AcquireOwn
         \/ ReleaseDisown \/ ReleaseUp \/ SetLook \/ SetYield \/ CreateUnblock \/ ThreadExit
         \/ Tick \/ IdleStep
  PROVE  OwnInv'
<1>1. SchedOK /\ StacksOK
  BY DEF SynchInv
<1>2. PICK me : current = me
  OBVIOUS
<1>3. UNCHANGED <<priority, donationVars>>
  BY DEF SemaDown, SemaUp, SemaTryDown, InterruptUp, AcquireDown, AcquireOwn, ReleaseDisown, ReleaseUp,
         SetLook, SetYield, CreateUnblock, ThreadExit, Tick, IdleStep, IdleLoop, threadVars, synchVars
<1>4. ASSUME NEW pc, In(pc), pc # "client"
      PROVE  me \in Thread /\ stack[me] # <<>> /\ Tail(stack[me]) \in Callers
  BY <1>1, <1>2, <1>4, InIs
<1>5. CASE SemaUp \/ SemaTryDown \/ InterruptUp \/ ThreadExit \/ Tick \/ IdleStep
  <2>1. UNCHANGED stack
    BY <1>5 DEF SemaUp, SemaTryDown, InterruptUp, ThreadExit, Tick, IdleStep, synchVars
  <2> QED
    BY <1>2, <1>3, <2>1, OwnQuiet
<1>6. CASE SemaDown
  <2>1. CASE UNCHANGED stack
    BY <1>2, <1>3, <2>1, OwnQuiet
  <2>2. ASSUME NEW s, In("client"), Call(At("down_wake", s)) PROVE OwnInv'
    <3>1. me \in Thread /\ stack[me] = <<>>
      BY <1>1, <1>2, <2>2, InIs
    <3>2. Enter(At("down_wake", s), <<>>) /\ <<>> \in Callers /\ Plain(At("down_wake", s))
      BY <1>2, <2>2, <3>1 DEF Call, Callers, Plain, At, Receiving
    <3> QED
      BY <1>2, <1>3, <3>1, <3>2, OwnQuiet
  <2>3. CASE In("down_wake") /\ Return
    <3>1. me \in Thread /\ stack[me] # <<>>
      BY <1>4, <2>3
    <3> QED
      BY <1>2, <1>3, <2>3, <3>1, OwnQuiet
  <2> QED
    BY <1>6, <2>1, <2>2, <2>3 DEF SemaDown
<1>7. CASE AcquireOwn \/ ReleaseUp \/ SetYield \/ CreateUnblock
  <2>1. Return /\ me \in Thread /\ stack[me] # <<>>
    BY <1>4, <1>7 DEF AcquireOwn, ReleaseUp, SetYield, CreateUnblock
  <2> QED
    BY <1>2, <1>3, <2>1, OwnQuiet
<1>8. CASE AcquireDown \/ ReleaseDisown
  <2>1. PICK pc, l : pc \in {"acq_own", "acq_wake", "rel_up"} /\ Enter(At(pc, l), Tail(stack[me]))
    BY <1>2, <1>8 DEF AcquireDown, ReleaseDisown, Goto
  <2>2. me \in Thread /\ Tail(stack[me]) \in Callers
    BY <1>4, <1>8 DEF AcquireDown, ReleaseDisown
  <2>3. Plain(At(pc, l))
    BY <2>1 DEF Plain, At, Receiving
  <2> QED
    BY <1>2, <1>3, <2>1, <2>2, <2>3, OwnQuiet
<1>9. CASE SetLook
  <2>1. me \in Thread /\ stack[me] # <<>> /\ Tail(stack[me]) \in Callers
    BY <1>4, <1>9 DEF SetLook
  <2>2. CASE Return
    BY <1>2, <1>3, <2>1, <2>2, OwnQuiet
  <2>3. CASE Goto(Setting("front", Me.new, Me.allow))
    <3>1. PICK new, allow : Enter(Setting("front", new, allow), Tail(stack[me]))
      BY <1>2, <2>3 DEF Goto
    <3>2. Plain(Setting("front", new, allow))
      BY DEF Plain, Setting, Receiving
    <3> QED
      BY <1>2, <1>3, <2>1, <3>1, <3>2, OwnQuiet
  <2> QED
    BY <1>9, <2>2, <2>3 DEF SetLook
<1> QED
  BY <1>5, <1>6, <1>7, <1>8, <1>9

LEMMA StepKeepsOwn ==
  ASSUME SynchInv, SynchInv', OwnInv, ThreadsAssumption, SynchAssumption, Unset, Next
  PROVE  OwnInv'
<1>1. SchedOK /\ StacksOK /\ DataOK
  BY DEF SynchInv
<1>2. Lasting /\ UNCHANGED client
  BY StepLasts DEF Unset, Next
<1>3. CASE LockAcquire \/ AllocateTid
  <2>1. PICK me \in Thread : current = me /\ StackOK(stack[me])
    BY <1>1, <1>3, InIs DEF LockAcquire, AllocateTid, StacksOK
  <2>2. PICK l \in Lock, k \in Callers : acquire(l, k)
    <3>1. CASE LockAcquire
      <4>1. stack[me] = <<>> /\ <<>> \in Callers
        BY <1>1, <2>1, <3>1, InIs DEF LockAcquire, Callers
      <4> QED
        BY <1>1, <2>1, <3>1, <4>1, ClientOK DEF LockAcquire
    <3>2. CASE AllocateTid
      <4>1. In("new") /\ "new" # "client"
        BY <3>2 DEF AllocateTid
      <4>2. Tail(stack[me]) \in Callers
        BY <1>1, <2>1, <4>1, InIs
      <4> QED
        BY <2>1, <3>2, <4>2, SynchAssumption DEF AllocateTid
    <3> QED
      BY <1>3, <3>1, <3>2
  <2>3. UNCHANGED <<priority, original_priority, waiting_priority>>
    BY <1>3 DEF LockAcquire, AllocateTid, threadVars
  <2> QED
    BY <1>2, <2>1, <2>2, <2>3, AcquireKeepsOwn
<1>4. CASE LockRelease
  <2>1. PICK me \in Thread : current = me
    BY <1>1, <1>4, InIs DEF LockRelease
  <2>2. PICK l \in Lock, k \in Callers : release(l, k)
    <3>1. ASSUME In("client") PROVE stack[me] = <<>> /\ <<>> \in Callers
      BY <1>1, <2>1, <3>1, InIs DEF Callers
    <3>2. ASSUME In("tid") PROVE Tail(stack[me]) \in Callers
      <4>1. "tid" # "client"
        OBVIOUS
      <4> QED
        BY <1>1, <2>1, <3>2, <4>1, InIs
    <3> QED
      BY <1>1, <1>4, <2>1, <3>1, <3>2, ClientOK, SynchAssumption DEF LockRelease
  <2>3. UNCHANGED <<priority, donationVars>>
    BY <1>4 DEF LockRelease, threadVars
  <2> QED
    BY <1>2, <2>1, <2>2, <2>3, ReleaseKeepsOwn
<1>5. ~SetPriority
  BY DEF SetPriority, Unset
<1>6. ~SetUpdate
  <2> SUFFICES ASSUME SetUpdate PROVE FALSE
    OBVIOUS
  <2>1. In("update")
    BY DEF SetUpdate
  <2>2. current \in Thread
    BY <1>1, <2>1, InIs
  <2> QED
    BY <2>1, <2>2 DEF OwnInv, FrameKeeps, In
<1> QED
  BY <1>2, <1>3, <1>4, <1>5, <1>6, DonateReadKeepsOwn, DonateWriteKeepsOwn, ReleaseAssignKeepsOwn,
     CreateKeepsOwn, OthersKeepOwn DEF Next, ThreadStep

LEMMA OwnInvariance == Spec => [](SynchInv /\ (Unset => OwnInv))
<1>1. Init => OwnInv
  <2> SUFFICES ASSUME Init PROVE OwnInv
    OBVIOUS
  <2>1. \A t \in Thread : waiting_priority[t] = 0 /\ original_priority[t] = priority[t] /\ stack[t] = <<>>
                          /\ blocker_thread[t] = NULL
    BY DEF Init
  <2>2. SchedOK
    BY InitInv, ThreadsAssumption, SynchAssumption DEF SynchInv
  <2>3. ASSUME NEW t \in Thread PROVE original_priority[t] <= priority[t]
    BY <2>1, <2>2, SchedTypes, ThreadsAssumption DEF AnyThread, Priority
  <2>4. ASSUME NEW t \in Thread PROVE FrameKeeps(Frame(t), t)
    BY <2>1, FrameIs, ThreadsAssumption, PlainKeeps DEF Plain, Receiving
  <2> QED
    BY <2>1, <2>3, <2>4 DEF OwnInv
<1>2. SynchInv /\ SynchInv' /\ (Unset => OwnInv) /\ [Next]_vars => (Unset => OwnInv)'
  <2> SUFFICES ASSUME SynchInv, SynchInv', Unset => OwnInv, [Next]_vars, Unset' PROVE OwnInv'
    OBVIOUS
  <2>1. UNCHANGED client
    BY DEF Next, vars, synchVars
  <2>2. Unset /\ OwnInv
    BY <2>1 DEF Unset, PagesOnce
  <2>3. CASE Next
    BY <2>2, <2>3, StepKeepsOwn, ThreadsAssumption, SynchAssumption
  <2>4. CASE UNCHANGED vars
    <3>1. UNCHANGED <<priority, donationVars, stack, status, client>>
      BY <2>4 DEF vars, threadVars, schedVars, synchVars
    <3>2. Lasting
      BY <3>1 DEF Lasting
    <3>3. PICK me : current = me
      OBVIOUS
    <3> QED
      BY <2>2, <3>1, <3>2, <3>3, OwnQuiet, ThreadsAssumption, SynchAssumption
  <2> QED
    BY <2>3, <2>4
<1> QED
  BY <1>1, <1>2, SynchInvariance, PTL DEF Spec

(* Donors write what they compared some time before, and lock_release what *)
(* it computed before: while nobody sets priorities and no page is used    *)
(* again, none of it leaves a thread below its own priority.               *)
THEOREM NoneBelowOwn == Spec => []OwnPriorityKept
<1>1. (Unset => OwnInv) => OwnPriorityKept
  BY DEF Unset, OwnInv, OwnPriorityKept
<1> QED
  BY <1>1, OwnInvariance, PTL

-----------------------------------------------------------------------------
(* Condition variables.                                                    *)
Parking == {"cond_down", "down_wake"}
W(t) == WaiterSema[t]

OnCond(t) == \E i \in 1 .. Len(cond) : cond[i].thread = t

(* The thread is in cond_wait, and has not got through its sema_down: it   *)
(* is there, or has yet to return there from its lock_release.             *)
InCond(t) ==
  Frame(t).pc \in Parking \/ (stack[t] # <<>> /\ Tail(stack[t]) = Parked(W(t)))

CondListOK ==
  /\ cond \in Seq([thread : Thread, priority : Priority])
  /\ \A i, j \in 1 .. Len(cond) : cond[i].thread = cond[j].thread => i = j

(* Each thread's cond_wait is on its own semaphore.                        *)
ParkedOnOwn(t) ==
  /\ Frame(t).pc \in Parking => Frame(t).obj = W(t)
  /\ stack[t] # <<>> => \A z \in Sema : Tail(stack[t]) = Parked(z) => z = W(t)

(* A waiter is listed, or has its signal; nobody else is or has.           *)
SignalOK(t) ==
  /\ OnCond(t) => InCond(t) /\ value[W(t)] = 0
  /\ InCond(t) /\ ~OnCond(t) => value[W(t)] = 1
  /\ ~InCond(t) => value[W(t)] = 0

OthersUnused == \A s \in Sema : (\A t \in Thread : W(t) # s) => value[s] = 0

CondOK ==
  /\ CondListOK /\ OthersUnused
  /\ \A t \in Thread : ParkedOnOwn(t) /\ SignalOK(t)

LEMMA OwnSema ==
  ASSUME MonitorAssumption, DataOK
  PROVE  /\ \A t \in Thread : W(t) \in Sema
         /\ \A t, u \in Thread : W(t) = W(u) => t = u
         /\ client.ops \cap {"down", "up", "try_down", "intr_up"} = {}
         /\ MonitorLock \in Lock
<1>1. \A t \in Thread : W(t) \in Sema
  BY DEF MonitorAssumption, W
<1>2. \A t, u \in Thread : W(t) = W(u) => t = u
  BY DEF MonitorAssumption, W, IsInjective
<1> QED
  BY <1>1, <1>2 DEF MonitorAssumption, DataOK

(* The thread's call goes on at another place, or returns, or calls, all   *)
(* outside cond_wait's sema_down.                                          *)
Proceeds(me) ==
  \/ UNCHANGED stack
  \/ /\ me \in Thread /\ Frame(me).pc \notin Parking
     /\ \/ stack[me] # <<>> /\ Return
        \/ \E f, k : /\ Enter(f, k) /\ k \in Callers /\ f.pc \notin Parking
                     /\ \/ stack[me] = <<>> /\ (k = <<>> \/ \E c \in Thread : k = Numbered(c))
                        \/ stack[me] # <<>> /\ k = Tail(stack[me])

LEMMA EnterDoes ==
  ASSUME StacksOK, ThreadsAssumption, NEW me \in Thread, current = me, NEW g, NEW k \in Callers, Enter(g, k)
  PROVE  Others(me) /\ stack'[me] # <<>> /\ Tail(stack'[me]) = k /\ Frame(me)' = g
<1> DEFINE s == <<g>> \o k
<1>1. s # <<>> /\ Head(s) = g /\ Tail(s) = k
  BY Pushed
<1>2. Sets(s)
  BY EnterIs
<1> HIDE DEF s
<1>3. stack'[me] = s /\ Others(me)
  <2>1. stack' = [stack EXCEPT ![me] = s] /\ stack = [t \in Thread |-> stack[t]]
    BY <1>2 DEF Sets, StacksOK
  <2> QED
    BY <2>1 DEF Others
<1>4. Frame(me)' = g
  BY <1>1, <1>3, FrameIs
<1> QED
  BY <1>1, <1>3, <1>4

LEMMA ProceedsIs ==
  ASSUME StacksOK, ThreadsAssumption, SynchAssumption, NEW me \in Thread, current = me, Proceeds(me), ParkedOnOwn(me),
         W(me) \in Sema
  PROVE  /\ Others(me) /\ ParkedOnOwn(me)' /\ (InCond(me)' <=> InCond(me))
<1>1. CASE UNCHANGED stack
  BY <1>1 DEF Others, ParkedOnOwn, InCond, Frame, StacksOK, W
<1>2. CASE Frame(me).pc \notin Parking /\ stack[me] # <<>> /\ Return
  <2> DEFINE k == Tail(stack[me])
  <2>1. Others(me) /\ stack'[me] = k
        /\ (k = <<>> => Frame(me)'.pc = "client")
        /\ (\A c \in Thread : k = Made(c) => Frame(me)' = Creating(c))
        /\ (\A c \in Thread : k = Numbered(c) => Frame(me)' = At("tid", TidLock))
        /\ (k = Again => Frame(me)' = At("cond_acq", MonitorLock))
        /\ (\A z \in Sema : k = Parked(z) => Frame(me)' = At("cond_down", z))
    BY <1>2, Returns
  <2>2. \/ k = <<>> \/ k = Again
        \/ (\E c \in Thread : k = Made(c)) \/ (\E c \in Thread : k = Numbered(c))
        \/ \E z \in Sema : k = Parked(z)
    BY <1>2, ReturnedOK DEF StacksOK
  <2>3. \A z \in Sema : k = Parked(z) => z = W(me)
    BY <1>2 DEF ParkedOnOwn
  <2>4. InCond(me) <=> k = Parked(W(me))
    BY <1>2 DEF InCond
  <2> HIDE DEF k
  <2>5. ASSUME k # <<>> PROVE \A z \in Sema : Tail(k) # Parked(z)
    <3>1. CASE k = Again
      BY <3>1, CondCallersAre
    <3>2. ASSUME NEW c \in Thread, k = Made(c) PROVE \A z \in Sema : Tail(k) # Parked(z)
      BY <3>2, CallersAre, CondCallersAre
    <3>3. ASSUME NEW c \in Thread, k = Numbered(c) PROVE \A z \in Sema : Tail(k) # Parked(z)
      BY <3>3, CallersAre, CondCallersAre
    <3>4. ASSUME NEW z \in Sema, k = Parked(z) PROVE \A y \in Sema : Tail(k) # Parked(y)
      <4>1. Tail(k) = Again /\ Tail(Again) = <<>>
        BY <3>4, CondCallersAre
      <4>2. \A y \in Sema : Tail(Parked(y)) # <<>>
        BY CondCallersAre
      <4> QED
        BY <4>1, <4>2
    <3> QED
      BY <2>2, <2>5, <3>1, <3>2, <3>3, <3>4
  <2>6. k = Parked(W(me)) => Frame(me)'.pc = "cond_down" /\ Frame(me)'.obj = W(me)
    BY <2>1 DEF At
  <2>7. k # Parked(W(me)) => Frame(me)'.pc \notin Parking
    BY <2>1, <2>2, <2>3 DEF Parking, At, Creating
  <2>8. W(me)' = W(me)
    BY DEF W
  <2>9. k # <<>> => Tail(k) # Parked(W(me))
    BY <2>5
  <2> QED
    BY <2>1, <2>4, <2>5, <2>6, <2>7, <2>8, <2>9 DEF InCond, ParkedOnOwn, Parking
<1>3. ASSUME NEW f, NEW k \in Callers, Enter(f, k), f.pc \notin Parking,
             Frame(me).pc \notin Parking,
             \/ stack[me] = <<>> /\ (k = <<>> \/ \E c \in Thread : k = Numbered(c))
             \/ stack[me] # <<>> /\ k = Tail(stack[me])
      PROVE  /\ Others(me) /\ ParkedOnOwn(me)' /\ (InCond(me)' <=> InCond(me))
  <2>3. Others(me) /\ stack'[me] # <<>> /\ Tail(stack'[me]) = k
    BY <1>3, EnterDoes
  <2>4. Frame(me)' = f
    BY <1>3, EnterDoes
  <2>5. k = <<>> \/ (\E c \in Thread : k = Numbered(c)) => \A z \in Sema : k # Parked(z)
    BY CondCallersAre
  <2>6. W(me)' = W(me)
    BY DEF W
  <2>7. CASE stack[me] # <<>> /\ k = Tail(stack[me])
    BY <1>3, <2>3, <2>4, <2>6, <2>7 DEF InCond, ParkedOnOwn
  <2>8. CASE stack[me] = <<>> /\ \A z \in Sema : k # Parked(z)
    BY <1>3, <2>3, <2>4, <2>6, <2>8 DEF InCond, ParkedOnOwn
  <2> QED
    BY <1>3, <2>5, <2>7, <2>8
<1> QED
  BY <1>1, <1>2, <1>3 DEF Proceeds

LEMMA ClientProceeds ==
  ASSUME StacksOK, SchedOK, ThreadsAssumption, In("client"), NEW me, current = me
  PROVE  me \in Thread /\ stack[me] = <<>> /\ Frame(me).pc \notin Parking
BY InIs, FrameIs DEF Parking

(* A call that is entered, or goes on or returns, from frames outside      *)
(* cond_wait's sema_down.                                                  *)
LEMMA CallProceeds ==
  ASSUME StacksOK, SchedOK, ThreadsAssumption, In("client"), NEW me, current = me
  PROVE  /\ UNCHANGED stack => Proceeds(me)
         /\ \A f : Call(f) /\ f.pc \notin Parking => Proceeds(me)
         /\ \A f : Enter(f, <<>>) /\ f.pc \notin Parking => Proceeds(me)
<1>1. me \in Thread /\ stack[me] = <<>> /\ Frame(me).pc \notin Parking
  BY ClientProceeds
<1>2. <<>> \in Callers
  BY DEF Callers
<1>3. ASSUME NEW f, Enter(f, <<>>), f.pc \notin Parking PROVE Proceeds(me)
  BY <1>1, <1>2, <1>3 DEF Proceeds
<1>4. ASSUME NEW f, Call(f) PROVE Enter(f, <<>>)
  BY <1>1, <1>4 DEF Call
<1> QED
  BY <1>3, <1>4 DEF Proceeds

LEMMA GotoProceeds ==
  ASSUME StacksOK, SchedOK, ThreadsAssumption, NEW pc, pc \notin Parking \cup {"client"}, In(pc),
         NEW me, current = me
  PROVE  /\ me \in Thread /\ stack[me] # <<>> /\ Me = Head(stack[me]) /\ Me.pc = pc
         /\ Tail(stack[me]) \in Callers /\ FrameOK(Me, Tail(stack[me]))
         /\ UNCHANGED stack => Proceeds(me)
         /\ Return => Proceeds(me)
         /\ \A f : Goto(f) /\ f.pc \notin Parking => Proceeds(me)
         /\ \A f : Enter(f, Tail(stack[me])) /\ f.pc \notin Parking => Proceeds(me)
<1>1. /\ me \in Thread /\ stack[me] # <<>> /\ Me = Head(stack[me]) /\ Me.pc = pc
      /\ Tail(stack[me]) \in Callers /\ FrameOK(Me, Tail(stack[me]))
  BY InIs
<1>2. Frame(me).pc \notin Parking
  BY <1>1, FrameIs
<1>3. Return => Proceeds(me)
  BY <1>1, <1>2 DEF Proceeds
<1>4. ASSUME NEW f, Enter(f, Tail(stack[me])), f.pc \notin Parking PROVE Proceeds(me)
  BY <1>1, <1>2, <1>4 DEF Proceeds
<1>5. ASSUME NEW f, Goto(f) PROVE Enter(f, Tail(stack[me]))
  BY <1>5 DEF Goto
<1>6. UNCHANGED stack => Proceeds(me)
  BY DEF Proceeds
<1> QED
  BY <1>1, <1>3, <1>4, <1>5, <1>6

LEMMA AcquireEnters ==
  ASSUME NEW l, NEW k, acquire(l, k)
  PROVE  \E f : Enter(f, k) /\ f.pc \notin Parking
<1>1. At("acq_down", l).pc \notin Parking /\ \A t, a : Donating(l, t, a).pc \notin Parking
  BY DEF At, Donating, Parking
<1> QED
  BY <1>1 DEF acquire

LEMMA ReleaseEnters ==
  ASSUME NEW l, NEW k, release(l, k)
  PROVE  \E f : Enter(f, k) /\ f.pc = "assign"
<1>1. \A n : Assigning(l, n).pc = "assign"
  BY DEF Assigning
<1> QED
  BY <1>1 DEF release

(* Every step of Synch's but a waiter's sema_down.                         *)
LEMMA StepProceeds ==
  ASSUME SynchInv, ThreadsAssumption, SynchAssumption, MonitorAssumption, NEW me, current = me,
         ThreadStep \/ Tick \/ IdleStep \/ InterruptUp
  PROVE  \/ Proceeds(me) /\ \A s \in Sema : value'[s] = value[s]
         \/ In("down_wake") /\ SemaDown
<1>1. /\ StacksOK /\ SchedOK /\ DataOK /\ client.ops \cap {"down", "up", "try_down", "intr_up"} = {}
      /\ value \in [AnySema -> 0 .. MaxValue] /\ Sema \subseteq AnySema /\ Lock \subseteq AnySema
      /\ \A s \in Sema, l \in Lock : s # l
      /\ TidLock \in Lock
  BY OwnSema, SynchAssumption DEF SynchInv, DataOK, AnySema
<1> DEFINE Same == \A s \in Sema : value'[s] = value[s]
<1>2. CASE SemaDown \/ SemaUp \/ SemaTryDown \/ InterruptUp
  BY <1>1, <1>2 DEF SemaDown, SemaUp, SemaTryDown, InterruptUp
<1>3. CASE LockAcquire
  <2>1. In("client") /\ Same
    BY <1>3 DEF LockAcquire
  <2>2. stack[me] = <<>>
    BY <1>1, <2>1, ClientProceeds
  <2>3. \E f : Enter(f, <<>>) /\ f.pc \notin Parking
    BY <1>3, <2>2, AcquireEnters DEF LockAcquire
  <2> QED
    BY <1>1, <2>1, <2>3, CallProceeds
<1>4. CASE AllocateTid
  <2>1. In("new") /\ Same /\ acquire(TidLock, Tail(stack[me])) /\ "new" \notin Parking \cup {"client"}
    BY <1>4 DEF AllocateTid, Parking
  <2> QED
    BY <1>1, <2>1, GotoProceeds, AcquireEnters
<1>5. CASE DonateRead
  <2>1. In("donate") /\ Same /\ "donate" \notin Parking \cup {"client"}
    BY <1>5 DEF DonateRead, Parking
  <2>2. \A f, n : Raising(f, n).pc \notin Parking
    BY DEF Raising, Parking
  <2> QED
    BY <1>1, <1>5, <2>1, <2>2, GotoProceeds DEF DonateRead
<1>6. CASE DonateWrite
  <2>1. In("raise") /\ Same /\ "raise" \notin Parking \cup {"client"}
    BY <1>6 DEF DonateWrite, Parking
  <2>2. \A a, p : DonateNext(a, p).pc \notin Parking
    BY DEF DonateNext, Donating, At, Parking
  <2> QED
    BY <1>1, <1>6, <2>1, <2>2, GotoProceeds DEF DonateWrite
<1>7. CASE AcquireDown
  <2>1. PICK pc \in {"acq_down", "acq_wake"} : In(pc)
    BY <1>7 DEF AcquireDown
  <2>2. pc \notin Parking \cup {"client"}
    BY DEF Parking
  <2>3. Me.obj \in Lock
    BY <1>1, <2>1, <2>2, GotoProceeds DEF FrameOK, Acquiring
  <2>4. Same
    BY <1>1, <1>7, <2>3 DEF AcquireDown, Takes, Waits
  <2>5. \A l : At("acq_own", l).pc \notin Parking /\ At("acq_wake", l).pc \notin Parking
    BY DEF At, Parking
  <2> QED
    BY <1>1, <1>7, <2>1, <2>2, <2>4, <2>5, GotoProceeds DEF AcquireDown
<1>8. CASE AcquireOwn
  <2>1. In("acq_own") /\ Same /\ "acq_own" \notin Parking \cup {"client"} /\ Return
    BY <1>8 DEF AcquireOwn, Parking
  <2> QED
    BY <1>1, <2>1, GotoProceeds
<1>9. CASE LockRelease
  <2>1. Same
    BY <1>9 DEF LockRelease
  <2>2. CASE In("client") /\ \E l \in client.locks : release(l, stack[me])
    <3>1. stack[me] = <<>>
      BY <1>1, <2>2, ClientProceeds
    <3>2. \E f : Enter(f, <<>>) /\ f.pc = "assign"
      BY <2>2, <3>1, ReleaseEnters
    <3> QED
      BY <1>1, <2>1, <2>2, <3>2, CallProceeds DEF Parking
  <2>3. CASE In("tid") /\ release(TidLock, Tail(stack[me]))
    <3>1. \E f : Enter(f, Tail(stack[me])) /\ f.pc = "assign"
      BY <2>3, ReleaseEnters
    <3>2. "tid" \notin Parking \cup {"client"}
      BY DEF Parking
    <3> QED
      BY <1>1, <2>1, <2>3, <3>1, <3>2, GotoProceeds DEF Parking
  <2> QED
    BY <1>9, <2>2, <2>3 DEF LockRelease
<1>10. CASE ReleaseAssign \/ ReleaseDisown
  <2>1. PICK pc \in {"assign", "disown"} : In(pc)
    BY <1>10 DEF ReleaseAssign, ReleaseDisown
  <2>2. pc \notin Parking \cup {"client"} /\ Same
    BY <1>10 DEF Parking, ReleaseAssign, ReleaseDisown
  <2>3. \A l : At("disown", l).pc \notin Parking /\ At("rel_up", l).pc \notin Parking
    BY DEF At, Parking
  <2> QED
    BY <1>1, <1>10, <2>1, <2>2, <2>3, GotoProceeds DEF ReleaseAssign, ReleaseDisown
<1>11. CASE ReleaseUp
  <2>1. In("rel_up") /\ Return /\ sema_up(Me.obj, FALSE) /\ "rel_up" \notin Parking \cup {"client"}
    BY <1>11 DEF ReleaseUp, Parking
  <2>2. Me.obj \in Lock
    BY <1>1, <2>1, GotoProceeds DEF FrameOK, Releasing
  <2>3. Same
    BY <1>1, <2>1, <2>2 DEF sema_up
  <2> QED
    BY <1>1, <2>1, <2>3, GotoProceeds
<1>12. CASE SetPriority
  <2>1. In("client") /\ Same
    BY <1>12 DEF SetPriority
  <2>2. \A n, a : Setting("update", n, a).pc \notin Parking
    BY DEF Setting, Parking
  <2> QED
    BY <1>1, <1>12, <2>1, <2>2, CallProceeds DEF SetPriority
<1>13. CASE SetUpdate \/ SetLook \/ SetYield
  <2>1. PICK pc \in {"update", "look", "front"} : In(pc)
    BY <1>13 DEF SetUpdate, SetLook, SetYield
  <2>2. pc \notin Parking \cup {"client"} /\ Same
    BY <1>13 DEF Parking, SetUpdate, SetLook, SetYield
  <2>3. \A n, a : Setting("look", n, a).pc \notin Parking /\ Setting("front", n, a).pc \notin Parking
    BY DEF Setting, Parking
  <2> QED
    BY <1>1, <1>13, <2>1, <2>2, <2>3, GotoProceeds DEF SetUpdate, SetLook, SetYield
<1>14. CASE Create
  <2>1. In("client") /\ Same
    BY <1>14 DEF Create
  <2>2. me \in Thread /\ stack[me] = <<>> /\ Frame(me).pc \notin Parking
    BY <1>1, <2>1, ClientProceeds
  <2>3. PICK t \in Thread :
          stack' = [stack EXCEPT ![me] = <<At("new", TidLock), At("tid", TidLock), Creating(t)>>]
    BY <1>14 DEF Create
  <2> DEFINE g == At("new", TidLock)
             y == At("tid", TidLock)
             x == Creating(t)
             k == Numbered(t)
  <2>4. <<g>> \o k = <<g, y, x>>
    <3>1. k = <<y, x>>
      BY DEF Numbered
    <3> HIDE DEF k, g, y, x
    <3> QED
      BY <3>1, OnTwo
  <2>5. Enter(g, k)
    BY <2>3, <2>4 DEF Enter
  <2>6. g.pc \notin Parking /\ k \in Callers
    BY DEF At, Parking, Callers
  <2> QED
    BY <2>1, <2>2, <2>5, <2>6 DEF Proceeds
<1>15. CASE CreateUnblock
  <2>1. In("create") /\ Same /\ "create" \notin Parking \cup {"client"} /\ Return
    BY <1>15 DEF CreateUnblock, Parking
  <2> QED
    BY <1>1, <2>1, GotoProceeds
<1>16. CASE ThreadExit \/ Tick \/ IdleStep
  <2>1. UNCHANGED stack /\ Same
    BY <1>16 DEF ThreadExit, Tick, IdleStep, synchVars
  <2> QED
    BY <2>1 DEF Proceeds
<1> QED
  BY <1>2, <1>3, <1>4, <1>5, <1>6, <1>7, <1>8, <1>9, <1>10, <1>11, <1>12, <1>13, <1>14, <1>15, <1>16
  DEF ThreadStep

LEMMA NobodyParks ==
  ASSUME CondOK, StacksOK, DataOK, ThreadsAssumption, SynchAssumption, MonitorAssumption,
         NEW me, current = me, Proceeds(me)
  PROVE  \A t \in Thread : ParkedOnOwn(t)' /\ (InCond(t)' <=> InCond(t))
<1> SUFFICES ASSUME NEW t \in Thread PROVE ParkedOnOwn(t)' /\ (InCond(t)' <=> InCond(t))
  OBVIOUS
<1>1. CASE UNCHANGED stack
  BY <1>1 DEF CondOK, ParkedOnOwn, InCond, Frame, W
<1>2. CASE me \in Thread
  <2>1. Others(me) /\ ParkedOnOwn(me)' /\ (InCond(me)' <=> InCond(me))
    BY <1>2, OwnSema, ProceedsIs DEF CondOK
  <2>2. t # me => stack'[t] = stack[t] /\ Frame(t)' = Frame(t)
    BY <2>1, FramesKept DEF Others
  <2>3. t # me => ParkedOnOwn(t)' /\ (InCond(t)' <=> InCond(t))
    BY <2>2 DEF CondOK, ParkedOnOwn, InCond, W
  <2> QED
    BY <2>1, <2>3
<1> QED
  BY <1>1, <1>2 DEF Proceeds

(* A step that leaves the condition's list and the waiters' semaphores     *)
(* alone.                                                                  *)
LEMMA CondKept ==
  ASSUME CondOK, StacksOK, ThreadsAssumption, SynchAssumption, MonitorAssumption, DataOK,
         NEW me, current = me, Proceeds(me), UNCHANGED cond,
         \A s \in Sema : value'[s] = value[s]
  PROVE  CondOK'
<1>1. \A t \in Thread : W(t) \in Sema
  BY OwnSema
<1>2. \A t \in Thread : W(t)' = W(t) /\ (OnCond(t)' <=> OnCond(t))
  BY DEF W, OnCond
<1>3. CondListOK' /\ OthersUnused'
  BY <1>2 DEF CondOK, CondListOK, OthersUnused, W
<1>4. \A t \in Thread : ParkedOnOwn(t)' /\ (InCond(t)' <=> InCond(t))
  BY NobodyParks
<1>5. \A t \in Thread : SignalOK(t)'
  BY <1>1, <1>2, <1>4 DEF CondOK, SignalOK
<1> QED
  BY <1>3, <1>4, <1>5 DEF CondOK

(* The thread gets through its sema_down, and back to where it was called. *)
LEMMA CondTaken ==
  ASSUME CondOK, StacksOK, SchedOK, DataOK, ThreadsAssumption, SynchAssumption, MonitorAssumption,
         NEW me, current = me, NEW pc \in Parking, In(pc), Takes(Me.obj), Return, UNCHANGED cond
  PROVE  CondOK'
<1>1. pc # "client"
  BY DEF Parking
<1>2. /\ me \in Thread /\ stack[me] # <<>> /\ Me = Head(stack[me]) /\ Me.pc = pc
      /\ FrameOK(Me, Tail(stack[me])) /\ Frame(me) = Me
  BY <1>1, InIs DEF Me
<1>3. /\ \A t \in Thread : W(t) \in Sema
      /\ \A t, u \in Thread : W(t) = W(u) => t = u
  BY OwnSema
<1>4. Me.obj = W(me) /\ Me.obj \in Sema /\ Tail(stack[me]) \in {<<>>, Again}
  BY <1>2 DEF CondOK, ParkedOnOwn, Parking, FrameOK
<1>5. /\ value \in [AnySema -> 0 .. MaxValue] /\ Sema \subseteq AnySema
      /\ value[W(me)] > 0 /\ value' = [value EXCEPT ![W(me)] = value[W(me)] - 1]
  BY <1>4 DEF DataOK, AnySema, Takes
<1>6. InCond(me)
  BY <1>2 DEF InCond
<1>7. value[W(me)] = 1 /\ ~OnCond(me)
  BY <1>2, <1>5, <1>6 DEF CondOK, SignalOK
<1>8. /\ value'[W(me)] = 0 /\ \A s \in Sema : s # W(me) => value'[s] = value[s]
  BY <1>2, <1>3, <1>5, <1>7
<1>9. \A t \in Thread : W(t)' = W(t) /\ (OnCond(t)' <=> OnCond(t))
  BY DEF W, OnCond
<1>10. /\ Others(me) /\ stack'[me] = Tail(stack[me])
       /\ Frame(me)'.pc \notin Parking
  <2>1. At("cond_acq", MonitorLock).pc = "cond_acq"
    BY DEF At
  <2> QED
    BY <1>2, <1>4, <2>1, Returns DEF Parking
<1>11. ~InCond(me)' /\ ParkedOnOwn(me)'
  <2>1. stack'[me] # <<>> => \A z \in Sema : Tail(stack'[me]) # Parked(z)
    BY <1>4, <1>10, CondCallersAre
  <2> QED
    BY <1>2, <1>3, <1>9, <1>10, <2>1 DEF InCond, ParkedOnOwn
<1>12. ASSUME NEW t \in Thread, t # me PROVE ParkedOnOwn(t)' /\ (InCond(t)' <=> InCond(t))
  <2>1. stack'[t] = stack[t] /\ Frame(t)' = Frame(t)
    BY <1>10, <1>12, FramesKept DEF Others
  <2> QED
    BY <2>1 DEF CondOK, ParkedOnOwn, InCond, W
<1>13. ASSUME NEW t \in Thread PROVE SignalOK(t)'
  <2>1. CASE t = me
    BY <1>7, <1>8, <1>9, <1>11, <2>1 DEF SignalOK
  <2>2. CASE t # me
    <3>1. value'[W(t)] = value[W(t)]
      BY <1>2, <1>3, <1>8, <2>2
    <3> QED
      BY <1>9, <1>12, <2>2, <3>1 DEF CondOK, SignalOK
  <2> QED
    BY <2>1, <2>2
<1>14. CondListOK' /\ OthersUnused'
  <2>1. CondListOK'
    BY DEF CondOK, CondListOK
  <2>2. ASSUME NEW s \in Sema, \A t \in Thread : W(t)' # s PROVE value'[s] = 0
    BY <1>2, <1>8, <1>9, <2>2 DEF CondOK, OthersUnused
  <2> QED
    BY <2>1, <2>2 DEF OthersUnused
<1> QED
  BY <1>11, <1>12, <1>13, <1>14 DEF CondOK

(* It has to wait, or to wait again.                                       *)
LEMMA CondWaits ==
  ASSUME CondOK, StacksOK, SchedOK, DataOK, ThreadsAssumption, SynchAssumption, MonitorAssumption,
         NEW me, current = me, NEW pc \in Parking, In(pc), UNCHANGED <<value, cond>>,
         UNCHANGED stack \/ Goto(At("down_wake", Me.obj))
  PROVE  CondOK'
<1>1. pc # "client"
  BY DEF Parking
<1>2. /\ me \in Thread /\ stack[me] # <<>> /\ Me = Head(stack[me]) /\ Me.pc = pc
      /\ Tail(stack[me]) \in Callers /\ FrameOK(Me, Tail(stack[me])) /\ Frame(me) = Me
  BY <1>1, InIs DEF Me
<1>3. \A t \in Thread : W(t)' = W(t) /\ (OnCond(t)' <=> OnCond(t))
  BY DEF W, OnCond
<1>4. Me.obj = W(me) /\ InCond(me)
  BY <1>2 DEF CondOK, ParkedOnOwn, InCond
<1>5. /\ Others(me) /\ stack'[me] # <<>> /\ Tail(stack'[me]) = Tail(stack[me])
      /\ Frame(me)'.pc \in Parking /\ Frame(me)'.obj = W(me)
  <2>1. CASE UNCHANGED stack
    BY <1>2, <1>4, <2>1, FrameIs DEF Others
  <2>2. CASE Goto(At("down_wake", Me.obj))
    <3> DEFINE g == At("down_wake", Me.obj)
    <3>1. Enter(g, Tail(stack[me]))
      BY <2>2 DEF Goto
    <3>2. g.pc = "down_wake" /\ g.obj = W(me)
      BY <1>4 DEF At
    <3> HIDE DEF g
    <3>3. Others(me) /\ stack'[me] # <<>> /\ Tail(stack'[me]) = Tail(stack[me]) /\ Frame(me)' = g
      BY <1>2, <3>1, EnterDoes
    <3> QED
      BY <3>2, <3>3 DEF Parking
  <2> QED
    BY <2>1, <2>2
<1>6. ASSUME NEW t \in Thread PROVE ParkedOnOwn(t)' /\ (InCond(t)' <=> InCond(t))
  <2>1. CASE t = me
    BY <1>2, <1>3, <1>4, <1>5, <2>1 DEF CondOK, ParkedOnOwn, InCond
  <2>2. CASE t # me
    <3>1. stack'[t] = stack[t] /\ Frame(t)' = Frame(t)
      BY <1>5, <2>2, FramesKept DEF Others
    <3> QED
      BY <3>1 DEF CondOK, ParkedOnOwn, InCond, W
  <2> QED
    BY <2>1, <2>2
<1>7. \A t \in Thread : SignalOK(t)'
  BY <1>3, <1>6 DEF CondOK, SignalOK
<1>8. CondListOK' /\ OthersUnused'
  BY <1>3 DEF CondOK, CondListOK, OthersUnused, W
<1> QED
  BY <1>6, <1>7, <1>8 DEF CondOK

(* What list_insert_ordered returns: the waiters that were there, in their *)
(* order, and the thread.                                                  *)
LEMMA InsertWaiterIs ==
  ASSUME CondListOK, ThreadsAssumption, SynchAssumption, SchedOK, NEW me \in Thread
  PROVE  \E k \in 1 .. Len(cond) + 1 :
           /\ InsertWaiter(me) \in Seq([thread : Thread, priority : Priority])
           /\ Len(InsertWaiter(me)) = Len(cond) + 1
           /\ InsertWaiter(me)[k].thread = me
           /\ \A j \in 1 .. Len(cond) + 1 : j < k => InsertWaiter(me)[j] = cond[j]
           /\ \A j \in 1 .. Len(cond) + 1 : j > k => InsertWaiter(me)[j] = cond[j - 1]
<1> DEFINE S == [thread : Thread, priority : Priority]
           e == [thread |-> me, priority |-> priority[me]]
           lower == {i \in 1 .. Len(cond) : priority[me] > cond[i].priority}
           k == IF lower = {} THEN Len(cond) + 1 ELSE Min(lower)
<1>1. cond \in Seq(S) /\ Len(cond) \in Nat /\ DOMAIN cond = 1 .. Len(cond)
  BY LenProperties DEF CondListOK
<1>2. e \in S /\ e.thread = me
  BY SchedTypes DEF AnyThread
<1>3. k \in 1 .. Len(cond) + 1
  <2>1. CASE lower = {}
    BY <1>1, <2>1
  <2>2. CASE lower # {}
    <3>1. lower \subseteq Nat
      BY <1>1
    <3>2. Min(lower) \in lower /\ k = Min(lower)
      BY <2>2, <3>1, MinOfNats
    <3> QED
      BY <1>1, <3>2
  <2> QED
    BY <2>1, <2>2
<1>4. InsertWaiter(me) = InsertAt(cond, k, e)
  BY <1>1 DEF InsertWaiter
<1> HIDE DEF lower, k, e, S
<1>5. PICK n \in 1 .. Len(cond) + 1 : InsertWaiter(me) = InsertAt(cond, n, e)
  BY <1>3, <1>4
<1>6. /\ InsertAt(cond, n, e) \in Seq(S)
      /\ Len(InsertAt(cond, n, e)) = Len(cond) + 1
      /\ \A j \in 1 .. Len(cond) + 1 :
           InsertAt(cond, n, e)[j] = IF j < n THEN cond[j] ELSE IF j = n THEN e ELSE cond[j - 1]
  BY <1>1, <1>2, InsertAtIs
<1>7. n \in Nat
  BY <1>1, <1>5
<1> QED
  BY <1>1, <1>2, <1>5, <1>6, <1>7 DEF S

LEMMA WaiterInserted ==
  ASSUME CondListOK, ThreadsAssumption, SynchAssumption, SchedOK, NEW me \in Thread, ~OnCond(me),
         cond' = InsertWaiter(me)
  PROVE  CondListOK' /\ \A t \in Thread : OnCond(t)' <=> OnCond(t) \/ t = me
<1> DEFINE r == InsertWaiter(me)
<1>0. PICK k \in 1 .. Len(cond) + 1 :
        /\ r \in Seq([thread : Thread, priority : Priority])
        /\ Len(r) = Len(cond) + 1
        /\ r[k].thread = me
        /\ \A j \in 1 .. Len(cond) + 1 : j < k => r[j] = cond[j]
        /\ \A j \in 1 .. Len(cond) + 1 : j > k => r[j] = cond[j - 1]
  BY InsertWaiterIs
<1> HIDE DEF r
<1>1. /\ cond' \in Seq([thread : Thread, priority : Priority])
      /\ Len(cond') = Len(cond) + 1
      /\ cond'[k].thread = me
      /\ \A j \in 1 .. Len(cond) + 1 : j < k => cond'[j] = cond[j]
      /\ \A j \in 1 .. Len(cond) + 1 : j > k => cond'[j] = cond[j - 1]
  <2>1. cond' = r
    BY DEF r
  <2> QED
    BY <1>0, <2>1
<1>2. Len(cond) \in Nat /\ \A i \in 1 .. Len(cond) : cond[i].thread # me
  BY LenProperties DEF CondListOK, OnCond
<1> DEFINE old(j) == IF j < k THEN j ELSE j - 1
<1>3. \A j \in 1 .. Len(cond) + 1 : j # k => old(j) \in 1 .. Len(cond) /\ cond'[j] = cond[old(j)]
  BY <1>1, <1>2
<1>4. \A i, j \in 1 .. Len(cond) + 1 : i # k /\ j # k /\ old(i) = old(j) => i = j
  BY <1>2
<1> HIDE DEF old
<1>5. ASSUME NEW i \in 1 .. Len(cond'), NEW j \in 1 .. Len(cond'), cond'[i].thread = cond'[j].thread
      PROVE  i = j
  <2>1. i \in 1 .. Len(cond) + 1 /\ j \in 1 .. Len(cond) + 1
    BY <1>1
  <2>2. CASE i = k \/ j = k
    <3>1. ASSUME NEW n \in 1 .. Len(cond) + 1, n # k PROVE cond'[n].thread # me
      BY <1>2, <1>3, <3>1
    <3> QED
      BY <1>1, <1>5, <2>1, <2>2, <3>1
  <2>3. CASE i # k /\ j # k
    <3>1. old(i) = old(j)
      BY <1>3, <1>5, <2>1, <2>3 DEF CondListOK
    <3> QED
      BY <1>4, <2>1, <2>3, <3>1
  <2> QED
    BY <2>2, <2>3
<1>6. ASSUME NEW t \in Thread PROVE OnCond(t)' <=> OnCond(t) \/ t = me
  <2>1. OnCond(t)' => OnCond(t) \/ t = me
    BY <1>1, <1>3 DEF OnCond
  <2>2. t = me => OnCond(t)'
    BY <1>1 DEF OnCond
  <2>3. ASSUME NEW i \in 1 .. Len(cond), cond[i].thread = t PROVE OnCond(t)'
    <3>1. CASE i < k
      <4>1. i \in 1 .. Len(cond) + 1 /\ cond'[i] = cond[i]
        BY <1>1, <1>2, <3>1
      <4> QED
        BY <1>1, <2>3, <4>1 DEF OnCond
    <3>2. CASE i >= k
      <4>1. i + 1 \in 1 .. Len(cond) + 1 /\ i + 1 > k /\ (i + 1) - 1 = i
        BY <1>1, <1>2, <3>2
      <4>2. cond'[i + 1] = cond[i]
        BY <1>1, <4>1
      <4> QED
        BY <1>1, <2>3, <4>1, <4>2 DEF OnCond
    <3> QED
      BY <1>2, <3>1, <3>2
  <2> QED
    BY <2>1, <2>2, <2>3 DEF OnCond
<1>7. CondListOK'
  BY <1>1, <1>5 DEF CondListOK
<1> QED
  BY <1>6, <1>7

(* The first waiter leaves the list.                                       *)
LEMMA WaiterRemoved ==
  ASSUME CondListOK, cond # <<>>, cond' = Tail(cond)
  PROVE  /\ Head(cond).thread \in Thread /\ OnCond(Head(cond).thread) /\ CondListOK'
         /\ \A t \in Thread : OnCond(t)' <=> OnCond(t) /\ t # Head(cond).thread
<1> DEFINE S == [thread : Thread, priority : Priority]
<1>1. cond \in Seq(S) /\ Len(cond) \in Nat /\ Len(cond) > 0
  BY LenProperties, EmptySeq DEF CondListOK
<1>2. /\ Head(cond) = cond[1] /\ cond' \in Seq(S) /\ Len(cond') = Len(cond) - 1
      /\ \A i \in 1 .. Len(cond') : cond'[i] = cond[i + 1]
  BY <1>1, HeadTailProperties DEF CondListOK
<1> HIDE DEF S
<1>3. 1 \in 1 .. Len(cond) /\ cond[1] \in S
  <2>1. 1 \in 1 .. Len(cond)
    BY <1>1
  <2> QED
    BY <1>1, <2>1, ElementOfSeq
<1>4. \A i \in 1 .. Len(cond') : i + 1 \in 1 .. Len(cond) /\ i + 1 # 1
  BY <1>1, <1>2
<1>5. \A i, j \in 1 .. Len(cond') : cond'[i].thread = cond'[j].thread => i = j
  <2> SUFFICES ASSUME NEW i \in 1 .. Len(cond'), NEW j \in 1 .. Len(cond'),
                      cond'[i].thread = cond'[j].thread
               PROVE  i = j
    OBVIOUS
  <2>1. i + 1 = j + 1
    BY <1>2, <1>4 DEF CondListOK
  <2> QED
    BY <1>1, <1>2, <2>1
<1>6. ASSUME NEW t \in Thread PROVE OnCond(t)' <=> OnCond(t) /\ t # cond[1].thread
  <2>1. ASSUME NEW i \in 1 .. Len(cond'), cond'[i].thread = t PROVE OnCond(t) /\ t # cond[1].thread
    BY <1>2, <1>3, <1>4, <2>1 DEF OnCond, CondListOK
  <2>2. ASSUME NEW i \in 1 .. Len(cond), cond[i].thread = t, t # cond[1].thread PROVE OnCond(t)'
    <3>1. i - 1 \in 1 .. Len(cond') /\ (i - 1) + 1 = i
      BY <1>1, <1>2, <2>2
    <3> QED
      BY <1>2, <2>2, <3>1 DEF OnCond
  <2> QED
    BY <2>1, <2>2 DEF OnCond
<1>7. CondListOK'
  BY <1>2, <1>5 DEF CondListOK, S
<1> QED
  BY <1>2, <1>3, <1>6, <1>7 DEF OnCond, S

-----------------------------------------------------------------------------
(* The steps of cond_wait, cond_signal and cond_broadcast.                 *)
LEMMA CondWaitInv ==
  ASSUME SynchInv, CondOK, ThreadsAssumption, SynchAssumption, MonitorAssumption, CondWait, UNCHANGED client
  PROVE  SynchInv' /\ CondOK'
<1>1. /\ SchedOK /\ DataOK /\ StacksOK /\ In("client")
      /\ CondListOK /\ OthersUnused
  BY DEF SynchInv, CondWait, Monitoring, CondOK
<1>2. PICK me \in Thread : current = me /\ stack[me] = <<>>
  BY <1>1, InIs
<1>3. /\ \A t \in Thread : W(t) \in Sema
      /\ \A t, u \in Thread : W(t) = W(u) => t = u
      /\ MonitorLock \in Lock /\ holder[MonitorLock] = me /\ Frame(me).pc = "client"
  BY <1>1, <1>2, OwnSema, FrameIs DEF CondWait, Monitoring
<1>4. ~InCond(me) /\ ~OnCond(me) /\ value[W(me)] = 0
  BY <1>2, <1>3 DEF CondOK, SignalOK, InCond, Parking
<1>5. value' = value
  <2>1. value' = [value EXCEPT ![W(me)] = 0]
    BY <1>2 DEF CondWait, W
  <2>2. value \in [AnySema -> 0 .. MaxValue]
    BY <1>1 DEF DataOK
  <2> QED
    BY <1>4, <2>1, <2>2
<1> DEFINE k == Parked(W(me))
<1>6. release(MonitorLock, k) /\ k \in Callers /\ cond' = InsertWaiter(me)
      /\ UNCHANGED <<threadVars, donationVars, waiters, holder>>
  BY <1>2, <1>3, CondCallersAre DEF CondWait, W, Parked
<1>7. SynchInv'
  <2>1. \E z \in Sema : k = Parked(z)
    BY <1>2, <1>3
  <2> HIDE DEF k
  <2> QED
    BY <1>2, <1>3, <1>5, <1>6, <2>1, ReleaseInv
<1>8. PICK f : Enter(f, k) /\ f.pc = "assign"
  BY <1>6, ReleaseEnters
<1>9. Others(me) /\ stack'[me] # <<>> /\ Tail(stack'[me]) = k /\ Frame(me)' = f
  BY <1>1, <1>2, <1>6, <1>8, EnterDoes
<1>10. CondListOK' /\ \A t \in Thread : OnCond(t)' <=> OnCond(t) \/ t = me
  BY <1>1, <1>2, <1>4, <1>6, WaiterInserted
<1>11. \A t \in Thread : W(t)' = W(t)
  BY DEF W
<1>12. ParkedOnOwn(me)' /\ InCond(me)'
  <2>1. \A z \in Sema : Parked(z) = Parked(W(me)) => z = W(me)
    <3>1. ASSUME NEW z \in Sema PROVE Head(Parked(z)).obj = z
      <4>1. At("cond_down", z).obj = z
        BY DEF At
      <4> QED
        BY <4>1, CondCallersAre
    <3> QED
      BY <1>2, <1>3, <3>1
  <2> QED
    BY <1>8, <1>9, <1>11, <2>1 DEF ParkedOnOwn, InCond, Parking
<1>13. ASSUME NEW t \in Thread, t # me PROVE ParkedOnOwn(t)' /\ (InCond(t)' <=> InCond(t))
  <2>1. stack'[t] = stack[t] /\ Frame(t)' = Frame(t)
    BY <1>9, <1>13, FramesKept DEF Others
  <2> QED
    BY <2>1 DEF CondOK, ParkedOnOwn, InCond, W
<1>14. ASSUME NEW t \in Thread PROVE SignalOK(t)'
  <2>1. CASE t = me
    BY <1>4, <1>5, <1>10, <1>11, <1>12, <2>1 DEF SignalOK
  <2>2. CASE t # me
    BY <1>5, <1>10, <1>11, <1>13, <2>2 DEF CondOK, SignalOK
  <2> QED
    BY <2>1, <2>2
<1>15. OthersUnused'
  BY <1>1, <1>5, <1>11 DEF OthersUnused
<1> QED
  BY <1>7, <1>10, <1>12, <1>13, <1>14, <1>15 DEF CondOK

(* The signalled thread has not got through its sema_down, and leaves the  *)
(* list as its semaphore goes up.                                          *)
LEMMA SignalInv ==
  ASSUME SynchInv, CondOK, ThreadsAssumption, SynchAssumption, MonitorAssumption, signal,
         UNCHANGED <<priority, donationVars, lock_list, holder, client>>,
         NEW me, current = me, StacksOK', GoesOn(me), Proceeds(me)
  PROVE  SynchInv' /\ CondOK'
<1>1. SchedOK /\ DataOK /\ StacksOK /\ CondListOK /\ OthersUnused /\ WaitListsExact
  BY DEF SynchInv, CondOK
<1> DEFINE h == Head(cond).thread
<1>2. /\ h \in Thread /\ OnCond(h) /\ CondListOK'
      /\ \A t \in Thread : OnCond(t)' <=> OnCond(t) /\ t # h
  BY <1>1, WaiterRemoved DEF signal
<1>3. sema_up(W(h), FALSE)
  BY DEF signal, W
<1> HIDE DEF h
<1>4. /\ \A t \in Thread : W(t) \in Sema /\ W(t)' = W(t)
      /\ \A t, u \in Thread : W(t) = W(u) => t = u
      /\ Sema \subseteq AnySema
  BY <1>1, OwnSema DEF W, AnySema
<1>5. InCond(h) /\ value[W(h)] = 0 /\ 0 < MaxValue
  BY <1>2, SynchAssumption DEF CondOK, SignalOK
<1>6. SynchInv'
  BY <1>2, <1>3, <1>4, <1>5, UpStep
<1>7. value'[W(h)] = 1 /\ \A s \in Sema : s # W(h) => value'[s] = value[s]
  <2>1. value' = [value EXCEPT ![W(h)] = value[W(h)] + 1]
    BY <1>3 DEF sema_up
  <2>2. value \in [AnySema -> 0 .. MaxValue] /\ W(h) \in AnySema
    BY <1>1, <1>2, <1>4 DEF DataOK
  <2> QED
    BY <1>4, <1>5, <2>1, <2>2
<1>8. \A t \in Thread : ParkedOnOwn(t)' /\ (InCond(t)' <=> InCond(t))
  BY <1>1, NobodyParks
<1>9. ASSUME NEW t \in Thread PROVE SignalOK(t)'
  <2>1. CASE t = h
    BY <1>2, <1>4, <1>5, <1>7, <1>8, <2>1 DEF SignalOK
  <2>2. CASE t # h
    <3>1. value'[W(t)] = value[W(t)]
      BY <1>2, <1>4, <1>7, <2>2
    <3> QED
      BY <1>2, <1>4, <1>8, <2>2, <3>1 DEF CondOK, SignalOK
  <2> QED
    BY <2>1, <2>2
<1>10. OthersUnused'
  BY <1>1, <1>2, <1>4, <1>7 DEF OthersUnused
<1> QED
  BY <1>2, <1>6, <1>8, <1>9, <1>10 DEF CondOK

LEMMA CondSignalInv ==
  ASSUME SynchInv, CondOK, ThreadsAssumption, SynchAssumption, MonitorAssumption, CondSignal, UNCHANGED client
  PROVE  SynchInv' /\ CondOK'
<1>1. SchedOK /\ DataOK /\ StacksOK /\ In("client") /\ signal
      /\ UNCHANGED <<priority, donationVars, lock_list, holder, stack>>
  BY DEF SynchInv, CondSignal, Monitoring
<1>2. PICK me : current = me /\ status[me] = "RUNNING"
  BY <1>1, InIs
<1>3. StacksOK' /\ GoesOn(me)
  BY <1>1, <1>2, StackSame
<1>4. Proceeds(me)
  BY <1>1 DEF Proceeds
<1> QED
  BY <1>1, <1>2, <1>3, <1>4, SignalInv

LEMMA CondBroadcastInv ==
  ASSUME SynchInv, CondOK, ThreadsAssumption, SynchAssumption, MonitorAssumption, CondBroadcast,
         UNCHANGED client
  PROVE  SynchInv' /\ CondOK'
<1>1. SchedOK /\ DataOK /\ StacksOK /\ UNCHANGED <<priority, donationVars, lock_list, holder>>
  BY DEF SynchInv, CondBroadcast
<1>2. ASSUME In("client"), signal, Call([pc |-> "broadcast"]) PROVE SynchInv' /\ CondOK'
  <2>1. PICK me \in Thread : /\ current = me /\ stack[me] = <<>> /\ status[me] = "RUNNING"
                             /\ Frame(me).pc = "client"
    BY <1>1, <1>2, InIs, FrameIs
  <2> DEFINE g == [pc |-> "broadcast"]
  <2>2. g.pc = "broadcast" /\ Enter(g, <<>>) /\ <<>> \in Callers
    BY <1>2, <2>1 DEF Call, Callers
  <2>3. Proceeds(me)
    BY <1>1, <1>2, <2>1, <2>2, CallProceeds DEF Parking
  <2>4. FrameOK(g, <<>>)
    BY <2>2 DEF FrameOK, Acquiring, Releasing, PrioritySetting
  <2> HIDE DEF g
  <2>5. /\ StacksOK' /\ Others(me) /\ Frame(me)' = g
        /\ \A c \in Thread : Makes(stack'[me], c) => Makes(stack[me], c)
    BY <1>1, <2>1, <2>2, <2>4, Enters
  <2>6. GoesOn(me)
    BY <2>1, <2>2, <2>5 DEF GoesOn, KeepsRole, Neutral
  <2> QED
    BY <1>1, <1>2, <2>1, <2>3, <2>5, <2>6, SignalInv
<1>3. ASSUME In("broadcast"), signal, UNCHANGED stack PROVE SynchInv' /\ CondOK'
  <2>1. PICK me : current = me /\ status[me] = "RUNNING"
    BY <1>1, <1>3, InIs
  <2>2. StacksOK' /\ GoesOn(me) /\ Proceeds(me)
    BY <1>1, <1>3, <2>1, StackSame DEF Proceeds
  <2> QED
    BY <1>1, <1>3, <2>1, <2>2, SignalInv
<1>4. ASSUME In("broadcast"), Return, UNCHANGED <<schedVars, panicked, value, waiters, cond>>
      PROVE  SynchInv' /\ CondOK'
  <2>1. PICK me : current = me
    OBVIOUS
  <2>2. "broadcast" \notin Parking \cup {"client"}
    BY DEF Parking
  <2>3. /\ me \in Thread /\ stack[me] # <<>> /\ Me.pc = "broadcast" /\ FrameOK(Me, Tail(stack[me]))
        /\ Proceeds(me)
    BY <1>1, <1>4, <2>1, <2>2, GotoProceeds
  <2>4. Tail(stack[me]) = <<>> /\ Neutral(Frame(me).pc)
    BY <2>1, <2>3 DEF FrameOK, Neutral, Me
  <2>5. StacksOK' /\ GoesOn(me)
    BY <1>4, <2>1, <2>3, <2>4, BackToClient
  <2>6. SchedOK' /\ \A t \in Thread : KeepsClass(status[t], status'[t])
    BY <1>1, <1>4, SchedSame, SchedTypes
  <2>7. DataOK'
    BY <1>1, <1>4 DEF DataOK, donationVars
  <2>8. SynchInv'
    BY <1>1, <1>4, <2>5, <2>6, <2>7, PrivateStep
  <2>9. CondOK'
    BY <1>1, <1>4, <2>1, <2>3, CondKept
  <2> QED
    BY <2>8, <2>9
<1>5. \/ In("client") /\ signal /\ Call([pc |-> "broadcast"])
      \/ In("broadcast") /\ signal /\ UNCHANGED stack
      \/ In("broadcast") /\ Return /\ UNCHANGED <<schedVars, panicked, value, waiters, cond>>
  BY DEF CondBroadcast, Monitoring
<1> QED
  BY <1>2, <1>3, <1>4, <1>5

LEMMA CondDownInv ==
  ASSUME SynchInv, CondOK, ThreadsAssumption, SynchAssumption, MonitorAssumption, CondDown, UNCHANGED client
  PROVE  SynchInv' /\ CondOK'
<1>1. /\ SchedOK /\ DataOK /\ StacksOK /\ In("cond_down") /\ "cond_down" \in Parking
      /\ UNCHANGED <<priority, panicked, donationVars, lock_list, holder, cond>>
  BY DEF SynchInv, CondDown, Parking
<1>0. /\ current \in Thread /\ stack[current] # <<>> /\ Me = Head(stack[current])
      /\ Tail(stack[current]) \in Callers
      /\ FrameOK(Head(stack[current]), Tail(stack[current]))
      /\ status[current] = "RUNNING" /\ Me.pc = "cond_down"
  <2>1. PICK pc : pc = "cond_down"
    OBVIOUS
  <2>2. In(pc) /\ pc # "client"
    BY <1>1, <2>1
  <2>3. Me.pc = pc
    BY <1>1, <2>2, InIs
  <2> QED
    BY <1>1, <2>1, <2>2, <2>3, InIs
<1>2. PICK me \in Thread :
        /\ current = me /\ stack[me] # <<>> /\ Me = Head(stack[me]) /\ Me.pc = "cond_down"
        /\ Tail(stack[me]) \in Callers /\ FrameOK(Me, Tail(stack[me])) /\ status[me] = "RUNNING"
  BY <1>0
<1>3. Me.obj \in Sema /\ Tail(stack[me]) = Again /\ Neutral(Frame(me).pc)
  BY <1>2 DEF FrameOK, Neutral, Me
<1>4. /\ Me.obj \in AnySema /\ Lock \subseteq AnySema /\ Me.obj \notin Lock
      /\ value \in [AnySema -> 0 .. MaxValue]
  BY <1>1, <1>3, SynchAssumption DEF AnySema, DataOK
<1>5. CASE Takes(Me.obj) /\ Return
  <2>1. StacksOK' /\ GoesOn(me)
    BY <1>2, <1>3, <1>5, BackToClient
  <2>2. /\ SchedOK' /\ \A t \in Thread : KeepsClass(status[t], status'[t])
        /\ UNCHANGED waiters /\ value' \in [AnySema -> 0 .. MaxValue]
        /\ \A z \in AnySema : z # Me.obj => value'[z] = value[z]
    BY <1>1, <1>4, <1>5, TakesIs
  <2>3. DataOK' /\ \A l \in Lock : value'[l] = value[l]
    BY <1>1, <1>4, <2>2 DEF DataOK, donationVars
  <2>4. SynchInv'
    BY <1>1, <2>1, <2>2, <2>3, PrivateStep
  <2> QED
    BY <1>1, <1>2, <1>5, <2>4, CondTaken
<1>6. CASE Waits(Me.obj) /\ Goto(At("down_wake", Me.obj))
  <2> DEFINE g == At("down_wake", Me.obj)
             k == Tail(stack[me])
  <2>1. FrameOK(g, k) /\ g.pc = "down_wake" /\ g.obj = Me.obj
    BY <1>3 DEF FrameOK, At, Acquiring, Releasing, PrioritySetting
  <2>2. Enter(g, k) /\ k \in Callers /\ stack[me] # <<>> /\ k = Tail(stack[me])
    BY <1>2, <1>6 DEF Goto
  <2> HIDE DEF g, k
  <2>3. /\ StacksOK' /\ Others(me) /\ Frame(me)' = g
        /\ \A c \in Thread : Makes(stack'[me], c) => Makes(stack[me], c)
    BY <1>1, <1>2, <2>1, <2>2, Enters
  <2>4. GoesOn(me)
    BY <1>2, <1>3, <2>1, <2>3 DEF GoesOn, KeepsRole, Neutral
  <2>5. SynchInv'
    BY <1>1, <1>2, <1>4, <1>6, <2>1, <2>3, <2>4, SleepStep
  <2>6. UNCHANGED value
    BY <1>6 DEF Waits
  <2> QED
    BY <1>1, <1>2, <1>6, <2>5, <2>6, CondWaits
<1> QED
  BY <1>5, <1>6 DEF CondDown

LEMMA CondAcquireInv ==
  ASSUME SynchInv, CondOK, ThreadsAssumption, SynchAssumption, MonitorAssumption, CondAcquire,
         UNCHANGED client
  PROVE  SynchInv' /\ CondOK'
<1>1. /\ SchedOK /\ DataOK /\ StacksOK /\ In("cond_acq") /\ acquire(MonitorLock, Tail(stack[current]))
      /\ UNCHANGED <<threadVars, original_priority, waiting_priority, lock_list, value, waiters, holder, cond>>
  BY DEF SynchInv, CondAcquire
<1>2. PICK me : current = me
  OBVIOUS
<1>3. "cond_acq" \notin Parking \cup {"client"}
  BY DEF Parking
<1>4. /\ me \in Thread /\ stack[me] # <<>> /\ Me.pc = "cond_acq" /\ FrameOK(Me, Tail(stack[me]))
      /\ \A f : Enter(f, Tail(stack[me])) /\ f.pc \notin Parking => Proceeds(me)
  BY <1>1, <1>2, <1>3, GotoProceeds
<1>5. Tail(stack[me]) = <<>> /\ Neutral(Frame(me).pc) /\ MonitorLock \in Lock /\ <<>> \in Callers
  BY <1>1, <1>2, <1>4, OwnSema DEF FrameOK, Neutral, Me, Callers
<1>6. SynchInv'
  BY <1>1, <1>2, <1>4, <1>5, AcquireInv
<1>7. Proceeds(me)
  BY <1>1, <1>2, <1>4, AcquireEnters
<1>8. CondOK'
  BY <1>1, <1>2, <1>7, CondKept
<1> QED
  BY <1>6, <1>8

LEMMA OtherStepInv ==
  ASSUME SynchInv, CondOK, ThreadsAssumption, SynchAssumption, MonitorAssumption,
         ThreadStep \/ Tick \/ IdleStep \/ InterruptUp, UNCHANGED <<client, cond>>
  PROVE  SynchInv' /\ CondOK'
<1>1. SynchInv'
  BY StepInv DEF Next
<1>2. SchedOK /\ DataOK /\ StacksOK
  BY DEF SynchInv
<1>3. PICK me : current = me
  OBVIOUS
<1>4. CASE Proceeds(me) /\ \A s \in Sema : value'[s] = value[s]
  BY <1>1, <1>2, <1>3, <1>4, CondKept
<1>5. CASE In("down_wake") /\ SemaDown
  <2>1. ~In("client") /\ "down_wake" \in Parking
    BY <1>5 DEF In, Parking
  <2>2. CASE Takes(Me.obj) /\ Return
    BY <1>1, <1>2, <1>3, <1>5, <2>1, <2>2, CondTaken
  <2>3. CASE Waits(Me.obj) /\ UNCHANGED stack
    BY <1>1, <1>2, <1>3, <1>5, <2>1, <2>3, CondWaits DEF Waits
  <2> QED
    BY <1>5, <2>1, <2>2, <2>3 DEF SemaDown
<1> QED
  BY <1>3, <1>4, <1>5, StepProceeds

LEMMA MonitorStepInv ==
  ASSUME SynchInv, CondOK, ThreadsAssumption, SynchAssumption, MonitorAssumption, MonitorNext
  PROVE  SynchInv' /\ CondOK'
BY OtherStepInv, CondWaitInv, CondDownInv, CondAcquireInv, CondSignalInv, CondBroadcastInv
DEF MonitorNext, MonitorStep

LEMMA MonitorInitInv ==
  ASSUME MonitorInit, ThreadsAssumption, SynchAssumption, MonitorAssumption
  PROVE  SynchInv /\ CondOK
<1>1. SynchInv /\ cond = <<>> /\ Sema \cap Lock = {}
  BY InitInv, SynchAssumption DEF MonitorInit
<1>2. CondListOK /\ \A t \in Thread : ~OnCond(t)
  BY <1>1, EmptySeq DEF CondListOK, OnCond
<1>3. \A t \in Thread : stack[t] = <<>>
  BY DEF MonitorInit, Init
<1>4. \A s \in Sema : value[s] = 0
  <2>1. value = [s \in Sema \cup Lock |-> IF s \in Lock THEN 1 ELSE 0]
    BY DEF MonitorInit, Init, AnySema
  <2> QED
    BY <1>1, <2>1
<1>5. \A t \in Thread : W(t) \in Sema
  BY DEF MonitorAssumption, W
<1>6. \A t \in Thread : ParkedOnOwn(t) /\ ~InCond(t)
  BY <1>3, FrameIs DEF ParkedOnOwn, InCond, Parking
<1> QED
  BY <1>1, <1>2, <1>4, <1>5, <1>6 DEF CondOK, OthersUnused, SignalOK

LEMMA MonitorStutterInv ==
  ASSUME SynchInv, CondOK, UNCHANGED monitorVars
  PROVE  SynchInv' /\ CondOK'
<1>1. SynchInv' /\ UNCHANGED <<cond, value, stack>>
  BY StutterInv DEF monitorVars, vars, synchVars
<1>2. CondOK'
  BY <1>1 DEF CondOK, CondListOK, OthersUnused, ParkedOnOwn, SignalOK, OnCond, InCond, Frame, W
<1> QED
  BY <1>1, <1>2

LEMMA MonitorInvariance == MonitorSpec => [](SynchInv /\ CondOK)
<1>1. MonitorInit => SynchInv /\ CondOK
  BY MonitorInitInv, ThreadsAssumption, SynchAssumption, MonitorAssumption
<1>2. SynchInv /\ CondOK /\ [MonitorNext]_monitorVars => (SynchInv /\ CondOK)'
  BY MonitorStepInv, MonitorStutterInv, ThreadsAssumption, SynchAssumption, MonitorAssumption
<1> QED
  BY <1>1, <1>2, PTL DEF MonitorSpec

-----------------------------------------------------------------------------
(* What the invariant says of the property's terms.                        *)

(* Which callers' calls hold a sema_down of cond_wait's on w.              *)
LEMMA CallerFrames ==
  ASSUME NEW k \in Callers, NEW w \in Sema
  PROVE  /\ \E S : k \in Seq(S)
         /\ (\E i \in 1 .. Len(k) : k[i].pc \in Parking /\ k[i].obj = w) <=> k = Parked(w)
<1> DEFINE IsSeq == \E S : k \in Seq(S)
           Holds == \E i \in 1 .. Len(k) : k[i].pc \in Parking /\ k[i].obj = w
           Goal == IsSeq /\ (Holds <=> k = Parked(w))
           z == At("cond_acq", MonitorLock)
           tid == At("tid", TidLock)
<1>1. ASSUME k = <<>> PROVE Goal
  <2>1. k \in Seq({}) /\ k # Parked(w) /\ Len(k) = 0
    BY <1>1, EmptySeq, CondCallersAre
  <2>2. ~Holds
    BY <2>1
  <2> QED
    BY <2>1, <2>2
<1>2. z.pc \notin Parking /\ tid.pc \notin Parking /\ \A c : Creating(c).pc \notin Parking
  BY DEF At, Creating, Parking
<1>3. \A v : At("cond_down", v).pc \in Parking /\ At("cond_down", v).obj = v
  BY DEF At, Parking
<1>4. ASSUME NEW x, k = <<x>>, x.pc \notin Parking, k # Parked(w) PROVE Goal
  <2>1. <<x>> \in Seq({x}) /\ Len(<<x>>) = 1 /\ <<x>>[1] = x
    OBVIOUS
  <2>2. ~Holds
    BY <1>4, <2>1
  <2>3. IsSeq
    BY <1>4, <2>1
  <2> QED
    BY <1>4, <2>2, <2>3
<1>5. ASSUME NEW x, NEW y, k = <<y, x>>, x.pc \notin Parking,
             y.pc \in Parking /\ y.obj = w <=> k = Parked(w)
      PROVE  Goal
  <2>1. <<y, x>> \in Seq({y, x}) /\ Len(<<y, x>>) = 2 /\ <<y, x>>[1] = y /\ <<y, x>>[2] = x
    OBVIOUS
  <2>2. Holds <=> y.pc \in Parking /\ y.obj = w
    BY <1>5, <2>1
  <2>3. IsSeq
    BY <1>5, <2>1
  <2> QED
    BY <1>5, <2>2, <2>3
<1> HIDE DEF Goal, IsSeq, Holds
<1>6. ASSUME k = Again PROVE Goal
  <2>1. k = <<z>>
    BY <1>6 DEF Again
  <2>2. k # Parked(w) /\ z.pc \notin Parking
    BY <1>2, <1>6, CondCallersAre
  <2> HIDE DEF z
  <2> QED
    BY <1>4, <2>1, <2>2
<1>7. ASSUME NEW c \in Thread, k = Made(c) PROVE Goal
  <2> DEFINE x == Creating(c)
  <2>1. k = <<x>> /\ k # Parked(w) /\ x.pc \notin Parking
    BY <1>2, <1>7, CondCallersAre DEF Made
  <2> HIDE DEF x
  <2> QED
    BY <1>4, <2>1
<1>8. ASSUME NEW c \in Thread, k = Numbered(c) PROVE Goal
  <2> DEFINE x == Creating(c)
  <2>1. k = <<tid, x>> /\ k # Parked(w) /\ x.pc \notin Parking /\ tid.pc \notin Parking
    BY <1>2, <1>8, CondCallersAre DEF Numbered
  <2> HIDE DEF x, tid
  <2> QED
    BY <1>5, <2>1
<1>9. ASSUME NEW v \in Sema, k = Parked(v) PROVE Goal
  <2> DEFINE y == At("cond_down", v)
  <2>1. k = <<y, z>> /\ y.pc \in Parking /\ y.obj = v /\ z.pc \notin Parking
    BY <1>2, <1>3, <1>9 DEF Parked
  <2>2. Head(Parked(v)) = y /\ Head(Parked(w)) = At("cond_down", w) /\ At("cond_down", w).obj = w
    BY <1>3, CondCallersAre
  <2>3. v = w <=> k = Parked(w)
    BY <1>9, <2>1, <2>2
  <2> HIDE DEF y, z
  <2> QED
    BY <1>5, <2>1, <2>3
<1>10. \/ k = <<>> \/ k = Again
       \/ (\E c \in Thread : k = Made(c)) \/ (\E c \in Thread : k = Numbered(c))
       \/ \E v \in Sema : k = Parked(v)
  BY DEF Callers
<1>11. Goal
  BY <1>1, <1>6, <1>7, <1>8, <1>9, <1>10
<1> QED
  BY <1>11 DEF Goal, IsSeq, Holds

(* A stack's frames: the innermost, and its callers'.                      *)
LEMMA StackFrames ==
  ASSUME NEW s, StackOK(s), s # <<>>, NEW w \in Sema
  PROVE  /\ DOMAIN s = 1 .. 1 + Len(Tail(s)) /\ Len(Tail(s)) \in Nat /\ Len(s) = 1 + Len(Tail(s))
         /\ \A j \in 1 .. 1 + Len(Tail(s)) : s[j] = IF j <= 1 THEN Head(s) ELSE Tail(s)[j - 1]
<1> DEFINE f == Head(s)
           k == Tail(s)
<1>1. s = <<f>> \o k /\ k \in Callers
  BY DEF StackOK
<1> HIDE DEF f, k
<1>2. PICK S : k \in Seq(S)
  BY <1>1, CallerFrames
<1> DEFINE U == S \cup {f}
<1>3. k \in Seq(U) /\ <<f>> \in Seq(U) /\ Len(<<f>>) = 1 /\ <<f>>[1] = f
  <2>1. S \subseteq U /\ f \in U
    OBVIOUS
  <2> HIDE DEF U
  <2> QED
    BY <1>2, <2>1, LenProperties, ElementOfSeq, SeqDef
<1> HIDE DEF U
<1>4. /\ s \in Seq(U) /\ Len(s) = 1 + Len(k)
      /\ \A j \in 1 .. 1 + Len(k) : s[j] = IF j <= 1 THEN <<f>>[j] ELSE k[j - 1]
  BY <1>1, <1>3, ConcatProperties
<1>5. DOMAIN s = 1 .. 1 + Len(k) /\ Len(k) \in Nat
  BY <1>3, <1>4, LenProperties
<1>6. \A j \in 1 .. 1 + Len(k) : s[j] = IF j <= 1 THEN f ELSE k[j - 1]
  BY <1>3, <1>4, <1>5
<1> QED
  BY <1>4, <1>5, <1>6 DEF f, k

LEMMA InWaitIs ==
  ASSUME StacksOK, ThreadsAssumption, NEW t \in Thread, W(t) \in Sema, ParkedOnOwn(t)
  PROVE  InWait(t) <=> InCond(t)
<1> DEFINE s == stack[t]
           f == Head(s)
           k == Tail(s)
           Here(g) == g.pc \in Parking /\ g.obj = W(t)
<1>1. InWait(t) <=> \E i \in DOMAIN s : Here(s[i])
  BY DEF InWait, Parking, W
<1>2. StackOK(s)
  BY DEF StacksOK
<1>3. CASE s = <<>>
  BY <1>1, <1>3, FrameIs DEF InCond, Parking
<1>4. CASE s # <<>>
  <2>1. s = <<f>> \o k /\ k \in Callers
    BY <1>2, <1>4 DEF StackOK
  <2>2. Frame(t) = f
    BY <1>4, FrameIs
  <2> HIDE DEF s, f, k
  <2>3. (\E i \in 1 .. Len(k) : Here(k[i])) <=> k = Parked(W(t))
    BY <2>1, CallerFrames
  <2>4. StackOK(s) /\ s # <<>>
    BY <1>2, <1>4 DEF s
  <2>5. /\ DOMAIN s = 1 .. 1 + Len(k) /\ Len(k) \in Nat
        /\ \A j \in 1 .. 1 + Len(k) : s[j] = IF j <= 1 THEN f ELSE k[j - 1]
    BY <2>4, StackFrames DEF f, k
  <2> HIDE DEF Here
  <2>6. (\E i \in DOMAIN s : Here(s[i])) <=> Here(f) \/ \E i \in 1 .. Len(k) : Here(k[i])
    <3>1. ASSUME NEW i \in DOMAIN s, Here(s[i]) PROVE Here(f) \/ \E j \in 1 .. Len(k) : Here(k[j])
      <4>1. CASE i = 1
        BY <2>5, <3>1, <4>1
      <4>2. CASE i # 1
        <5>1. i - 1 \in 1 .. Len(k) /\ s[i] = k[i - 1]
          BY <2>5, <4>2
        <5> QED
          BY <3>1, <5>1
      <4> QED
        BY <4>1, <4>2
    <3>2. 1 \in DOMAIN s /\ s[1] = f
      BY <2>5
    <3>3. ASSUME NEW j \in 1 .. Len(k), Here(k[j]) PROVE \E i \in DOMAIN s : Here(s[i])
      <4>1. j + 1 \in DOMAIN s /\ s[j + 1] = k[(j + 1) - 1] /\ (j + 1) - 1 = j
        BY <2>5
      <4> QED
        BY <3>3, <4>1
    <3> QED
      BY <3>1, <3>2, <3>3
  <2>7. f.pc \in Parking => Here(f)
    BY <2>2 DEF ParkedOnOwn, Here
  <2>8. InCond(t) <=> f.pc \in Parking \/ k = Parked(W(t))
    BY <1>4, <2>2 DEF InCond, s, k
  <2> QED
    BY <1>1, <2>3, <2>6, <2>7, <2>8 DEF Here, s
<1> QED
  BY <1>3, <1>4

LEMMA ListedOnce ==
  ASSUME CondListOK, NEW t \in Thread
  PROVE  Cardinality(Listed(t)) = IF OnCond(t) THEN 1 ELSE 0
<1>1. Listed(t) = {i \in 1 .. Len(cond) : cond[i].thread = t}
  BY LenProperties DEF Listed, CondListOK
<1>2. CASE OnCond(t)
  <2>1. PICK i \in 1 .. Len(cond) : cond[i].thread = t
    BY <1>2 DEF OnCond
  <2>2. Listed(t) = {i}
    BY <1>1, <2>1 DEF CondListOK
  <2> QED
    BY <1>2, <2>2, FS_Singleton
<1>3. CASE ~OnCond(t)
  <2>1. Listed(t) = {}
    BY <1>1, <1>3 DEF OnCond
  <2> QED
    BY <1>3, <2>1, FS_EmptySet
<1> QED
  BY <1>2, <1>3

LEMMA SignalsOnce ==
  ASSUME SynchInv, CondOK, ThreadsAssumption, SynchAssumption, MonitorAssumption
  PROVE  SignalOnce
<1>1. /\ DataOK /\ StacksOK /\ OneOwner /\ CondListOK /\ OthersUnused
      /\ \A t \in Thread : W(t) \in Sema
  BY OwnSema DEF SynchInv, LocksOK, CondOK
<1>2. \A t \in Thread : value[W(t)] = IF InCond(t) /\ ~OnCond(t) THEN 1 ELSE 0
  BY DEF CondOK, SignalOK
<1>3. MonitorTypeOK
  <2>1. ASSUME NEW t \in Thread PROVE Len(stack[t]) <= 4
    <3>1. StackOK(stack[t])
      BY <1>1 DEF StacksOK
    <3>2. CASE stack[t] = <<>>
      BY <3>2
    <3>3. CASE stack[t] # <<>>
      <4>1. Len(stack[t]) \in Int
        BY <1>1, <3>1, <3>3, StackFrames
      <4>2. Len(stack[t]) <= 3
        BY <3>1, StackLength
      <4> QED
        BY <4>1, <4>2
    <3> QED
      BY <3>2, <3>3
  <2>2. ASSUME NEW s \in AnySema PROVE value[s] \in 0 .. 1
    <3>1. CASE s \in Lock
      BY <1>1, <3>1 DEF OneOwner
    <3>2. CASE s \in Sema /\ \E t \in Thread : W(t) = s
      BY <1>2, <3>2
    <3>3. CASE s \in Sema /\ \A t \in Thread : W(t) # s
      BY <1>1, <3>3 DEF OthersUnused
    <3> QED
      BY <3>1, <3>2, <3>3 DEF AnySema
  <2> QED
    BY <1>1, <2>1, <2>2 DEF MonitorTypeOK, CondListOK
<1>4. ASSUME NEW t \in Thread
      PROVE  Cardinality(Listed(t)) + value[WaiterSema[t]] = IF InWait(t) THEN 1 ELSE 0
  <2>1. InWait(t) <=> InCond(t)
    BY <1>1, InWaitIs DEF CondOK
  <2>2. Cardinality(Listed(t)) = IF OnCond(t) THEN 1 ELSE 0
    BY <1>1, ListedOnce
  <2>3. value[WaiterSema[t]] = value[W(t)] /\ (OnCond(t) => InCond(t))
    BY DEF W, CondOK, SignalOK
  <2> QED
    BY <1>2, <2>1, <2>2, <2>3
<1> QED
  BY <1>3, <1>4 DEF SignalOnce

(* cond_wait, from its lock_release to its second lock_acquire, whatever   *)
(* threads take the lock in between, signal, broadcast, or begin to wait   *)
(* themselves: a thread in it is on the condition's list once and has no   *)
(* signal, or is off it and has exactly one, and outside it a thread is on *)
(* no list and no signal is left for its next wait.                        *)
THEOREM SignalsAlwaysOnce == MonitorSpec => []SignalOnce
<1>1. SynchInv /\ CondOK => SignalOnce
  BY SignalsOnce, ThreadsAssumption, SynchAssumption, MonitorAssumption
<1> QED
  BY <1>1, MonitorInvariance, PTL

(* The same with cond_wait, cond_signal and cond_broadcast among the steps:*)
(* the lock a cond_wait releases and takes again, and the semaphores its   *)
(* waiters sleep on, are as exact as the clients'.                         *)
THEOREM LocksExactInMonitor == MonitorSpec => []LocksExact
BY LocksExactIs, MonitorInvariance, PTL
=============================================================================
