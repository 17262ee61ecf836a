----------------------------- MODULE SerialProofs -----------------------------
(***************************************************************************)
(* Proofs about Serial, for any number of processes and any size of the    *)
(* queues: a queue's lock is never contended and no process waits in the   *)
(* other's place, the UART is asked for the interrupts that the queues     *)
(* need, and the bytes come out of each queue as they went in.             *)
(***************************************************************************)
EXTENDS Serial, SequencesExt, SequenceTheorems, TLAPS

-----------------------------------------------------------------------------
(* Places of a ring of N.  Sums of two stay below twice N, and differences *)
(* above its negative: % wraps once.                                       *)
LEMMA ModIs ==
  ASSUME NEW N \in Nat \ {0}, NEW x \in Int, -N <= x, x < N + N
  PROVE  x % N = IF x < 0 THEN x + N ELSE IF x < N THEN x ELSE x - N
OBVIOUS

LEMMA Wrap ==
  ASSUME NEW N \in Nat \ {0}, NEW s \in 0 .. N - 1, NEW n \in 0 .. N
  PROVE  /\ (s + n) % N = IF s + n < N THEN s + n ELSE s + n - N
         /\ (s + n) % N \in 0 .. N - 1
<1>1. s + n \in Int /\ -N <= s + n /\ s + n < N + N
  OBVIOUS
<1>2. (s + n) % N = IF s + n < 0 THEN s + n + N ELSE IF s + n < N THEN s + n ELSE s + n - N
  <2> DEFINE x == s + n
  <2> HIDE DEF x
  <2>1. x \in Int /\ -N <= x /\ x < N + N
    BY <1>1 DEF x
  <2>2. x % N = IF x < 0 THEN x + N ELSE IF x < N THEN x ELSE x - N
    BY <2>1
  <2> QED
    BY <2>2 DEF x
<1> QED
  BY <1>1, <1>2

(* To go on by n, then by m, is to go on by n + m.                         *)
LEMMA WrapSum ==
  ASSUME NEW N \in Nat \ {0}, NEW s \in 0 .. N - 1, NEW n \in 0 .. N, NEW m \in 0 .. N - n
  PROVE  (((s + n) % N) + m) % N = (s + (n + m)) % N
<1>1. n + m \in 0 .. N /\ m \in 0 .. N
  OBVIOUS
<1>2. (s + (n + m)) % N = IF s + (n + m) < N THEN s + (n + m) ELSE s + (n + m) - N
  BY <1>1, Wrap
<1>3. /\ (s + n) % N = IF s + n < N THEN s + n ELSE s + n - N
      /\ (s + n) % N \in 0 .. N - 1
  BY Wrap
<1> DEFINE t == (s + n) % N
<1>4. (t + m) % N = IF t + m < N THEN t + m ELSE t + m - N
  BY <1>1, <1>3, Wrap
<1> HIDE DEF t
<1>5. t = IF s + n < N THEN s + n ELSE s + n - N
  BY <1>3 DEF t
<1>6. (t + m) % N = (s + (n + m)) % N
  BY <1>1, <1>2, <1>4, <1>5
<1> QED
  BY <1>6 DEF t

-----------------------------------------------------------------------------

N == INTQ_BUFSIZE
Item == Byte \cup {NULL}
Waiter == Proc \cup {NULL}

Queue ==
  [buf : [Index -> Item], head : Index, tail : Index,
   not_full : Waiter, not_empty : Waiter, lock : Waiter]

(* A queue by its fields.                                                  *)
Fields(buf, head, tail, not_full, not_empty, lock) ==
  [buf |-> buf, head |-> head, tail |-> tail,
   not_full |-> not_full, not_empty |-> not_empty, lock |-> lock]

Used(q) == (q.head - q.tail) % N

-----------------------------------------------------------------------------
LEMMA SizeIsNat == N \in Nat \ {0} /\ N >= 2
BY SerialAssumption DEF N

LEMMA FieldsOf ==
  ASSUME NEW q \in Queue
  PROVE  /\ q = Fields(q.buf, q.head, q.tail, q.not_full, q.not_empty, q.lock)
         /\ q.buf \in [Index -> Item] /\ q.head \in 0 .. N - 1 /\ q.tail \in 0 .. N - 1
         /\ q.not_full \in Waiter /\ q.not_empty \in Waiter /\ q.lock \in Waiter
BY DEF Queue, Fields, Index, N

LEMMA UsedIs ==
  ASSUME NEW h \in 0 .. N - 1, NEW t \in 0 .. N - 1
  PROVE  /\ (h - t) % N = IF t <= h THEN h - t ELSE h - t + N
         /\ (h - t) % N \in 0 .. N - 1
<1> DEFINE x == h - t
<1>1. x \in Int /\ -N <= x /\ x < N + N
  BY SizeIsNat
<1> HIDE DEF x
<1>2. x % N = IF x < 0 THEN x + N ELSE IF x < N THEN x ELSE x - N
  BY <1>1, SizeIsNat, ModIs
<1>3. x % N = (IF t <= h THEN h - t ELSE h - t + N) /\ x % N \in 0 .. N - 1
  BY <1>2, SizeIsNat DEF x
<1> QED
  BY <1>3 DEF x

LEMMA Around ==
  ASSUME NEW t \in 0 .. N - 1, NEW i \in 0 .. N - 1
  PROVE  /\ (t + i) % N = IF t + i < N THEN t + i ELSE t + i - N
         /\ (t + i) % N \in 0 .. N - 1
         /\ (t + i) % N = t <=> i = 0
<1>1. i \in 0 .. N
  BY SizeIsNat
<1>2. /\ (t + i) % N = IF t + i < N THEN t + i ELSE t + i - N
      /\ (t + i) % N \in 0 .. N - 1
  BY <1>1, Wrap, SizeIsNat
<1> DEFINE x == (t + i) % N
<1> HIDE DEF x
<1>3. x = IF t + i < N THEN t + i ELSE t + i - N
  BY <1>2 DEF x
<1>4. x = t <=> i = 0
  BY <1>3, SizeIsNat
<1> QED
  BY <1>2, <1>4 DEF x

(* The place that comes i places after the tail is the head when i bytes   *)
(* are in the queue.                                                       *)
LEMMA Reaches ==
  ASSUME NEW h \in 0 .. N - 1, NEW t \in 0 .. N - 1, NEW i \in 0 .. N - 1
  PROVE  (t + i) % N = h <=> i = (h - t) % N
<1>1. (t + i) % N = IF t + i < N THEN t + i ELSE t + i - N
  BY Around
<1>2. (h - t) % N = IF t <= h THEN h - t ELSE h - t + N
  BY UsedIs
<1> DEFINE x == (t + i) % N
           y == (h - t) % N
<1> HIDE DEF x, y
<1>3. x = (IF t + i < N THEN t + i ELSE t + i - N) /\ y = (IF t <= h THEN h - t ELSE h - t + N)
  BY <1>1, <1>2 DEF x, y
<1>4. x = h <=> i = y
  BY <1>3, SizeIsNat
<1> QED
  BY <1>4 DEF x, y

LEMMA NextIs ==
  ASSUME NEW i \in 0 .. N - 1
  PROVE  next(i) = (IF i + 1 < N THEN i + 1 ELSE 0) /\ next(i) \in 0 .. N - 1
<1>1. 1 \in 0 .. N
  BY SizeIsNat
<1>2. /\ (i + 1) % N = IF i + 1 < N THEN i + 1 ELSE i + 1 - N
      /\ (i + 1) % N \in 0 .. N - 1
  BY <1>1, Wrap, SizeIsNat
<1>3. next(i) = (i + 1) % N
  BY DEF next, N
<1> QED
  BY <1>2, <1>3, SizeIsNat

LEMMA OneLess ==
  ASSUME NEW h \in 0 .. N - 1, NEW t \in 0 .. N - 1, h # t, NEW u \in 0 .. N - 1, u = next(t)
  PROVE  (h - u) % N = ((h - t) % N) - 1 /\ (h - t) % N >= 1
<1>1. (h - t) % N = IF t <= h THEN h - t ELSE h - t + N
  BY UsedIs
<1>2. (h - u) % N = IF u <= h THEN h - u ELSE h - u + N
  BY UsedIs
<1>3. u = IF t + 1 < N THEN t + 1 ELSE 0
  BY NextIs
<1> DEFINE x == (h - t) % N
           y == (h - u) % N
<1> HIDE DEF x, y
<1>4. /\ x = IF t <= h THEN h - t ELSE h - t + N
      /\ y = IF u <= h THEN h - u ELSE h - u + N
  BY <1>1, <1>2 DEF x, y
<1>5. y = x - 1 /\ x >= 1
  BY <1>3, <1>4, SizeIsNat
<1> QED
  BY <1>5 DEF x, y

LEMMA IndexIs == Index = 0 .. N - 1
BY DEF Index, N

LEMMA PendingIs ==
  ASSUME NEW q \in Queue
  PROVE  /\ Used(q) \in 0 .. N - 1
         /\ Pending(q) \in Seq(Item) /\ Len(Pending(q)) = Used(q)
         /\ \A i \in 1 .. Used(q) : Pending(q)[i] = q.buf[(q.tail + (i - 1)) % N]
<1>1. /\ q.buf \in [0 .. N - 1 -> Item] /\ q.head \in 0 .. N - 1 /\ q.tail \in 0 .. N - 1
  BY FieldsOf DEF Index, N
<1>2. Used(q) \in 0 .. N - 1
  BY <1>1, UsedIs DEF Used
<1>3. Pending(q) = [i \in 1 .. Used(q) |-> q.buf[(q.tail + i - 1) % N]]
  BY DEF Pending, Used, N
<1>4. ASSUME NEW i \in 1 .. Used(q)
      PROVE  /\ q.tail + i - 1 = q.tail + (i - 1)
             /\ (q.tail + (i - 1)) % N \in 0 .. N - 1
  <2>1. i - 1 \in 0 .. N - 1 /\ q.tail + i - 1 = q.tail + (i - 1)
    BY <1>1, <1>2, SizeIsNat
  <2> QED
    BY <1>1, <2>1, Around
<1>5. Pending(q) \in [1 .. Used(q) -> Item]
  BY <1>1, <1>3, <1>4
<1>6. Used(q) \in Nat
  BY <1>2, SizeIsNat
<1>7. Pending(q) \in Seq(Item) /\ Len(Pending(q)) = Used(q)
  BY <1>5, <1>6
<1>8. ASSUME NEW i \in 1 .. Used(q)
      PROVE  Pending(q)[i] = q.buf[(q.tail + (i - 1)) % N]
  <2>1. Pending(q)[i] = q.buf[(q.tail + i - 1) % N]
    BY <1>3
  <2> QED
    BY <1>4, <2>1
<1> QED
  BY <1>2, <1>7, <1>8

-----------------------------------------------------------------------------
(* What it does to a queue to put a byte in, and to take one out.          *)
LEMMA AddedIs ==
  ASSUME NEW q \in Queue, NEW c \in Item, ~intq_full(q)
  PROVE  /\ Added(q, c) = Fields([q.buf EXCEPT ![q.head] = c], next(q.head), q.tail,
                                 q.not_full, NULL, q.lock)
         /\ Added(q, c) \in Queue
         /\ Len(Pending(q)) < N - 1
         /\ Pending(Added(q, c)) = Append(Pending(q), c)
<1> DEFINE r == Added(q, c)
           b == [q.buf EXCEPT ![q.head] = c]
           h == next(q.head)
<1>1. /\ q = Fields(q.buf, q.head, q.tail, q.not_full, q.not_empty, q.lock)
      /\ q.buf \in [Index -> Item] /\ q.head \in 0 .. N - 1 /\ q.tail \in 0 .. N - 1
      /\ q.not_full \in Waiter /\ q.not_empty \in Waiter /\ q.lock \in Waiter
  BY FieldsOf
<1>2. h = (IF q.head + 1 < N THEN q.head + 1 ELSE 0) /\ h \in 0 .. N - 1 /\ h # q.tail
  BY <1>1, NextIs DEF intq_full
<1>3. /\ b \in [Index -> Item] /\ b[q.head] = c
      /\ \A j \in Index : j # q.head => b[j] = q.buf[j]
  BY <1>1 DEF Index, N
<1>4. r = Fields(b, h, q.tail, q.not_full, NULL, q.lock)
  <2> DEFINE u == [q EXCEPT !.buf = b]
             v == [u EXCEPT !.head = h]
             w == [v EXCEPT !.not_empty = NULL]
  <2> HIDE DEF b, h
  <2>1. u = Fields(b, q.head, q.tail, q.not_full, q.not_empty, q.lock)
    BY <1>1 DEF Fields
  <2> HIDE DEF u
  <2>2. v = Fields(b, h, q.tail, q.not_full, q.not_empty, q.lock)
    BY <2>1 DEF Fields
  <2> HIDE DEF v
  <2>3. w = Fields(b, h, q.tail, q.not_full, NULL, q.lock)
    BY <2>2 DEF Fields
  <2>4. r = w
    BY DEF Added, b, h, u, v
  <2> QED
    BY <2>3, <2>4
<1>5. r \in Queue
  BY <1>1, <1>2, <1>3, <1>4 DEF Queue, Fields, Index, N, Waiter
<1>6. r.buf = b /\ r.head = h /\ r.tail = q.tail
  BY <1>4 DEF Fields
<1> HIDE DEF r, b, h
<1> DEFINE n == Used(q)
           m == Used(r)
<1>7. /\ n = IF q.tail <= q.head THEN q.head - q.tail ELSE q.head - q.tail + N
      /\ m = IF q.tail <= h THEN h - q.tail ELSE h - q.tail + N
  BY <1>1, <1>2, <1>6, UsedIs DEF Used
<1> HIDE DEF n, m
<1>8. m = n + 1 /\ n < N - 1 /\ n \in Nat
  BY <1>1, <1>2, <1>7, SizeIsNat
<1>9. /\ Pending(q) \in Seq(Item) /\ Len(Pending(q)) = n
      /\ \A i \in 1 .. n : Pending(q)[i] = q.buf[(q.tail + (i - 1)) % N]
  BY PendingIs DEF n
<1>10. /\ Pending(r) \in Seq(Item) /\ Len(Pending(r)) = m
       /\ \A i \in 1 .. m : Pending(r)[i] = b[(q.tail + (i - 1)) % N]
  BY <1>5, <1>6, PendingIs DEF m
<1>11. ASSUME NEW i \in 1 .. m
       PROVE  Pending(r)[i] = IF i <= n THEN Pending(q)[i] ELSE c
  <2>1. i - 1 \in 0 .. N - 1
    BY <1>8, SizeIsNat
  <2> DEFINE j == (q.tail + (i - 1)) % N
  <2>2. (j = q.head <=> i - 1 = n) /\ j \in Index
    <3>1. (q.tail + (i - 1)) % N = q.head <=> i - 1 = (q.head - q.tail) % N
      BY <1>1, <2>1, Reaches
    <3>2. (q.tail + (i - 1)) % N \in 0 .. N - 1
      BY <1>1, <2>1, Around
    <3> QED
      BY <3>1, <3>2, IndexIs DEF n, Used
  <2>3. Pending(r)[i] = b[j]
    BY <1>10
  <2>4. i \in 1 .. n => Pending(q)[i] = q.buf[j]
    BY <1>9
  <2> HIDE DEF j
  <2>5. CASE i <= n
    BY <1>3, <1>8, <2>2, <2>3, <2>4, <2>5
  <2>6. CASE ~(i <= n)
    <3>1. i - 1 = n
      BY <1>8, <2>6
    <3> QED
      BY <1>3, <2>2, <2>3, <2>6, <3>1
  <2> QED
    BY <2>5, <2>6
<1>12. /\ Append(Pending(q), c) \in Seq(Item) /\ Len(Append(Pending(q), c)) = m
       /\ \A i \in 1 .. m : Append(Pending(q), c)[i] = IF i <= n THEN Pending(q)[i] ELSE c
  BY <1>8, <1>9, AppendProperties
<1>13. Pending(r) = Append(Pending(q), c)
  BY <1>10, <1>11, <1>12, SeqEqual
<1> QED
  BY <1>4, <1>5, <1>8, <1>9, <1>13 DEF r, b, h

LEMMA RemovedIs ==
  ASSUME NEW q \in Queue, ~intq_empty(q)
  PROVE  /\ Removed(q) = Fields([q.buf EXCEPT ![q.tail] = NULL], q.head, next(q.tail),
                                NULL, q.not_empty, q.lock)
         /\ Removed(q) \in Queue
         /\ First(q) \in Item /\ First(q) = Head(Pending(q)) /\ Pending(q) # <<>>
         /\ Pending(Removed(q)) = Tail(Pending(q))
<1> DEFINE r == Removed(q)
           b == [q.buf EXCEPT ![q.tail] = NULL]
           t == next(q.tail)
<1>1. /\ q = Fields(q.buf, q.head, q.tail, q.not_full, q.not_empty, q.lock)
      /\ q.buf \in [Index -> Item] /\ q.head \in 0 .. N - 1 /\ q.tail \in 0 .. N - 1
      /\ q.not_full \in Waiter /\ q.not_empty \in Waiter /\ q.lock \in Waiter
      /\ q.head # q.tail
  BY FieldsOf DEF intq_empty
<1>2. t = (IF q.tail + 1 < N THEN q.tail + 1 ELSE 0) /\ t \in 0 .. N - 1 /\ t = (q.tail + 1) % N
  BY <1>1, NextIs DEF next, N
<1>3. b \in [Index -> Item] /\ \A j \in Index : j # q.tail => b[j] = q.buf[j]
  BY <1>1 DEF Index, N, Item
<1>4. r = Fields(b, q.head, t, NULL, q.not_empty, q.lock)
  <2> DEFINE u == [q EXCEPT !.buf = b]
             v == [u EXCEPT !.tail = t]
             w == [v EXCEPT !.not_full = NULL]
  <2> HIDE DEF b, t
  <2>1. u = Fields(b, q.head, q.tail, q.not_full, q.not_empty, q.lock)
    BY <1>1 DEF Fields
  <2> HIDE DEF u
  <2>2. v = Fields(b, q.head, t, q.not_full, q.not_empty, q.lock)
    BY <2>1 DEF Fields
  <2> HIDE DEF v
  <2>3. w = Fields(b, q.head, t, NULL, q.not_empty, q.lock)
    BY <2>2 DEF Fields
  <2>4. r = w
    BY DEF Removed, b, t, u, v
  <2> QED
    BY <2>3, <2>4
<1>5. r \in Queue
  BY <1>1, <1>2, <1>3, <1>4 DEF Queue, Fields, Index, N, Waiter
<1>6. r.buf = b /\ r.head = q.head /\ r.tail = t
  BY <1>4 DEF Fields
<1> HIDE DEF r, b, t
<1> DEFINE n == Used(q)
           m == Used(r)
<1>7. n \in 0 .. N - 1 /\ m = n - 1 /\ n >= 1
  <2>1. n = (q.head - q.tail) % N /\ m = (q.head - t) % N
    BY <1>6 DEF Used
  <2>2. (q.head - q.tail) % N \in 0 .. N - 1
    BY <1>1, UsedIs
  <2>3. t = next(q.tail)
    BY DEF t
  <2>4. (q.head - t) % N = ((q.head - q.tail) % N) - 1 /\ (q.head - q.tail) % N >= 1
    BY <1>1, <1>2, <2>3, OneLess
  <2> HIDE DEF n, m
  <2> QED
    BY <2>1, <2>2, <2>4
<1> HIDE DEF n, m
<1>8. m = n - 1 /\ n >= 1 /\ n \in Nat /\ n <= N - 1
  BY <1>7, SizeIsNat
<1>9. /\ Pending(q) \in Seq(Item) /\ Len(Pending(q)) = n
      /\ \A i \in 1 .. n : Pending(q)[i] = q.buf[(q.tail + (i - 1)) % N]
  BY PendingIs DEF n
<1>10. /\ Pending(r) \in Seq(Item) /\ Len(Pending(r)) = m
       /\ \A i \in 1 .. m : Pending(r)[i] = b[(t + (i - 1)) % N]
  BY <1>5, <1>6, PendingIs DEF m
<1>11. /\ Pending(q) # <<>> /\ Head(Pending(q)) = Pending(q)[1]
       /\ Tail(Pending(q)) \in Seq(Item) /\ Len(Tail(Pending(q))) = m
       /\ \A i \in 1 .. m : Tail(Pending(q))[i] = Pending(q)[i + 1]
  BY <1>8, <1>9, HeadTailProperties
<1>12. First(q) = Pending(q)[1] /\ First(q) \in Item
  <2>1. 0 \in 0 .. N - 1 /\ 1 \in 1 .. n /\ 1 - 1 = 0
    BY <1>8, SizeIsNat
  <2>2. (q.tail + 0) % N = q.tail
    BY <1>1, <2>1, Around
  <2>3. Pending(q)[1] = q.buf[q.tail]
    BY <1>9, <2>1, <2>2
  <2> QED
    BY <1>1, <2>3 DEF First, Index, N
<1>13. ASSUME NEW i \in 1 .. m
       PROVE  Pending(r)[i] = Tail(Pending(q))[i]
  <2>1. /\ i \in 1 .. N - 1 /\ i \in 0 .. N - 1 /\ 1 \in 0 .. N /\ i - 1 \in 0 .. N - 1
        /\ i + 1 \in 1 .. n /\ (i + 1) - 1 = i /\ 1 + (i - 1) = i
    BY <1>8, SizeIsNat
  <2>2. (((q.tail + 1) % N) + (i - 1)) % N = (q.tail + (1 + (i - 1))) % N
    BY <1>1, <2>1, WrapSum, SizeIsNat
  <2> DEFINE j == (q.tail + i) % N
  <2>3. j \in Index /\ j # q.tail
    <3>1. i # 0
      BY <2>1
    <3>2. (q.tail + i) % N \in 0 .. N - 1
      BY <1>1, <2>1, Around
    <3>3. (q.tail + i) % N = q.tail <=> i = 0
      BY <1>1, <2>1, Around
    <3> QED
      BY <3>1, <3>2, <3>3, IndexIs
  <2>4. Pending(r)[i] = b[j]
    BY <1>2, <1>10, <2>1, <2>2
  <2>5. Pending(q)[i + 1] = q.buf[j]
    BY <1>9, <2>1
  <2> HIDE DEF j
  <2> QED
    BY <1>3, <1>11, <2>3, <2>4, <2>5
<1>14. Pending(r) = Tail(Pending(q))
  BY <1>10, <1>11, <1>13, SeqEqual
<1> QED
  BY <1>4, <1>5, <1>11, <1>12, <1>14 DEF r, b, t

-----------------------------------------------------------------------------
(* The invariant.  A process in a loop over a queue holds the lock of the  *)
(* calls that lead there, so that there is one for each queue; and those   *)
(* that the queue names as waiters are in that loop.                       *)
KeyFrame(f) == f \in [at : {"getc", "wait", "woken"}, what : {"key"}]
ByteFrame(f) == f \in [at : {"putc", "wait", "woken"}, what : {"byte"}, byte : Byte]

FrameInv(p) ==
  /\ pc[p] = User \/ KeyFrame(pc[p]) \/ ByteFrame(pc[p])
  /\ KeyFrame(pc[p]) => filesys_lock = p
  /\ ByteFrame(pc[p]) => console_lock = p

KeyWaits(places, r, ats) ==
  r # NULL => r \in Proc /\ KeyFrame(places[r]) /\ places[r].at \in ats
ByteWaits(places, r, ats) ==
  r # NULL => r \in Proc /\ ByteFrame(places[r]) /\ places[r].at \in ats

KeyQueueInv ==
  /\ buffer \in Queue /\ buffer.not_full = NULL
  /\ KeyWaits(pc, buffer.not_empty, {"wait"}) /\ KeyWaits(pc, buffer.lock, {"wait", "woken"})
ByteQueueInv ==
  /\ txq \in Queue /\ txq.not_empty = NULL
  /\ ByteWaits(pc, txq.not_full, {"wait"}) /\ ByteWaits(pc, txq.lock, {"wait", "woken"})

FramesInv == DOMAIN pc = Proc /\ \A p \in Proc : FrameInv(p)

TypeInv ==
  /\ ier \subseteq {"RECV", "XMIT"}
  /\ thr \in Item /\ rbr \in Item /\ moved \in Item
  /\ off \in {NULL, "receiving", "transmitting", "printing"}
  /\ filesys_lock \in Waiter /\ console_lock \in Waiter

IInv == TypeInv /\ FramesInv /\ KeyQueueInv /\ ByteQueueInv /\ IerExact

(* A step of either stream, or none.                                       *)
KeyStep == KeyStream!PutByte \/ KeyStream!GetByte \/ Pending(buffer') = Pending(buffer)
ByteStep == ByteStream!PutByte \/ ByteStream!GetByte \/ Pending(txq') = Pending(txq)

LEMMA FrameKinds ==
  /\ ~KeyFrame(User) /\ ~ByteFrame(User) /\ User.at = "user"
  /\ KeyFrame(Getting) /\ Getting # User /\ Getting.at = "getc"
  /\ \A f : KeyFrame(f) => f # User /\ ~ByteFrame(f) /\ f.what = "key" /\ f.at # "user"
  /\ \A f : ByteFrame(f) => f # User /\ ~KeyFrame(f) /\ f.what = "byte" /\ f.at # "user"
<1>1. User.at = "user" /\ Getting.at = "getc" /\ KeyFrame(Getting)
  BY DEF User, Getting, KeyFrame
<1>2. ASSUME NEW f, KeyFrame(f) PROVE f # User /\ ~ByteFrame(f) /\ f.what = "key" /\ f.at # "user"
  BY <1>1, <1>2 DEF KeyFrame, ByteFrame
<1>3. ASSUME NEW f, ByteFrame(f) PROVE f # User /\ ~KeyFrame(f) /\ f.what = "byte" /\ f.at # "user"
  BY <1>1, <1>3 DEF KeyFrame, ByteFrame
<1> QED
  BY <1>1, <1>2, <1>3

LEMMA PuttingIs ==
  ASSUME NEW c \in Byte
  PROVE  ByteFrame(Putting(c)) /\ Putting(c) # User /\ Putting(c).byte = c
<1>1. Putting(c).at = "putc" /\ ByteFrame(Putting(c)) /\ Putting(c).byte = c
  BY DEF Putting, ByteFrame
<1> QED
  BY <1>1, FrameKinds

(* Who is on a queue's loop is alone there.                                *)
LEMMA KeysAlone ==
  ASSUME IInv, NEW p \in Proc, NEW q \in Proc, KeyFrame(pc[p]), KeyFrame(pc[q])
  PROVE  p = q
BY DEF IInv, FramesInv, FrameInv

LEMMA BytesAlone ==
  ASSUME IInv, NEW p \in Proc, NEW q \in Proc, ByteFrame(pc[p]), ByteFrame(pc[q])
  PROVE  p = q
BY DEF IInv, FramesInv, FrameInv

LEMMA WriteIer ==
  ASSUME NEW k, NEW b, write_ier(k, b)
  PROVE  /\ ier' \subseteq {"RECV", "XMIT"}
         /\ "RECV" \in ier' <=> ~intq_full(k)
         /\ "XMIT" \in ier' <=> ~intq_empty(b)
BY DEF write_ier

(* The frame of a waiter that is woken.                                    *)
LEMMA WokenFrame ==
  ASSUME NEW f, NEW g, g = [f EXCEPT !.at = "woken"]
  PROVE  /\ KeyFrame(f) => KeyFrame(g) /\ g.at = "woken"
         /\ ByteFrame(f) => ByteFrame(g) /\ g.at = "woken"
BY DEF KeyFrame, ByteFrame

LEMMA WaitFrame ==
  ASSUME NEW f, NEW g, g = [f EXCEPT !.at = "wait"]
  PROVE  /\ KeyFrame(f) => KeyFrame(g) /\ g.at = "wait"
         /\ ByteFrame(f) => ByteFrame(g) /\ g.at = "wait"
BY DEF KeyFrame, ByteFrame

(* signal keeps the frames, and those it does not name where they are.     *)
LEMMA WakeInv ==
  ASSUME IInv, UNCHANGED locks, NEW w, pc' = signal(pc, w),
         KeyWaits(pc, w, {"wait"}) \/ ByteWaits(pc, w, {"wait"})
  PROVE  /\ FramesInv'
         /\ \A r : KeyWaits(pc, r, {"wait", "woken"}) => KeyWaits(pc', r, {"wait", "woken"})
         /\ \A r : ByteWaits(pc, r, {"wait", "woken"}) => ByteWaits(pc', r, {"wait", "woken"})
         /\ KeyWaits(pc, w, {"wait"}) =>
              \A r : ByteWaits(pc, r, {"wait"}) => ByteWaits(pc', r, {"wait"})
         /\ ByteWaits(pc, w, {"wait"}) =>
              \A r : KeyWaits(pc, r, {"wait"}) => KeyWaits(pc', r, {"wait"})
<1>1. CASE w = NULL
  <2>1. pc' = pc
    BY <1>1 DEF signal
  <2> QED
    BY <2>1 DEF IInv, FramesInv, FrameInv, locks
<1>2. CASE w # NULL
  <2> DEFINE g == [pc[w] EXCEPT !.at = "woken"]
  <2>1. pc' = [pc EXCEPT ![w] = g]
    BY <1>2 DEF signal
  <2>2. w \in Proc /\ (KeyFrame(pc[w]) \/ ByteFrame(pc[w]))
    BY <1>2 DEF KeyWaits, ByteWaits
  <2>3. /\ KeyFrame(pc[w]) => KeyFrame(g) /\ g.at = "woken"
        /\ ByteFrame(pc[w]) => ByteFrame(g) /\ g.at = "woken"
    BY WokenFrame
  <2> HIDE DEF g
  <2>4. DOMAIN pc' = Proc /\ pc'[w] = g /\ \A q \in Proc : q # w => pc'[q] = pc[q]
    BY <2>1, <2>2 DEF IInv, FramesInv
  <2>5. FrameInv(w) /\ (KeyFrame(g) <=> KeyFrame(pc[w])) /\ (ByteFrame(g) <=> ByteFrame(pc[w]))
    BY <2>2, <2>3, FrameKinds DEF IInv, FramesInv
  <2>6. FramesInv'
    <3>1. ASSUME NEW q \in Proc PROVE FrameInv(q)'
      <4>1. CASE q = w
        BY <2>2, <2>4, <2>5, <4>1 DEF FrameInv, locks
      <4>2. CASE q # w
        BY <2>4, <4>2 DEF IInv, FramesInv, FrameInv, locks
      <4> QED
        BY <4>1, <4>2
    <3> QED
      BY <2>4, <3>1 DEF FramesInv
  <2>7. \A r : KeyWaits(pc, r, {"wait", "woken"}) => KeyWaits(pc', r, {"wait", "woken"})
    BY <2>3, <2>4 DEF KeyWaits
  <2>8. \A r : ByteWaits(pc, r, {"wait", "woken"}) => ByteWaits(pc', r, {"wait", "woken"})
    BY <2>3, <2>4 DEF ByteWaits
  <2>9. ASSUME KeyWaits(pc, w, {"wait"}), NEW r, ByteWaits(pc, r, {"wait"})
        PROVE  ByteWaits(pc', r, {"wait"})
    <3>1. KeyFrame(pc[w])
      BY <1>2, <2>9 DEF KeyWaits
    <3>2. r # NULL => r # w
      BY <2>9, <3>1, FrameKinds DEF ByteWaits
    <3> QED
      BY <2>4, <2>9, <3>2 DEF ByteWaits
  <2>10. ASSUME ByteWaits(pc, w, {"wait"}), NEW r, KeyWaits(pc, r, {"wait"})
         PROVE  KeyWaits(pc', r, {"wait"})
    <3>1. ByteFrame(pc[w])
      BY <1>2, <2>10 DEF ByteWaits
    <3>2. r # NULL => r # w
      BY <2>10, <3>1, FrameKinds DEF KeyWaits
    <3> QED
      BY <2>4, <2>10, <3>2 DEF KeyWaits
  <2> QED
    BY <2>6, <2>7, <2>8, <2>9, <2>10
<1> QED
  BY <1>1, <1>2

-----------------------------------------------------------------------------
(* Steps of one process: it may take or release one of the callers' locks. *)
LEMMA FrameStep ==
  ASSUME IInv, NEW p \in Proc, NEW f, pc' = [pc EXCEPT ![p] = f],
         f = User \/ KeyFrame(f) \/ ByteFrame(f),
         KeyFrame(f) => filesys_lock' = p, ByteFrame(f) => console_lock' = p,
         filesys_lock' # filesys_lock => filesys_lock \in {NULL, p},
         console_lock' # console_lock => console_lock \in {NULL, p}
  PROVE  /\ FramesInv' /\ pc'[p] = f
         /\ \A r, ats : r # p /\ KeyWaits(pc, r, ats) => KeyWaits(pc', r, ats)
         /\ \A r, ats : r # p /\ ByteWaits(pc, r, ats) => ByteWaits(pc', r, ats)
<1>1. DOMAIN pc' = Proc /\ pc'[p] = f /\ \A q \in Proc : q # p => pc'[q] = pc[q]
  BY DEF IInv, FramesInv
<1>2. FrameInv(p)'
  BY <1>1 DEF FrameInv
<1>3. NULL \notin Proc
  BY SerialAssumption
<1>4. ASSUME NEW q \in Proc, q # p PROVE FrameInv(q)'
  <2>1. pc'[q] = pc[q] /\ FrameInv(q)
    BY <1>1, <1>4 DEF IInv, FramesInv
  <2>2. KeyFrame(pc[q]) => filesys_lock' = q
    BY <1>3, <1>4, <2>1 DEF FrameInv
  <2>3. ByteFrame(pc[q]) => console_lock' = q
    BY <1>3, <1>4, <2>1 DEF FrameInv
  <2> QED
    BY <2>1, <2>2, <2>3 DEF FrameInv
<1>5. FramesInv'
  BY <1>1, <1>2, <1>4 DEF FramesInv
<1>6. \A r, ats : r # p /\ KeyWaits(pc, r, ats) => KeyWaits(pc', r, ats)
  BY <1>1 DEF KeyWaits
<1>7. \A r, ats : r # p /\ ByteWaits(pc, r, ats) => ByteWaits(pc', r, ats)
  BY <1>1 DEF ByteWaits
<1> QED
  BY <1>1, <1>5, <1>6, <1>7

(* What is not the calling process' own waiter.                            *)
LEMMA KeysUndisturbed ==
  ASSUME IInv, NEW p \in Proc, ~KeyFrame(pc[p]), UNCHANGED buffer,
         \A r, ats : r # p /\ KeyWaits(pc, r, ats) => KeyWaits(pc', r, ats)
  PROVE  KeyQueueInv' /\ KeyStep
<1>1. \A r, ats : KeyWaits(pc, r, ats) => KeyWaits(pc', r, ats)
  BY SerialAssumption DEF KeyWaits
<1> QED
  BY <1>1 DEF IInv, KeyQueueInv, KeyStep

LEMMA BytesUndisturbed ==
  ASSUME IInv, NEW p \in Proc, ~ByteFrame(pc[p]), UNCHANGED txq,
         \A r, ats : r # p /\ ByteWaits(pc, r, ats) => ByteWaits(pc', r, ats)
  PROVE  ByteQueueInv' /\ ByteStep
<1>1. \A r, ats : ByteWaits(pc, r, ats) => ByteWaits(pc', r, ats)
  BY SerialAssumption DEF ByteWaits
<1> QED
  BY <1>1 DEF IInv, ByteQueueInv, ByteStep

LEMMA ReadInv == ASSUME IInv, NEW p \in Proc, Read(p) PROVE IInv' /\ KeyStep /\ ByteStep
<1>1. /\ pc[p] = User /\ filesys_lock = NULL /\ filesys_lock' = p /\ pc' = [pc EXCEPT ![p] = Getting]
      /\ UNCHANGED <<queues, uart, off, console_lock, moved>>
  BY DEF Read
<1>2. /\ FramesInv'
      /\ \A r, ats : r # p /\ KeyWaits(pc, r, ats) => KeyWaits(pc', r, ats)
      /\ \A r, ats : r # p /\ ByteWaits(pc, r, ats) => ByteWaits(pc', r, ats)
  BY <1>1, FrameKinds, FrameStep
<1>3. KeyQueueInv' /\ KeyStep
  BY <1>1, <1>2, FrameKinds, KeysUndisturbed DEF queues
<1>4. ByteQueueInv' /\ ByteStep
  BY <1>1, <1>2, FrameKinds, BytesUndisturbed DEF queues
<1>5. TypeInv' /\ IerExact'
  BY <1>1 DEF IInv, TypeInv, IerExact, queues, uart, Waiter
<1> QED
  BY <1>2, <1>3, <1>4, <1>5 DEF IInv

LEMMA PutCharInv == ASSUME IInv, NEW p \in Proc, PutChar(p) PROVE IInv' /\ KeyStep /\ ByteStep
<1>0. PICK c \in Printed : pc' = [pc EXCEPT ![p] = Putting(c)]
  BY DEF PutChar
<1>1. /\ pc[p] = User /\ console_lock = NULL /\ console_lock' = p
      /\ UNCHANGED <<queues, uart, off, filesys_lock, moved>>
  BY DEF PutChar
<1>2. ByteFrame(Putting(c))
  BY PuttingIs, SerialAssumption
<1>3. /\ FramesInv'
      /\ \A r, ats : r # p /\ KeyWaits(pc, r, ats) => KeyWaits(pc', r, ats)
      /\ \A r, ats : r # p /\ ByteWaits(pc, r, ats) => ByteWaits(pc', r, ats)
  BY <1>0, <1>1, <1>2, FrameKinds, FrameStep
<1>4. KeyQueueInv' /\ KeyStep
  BY <1>1, <1>3, FrameKinds, KeysUndisturbed DEF queues
<1>5. ByteQueueInv' /\ ByteStep
  BY <1>1, <1>3, FrameKinds, BytesUndisturbed DEF queues
<1>6. TypeInv' /\ IerExact'
  BY <1>1 DEF IInv, TypeInv, IerExact, queues, uart, Waiter
<1> QED
  BY <1>3, <1>4, <1>5, <1>6 DEF IInv

-----------------------------------------------------------------------------
(* The loops.  A process in one finds the queue's lock free, or its own,   *)
(* and nobody waiting.                                                     *)
LEMMA KeyLoop ==
  ASSUME IInv, NEW p \in Proc, In(p, "key"), Loops(p), NEW q, q = Unlocked(buffer, p)
  PROVE  /\ KeyFrame(pc[p]) /\ ~ByteFrame(pc[p]) /\ filesys_lock = p /\ off = NULL
         /\ q = Fields(buffer.buf, buffer.head, buffer.tail, NULL, NULL, NULL) /\ q \in Queue
         /\ q.head = buffer.head /\ q.tail = buffer.tail
         /\ q.not_full = NULL /\ q.not_empty = NULL /\ q.lock = NULL
         /\ Pending(q) = Pending(buffer)
<1>1. KeyFrame(pc[p]) /\ ~ByteFrame(pc[p]) /\ filesys_lock = p /\ off = NULL
  BY FrameKinds DEF In, Running, IInv, FramesInv, FrameInv
<1>2. buffer \in Queue /\ buffer.not_full = NULL
  BY DEF IInv, KeyQueueInv
<1>3. buffer.not_empty = NULL
  <2> SUFFICES ASSUME buffer.not_empty # NULL PROVE FALSE
    OBVIOUS
  <2> DEFINE r == buffer.not_empty
  <2>1. r \in Proc /\ KeyFrame(pc[r]) /\ pc[r].at \in {"wait"}
    BY DEF IInv, KeyQueueInv, KeyWaits
  <2>2. r = p
    BY <1>1, <2>1, KeysAlone
  <2> QED
    BY <2>1, <2>2 DEF Loops
<1>4. (IF pc[p].at = "woken" THEN NULL ELSE buffer.lock) = NULL
  <2> SUFFICES ASSUME buffer.lock # NULL, pc[p].at # "woken" PROVE FALSE
    OBVIOUS
  <2> DEFINE r == buffer.lock
  <2>1. r \in Proc /\ KeyFrame(pc[r]) /\ pc[r].at \in {"wait", "woken"}
    BY DEF IInv, KeyQueueInv, KeyWaits
  <2>2. r = p
    BY <1>1, <2>1, KeysAlone
  <2> QED
    BY <2>1, <2>2 DEF Loops
<1>5. buffer = Fields(buffer.buf, buffer.head, buffer.tail, NULL, NULL, buffer.lock)
  BY <1>2, <1>3, FieldsOf
<1>6. q = Fields(buffer.buf, buffer.head, buffer.tail, NULL, NULL, NULL)
  <2>1. q = [buffer EXCEPT !.lock = NULL]
    BY <1>4 DEF Unlocked
  <2> QED
    BY <1>5, <2>1 DEF Fields
<1>7. q \in Queue
  BY <1>2, <1>6, FieldsOf, IndexIs DEF Queue, Fields, Waiter
<1>8. Pending(q) = Pending(buffer)
  BY <1>6 DEF Pending, Fields
<1> QED
  BY <1>1, <1>6, <1>7, <1>8 DEF Fields

LEMMA ByteLoop ==
  ASSUME IInv, NEW p \in Proc, In(p, "byte"), Loops(p), NEW q, q = Unlocked(txq, p)
  PROVE  /\ ByteFrame(pc[p]) /\ ~KeyFrame(pc[p]) /\ console_lock = p /\ off = NULL
         /\ q = Fields(txq.buf, txq.head, txq.tail, NULL, NULL, NULL) /\ q \in Queue
         /\ q.head = txq.head /\ q.tail = txq.tail
         /\ q.not_full = NULL /\ q.not_empty = NULL /\ q.lock = NULL
         /\ Pending(q) = Pending(txq)
<1>1. ByteFrame(pc[p]) /\ ~KeyFrame(pc[p]) /\ console_lock = p /\ off = NULL
  BY FrameKinds DEF In, Running, IInv, FramesInv, FrameInv
<1>2. txq \in Queue /\ txq.not_empty = NULL
  BY DEF IInv, ByteQueueInv
<1>3. txq.not_full = NULL
  <2> SUFFICES ASSUME txq.not_full # NULL PROVE FALSE
    OBVIOUS
  <2> DEFINE r == txq.not_full
  <2>1. r \in Proc /\ ByteFrame(pc[r]) /\ pc[r].at \in {"wait"}
    BY DEF IInv, ByteQueueInv, ByteWaits
  <2>2. r = p
    BY <1>1, <2>1, BytesAlone
  <2> QED
    BY <2>1, <2>2 DEF Loops
<1>4. (IF pc[p].at = "woken" THEN NULL ELSE txq.lock) = NULL
  <2> SUFFICES ASSUME txq.lock # NULL, pc[p].at # "woken" PROVE FALSE
    OBVIOUS
  <2> DEFINE r == txq.lock
  <2>1. r \in Proc /\ ByteFrame(pc[r]) /\ pc[r].at \in {"wait", "woken"}
    BY DEF IInv, ByteQueueInv, ByteWaits
  <2>2. r = p
    BY <1>1, <2>1, BytesAlone
  <2> QED
    BY <2>1, <2>2 DEF Loops
<1>5. txq = Fields(txq.buf, txq.head, txq.tail, NULL, NULL, txq.lock)
  BY <1>2, <1>3, FieldsOf
<1>6. q = Fields(txq.buf, txq.head, txq.tail, NULL, NULL, NULL)
  <2>1. q = [txq EXCEPT !.lock = NULL]
    BY <1>4 DEF Unlocked
  <2> QED
    BY <1>5, <2>1 DEF Fields
<1>7. q \in Queue
  BY <1>2, <1>6, FieldsOf, IndexIs DEF Queue, Fields, Waiter
<1>8. Pending(q) = Pending(txq)
  BY <1>6 DEF Pending, Fields
<1> QED
  BY <1>1, <1>6, <1>7, <1>8 DEF Fields

LEMMA NoSignal == ASSUME NEW places PROVE signal(places, NULL) = places
BY DEF signal

LEMMA GetInv ==
  ASSUME IInv, NEW p \in Proc, input_getc(p), ~intq_empty(Unlocked(buffer, p))
  PROVE  IInv' /\ KeyStep /\ ByteStep
<1> DEFINE q == Unlocked(buffer, p)
<1>1. /\ In(p, "key") /\ Loops(p) /\ buffer' = Removed(q) /\ moved' = First(q)
      /\ write_ier(buffer', txq)
      /\ \E f \in {User, Getting} : pc' = signal([pc EXCEPT ![p] = f], q.not_full)
      /\ filesys_lock' = IF pc'[p] = User THEN NULL ELSE filesys_lock
      /\ UNCHANGED <<txq, thr, rbr, off, console_lock>>
  BY DEF input_getc
<1> HIDE DEF q
<1>2. /\ KeyFrame(pc[p]) /\ ~ByteFrame(pc[p]) /\ filesys_lock = p /\ off = NULL /\ q \in Queue
      /\ q.not_full = NULL /\ q.not_empty = NULL /\ q.lock = NULL /\ Pending(q) = Pending(buffer)
  BY <1>1, KeyLoop DEF q
<1>3. PICK f \in {User, Getting} : pc' = [pc EXCEPT ![p] = f]
  BY <1>1, <1>2, NoSignal
<1>4. /\ Removed(q) \in Queue
      /\ Removed(q) = Fields([q.buf EXCEPT ![q.tail] = NULL], q.head, next(q.tail),
                             NULL, q.not_empty, q.lock)
      /\ First(q) \in Item /\ First(q) = Head(Pending(q)) /\ Pending(q) # <<>>
      /\ Pending(Removed(q)) = Tail(Pending(q))
  BY <1>2, RemovedIs DEF q
<1>5. pc'[p] = f
  BY <1>3 DEF IInv, FramesInv
<1>6. /\ f = User \/ KeyFrame(f) \/ ByteFrame(f)
      /\ KeyFrame(f) => filesys_lock' = p
      /\ ~ByteFrame(f)
  BY <1>1, <1>2, <1>5, FrameKinds
<1>7. /\ FramesInv'
      /\ \A r, ats : r # p /\ ByteWaits(pc, r, ats) => ByteWaits(pc', r, ats)
  BY <1>1, <1>2, <1>3, <1>6, FrameStep
<1>8. ByteQueueInv' /\ ByteStep
  BY <1>1, <1>2, <1>7, BytesUndisturbed
<1>9. KeyQueueInv'
  <2>1. buffer'.not_full = NULL /\ buffer'.not_empty = NULL /\ buffer'.lock = NULL
    BY <1>1, <1>2, <1>4 DEF Fields
  <2> QED
    BY <1>1, <1>4, <2>1 DEF KeyQueueInv, KeyWaits
<1>10. KeyStep
  BY <1>1, <1>2, <1>4 DEF KeyStep, KeyStream!GetByte
<1>11. TypeInv' /\ IerExact'
  <2>1. /\ ier' \subseteq {"RECV", "XMIT"}
        /\ "RECV" \in ier' <=> ~intq_full(buffer')
        /\ "XMIT" \in ier' <=> ~intq_empty(txq)
    BY <1>1, WriteIer
  <2>2. TypeInv'
    BY <1>1, <1>4, <2>1 DEF IInv, TypeInv, Waiter
  <2> QED
    BY <1>1, <2>1, <2>2 DEF IerExact, intq_full, intq_empty, next
<1> QED
  BY <1>7, <1>8, <1>9, <1>10, <1>11 DEF IInv

(* Waiting for a key: the queue is as it was, with its lock and a waiter.  *)
LEMMA AwaitKey ==
  ASSUME IInv, NEW p \in Proc, input_getc(p), intq_empty(Unlocked(buffer, p))
  PROVE  IInv' /\ KeyStep /\ ByteStep
<1> DEFINE q == Unlocked(buffer, p)
           f == [pc[p] EXCEPT !.at = "wait"]
<1>1. /\ In(p, "key") /\ Loops(p) /\ Await(p, q, "not_empty")
      /\ UNCHANGED <<ier, filesys_lock, moved, thr, rbr, off, console_lock>>
  BY DEF input_getc
<1>2. /\ KeyFrame(pc[p]) /\ ~ByteFrame(pc[p]) /\ filesys_lock = p
      /\ q = Fields(buffer.buf, buffer.head, buffer.tail, NULL, NULL, NULL) /\ q \in Queue
      /\ q.lock = NULL /\ q.head = buffer.head /\ q.tail = buffer.tail /\ Pending(q) = Pending(buffer)
  BY <1>1, KeyLoop
<1> HIDE DEF q
<1>3. /\ pc' = [pc EXCEPT ![p] = f] /\ UNCHANGED txq
      /\ buffer' = [q EXCEPT !.lock = p, !.not_empty = p]
  BY <1>1, <1>2 DEF Await, Goto
<1>4. KeyFrame(f) /\ f.at = "wait"
  BY <1>2, WaitFrame
<1> HIDE DEF f
<1>5. buffer' = Fields(buffer.buf, buffer.head, buffer.tail, NULL, p, p)
  <2> DEFINE u == [q EXCEPT !.lock = p]
             v == [u EXCEPT !.not_empty = p]
  <2>1. u = Fields(buffer.buf, buffer.head, buffer.tail, NULL, NULL, p)
    BY <1>2 DEF Fields
  <2> HIDE DEF u
  <2>2. v = Fields(buffer.buf, buffer.head, buffer.tail, NULL, p, p)
    BY <2>1 DEF Fields
  <2> QED
    BY <1>3, <2>2 DEF u
<1>6. buffer' \in Queue /\ Pending(buffer') = Pending(buffer)
  <2>1. buffer \in Queue
    BY DEF IInv, KeyQueueInv
  <2>2. buffer' \in Queue
    BY <1>5, <2>1, FieldsOf, IndexIs DEF Queue, Fields, Waiter
  <2> QED
    BY <1>5, <2>2 DEF Pending, Fields
<1>7. /\ FramesInv' /\ pc'[p] = f
      /\ \A r, ats : r # p /\ ByteWaits(pc, r, ats) => ByteWaits(pc', r, ats)
  BY <1>1, <1>2, <1>3, <1>4, FrameKinds, FrameStep
<1>8. ByteQueueInv' /\ ByteStep
  BY <1>2, <1>3, <1>7, BytesUndisturbed
<1>9. buffer'.head = buffer.head /\ buffer'.tail = buffer.tail
  BY <1>5 DEF Fields
<1>10. KeyQueueInv' /\ KeyStep
  <2>1. buffer'.not_full = NULL /\ buffer'.not_empty = p /\ buffer'.lock = p
    BY <1>5 DEF Fields
  <2> QED
    BY <1>4, <1>6, <1>7, <2>1 DEF KeyQueueInv, KeyWaits, KeyStep
<1>11. TypeInv' /\ IerExact'
  BY <1>1, <1>3, <1>9 DEF IInv, TypeInv, IerExact, intq_full, intq_empty
<1> QED
  BY <1>7, <1>8, <1>10, <1>11 DEF IInv

LEMMA PutInv ==
  ASSUME IInv, NEW p \in Proc, serial_putc(p), ~intq_full(Unlocked(txq, p))
  PROVE  IInv' /\ KeyStep /\ ByteStep
<1> DEFINE q == Unlocked(txq, p)
           c == pc[p].byte
<1>1. /\ In(p, "byte") /\ Loops(p) /\ txq' = Added(q, c) /\ write_ier(buffer, txq')
      /\ \E f \in {User} \cup {Putting(d) : d \in Printed} :
           pc' = signal([pc EXCEPT ![p] = f], q.not_empty)
      /\ console_lock' = IF pc'[p] = User THEN NULL ELSE console_lock
      /\ UNCHANGED <<buffer, thr, rbr, off, filesys_lock, moved>>
  BY DEF serial_putc, Queues
<1> HIDE DEF q
<1>2. /\ ByteFrame(pc[p]) /\ ~KeyFrame(pc[p]) /\ console_lock = p /\ off = NULL /\ q \in Queue
      /\ q.not_full = NULL /\ q.not_empty = NULL /\ q.lock = NULL /\ Pending(q) = Pending(txq)
  BY <1>1, ByteLoop DEF q
<1>3. PICK f \in {User} \cup {Putting(d) : d \in Printed} : pc' = [pc EXCEPT ![p] = f]
  BY <1>1, <1>2, NoSignal
<1>4. c \in Byte /\ c \in Item
  BY <1>2 DEF ByteFrame, Item
<1> HIDE DEF c
<1>5. /\ Added(q, c) \in Queue
      /\ Added(q, c) = Fields([q.buf EXCEPT ![q.head] = c], next(q.head), q.tail,
                              q.not_full, NULL, q.lock)
      /\ Len(Pending(q)) < N - 1
      /\ Pending(Added(q, c)) = Append(Pending(q), c)
  BY <1>2, <1>4, AddedIs DEF q
<1>6. pc'[p] = f
  BY <1>3 DEF IInv, FramesInv
<1>7. /\ f = User \/ KeyFrame(f) \/ ByteFrame(f)
      /\ ByteFrame(f) => console_lock' = p
      /\ ~KeyFrame(f)
  <2>1. f = User \/ (ByteFrame(f) /\ f # User)
    BY PuttingIs, SerialAssumption
  <2> QED
    BY <1>1, <1>2, <1>6, <2>1, FrameKinds
<1>8. /\ FramesInv'
      /\ \A r, ats : r # p /\ KeyWaits(pc, r, ats) => KeyWaits(pc', r, ats)
  BY <1>1, <1>2, <1>3, <1>7, FrameStep
<1>9. KeyQueueInv' /\ KeyStep
  BY <1>1, <1>2, <1>8, KeysUndisturbed
<1>10. ByteQueueInv'
  <2>1. txq'.not_full = NULL /\ txq'.not_empty = NULL /\ txq'.lock = NULL
    BY <1>1, <1>2, <1>5 DEF Fields
  <2> QED
    BY <1>1, <1>5, <2>1 DEF ByteQueueInv, ByteWaits
<1>11. ByteStep
  BY <1>1, <1>2, <1>4, <1>5 DEF ByteStep, ByteStream!PutByte, N
<1>12. TypeInv' /\ IerExact'
  <2>1. /\ ier' \subseteq {"RECV", "XMIT"}
        /\ "RECV" \in ier' <=> ~intq_full(buffer)
        /\ "XMIT" \in ier' <=> ~intq_empty(txq')
    BY <1>1, WriteIer
  <2>2. TypeInv'
    BY <1>1, <2>1 DEF IInv, TypeInv, Waiter
  <2> QED
    BY <1>1, <2>1, <2>2 DEF IerExact, intq_full, intq_empty, next
<1> QED
  BY <1>8, <1>9, <1>10, <1>11, <1>12 DEF IInv

LEMMA AwaitRoom ==
  ASSUME IInv, NEW p \in Proc, serial_putc(p), intq_full(Unlocked(txq, p))
  PROVE  IInv' /\ KeyStep /\ ByteStep
<1> DEFINE q == Unlocked(txq, p)
           f == [pc[p] EXCEPT !.at = "wait"]
<1>1. /\ In(p, "byte") /\ Loops(p) /\ Await(p, q, "not_full")
      /\ UNCHANGED <<ier, filesys_lock, moved, thr, rbr, off, console_lock>>
  BY DEF serial_putc, Queues
<1>2. /\ ByteFrame(pc[p]) /\ ~KeyFrame(pc[p]) /\ console_lock = p
      /\ q = Fields(txq.buf, txq.head, txq.tail, NULL, NULL, NULL) /\ q \in Queue
      /\ q.lock = NULL /\ q.head = txq.head /\ q.tail = txq.tail /\ Pending(q) = Pending(txq)
  BY <1>1, ByteLoop
<1> HIDE DEF q
<1>3. /\ pc' = [pc EXCEPT ![p] = f] /\ UNCHANGED buffer
      /\ txq' = [q EXCEPT !.lock = p, !.not_full = p]
  BY <1>1, <1>2 DEF Await, Goto
<1>4. ByteFrame(f) /\ f.at = "wait"
  BY <1>2, WaitFrame
<1> HIDE DEF f
<1>5. txq' = Fields(txq.buf, txq.head, txq.tail, p, NULL, p)
  <2> DEFINE u == [q EXCEPT !.lock = p]
             v == [u EXCEPT !.not_full = p]
  <2>1. u = Fields(txq.buf, txq.head, txq.tail, NULL, NULL, p)
    BY <1>2 DEF Fields
  <2> HIDE DEF u
  <2>2. v = Fields(txq.buf, txq.head, txq.tail, p, NULL, p)
    BY <2>1 DEF Fields
  <2> QED
    BY <1>3, <2>2 DEF u
<1>6. txq' \in Queue /\ Pending(txq') = Pending(txq)
  <2>1. txq \in Queue
    BY DEF IInv, ByteQueueInv
  <2>2. txq' \in Queue
    BY <1>5, <2>1, FieldsOf, IndexIs DEF Queue, Fields, Waiter
  <2> QED
    BY <1>5, <2>2 DEF Pending, Fields
<1>7. /\ FramesInv' /\ pc'[p] = f
      /\ \A r, ats : r # p /\ KeyWaits(pc, r, ats) => KeyWaits(pc', r, ats)
  BY <1>1, <1>2, <1>3, <1>4, FrameKinds, FrameStep
<1>8. KeyQueueInv' /\ KeyStep
  BY <1>2, <1>3, <1>7, KeysUndisturbed
<1>9. txq'.head = txq.head /\ txq'.tail = txq.tail
  BY <1>5 DEF Fields
<1>10. ByteQueueInv' /\ ByteStep
  <2>1. txq'.not_full = p /\ txq'.not_empty = NULL /\ txq'.lock = p
    BY <1>5 DEF Fields
  <2> QED
    BY <1>4, <1>6, <1>7, <2>1 DEF ByteQueueInv, ByteWaits, ByteStep
<1>11. TypeInv' /\ IerExact'
  BY <1>1, <1>3, <1>9 DEF IInv, TypeInv, IerExact, intq_full, intq_empty
<1> QED
  BY <1>7, <1>8, <1>10, <1>11 DEF IInv

-----------------------------------------------------------------------------
(* What the handlers are made of: a byte into the keys, a byte out of and  *)
(* one into those to be sent.  Each may wake a process.                    *)
LEMMA InputPutc ==
  ASSUME IInv, NEW c \in Byte, input_putc(c), UNCHANGED <<txq, locks>>
  PROVE  /\ FramesInv' /\ KeyQueueInv' /\ ByteQueueInv' /\ KeyStep /\ ByteStep
         /\ ier' \subseteq {"RECV", "XMIT"}
         /\ "RECV" \in ier' <=> ~intq_full(buffer')
         /\ "XMIT" \in ier' <=> ~intq_empty(txq')
<1>1. /\ ~intq_full(buffer) /\ buffer' = Added(buffer, c) /\ write_ier(buffer', txq)
      /\ pc' = signal(pc, buffer.not_empty)
  BY DEF input_putc
<1>2. /\ buffer \in Queue /\ buffer.not_full = NULL /\ KeyWaits(pc, buffer.not_empty, {"wait"})
      /\ KeyWaits(pc, buffer.lock, {"wait", "woken"})
  BY DEF IInv, KeyQueueInv
<1>3. /\ buffer' \in Queue /\ Len(Pending(buffer)) < N - 1
      /\ buffer' = Fields([buffer.buf EXCEPT ![buffer.head] = c], next(buffer.head), buffer.tail,
                          buffer.not_full, NULL, buffer.lock)
      /\ Pending(buffer') = Append(Pending(buffer), c)
  BY <1>1, <1>2, AddedIs DEF Item
<1>4. /\ FramesInv'
      /\ \A r : KeyWaits(pc, r, {"wait", "woken"}) => KeyWaits(pc', r, {"wait", "woken"})
      /\ \A r : ByteWaits(pc, r, {"wait", "woken"}) => ByteWaits(pc', r, {"wait", "woken"})
      /\ \A r : ByteWaits(pc, r, {"wait"}) => ByteWaits(pc', r, {"wait"})
  BY <1>1, <1>2, WakeInv
<1>5. KeyQueueInv'
  <2>1. buffer'.not_full = NULL /\ buffer'.not_empty = NULL /\ buffer'.lock = buffer.lock
    BY <1>2, <1>3 DEF Fields
  <2>2. KeyWaits(pc', buffer.lock, {"wait", "woken"})
    BY <1>2, <1>4
  <2> QED
    BY <1>3, <2>1, <2>2 DEF KeyQueueInv, KeyWaits
<1>6. ByteQueueInv' /\ ByteStep
  <2>1. /\ ByteWaits(pc, txq.not_full, {"wait"}) /\ ByteWaits(pc, txq.lock, {"wait", "woken"})
        /\ txq \in Queue /\ txq.not_empty = NULL
    BY DEF IInv, ByteQueueInv
  <2>2. ByteWaits(pc', txq.not_full, {"wait"}) /\ ByteWaits(pc', txq.lock, {"wait", "woken"})
    BY <1>4, <2>1
  <2> QED
    BY <2>1, <2>2 DEF ByteQueueInv, ByteWaits, ByteStep
<1>7. KeyStep
  BY <1>3 DEF KeyStep, KeyStream!PutByte, N
<1>8. /\ ier' \subseteq {"RECV", "XMIT"}
      /\ "RECV" \in ier' <=> ~intq_full(buffer')
      /\ "XMIT" \in ier' <=> ~intq_empty(txq)
  BY <1>1, WriteIer
<1> QED
  BY <1>4, <1>5, <1>6, <1>7, <1>8

LEMMA SendsInv ==
  ASSUME IInv, Sends, UNCHANGED <<buffer, locks>>
  PROVE  /\ FramesInv' /\ KeyQueueInv' /\ ByteQueueInv' /\ KeyStep /\ ByteStep
         /\ thr' \in Item /\ moved' \in Item
<1>1. /\ ~intq_empty(txq) /\ txq' = Removed(txq) /\ thr' = First(txq) /\ moved' = First(txq)
      /\ pc' = signal(pc, txq.not_full)
  BY DEF Sends
<1>2. /\ txq \in Queue /\ txq.not_empty = NULL /\ ByteWaits(pc, txq.not_full, {"wait"})
      /\ ByteWaits(pc, txq.lock, {"wait", "woken"})
  BY DEF IInv, ByteQueueInv
<1>3. /\ Removed(txq) \in Queue
      /\ Removed(txq) = Fields([txq.buf EXCEPT ![txq.tail] = NULL], txq.head, next(txq.tail),
                               NULL, txq.not_empty, txq.lock)
      /\ First(txq) \in Item /\ First(txq) = Head(Pending(txq)) /\ Pending(txq) # <<>>
      /\ Pending(Removed(txq)) = Tail(Pending(txq))
  BY <1>1, <1>2, RemovedIs
<1>4. /\ FramesInv'
      /\ \A r : KeyWaits(pc, r, {"wait", "woken"}) => KeyWaits(pc', r, {"wait", "woken"})
      /\ \A r : ByteWaits(pc, r, {"wait", "woken"}) => ByteWaits(pc', r, {"wait", "woken"})
      /\ \A r : KeyWaits(pc, r, {"wait"}) => KeyWaits(pc', r, {"wait"})
  BY <1>1, <1>2, WakeInv
<1>5. ByteQueueInv'
  <2>1. txq'.not_full = NULL /\ txq'.not_empty = NULL /\ txq'.lock = txq.lock
    BY <1>1, <1>2, <1>3 DEF Fields
  <2>2. ByteWaits(pc', txq.lock, {"wait", "woken"})
    BY <1>2, <1>4
  <2> QED
    BY <1>1, <1>3, <2>1, <2>2 DEF ByteQueueInv, ByteWaits
<1>6. KeyQueueInv' /\ KeyStep
  <2>1. /\ KeyWaits(pc, buffer.not_empty, {"wait"}) /\ KeyWaits(pc, buffer.lock, {"wait", "woken"})
        /\ buffer \in Queue /\ buffer.not_full = NULL
    BY DEF IInv, KeyQueueInv
  <2>2. KeyWaits(pc', buffer.not_empty, {"wait"}) /\ KeyWaits(pc', buffer.lock, {"wait", "woken"})
    BY <1>4, <2>1
  <2> QED
    BY <2>1, <2>2 DEF KeyQueueInv, KeyWaits, KeyStep
<1>7. ByteStep
  BY <1>1, <1>3 DEF ByteStep, ByteStream!GetByte
<1> QED
  BY <1>1, <1>3, <1>4, <1>5, <1>6, <1>7

LEMMA ReportInv ==
  ASSUME IInv, NEW c \in Byte, Queues(txq, c), pc' = signal(pc, txq.not_empty),
         UNCHANGED <<buffer, locks>>
  PROVE  /\ FramesInv' /\ KeyQueueInv' /\ ByteQueueInv' /\ KeyStep /\ ByteStep
         /\ ier' \subseteq {"RECV", "XMIT"}
         /\ "RECV" \in ier' <=> ~intq_full(buffer')
         /\ "XMIT" \in ier' <=> ~intq_empty(txq')
<1>1. ~intq_full(txq) /\ txq' = Added(txq, c) /\ write_ier(buffer, txq')
  BY DEF Queues
<1>2. /\ txq \in Queue /\ txq.not_empty = NULL /\ ByteWaits(pc, txq.not_full, {"wait"})
      /\ ByteWaits(pc, txq.lock, {"wait", "woken"})
  BY DEF IInv, ByteQueueInv
<1>3. pc' = pc
  BY <1>2, NoSignal
<1>4. /\ txq' \in Queue /\ Len(Pending(txq)) < N - 1
      /\ txq' = Fields([txq.buf EXCEPT ![txq.head] = c], next(txq.head), txq.tail,
                       txq.not_full, NULL, txq.lock)
      /\ Pending(txq') = Append(Pending(txq), c)
  BY <1>1, <1>2, AddedIs DEF Item
<1>5. ByteQueueInv'
  <2>1. txq'.not_full = txq.not_full /\ txq'.not_empty = NULL /\ txq'.lock = txq.lock
    BY <1>4 DEF Fields
  <2> QED
    BY <1>2, <1>3, <1>4, <2>1 DEF ByteQueueInv, ByteWaits
<1>6. FramesInv' /\ KeyQueueInv' /\ KeyStep
  BY <1>3 DEF IInv, FramesInv, FrameInv, KeyQueueInv, KeyWaits, KeyStep, locks
<1>7. ByteStep
  BY <1>4 DEF ByteStep, ByteStream!PutByte, N
<1>8. /\ ier' \subseteq {"RECV", "XMIT"}
      /\ "RECV" \in ier' <=> ~intq_full(buffer)
      /\ "XMIT" \in ier' <=> ~intq_empty(txq')
  BY <1>1, WriteIer
<1> QED
  BY <1>5, <1>6, <1>7, <1>8

(* Steps that leave queues and frames alone.                               *)
LEMMA StillInv ==
  ASSUME IInv, UNCHANGED <<queues, pc, locks>>
  PROVE  FramesInv' /\ KeyQueueInv' /\ ByteQueueInv' /\ KeyStep /\ ByteStep
BY DEF IInv, FramesInv, FrameInv, KeyQueueInv, ByteQueueInv, KeyWaits, ByteWaits,
       KeyStep, ByteStep, queues, locks

-----------------------------------------------------------------------------
Kept == IInv' /\ KeyStep /\ ByteStep

LEMMA ProcInv ==
  ASSUME IInv, NEW p \in Proc, Read(p) \/ PutChar(p) \/ Step(p)
  PROVE  Kept
BY ReadInv, PutCharInv, GetInv, AwaitKey, PutInv, AwaitRoom DEF Step, Kept

LEMMA KeyPressedInv == ASSUME IInv, KeyPressed PROVE Kept
<1>1. PICK c \in Typed : input_putc(c)
  BY DEF KeyPressed
<1>2. c \in Byte /\ UNCHANGED <<txq, thr, rbr, off, locks, moved>>
  BY SerialAssumption DEF KeyPressed
<1>3. /\ FramesInv' /\ KeyQueueInv' /\ ByteQueueInv' /\ KeyStep /\ ByteStep
      /\ ier' \subseteq {"RECV", "XMIT"}
      /\ "RECV" \in ier' <=> ~intq_full(buffer')
      /\ "XMIT" \in ier' <=> ~intq_empty(txq')
  BY <1>1, <1>2, InputPutc
<1>4. TypeInv' /\ IerExact'
  BY <1>2, <1>3 DEF IInv, TypeInv, IerExact, locks, intq_full, intq_empty, next
<1> QED
  BY <1>3, <1>4 DEF IInv, Kept

LEMMA ReceiveInv == ASSUME IInv, Receive PROVE Kept
<1>1. off = "receiving" /\ UNCHANGED <<txq, thr, locks, moved>>
  BY DEF Receive
<1>2. CASE ~intq_full(buffer) /\ rbr # NULL
  <2>1. input_putc(rbr) /\ rbr' = NULL /\ UNCHANGED off /\ rbr \in Byte
    BY <1>2 DEF Receive, IInv, TypeInv, Item
  <2>2. /\ FramesInv' /\ KeyQueueInv' /\ ByteQueueInv' /\ KeyStep /\ ByteStep
        /\ ier' \subseteq {"RECV", "XMIT"}
        /\ "RECV" \in ier' <=> ~intq_full(buffer')
        /\ "XMIT" \in ier' <=> ~intq_empty(txq')
    BY <1>1, <2>1, InputPutc
  <2>3. TypeInv' /\ IerExact'
    BY <1>1, <2>1, <2>2 DEF IInv, TypeInv, IerExact, locks, Item, intq_full, intq_empty, next
  <2> QED
    BY <2>2, <2>3 DEF IInv, Kept
<1>3. CASE ~(~intq_full(buffer) /\ rbr # NULL)
  <2>1. off' = "transmitting" /\ UNCHANGED <<buffer, ier, rbr, pc>>
    BY <1>3 DEF Receive
  <2>2. FramesInv' /\ KeyQueueInv' /\ ByteQueueInv' /\ KeyStep /\ ByteStep
    BY <1>1, <2>1, StillInv DEF queues
  <2>3. TypeInv' /\ IerExact'
    BY <1>1, <2>1, SerialAssumption DEF IInv, TypeInv, IerExact, locks
  <2> QED
    BY <2>2, <2>3 DEF IInv, Kept
<1> QED
  BY <1>2, <1>3

LEMMA TransmitInv == ASSUME IInv, Transmit PROVE Kept
<1>1. off = "transmitting" /\ UNCHANGED <<buffer, rbr, locks>>
  BY DEF Transmit
<1>2. CASE ~intq_empty(txq) /\ thr = NULL
  <2>1. Sends /\ UNCHANGED <<ier, off>>
    BY <1>2 DEF Transmit
  <2>2. /\ FramesInv' /\ KeyQueueInv' /\ ByteQueueInv' /\ KeyStep /\ ByteStep
        /\ thr' \in Item /\ moved' \in Item
    BY <1>1, <2>1, SendsInv
  <2>3. TypeInv' /\ IerExact'
    BY <1>1, <2>1, <2>2, SerialAssumption DEF IInv, TypeInv, IerExact, locks
  <2> QED
    BY <2>2, <2>3 DEF IInv, Kept
<1>3. CASE ~(~intq_empty(txq) /\ thr = NULL)
  <2>1. write_ier(buffer, txq) /\ off' = NULL /\ UNCHANGED <<txq, thr, moved, pc>>
    BY <1>3 DEF Transmit
  <2>2. FramesInv' /\ KeyQueueInv' /\ ByteQueueInv' /\ KeyStep /\ ByteStep
    BY <1>1, <2>1, StillInv DEF queues
  <2>3. /\ ier' \subseteq {"RECV", "XMIT"}
        /\ "RECV" \in ier' <=> ~intq_full(buffer)
        /\ "XMIT" \in ier' <=> ~intq_empty(txq)
    BY <2>1, WriteIer
  <2>4. TypeInv' /\ IerExact'
    BY <1>1, <2>1, <2>3 DEF IInv, TypeInv, IerExact, locks, intq_full, intq_empty, next
  <2> QED
    BY <2>2, <2>4 DEF IInv, Kept
<1> QED
  BY <1>2, <1>3

LEMMA PrintHandlerInv == ASSUME IInv, PrintHandler PROVE Kept
<1>1. off = "printing" /\ UNCHANGED <<buffer, rbr, locks>>
  BY DEF PrintHandler
<1>2. CASE intq_full(txq) /\ Sends /\ UNCHANGED <<ier, off>>
  <2>1. /\ FramesInv' /\ KeyQueueInv' /\ ByteQueueInv' /\ KeyStep /\ ByteStep
        /\ thr' \in Item /\ moved' \in Item
    BY <1>1, <1>2, SendsInv
  <2>2. TypeInv' /\ IerExact'
    BY <1>1, <1>2, <2>1, SerialAssumption DEF IInv, TypeInv, IerExact, locks
  <2> QED
    BY <2>1, <2>2 DEF IInv, Kept
<1>3. ASSUME NEW c \in Reported, Queues(txq, c), pc' = signal(pc, txq.not_empty),
             off' \in {"printing", NULL}, UNCHANGED <<thr, moved>>
      PROVE  Kept
  <2>1. c \in Byte
    BY SerialAssumption
  <2>2. /\ FramesInv' /\ KeyQueueInv' /\ ByteQueueInv' /\ KeyStep /\ ByteStep
        /\ ier' \subseteq {"RECV", "XMIT"}
        /\ "RECV" \in ier' <=> ~intq_full(buffer')
        /\ "XMIT" \in ier' <=> ~intq_empty(txq')
    BY <1>1, <1>3, <2>1, ReportInv
  <2>3. TypeInv' /\ IerExact'
    BY <1>1, <1>3, <2>2 DEF IInv, TypeInv, IerExact, locks, intq_full, intq_empty, next
  <2> QED
    BY <2>2, <2>3 DEF IInv, Kept
<1> QED
  BY <1>2, <1>3 DEF PrintHandler

(* The steps that start a handler, and the UART's own.                     *)
LEMMA DeviceInv ==
  ASSUME IInv, Unexpected \/ serial_interrupt \/ ByteLeaves \/ ByteArrives
  PROVE  Kept
<1>1. UNCHANGED <<queues, pc, locks, ier, moved>>
  BY DEF Unexpected, serial_interrupt, ByteLeaves, ByteArrives, uart
<1>2. FramesInv' /\ KeyQueueInv' /\ ByteQueueInv' /\ KeyStep /\ ByteStep
  BY <1>1, StillInv
<1>3. thr' \in Item /\ rbr' \in Item
  BY SerialAssumption DEF Unexpected, serial_interrupt, ByteLeaves, ByteArrives, uart, IInv, TypeInv, Item
<1>4. off' = off \/ off' \in {"printing", "receiving"}
  BY DEF Unexpected, serial_interrupt, ByteLeaves, ByteArrives
<1>5. TypeInv' /\ IerExact'
  BY <1>1, <1>3, <1>4, SerialAssumption DEF IInv, TypeInv, IerExact, locks, queues
<1> QED
  BY <1>2, <1>5 DEF IInv, Kept

LEMMA EmptyQueueIs == EmptyQueue \in Queue /\ Pending(EmptyQueue) = <<>>
<1>1. 0 \in 0 .. N - 1
  BY SizeIsNat
<1>2. EmptyQueue \in Queue
  BY <1>1, IndexIs DEF EmptyQueue, Queue, Item, Waiter
<1>3. Used(EmptyQueue) = 0
  <2>1. (0 - 0) % N = IF 0 <= 0 THEN 0 - 0 ELSE 0 - 0 + N
    BY <1>1, UsedIs
  <2> QED
    BY <2>1 DEF Used, EmptyQueue
<1>4. Pending(EmptyQueue) \in Seq(Item) /\ Len(Pending(EmptyQueue)) = 0
  BY <1>2, <1>3, PendingIs
<1> QED
  BY <1>2, <1>4, EmptySeq

LEMMA InitInv == Init => IInv /\ Pending(buffer) = <<>> /\ Pending(txq) = <<>>
<1> SUFFICES ASSUME Init PROVE IInv /\ Pending(buffer) = <<>> /\ Pending(txq) = <<>>
  OBVIOUS
<1>1. buffer \in Queue /\ txq \in Queue /\ Pending(buffer) = <<>> /\ Pending(txq) = <<>>
  BY EmptyQueueIs DEF Init
<1>2. FramesInv
  BY FrameKinds DEF Init, FramesInv, FrameInv
<1>3. KeyQueueInv /\ ByteQueueInv
  BY <1>1 DEF Init, EmptyQueue, KeyQueueInv, ByteQueueInv, KeyWaits, ByteWaits
<1>4. TypeInv
  BY DEF Init, TypeInv, Item, Waiter
<1>5. IerExact
  <2>1. 0 \in 0 .. N - 1
    BY SizeIsNat
  <2>2. next(0) # 0
    BY <2>1, NextIs, SizeIsNat
  <2> QED
    BY <2>2 DEF Init, EmptyQueue, IerExact, intq_full, intq_empty
<1> QED
  BY <1>1, <1>2, <1>3, <1>4, <1>5 DEF IInv

LEMMA NextInv == IInv /\ [Next]_vars => Kept
<1> SUFFICES ASSUME IInv, [Next]_vars PROVE Kept
  OBVIOUS
<1>1. CASE UNCHANGED vars
  <2>1. FramesInv' /\ KeyQueueInv' /\ ByteQueueInv' /\ KeyStep /\ ByteStep
    BY <1>1, StillInv DEF vars
  <2>2. TypeInv' /\ IerExact'
    BY <1>1 DEF vars, queues, uart, locks, IInv, TypeInv, IerExact
  <2> QED
    BY <2>1, <2>2 DEF IInv, Kept
<1>2. CASE Next
  BY <1>2, ProcInv, KeyPressedInv, DeviceInv, ReceiveInv, TransmitInv, PrintHandlerInv DEF Next, Handler
<1> QED
  BY <1>1, <1>2

-----------------------------------------------------------------------------
(* No process ever blocks for the lock of a queue, which has room for one  *)
(* waiter only; and whenever no handler runs the UART is asked for exactly *)
(* the interrupts that the queues need: to receive if there is room, to    *)
(* transmit if there is a byte to send.                                    *)
THEOREM QueuesStayExact == Spec => []QueuesExact
<1>1. IInv => QueuesExact
  <2> SUFFICES ASSUME IInv PROVE QueuesExact
    OBVIOUS
  <2>1. \A p \in Proc : pc[p].at \in {"user", "getc", "putc", "wait", "woken"}
    BY FrameKinds DEF IInv, FramesInv, FrameInv, KeyFrame, ByteFrame
  <2>2. QueueOK(buffer) /\ QueueOK(txq)
    BY DEF IInv, KeyQueueInv, ByteQueueInv, Queue, QueueOK, Item, Waiter
  <2>3. SerialTypeOK
    BY <2>1, <2>2 DEF IInv, TypeInv, SerialTypeOK, Item, Waiter
  <2> QED
    BY <2>1, <2>3 DEF IInv, QueuesExact, NeverContended
<1>2. Kept => IInv'
  BY DEF Kept
<1> QED
  BY <1>1, <1>2, InitInv, NextInv, PTL DEF Spec

(* Whatever is typed, received, printed and reported comes out of its      *)
(* queue once and in order, also when a handler takes bytes out by polling *)
(* while a process waits for room.                                         *)
THEOREM StreamsAreFifo == Spec => StreamsKeepOrder
<1>1. Init => KeyStream!StreamInit /\ ByteStream!StreamInit
  BY InitInv DEF KeyStream!StreamInit, ByteStream!StreamInit
<1>2. Kept => /\ IInv'
              /\ [KeyStream!PutByte \/ KeyStream!GetByte]_(Pending(buffer))
              /\ [ByteStream!PutByte \/ ByteStream!GetByte]_(Pending(txq))
  BY DEF Kept, KeyStep, ByteStep, Pending
<1> QED
  BY <1>1, <1>2, InitInv, NextInv, PTL
     DEF Spec, StreamsKeepOrder, KeyStream!Stream, ByteStream!Stream
===============================================================================
