------------------------------ MODULE PipeProofs ------------------------------
(***************************************************************************)
(* Proofs about Pipe, for any number of processes, pipes and characters    *)
(* and any size of a buffer: the counters of a ring agree, and, when one   *)
(* process makes the pipes, the pipes are bounded queues.                  *)
(***************************************************************************)
EXTENDS Pipe, SequencesExt, SequenceTheorems, TLAPS

-----------------------------------------------------------------------------
(* Places of a ring of N.  Sums of two stay below twice N, and differences *)
(* above its negative: % wraps once.                                       *)
LEMMA ModIs ==
  ASSUME NEW N \in Nat \ {0}, NEW x \in Int, -N <= x, x < N + N
  PROVE  x % N = IF x < 0 THEN x + N ELSE IF x < N THEN x ELSE x - N
OBVIOUS

LEMMA ModRange ==
  ASSUME NEW N \in Nat \ {0}, NEW x \in Int
  PROVE  x % N \in 0 .. N - 1
OBVIOUS

LEMMA Wrap ==
  ASSUME NEW N \in Nat \ {0}, NEW s \in 0 .. N - 1, NEW n \in 0 .. N
  PROVE  /\ (s + n) % N = IF s + n < N THEN s + n ELSE s + n - N
         /\ (s + n) % N \in 0 .. N - 1
<1>1. s + n \in Int /\ -N <= s + n /\ s + n < N + N
  OBVIOUS
<1>2. (s + n) % N = IF s + n < 0 THEN s + n + N ELSE IF s + n < N THEN s + n ELSE s + n - N
  <2> DEFINE x == s + n
  <2> HIDE DEF x
  <2>1. x \in Int /\ -N <= x /\ x < N + N
    BY <1>1 DEF x
  <2>2. x % N = IF x < 0 THEN x + N ELSE IF x < N THEN x ELSE x - N
    BY <2>1
  <2> QED
    BY <2>2 DEF x
<1> QED
  BY <1>1, <1>2

(* To go on by n, then by m, is to go on by n + m.                         *)
LEMMA WrapSum ==
  ASSUME NEW N \in Nat \ {0}, NEW s \in 0 .. N - 1, NEW n \in 0 .. N, NEW m \in 0 .. N - n
  PROVE  (((s + n) % N) + m) % N = (s + (n + m)) % N
<1>1. n + m \in 0 .. N /\ m \in 0 .. N
  OBVIOUS
<1>2. (s + (n + m)) % N = IF s + (n + m) < N THEN s + (n + m) ELSE s + (n + m) - N
  BY <1>1, Wrap
<1>3. /\ (s + n) % N = IF s + n < N THEN s + n ELSE s + n - N
      /\ (s + n) % N \in 0 .. N - 1
  BY Wrap
<1> DEFINE t == (s + n) % N
<1>4. (t + m) % N = IF t + m < N THEN t + m ELSE t + m - N
  BY <1>1, <1>3, Wrap
<1> HIDE DEF t
<1>5. t = IF s + n < N THEN s + n ELSE s + n - N
  BY <1>3 DEF t
<1>6. (t + m) % N = (s + (n + m)) % N
  BY <1>1, <1>2, <1>4, <1>5
<1> QED
  BY <1>6 DEF t

(* How far the i-th place is from the m-th, around the ring.               *)
LEMMA Distance ==
  ASSUME NEW N \in Nat \ {0}, NEW s \in 0 .. N - 1, NEW i \in 0 .. N - 1, NEW m \in 0 .. N
  PROVE  (((s + i) % N) - ((s + m) % N)) % N = IF m <= i THEN i - m ELSE i - m + N
<1> DEFINE t == (s + i) % N
           u == (s + m) % N
<1>1. t = (IF s + i < N THEN s + i ELSE s + i - N) /\ t \in 0 .. N - 1
  <2>1. i \in 0 .. N
    OBVIOUS
  <2> QED
    BY <2>1, Wrap
<1>2. u = (IF s + m < N THEN s + m ELSE s + m - N) /\ u \in 0 .. N - 1
  BY Wrap
<1> HIDE DEF t, u
<1>3. t - u \in Int /\ -N <= t - u /\ t - u < N + N
  BY <1>1, <1>2
<1>4. (t - u) % N = IF t - u < 0 THEN t - u + N ELSE IF t - u < N THEN t - u ELSE t - u - N
  BY <1>3, ModIs
<1>5. (t - u) % N = IF m <= i THEN i - m ELSE i - m + N
  BY <1>1, <1>2, <1>4
<1> QED
  BY <1>5 DEF t, u

-----------------------------------------------------------------------------

P == PIPE_BUFFER_SIZE
IsRing(b) == b \in pipe_buffer /\ b.end = (b.start + b.size) % P

-----------------------------------------------------------------------------
LEMMA SizeIsNat == P \in Nat \ {0}
BY PipeAssumption DEF P

(* A ring by its fields.                                                   *)
Ring(buffer, start, end, size, open) ==
  [buffer |-> buffer, start |-> start, end |-> end, size |-> size, open |-> open]

LEMMA RingIs ==
  ASSUME NEW b, IsRing(b)
  PROVE  /\ b.buffer \in [0 .. P - 1 -> Char] /\ b.size \in 0 .. P
         /\ b.start \in 0 .. P - 1 /\ b.end \in 0 .. P - 1 /\ b.open \in SUBSET Ends
         /\ b.size \in Nat /\ b.size <= P
<1>1. b \in pipe_buffer
  BY DEF IsRing
<1>2. /\ b.buffer \in [0 .. P - 1 -> Char] /\ b.size \in 0 .. P
      /\ b.start \in 0 .. P - 1 /\ b.end \in 0 .. P - 1 /\ b.open \in SUBSET Ends
  BY <1>1 DEF pipe_buffer, P
<1> QED
  BY <1>2, SizeIsNat

(* How much is left, and how much there is then, of a buffer's room.       *)
LEMMA Left ==
  ASSUME NEW size \in 0 .. P, NEW n \in 0 .. size
  PROVE  /\ n \in Nat /\ n <= size /\ n \in 0 .. P
         /\ size - n \in 0 .. P - n /\ n + (size - n) = size
BY SizeIsNat

LEMMA Room ==
  ASSUME NEW size \in 0 .. P, NEW n \in 0 .. P - size
  PROVE  n \in Nat /\ n \in 0 .. P /\ size + n \in 0 .. P
BY SizeIsNat

LEMMA DataIs ==
  ASSUME NEW b, IsRing(b)
  PROVE  /\ Data(b) \in Seq(Char) /\ Len(Data(b)) = b.size
         /\ \A k \in 1 .. b.size : Data(b)[k] = b.buffer[(b.start + k - 1) % P]
<1>1. /\ b.buffer \in [0 .. P - 1 -> Char] /\ b.size \in Nat /\ b.start \in 0 .. P - 1
      /\ b.size <= P
  BY RingIs
<1>2. ASSUME NEW k \in 1 .. b.size
      PROVE  (b.start + k - 1) % P \in 0 .. P - 1
  <2>1. k - 1 \in 0 .. P /\ b.start + (k - 1) = b.start + k - 1
    BY <1>1, SizeIsNat
  <2>2. (b.start + (k - 1)) % P \in 0 .. P - 1
    BY <1>1, <2>1, Wrap, SizeIsNat
  <2> QED
    BY <2>1, <2>2
<1>3. Data(b) = [k \in 1 .. b.size |-> b.buffer[(b.start + k - 1) % P]]
  BY DEF Data, P
<1>4. Data(b) \in [1 .. b.size -> Char]
  BY <1>1, <1>2, <1>3
<1>5. Data(b) \in Seq(Char) /\ Len(Data(b)) = b.size
  BY <1>1, <1>4
<1> QED
  BY <1>3, <1>5

(* What a read leaves.                                                     *)
LEMMA GetRing ==
  ASSUME NEW b, IsRing(b), NEW n \in 0 .. b.size,
         NEW r, r = Ring(b.buffer, (b.start + n) % P, b.end, b.size - n, b.open)
  PROVE  /\ IsRing(r)
         /\ Data(r) = SubSeq(Data(b), n + 1, Len(Data(b)))
         /\ [k \in 1 .. n |-> b.buffer[(b.start + k - 1) % P]] = SubSeq(Data(b), 1, n)
<1>1. /\ b.buffer \in [0 .. P - 1 -> Char] /\ b.size \in Nat /\ b.start \in 0 .. P - 1
      /\ b.size <= P /\ b.end \in 0 .. P - 1 /\ b.open \in SUBSET Ends /\ n \in Nat /\ n <= b.size
  BY RingIs, Left
<1>2. /\ r.buffer = b.buffer /\ r.start = (b.start + n) % P /\ r.end = b.end
      /\ r.size = b.size - n /\ r.open = b.open
  BY DEF Ring
<1>3. n \in 0 .. P /\ b.size - n \in 0 .. P - n /\ n + (b.size - n) = b.size
  BY RingIs, Left
<1>4. r.start \in 0 .. P - 1 /\ r.size \in 0 .. P
  <2>1. (b.start + n) % P \in 0 .. P - 1
    BY <1>1, <1>3, Wrap, SizeIsNat
  <2> QED
    BY <1>1, <1>2, <2>1, SizeIsNat
<1>5. r.end = (r.start + r.size) % P
  <2>1. b.end = (b.start + b.size) % P
    BY DEF IsRing, P
  <2> QED
    BY <1>1, <1>2, <1>3, <2>1, WrapSum, SizeIsNat
<1>6. r \in pipe_buffer
  BY <1>1, <1>2, <1>4 DEF pipe_buffer, Ring, P
<1>7. IsRing(r)
  BY <1>5, <1>6 DEF IsRing
<1>8. ASSUME NEW k \in 1 .. b.size - n
      PROVE  (r.start + k - 1) % P = (b.start + (n + k) - 1) % P
  <2>1. k - 1 \in 0 .. P - n /\ r.start + k - 1 = r.start + (k - 1)
        /\ b.start + (n + k) - 1 = b.start + (n + (k - 1))
    <3>1. k - 1 \in 0 .. P - n
      BY <1>1, SizeIsNat
    <3>2. k \in Int /\ r.start \in Int /\ b.start \in Int /\ n \in Int
      BY <1>1, <1>4, SizeIsNat
    <3>3. r.start + k - 1 = r.start + (k - 1)
      BY <3>2
    <3>4. b.start + (n + k) - 1 = b.start + (n + (k - 1))
      BY <3>2
    <3> QED
      BY <3>1, <3>3, <3>4
  <2>2. (((b.start + n) % P) + (k - 1)) % P = (b.start + (n + (k - 1))) % P
    BY <1>1, <1>3, <2>1, WrapSum, SizeIsNat
  <2> QED
    BY <1>2, <2>1, <2>2
<1>9. Data(r) = SubSeq(Data(b), n + 1, Len(Data(b)))
  <2> DEFINE s == SubSeq(Data(b), n + 1, Len(Data(b)))
  <2>1. /\ Data(b) \in Seq(Char) /\ Len(Data(b)) = b.size
        /\ \A k \in 1 .. b.size : Data(b)[k] = b.buffer[(b.start + k - 1) % P]
    BY DataIs
  <2>2. /\ s \in Seq(Char) /\ Len(s) = b.size - n
        /\ \A k \in 1 .. b.size - n : s[k] = Data(b)[n + k]
    BY <2>1, <1>1
  <2>3. /\ Data(r) \in Seq(Char) /\ Len(Data(r)) = b.size - n
        /\ \A k \in 1 .. b.size - n : Data(r)[k] = b.buffer[(r.start + k - 1) % P]
    BY <1>2, <1>7, DataIs
  <2> HIDE DEF s
  <2>4. ASSUME NEW k \in 1 .. b.size - n
        PROVE  Data(r)[k] = s[k]
    <3>1. n + k \in 1 .. b.size
      BY <1>1
    <3>2. s[k] = b.buffer[(b.start + (n + k) - 1) % P]
      BY <2>1, <2>2, <3>1
    <3> QED
      BY <2>3, <3>2, <1>2, <1>8
  <2>5. Data(r) = s
    BY <2>2, <2>3, <2>4, SeqEqual
  <2> QED
    BY <2>5 DEF s
<1>10. [k \in 1 .. n |-> b.buffer[(b.start + k - 1) % P]] = SubSeq(Data(b), 1, n)
  <2>1. /\ Data(b) \in Seq(Char) /\ Len(Data(b)) = b.size
        /\ \A k \in 1 .. b.size : Data(b)[k] = b.buffer[(b.start + k - 1) % P]
    BY DataIs
  <2>2. SubSeq(Data(b), 1, n) = [k \in 1 .. n |-> Data(b)[k]]
    BY <2>1, <1>1
  <2> QED
    BY <2>1, <2>2, <1>1
<1> QED
  BY <1>7, <1>9, <1>10

(* What a write leaves.                                                    *)
LEMMA PutRing ==
  ASSUME NEW b, IsRing(b), NEW s \in Seq(Char), NEW n \in 0 .. P - b.size, n <= Len(s),
         NEW r, r = Ring(Written(b, s, n), b.start, (b.end + n) % P, b.size + n, b.open)
  PROVE  IsRing(r) /\ Data(r) = Data(b) \o SubSeq(s, 1, n)
<1>1. /\ b.buffer \in [0 .. P - 1 -> Char] /\ b.size \in Nat /\ b.start \in 0 .. P - 1
      /\ b.size <= P /\ b.end \in 0 .. P - 1 /\ b.open \in SUBSET Ends /\ n \in Nat
      /\ b.size \in 0 .. P
  BY RingIs, Room
<1>0. b.end = (b.start + b.size) % P
  BY DEF IsRing, P
<1>2. /\ r.buffer = Written(b, s, n) /\ r.start = b.start /\ r.end = (b.end + n) % P
      /\ r.size = b.size + n /\ r.open = b.open
  BY DEF Ring
<1>3. n \in 0 .. P /\ b.size + n \in 0 .. P
  BY RingIs, Room
<1>4. \A j \in 0 .. P - 1 :
        Written(b, s, n)[j] = IF ((j - b.end) % P) + 1 <= n THEN s[((j - b.end) % P) + 1]
                                                            ELSE b.buffer[j]
  BY <1>1 DEF Written, P
<1>5. Written(b, s, n) \in [0 .. P - 1 -> Char]
  <2>1. ASSUME NEW j \in 0 .. P - 1, ((j - b.end) % P) + 1 <= n
        PROVE  s[((j - b.end) % P) + 1] \in Char
    <3>1. j - b.end \in Int
      BY <1>1, SizeIsNat
    <3>2. (j - b.end) % P \in 0 .. P - 1
      BY <3>1, ModRange, SizeIsNat
    <3> DEFINE k == (j - b.end) % P
    <3>3. k \in 0 .. P - 1 /\ k + 1 <= n
      BY <2>1, <3>2
    <3> HIDE DEF k
    <3>4. Len(s) \in Nat
      BY LenProperties
    <3>5. k + 1 \in 1 .. Len(s)
      BY <1>1, <3>3, <3>4, SizeIsNat
    <3>6. s[k + 1] \in Char
      BY <3>5
    <3> QED
      BY <3>6 DEF k
  <2> QED
    BY <1>1, <2>1 DEF Written, P
<1>6. IsRing(r)
  <2>1. (b.end + n) % P \in 0 .. P - 1
    BY <1>1, <1>3, Wrap, SizeIsNat
  <2>2. (b.end + n) % P = (b.start + (b.size + n)) % P
    <3>1. (((b.start + b.size) % P) + n) % P = (b.start + (b.size + n)) % P
      BY <1>1, WrapSum, SizeIsNat
    <3> QED
      BY <1>0, <3>1
  <2>3. r \in pipe_buffer
    BY <1>1, <1>2, <1>3, <1>5, <2>1 DEF pipe_buffer, Ring, P
  <2> QED
    BY <1>2, <2>2, <2>3 DEF IsRing
<1> DEFINE d == Data(b)
           w == SubSeq(s, 1, n)
<1>7. /\ d \in Seq(Char) /\ Len(d) = b.size
      /\ \A k \in 1 .. b.size : d[k] = b.buffer[(b.start + k - 1) % P]
  BY DataIs
<1>8. w \in Seq(Char) /\ Len(w) = n /\ \A k \in 1 .. n : w[k] = s[k]
  BY <1>1, <1>3
<1>9. /\ Data(r) \in Seq(Char) /\ Len(Data(r)) = b.size + n
      /\ \A k \in 1 .. b.size + n : Data(r)[k] = Written(b, s, n)[(b.start + k - 1) % P]
  BY <1>2, <1>6, DataIs
<1> HIDE DEF d, w
<1>10. ASSUME NEW k \in 1 .. b.size + n
       PROVE  Data(r)[k] = IF k <= b.size THEN d[k] ELSE w[k - b.size]
  <2> DEFINE j == (b.start + (k - 1)) % P
  <2>1. k - 1 \in 0 .. P - 1 /\ k - 1 \in 0 .. P /\ b.start + k - 1 = b.start + (k - 1)
    BY <1>1, SizeIsNat
  <2>2. j \in 0 .. P - 1
    BY <1>1, <2>1, Wrap, SizeIsNat
  <2>3. (j - b.end) % P = IF b.size <= k - 1 THEN (k - 1) - b.size ELSE (k - 1) - b.size + P
    <3>1. (((b.start + (k - 1)) % P) - ((b.start + b.size) % P)) % P
            = IF b.size <= k - 1 THEN (k - 1) - b.size ELSE (k - 1) - b.size + P
      BY <1>1, <2>1, Distance, SizeIsNat
    <3> QED
      BY <1>0, <3>1 DEF j
  <2>4. Data(r)[k] = Written(b, s, n)[j]
    BY <1>9, <2>1
  <2> HIDE DEF j
  <2>5. CASE k <= b.size
    <3>1. ~(((j - b.end) % P) + 1 <= n)
      BY <1>1, <2>1, <2>3, <2>5, SizeIsNat
    <3>2. Data(r)[k] = b.buffer[j]
      BY <1>4, <2>2, <2>4, <3>1
    <3>3. k \in 1 .. b.size
      BY <1>1, <2>5
    <3>4. d[k] = b.buffer[j]
      BY <1>7, <2>1, <3>3 DEF j
    <3> QED
      BY <2>5, <3>2, <3>4
  <2>6. CASE ~(k <= b.size)
    <3>0. (j - b.end) % P = (k - 1) - b.size
      BY <1>1, <2>1, <2>3, <2>6
    <3>1. ((j - b.end) % P) + 1 = k - b.size /\ k - b.size \in 1 .. n
      BY <1>1, <2>6, <3>0
    <3>2. Data(r)[k] = s[k - b.size]
      BY <1>1, <1>4, <2>2, <2>4, <3>1
    <3> QED
      BY <1>8, <2>6, <3>1, <3>2
  <2> QED
    BY <2>5, <2>6
<1>11. /\ d \o w \in Seq(Char) /\ Len(d \o w) = b.size + n
       /\ \A k \in 1 .. b.size + n : (d \o w)[k] = IF k <= b.size THEN d[k] ELSE w[k - b.size]
  <2>1. /\ d \o w \in Seq(Char)
        /\ Len(d \o w) = Len(d) + Len(w)
        /\ \A j \in 1 .. Len(d) + Len(w) : (d \o w)[j] = IF j <= Len(d) THEN d[j] ELSE w[j - Len(d)]
    BY <1>7, <1>8, ConcatProperties, LenProperties
  <2> QED
    BY <1>7, <1>8, <2>1
<1>12. Data(r) = d \o w
  BY <1>9, <1>10, <1>11, SeqEqual
<1> QED
  BY <1>6, <1>12 DEF d, w

-----------------------------------------------------------------------------
(* The invariant.  When one process makes the pipes, the place that pipe   *)
(* found empty is still empty when it stores the pipe there.               *)
OneMaker == \A p, q \in Makers : p = q

ArrayInv ==
  /\ pipe_buffer_array \in [Slot -> pipe_buffer \cup {NULL}]
  /\ \A i \in Slot : pipe_buffer_array[i] # NULL =>
       IsRing(pipe_buffer_array[i]) /\ pipe_buffer_array[i].open # {}

FrameOK(f) ==
  /\ "at" \in DOMAIN f
  /\ f.at = "scan" => DOMAIN f = {"at", "slot"} /\ f.slot \in 0 .. MAX_PIPES
  /\ f.at \in {"calloc", "read", "write", "close"} => f.slot \in Slot
  /\ f.at \in {"read", "write", "close"} => f.end \in Ends
  /\ f.at = "read" => f.size \in Nat
  /\ f.at = "write" => f.data \in Seq(Char)

MakerInv(p) ==
  /\ pc[p].at \in {"scan", "calloc"} => p \in Makers
  /\ OneMaker /\ pc[p].at = "calloc" => pipe_buffer_array[pc[p].slot] = NULL

IInv ==
  /\ filesys_lock \in Proc \cup {NULL}
  /\ ArrayInv
  /\ DOMAIN pc = Proc
  /\ \A p \in Proc : FrameOK(pc[p]) /\ MakerInv(p)

(* What a step of p keeps of the others: it fills no empty place, unless   *)
(* it is a maker's.                                                        *)
KeepsEmpty(p) ==
  \/ p \in Makers
  \/ \A i \in Slot : pipe_buffer_array[i] = NULL => pipe_buffer_array'[i] = NULL

LEMMA FrameStep ==
  ASSUME IInv, NEW p \in Proc, NEW f, pc' = [pc EXCEPT ![p] = f], FrameOK(f), MakerInv(p)',
         KeepsEmpty(p), ArrayInv', filesys_lock' \in Proc \cup {NULL}
  PROVE  IInv'
<1>1. DOMAIN pc' = Proc /\ pc'[p] = f
  BY DEF IInv
<1>2. ASSUME NEW q \in Proc, q # p
      PROVE  FrameOK(pc'[q]) /\ MakerInv(q)'
  <2>1. pc'[q] = pc[q] /\ FrameOK(pc[q]) /\ MakerInv(q)
    BY <1>2 DEF IInv
  <2>2. ASSUME OneMaker, pc[q].at = "calloc"
        PROVE  pipe_buffer_array'[pc[q].slot] = NULL
    <3>1. q \in Makers /\ pc[q].slot \in Slot /\ pipe_buffer_array[pc[q].slot] = NULL
      BY <2>1, <2>2 DEF MakerInv, FrameOK
    <3>2. p \notin Makers
      BY <1>2, <2>2, <3>1 DEF OneMaker
    <3> QED
      BY <3>1, <3>2 DEF KeepsEmpty
  <2> QED
    BY <2>1, <2>2 DEF MakerInv, OneMaker
<1> QED
  BY <1>1, <1>2 DEF IInv

(* Steps that go where nothing is asked of the frame.                      *)
LEMMA PlainStep ==
  ASSUME IInv, NEW p \in Proc, NEW l, Goto(p, l),
         l \notin {"scan", "calloc", "read", "write", "close"},
         KeepsEmpty(p), ArrayInv', filesys_lock' \in Proc \cup {NULL}
  PROVE  IInv'
<1> DEFINE f == [pc[p] EXCEPT !.at = l]
<1>1. pc' = [pc EXCEPT ![p] = f]
  BY DEF Goto
<1>2. "at" \in DOMAIN f /\ f.at = l
  BY DEF IInv, FrameOK
<1>3. FrameOK(f) /\ pc'[p] = f
  BY <1>1, <1>2 DEF FrameOK, IInv
<1>4. MakerInv(p)'
  BY <1>2, <1>3 DEF MakerInv
<1> HIDE DEF f
<1> QED
  BY <1>1, <1>3, <1>4, FrameStep

(* Steps that leave the table alone.                                       *)
LEMMA SameArray ==
  ASSUME IInv, UNCHANGED pipe_buffer_array, NEW p \in Proc
  PROVE  KeepsEmpty(p) /\ ArrayInv'
BY DEF IInv, ArrayInv, KeepsEmpty

LEMMA UserStep ==
  ASSUME IInv, NEW p \in Proc, pc' = [pc EXCEPT ![p] = User],
         UNCHANGED pipe_buffer_array, filesys_lock' \in Proc \cup {NULL}
  PROVE  IInv'
<1>1. FrameOK(User)
  BY DEF FrameOK, User
<1>2. MakerInv(p)'
  BY DEF MakerInv, User, IInv
<1> QED
  BY <1>1, <1>2, SameArray, FrameStep

-----------------------------------------------------------------------------
(* The steps on the table, and the queue that each pipe stands for.        *)
View(b) ==
  IF b = NULL THEN [ends |-> {}, data |-> <<>>] ELSE [ends |-> b.open, data |-> Data(b)]

LEMMA ChanIsView == Chan = [i \in Slot |-> View(pipe_buffer_array[i])]
BY DEF Chan, View

LEMMA Replace ==
  ASSUME ArrayInv, NEW i \in Slot, NEW r,
         pipe_buffer_array' = [pipe_buffer_array EXCEPT ![i] = r],
         r = NULL \/ (IsRing(r) /\ r.open # {})
  PROVE  ArrayInv' /\ Chan' = [Chan EXCEPT ![i] = View(r)]
<1>1. ASSUME NEW j \in Slot
      PROVE  pipe_buffer_array'[j] = IF j = i THEN r ELSE pipe_buffer_array[j]
  BY DEF ArrayInv
<1>2. r \in pipe_buffer \cup {NULL}
  BY DEF IsRing
<1>3. ArrayInv'
  <2>1. pipe_buffer_array' \in [Slot -> pipe_buffer \cup {NULL}]
    BY <1>2 DEF ArrayInv
  <2> QED
    BY <1>1, <2>1 DEF ArrayInv
<1>4. Chan' = [j \in Slot |-> View(pipe_buffer_array'[j])]
  BY DEF Chan, View, Data
<1>5. \A j \in Slot : View(pipe_buffer_array'[j]) = IF j = i THEN View(r) ELSE View(pipe_buffer_array[j])
  BY <1>1
<1> QED
  BY <1>3, <1>4, <1>5, ChanIsView

LEMMA FreshRing ==
  /\ IsRing(Fresh) /\ Fresh.open # {} /\ Fresh # NULL
  /\ View(Fresh) = [ends |-> Ends, data |-> <<>>]
<1>1. Zero \in Char
  BY PipeAssumption DEF Zero
<1>2. Fresh \in pipe_buffer
  BY <1>1, PipeAssumption DEF Fresh, pipe_buffer
<1>3. (Fresh.start + Fresh.size) % P = 0
  BY SizeIsNat DEF Fresh
<1>4. IsRing(Fresh) /\ Fresh.open = Ends /\ Fresh.size = 0
  BY <1>2, <1>3 DEF IsRing, Fresh
<1>5. Data(Fresh) = <<>>
  <2>1. Data(Fresh) \in Seq(Char) /\ Len(Data(Fresh)) = 0
    BY <1>4, DataIs
  <2> QED
    BY <2>1, EmptySeq
<1> QED
  BY <1>2, <1>4, <1>5, PipeAssumption DEF View, Ends

LEMMA RingOf ==
  ASSUME ArrayInv, NEW i \in Slot, pipe_buffer_array[i] # NULL
  PROVE  /\ IsRing(pipe_buffer_array[i]) /\ pipe_buffer_array[i].open # {}
         /\ pipe_buffer_array[i].size \in 0 .. P
         /\ Chan[i] = [ends |-> pipe_buffer_array[i].open, data |-> Data(pipe_buffer_array[i])]
BY ChanIsView DEF ArrayInv, View, IsRing, pipe_buffer, P

(* Assignments to fields, as one to the whole record.                      *)
Replaced(i, r) == [pipe_buffer_array EXCEPT ![i] = r]
SetStart(i, x, y) == [pipe_buffer_array EXCEPT ![i].start = x, ![i].size = y]

SetEnd(i, w, x, y) ==
  [pipe_buffer_array EXCEPT ![i].buffer = w, ![i].end = x, ![i].size = y]

LEMMA StartAndSize ==
  ASSUME ArrayInv, NEW i \in Slot, NEW x, NEW y, NEW b \in pipe_buffer, b = pipe_buffer_array[i]
  PROVE  SetStart(i, x, y) = Replaced(i, Ring(b.buffer, x, b.end, y, b.open))
<1> DEFINE c == [b EXCEPT !.start = x]
           d == [c EXCEPT !.size = y]
<1>1. b = Ring(b.buffer, b.start, b.end, b.size, b.open)
  BY DEF pipe_buffer, Ring
<1>2. c = Ring(b.buffer, x, b.end, b.size, b.open)
  BY <1>1 DEF Ring
<1> HIDE DEF c
<1>3. d = Ring(b.buffer, x, b.end, y, b.open)
  BY <1>2 DEF Ring
<1> HIDE DEF d
<1>4. SetStart(i, x, y) = Replaced(i, d)
  BY DEF ArrayInv, c, d, SetStart, Replaced
<1> QED
  BY <1>3, <1>4

LEMMA BufferEndAndSize ==
  ASSUME ArrayInv, NEW i \in Slot, NEW w, NEW x, NEW y,
         NEW b \in pipe_buffer, b = pipe_buffer_array[i]
  PROVE  SetEnd(i, w, x, y) = Replaced(i, Ring(w, b.start, x, y, b.open))
<1> DEFINE c == [b EXCEPT !.buffer = w]
           d == [c EXCEPT !.end = x]
           e == [d EXCEPT !.size = y]
<1>1. b = Ring(b.buffer, b.start, b.end, b.size, b.open)
  BY DEF pipe_buffer, Ring
<1>2. c = Ring(w, b.start, b.end, b.size, b.open)
  BY <1>1 DEF Ring
<1> HIDE DEF c
<1>3. d = Ring(w, b.start, x, b.size, b.open)
  BY <1>2 DEF Ring
<1> HIDE DEF d
<1>4. e = Ring(w, b.start, x, y, b.open)
  BY <1>3 DEF Ring
<1> HIDE DEF e
<1>5. SetEnd(i, w, x, y) = Replaced(i, e)
  BY DEF ArrayInv, c, d, e, SetEnd, Replaced
<1> QED
  BY <1>4, <1>5

LEMMA GetStep ==
  ASSUME IInv, NEW p \in Proc, pc[p].at = "read", Buffer(p) # NULL, Get(p)
  PROVE  ArrayInv' /\ KeepsEmpty(p) /\ \E i \in Slot : Fifo!Read(i)
<1> DEFINE i == pc[p].slot
           b == Buffer(p)
           n == Smaller(pc[p].size, b.size)
           r == Ring(b.buffer, (b.start + n) % P, b.end, b.size - n, b.open)
<1>1. ArrayInv /\ i \in Slot /\ pc[p].size \in Nat
  BY DEF IInv, FrameOK
<1>2. /\ IsRing(b) /\ b.open # {} /\ b.size \in 0 .. P /\ b = pipe_buffer_array[i]
      /\ Chan[i] = [ends |-> b.open, data |-> Data(b)]
  BY <1>1, RingOf DEF Buffer
<1>3. n \in 0 .. b.size
  BY <1>1, <1>2, SizeIsNat DEF Smaller
<1>4. pipe_buffer_array' = [pipe_buffer_array EXCEPT ![i] = r]
  <2>1. pipe_buffer_array' = SetStart(i, (b.start + n) % P, b.size - n)
    BY <1>2 DEF Get, Buffer, P, SetStart
  <2>2. b \in pipe_buffer
    BY <1>2 DEF IsRing
  <2>3. SetStart(i, (b.start + n) % P, b.size - n) = Replaced(i, r)
    BY <1>1, <1>2, <2>2, StartAndSize
  <2> QED
    BY <2>1, <2>3 DEF Replaced
<1>5. /\ IsRing(r)
      /\ Data(r) = SubSeq(Data(b), n + 1, Len(Data(b)))
      /\ [k \in 1 .. n |-> b.buffer[(b.start + k - 1) % P]] = SubSeq(Data(b), 1, n)
  BY <1>2, <1>3, GetRing
<1>6. r.open = b.open /\ r # NULL
  BY <1>5, PipeAssumption DEF Ring, IsRing
<1>7. moved' = SubSeq(Data(b), 1, n)
  BY <1>5 DEF Get, Buffer, P
<1>8. Len(Data(b)) = b.size
  BY <1>2, DataIs
<1> HIDE DEF r, n, b, i
<1>9. ArrayInv' /\ Chan' = [Chan EXCEPT ![i] = View(r)]
  BY <1>1, <1>2, <1>4, <1>5, <1>6, Replace
<1>10. KeepsEmpty(p)
  BY <1>1, <1>4 DEF KeepsEmpty, ArrayInv, b, i, Buffer
<1>11. View(r) = [ends |-> b.open, data |-> SubSeq(Data(b), n + 1, Len(Data(b)))]
  BY <1>5, <1>6 DEF View
<1>12. Fifo!Read(i)
  <2> DEFINE x == SubSeq(Data(b), n + 1, Len(Data(b)))
  <2>1. Chan' = [Chan EXCEPT ![i].data = x]
    <3> HIDE DEF x
    <3>1. [Chan EXCEPT ![i].data = x] = [Chan EXCEPT ![i] = [ends |-> b.open, data |-> x]]
      <4>1. [Chan[i] EXCEPT !.data = x] = [ends |-> b.open, data |-> x]
        BY <1>2
      <4> QED
        BY <4>1
    <3> QED
      BY <1>9, <1>11, <3>1 DEF x
  <2>2. Chan[i].ends # {} /\ Chan[i].data = Data(b)
    BY <1>2
  <2> QED
    BY <1>3, <1>7, <1>8, <2>1, <2>2 DEF Fifo!Read
<1> QED
  BY <1>1, <1>9, <1>10, <1>12 DEF i

LEMMA PutStep ==
  ASSUME IInv, NEW p \in Proc, pc[p].at = "write", Buffer(p) # NULL, Put(p)
  PROVE  ArrayInv' /\ KeepsEmpty(p) /\ \E i \in Slot : Fifo!Write(i)
<1> DEFINE i == pc[p].slot
           b == Buffer(p)
           s == pc[p].data
           n == Smaller(Len(s), P - b.size)
           r == Ring(Written(b, s, n), b.start, (b.end + n) % P, b.size + n, b.open)
<1>1. ArrayInv /\ i \in Slot /\ s \in Seq(Char)
  BY DEF IInv, FrameOK
<1>2. /\ IsRing(b) /\ b.open # {} /\ b.size \in 0 .. P /\ b = pipe_buffer_array[i]
      /\ Chan[i] = [ends |-> b.open, data |-> Data(b)]
  BY <1>1, RingOf DEF Buffer
<1>3. n \in 0 .. P - b.size /\ n <= Len(s)
  <2>1. Len(s) \in Nat
    BY <1>1, LenProperties
  <2> QED
    BY <1>2, <2>1, SizeIsNat DEF Smaller
<1>4. pipe_buffer_array' = [pipe_buffer_array EXCEPT ![i] = r]
  <2>1. pipe_buffer_array' = SetEnd(i, Written(b, s, n), (b.end + n) % P, b.size + n)
    BY <1>2 DEF Put, Buffer, P, SetEnd
  <2>2. b \in pipe_buffer
    BY <1>2 DEF IsRing
  <2>3. SetEnd(i, Written(b, s, n), (b.end + n) % P, b.size + n) = Replaced(i, r)
    BY <1>1, <1>2, <2>2, BufferEndAndSize
  <2> QED
    BY <2>1, <2>3 DEF Replaced
<1>5. IsRing(r) /\ Data(r) = Data(b) \o SubSeq(s, 1, n)
  BY <1>1, <1>2, <1>3, PutRing
<1>6. r.open = b.open /\ r # NULL
  BY <1>5, PipeAssumption DEF Ring, IsRing
<1>7. moved' = SubSeq(s, 1, n)
  BY DEF Put, Buffer, P
<1>8. Len(Data(b)) = b.size
  BY <1>2, DataIs
<1> HIDE DEF r, n, s, b, i
<1>9. ArrayInv' /\ Chan' = [Chan EXCEPT ![i] = View(r)]
  BY <1>1, <1>2, <1>4, <1>5, <1>6, Replace
<1>10. KeepsEmpty(p)
  BY <1>1, <1>4 DEF KeepsEmpty, ArrayInv, b, i, Buffer
<1>11. View(r) = [ends |-> b.open, data |-> Data(b) \o SubSeq(s, 1, n)]
  BY <1>5, <1>6 DEF View
<1>12. Fifo!Write(i)
  <2> DEFINE x == SubSeq(s, 1, n)
             y == Data(b) \o x
  <2>1. x \in [1 .. n -> Char]
    <3>1. x \in Seq(Char) /\ Len(x) = n
      BY <1>1, <1>2, <1>3, SizeIsNat
    <3> HIDE DEF x
    <3> QED
      BY <3>1, LenProperties
  <2> HIDE DEF x
  <2>2. Chan' = [Chan EXCEPT ![i].data = y]
    <3> HIDE DEF y
    <3>1. [Chan EXCEPT ![i].data = y] = [Chan EXCEPT ![i] = [ends |-> b.open, data |-> y]]
      <4>1. [Chan[i] EXCEPT !.data = y] = [ends |-> b.open, data |-> y]
        BY <1>2
      <4> QED
        BY <4>1
    <3> QED
      BY <1>9, <1>11, <3>1 DEF y, x
  <2>3. Chan[i].ends # {} /\ Chan[i].data = Data(b)
    BY <1>2
  <2>4. n \in 0 .. P - Len(Chan[i].data) /\ moved' = x
    BY <1>3, <1>7, <1>8, <2>3 DEF x
  <2> QED
    BY <2>1, <2>2, <2>3, <2>4 DEF Fifo!Write, P
<1> QED
  BY <1>1, <1>9, <1>10, <1>12 DEF i

LEMMA ShutStep ==
  ASSUME IInv, NEW p \in Proc, pc[p].at = "close", Buffer(p) # NULL, Shut(p), UNCHANGED moved
  PROVE  /\ ArrayInv' /\ KeepsEmpty(p)
         /\ Chan' = Chan \/ \E i \in Slot, e \in Ends : Fifo!Close(i, e)
<1> DEFINE i == pc[p].slot
           b == Buffer(p)
           e == pc[p].end
           open == b.open \ {e}
           d == Ring(b.buffer, b.start, b.end, b.size, open)
           r == IF open = {} THEN NULL ELSE d
<1>1. ArrayInv /\ i \in Slot /\ e \in Ends
  BY DEF IInv, FrameOK
<1>2. /\ IsRing(b) /\ b.open # {} /\ b \in pipe_buffer /\ b = pipe_buffer_array[i]
      /\ b.open \subseteq Ends /\ Chan[i] = [ends |-> b.open, data |-> Data(b)]
  BY <1>1, RingOf DEF Buffer, IsRing, pipe_buffer
<1>3. [b EXCEPT !.open = open] = d
  <2>1. b = Ring(b.buffer, b.start, b.end, b.size, b.open)
    BY <1>2 DEF pipe_buffer, Ring
  <2> HIDE DEF b
  <2> QED
    BY <2>1 DEF Ring
<1>4. pipe_buffer_array' = [pipe_buffer_array EXCEPT ![i] = r]
  <2>1. pipe_buffer_array' = [pipe_buffer_array EXCEPT
          ![i] = IF open = {} THEN NULL ELSE [pipe_buffer_array[i] EXCEPT !.open = open]]
    BY DEF Shut, Buffer
  <2> QED
    BY <1>2, <1>3, <2>1
<1>5. IsRing(d) /\ Data(d) = Data(b) /\ d.open = open /\ d # NULL
  <2>1. d \in pipe_buffer /\ d.end = (d.start + d.size) % P
    BY <1>2 DEF IsRing, Ring, pipe_buffer
  <2>2. Data(d) = Data(b)
    BY DEF Data, Ring
  <2> QED
    BY <2>1, <2>2, PipeAssumption DEF IsRing, Ring
<1> HIDE DEF d, b, i, e
<1>6. ArrayInv' /\ Chan' = [Chan EXCEPT ![i] = View(r)]
  <2>1. r = NULL \/ (IsRing(r) /\ r.open # {})
    BY <1>5
  <2> HIDE DEF r
  <2> QED
    BY <1>1, <1>4, <2>1, Replace
<1>7. KeepsEmpty(p)
  BY <1>1, <1>4 DEF KeepsEmpty, ArrayInv, b, i, Buffer
<1>8. View(r) = [ends |-> open, data |-> IF open = {} THEN <<>> ELSE Data(b)]
  BY <1>5 DEF View
<1>9. CASE e \notin b.open
  <2>1. open = b.open
    BY <1>9
  <2>2. View(r) = Chan[i]
    BY <1>2, <1>8, <2>1
  <2>3. Chan' = Chan
    BY <1>6, <2>2, ChanIsView
  <2> QED
    BY <1>6, <1>7, <2>3
<1>10. CASE e \in b.open
  <2> DEFINE x == IF Chan[i].ends = {e} THEN <<>> ELSE Chan[i].data
             c == [Chan[i] EXCEPT !.ends = Chan[i].ends \ {e}]
  <2>1. Chan[i].ends = b.open /\ Chan[i].data = Data(b)
    BY <1>2
  <2>2. View(r) = [ends |-> open, data |-> x]
    BY <1>8, <1>10, <2>1
  <2> HIDE DEF x
  <2>3. c = [ends |-> open, data |-> Data(b)]
    BY <1>2, <2>1
  <2> HIDE DEF c
  <2>4. [c EXCEPT !.data = x] = [ends |-> open, data |-> x]
    BY <2>3
  <2>5. Chan' = [Chan EXCEPT ![i].ends = Chan[i].ends \ {e}, ![i].data = x]
    BY <1>6, <2>2, <2>4, ChanIsView DEF c
  <2>6. Fifo!Close(i, e)
    BY <1>10, <2>1, <2>5 DEF Fifo!Close, x
  <2> QED
    BY <1>1, <1>6, <1>7, <2>6
<1> QED
  BY <1>9, <1>10

LEMMA StoreStep ==
  ASSUME IInv, NEW p \in Proc, Store(p)
  PROVE  ArrayInv' /\ KeepsEmpty(p) /\ (OneMaker => \E i \in Slot : Fifo!Create(i))
<1> DEFINE i == pc[p].slot
<1>1. /\ ArrayInv /\ i \in Slot /\ p \in Makers
      /\ OneMaker => pipe_buffer_array[i] = NULL
  BY DEF IInv, FrameOK, MakerInv, Store, In
<1>2. pipe_buffer_array' = [pipe_buffer_array EXCEPT ![i] = Fresh] /\ UNCHANGED moved
  BY DEF Store
<1> HIDE DEF i
<1>3. ArrayInv' /\ Chan' = [Chan EXCEPT ![i] = View(Fresh)]
  BY <1>1, <1>2, FreshRing, Replace
<1>4. OneMaker => Chan[i].ends = {}
  BY <1>1, ChanIsView DEF View
<1>5. OneMaker => Fifo!Create(i)
  BY <1>2, <1>3, <1>4, FreshRing DEF Fifo!Create, Fifo!Ends, Ends
<1> QED
  BY <1>1, <1>3, <1>5 DEF KeepsEmpty

-----------------------------------------------------------------------------
LEMMA InitInv == Init => IInv /\ Fifo!PipeInit
<1> SUFFICES ASSUME Init PROVE IInv /\ Fifo!PipeInit
  OBVIOUS
<1>1. ArrayInv
  BY DEF Init, ArrayInv
<1>2. \A p \in Proc : FrameOK(pc[p]) /\ MakerInv(p)
  BY DEF Init, User, FrameOK, MakerInv
<1>3. IInv
  BY <1>1, <1>2 DEF Init, IInv
<1>4. Fifo!PipeInit
  BY ChanIsView DEF Init, View, Fifo!PipeInit
<1> QED
  BY <1>3, <1>4

(* A step of p keeps the invariant and, with one maker, is a step of the   *)
(* queues or none.                                                         *)
Queue == Fifo!PipeNext \/ UNCHANGED <<Chan, moved>>

LEMMA NoQueueStep ==
  ASSUME UNCHANGED <<pipe_buffer_array, moved>> PROVE Queue
BY DEF Queue, Chan, Data

LEMMA PipeInv == ASSUME IInv, NEW p \in Proc, Pipe(p) PROVE IInv' /\ Queue
<1> DEFINE f == [at |-> "scan", slot |-> 0]
<1>1. pc' = [pc EXCEPT ![p] = f] /\ p \in Makers /\ UNCHANGED <<pipe_buffer_array, filesys_lock, moved>>
  BY DEF Pipe
<1>2. FrameOK(f)
  BY PipeAssumption DEF FrameOK
<1>3. MakerInv(p)'
  BY <1>1 DEF MakerInv, IInv
<1>4. filesys_lock' \in Proc \cup {NULL}
  BY <1>1 DEF IInv
<1> HIDE DEF f
<1> QED
  BY <1>1, <1>2, <1>3, <1>4, SameArray, FrameStep, NoQueueStep

LEMMA ScanInv == ASSUME IInv, NEW p \in Proc, Scan(p) PROVE IInv' /\ Queue
<1>1. /\ UNCHANGED <<pipe_buffer_array, filesys_lock, moved>>
      /\ pc[p].at = "scan" /\ filesys_lock' \in Proc \cup {NULL}
  BY DEF Scan, In, IInv
<1>2. FrameOK(pc[p]) /\ MakerInv(p) /\ DOMAIN pc = Proc
  BY DEF IInv
<1>3. pc[p].slot \in 0 .. MAX_PIPES /\ DOMAIN pc[p] = {"at", "slot"} /\ p \in Makers
  BY <1>1, <1>2 DEF FrameOK, MakerInv
<1>4. CASE pc[p].slot = MAX_PIPES
  <2>1. pc' = [pc EXCEPT ![p] = User]
    BY <1>4 DEF Scan
  <2> QED
    BY <1>1, <2>1, UserStep, NoQueueStep
<1>5. CASE pc[p].slot # MAX_PIPES /\ Buffer(p) = NULL
  <2> DEFINE f == [pc[p] EXCEPT !.at = "calloc"]
  <2>1. pc' = [pc EXCEPT ![p] = f]
    BY <1>5 DEF Scan, Goto
  <2>2. "at" \in DOMAIN f /\ f.at = "calloc" /\ f.slot = pc[p].slot
    BY <1>3
  <2>3. f.slot \in Slot
    BY <1>3, <1>5, <2>2, PipeAssumption DEF Slot
  <2> HIDE DEF f
  <2>4. FrameOK(f) /\ pc'[p] = f
    BY <1>2, <2>1, <2>2, <2>3 DEF FrameOK
  <2>5. MakerInv(p)'
    BY <1>1, <1>3, <1>5, <2>2, <2>4 DEF MakerInv, Buffer
  <2> QED
    BY <1>1, <2>1, <2>4, <2>5, SameArray, FrameStep, NoQueueStep
<1>6. CASE pc[p].slot # MAX_PIPES /\ Buffer(p) # NULL
  <2> DEFINE f == [pc[p] EXCEPT !.slot = pc[p].slot + 1]
  <2>1. pc' = [pc EXCEPT ![p] = f]
    BY <1>6 DEF Scan
  <2>2. DOMAIN f = {"at", "slot"} /\ f.at = "scan" /\ f.slot = pc[p].slot + 1
    BY <1>1, <1>3
  <2>3. f.slot \in 0 .. MAX_PIPES
    BY <1>3, <1>6, <2>2, PipeAssumption
  <2> HIDE DEF f
  <2>4. FrameOK(f) /\ pc'[p] = f
    BY <1>2, <2>1, <2>2, <2>3 DEF FrameOK
  <2>5. MakerInv(p)'
    BY <1>3, <2>2, <2>4 DEF MakerInv
  <2> QED
    BY <1>1, <2>1, <2>4, <2>5, SameArray, FrameStep, NoQueueStep
<1> QED
  BY <1>4, <1>5, <1>6

LEMMA AcquireInv == ASSUME IInv, NEW p \in Proc, Acquire(p) PROVE IInv' /\ Queue
<1>1. /\ UNCHANGED <<pipe_buffer_array, moved>> /\ filesys_lock' \in Proc \cup {NULL}
  BY DEF Acquire
<1>2. PICK i \in Slot, e \in Ends : \E c \in Calls(i, e) : pc' = [pc EXCEPT ![p] = c]
  BY DEF Acquire
<1>3. PICK c \in Calls(i, e) : pc' = [pc EXCEPT ![p] = c]
  BY <1>2
<1>4. FrameOK(c) /\ c.at \notin {"scan", "calloc"}
  <2>1. CASE c \in [at : {"read"}, slot : {i}, end : {e}, size : 0 .. MaxIO]
    BY <2>1, PipeAssumption DEF FrameOK
  <2>2. CASE c \in [at : {"write"}, slot : {i}, end : {e},
                    data : UNION {[1 .. n -> Char] : n \in 0 .. MaxIO}]
    <3>1. c.data \in Seq(Char)
      BY <2>2
    <3> QED
      BY <2>2, <3>1 DEF FrameOK
  <2>3. CASE c \in [at : {"close"}, slot : {i}, end : {e}]
    BY <2>3 DEF FrameOK
  <2> QED
    BY <2>1, <2>2, <2>3 DEF Calls
<1>5. MakerInv(p)'
  BY <1>3, <1>4 DEF MakerInv, IInv
<1> QED
  BY <1>1, <1>3, <1>4, <1>5, SameArray, FrameStep, NoQueueStep

(* The steps that leave the table and the last data moved as they are.     *)
LEMMA IdleInv ==
  ASSUME IInv, NEW p \in Proc,
         \/ CallocFails(p) \/ WrongEnd(p) \/ Release(p)
         \/ BadRead(p) \/ BadWrite(p) \/ BadCopy(p) \/ Exit(p)
  PROVE  IInv' /\ Queue
<1>1. UNCHANGED <<pipe_buffer_array, moved>>
  BY DEF CallocFails, WrongEnd, Release, BadRead, BadWrite, BadCopy, Exit
<1>2. filesys_lock' \in Proc \cup {NULL}
  BY DEF CallocFails, WrongEnd, Release, BadRead, BadWrite, BadCopy, Exit, IInv
<1>3. CASE CallocFails(p) \/ Release(p)
  <2>1. pc' = [pc EXCEPT ![p] = User]
    BY <1>3 DEF CallocFails, Release
  <2> QED
    BY <1>1, <1>2, <2>1, UserStep, NoQueueStep
<1>4. CASE WrongEnd(p)
  <2>1. Goto(p, "release")
    BY <1>4 DEF WrongEnd
  <2> QED
    BY <1>1, <1>2, <2>1, SameArray, PlainStep, NoQueueStep
<1>5. CASE BadRead(p) \/ BadWrite(p) \/ BadCopy(p) \/ Exit(p)
  <2>1. Goto(p, "gone")
    BY <1>5 DEF BadRead, BadWrite, BadCopy, Fault, Exit
  <2> QED
    BY <1>1, <1>2, <2>1, SameArray, PlainStep, NoQueueStep
<1> QED
  BY <1>3, <1>4, <1>5

LEMMA PanicInv == ASSUME IInv, Panic PROVE IInv' /\ Queue
BY NoQueueStep DEF Panic, IInv, ArrayInv, MakerInv, OneMaker

LEMMA StoreInv == ASSUME IInv, NEW p \in Proc, Store(p) PROVE IInv' /\ (OneMaker => Queue)
<1>1. ArrayInv' /\ KeepsEmpty(p) /\ (OneMaker => \E i \in Slot : Fifo!Create(i))
  BY StoreStep
<1>2. /\ pc' = [pc EXCEPT ![p] = User] \/ Goto(p, "gone")
      /\ filesys_lock' \in Proc \cup {NULL}
  BY DEF Store, Fault, IInv
<1>3. OneMaker => Queue
  BY <1>1 DEF Queue, Fifo!PipeNext
<1>4. CASE pc' = [pc EXCEPT ![p] = User]
  <2>1. FrameOK(User)
    BY DEF FrameOK, User
  <2>2. MakerInv(p)'
    BY <1>4 DEF MakerInv, User, IInv
  <2> QED
    BY <1>1, <1>2, <1>3, <1>4, <2>1, <2>2, FrameStep
<1>5. CASE Goto(p, "gone")
  BY <1>1, <1>2, <1>3, <1>5, PlainStep
<1> QED
  BY <1>2, <1>4, <1>5

LEMMA ReadInv == ASSUME IInv, NEW p \in Proc, Read(p) PROVE IInv' /\ Queue
<1>1. CASE Buffer(p) = NULL
  BY <1>1, PanicInv DEF Read
<1>2. CASE Buffer(p) # NULL
  <2>1. pc[p].at = "read" /\ Get(p) /\ Goto(p, "release") /\ filesys_lock' \in Proc \cup {NULL}
    BY <1>2 DEF Read, In, IInv
  <2>2. ArrayInv' /\ KeepsEmpty(p) /\ \E i \in Slot : Fifo!Read(i)
    BY <1>2, <2>1, GetStep
  <2>3. Queue
    BY <2>2 DEF Queue, Fifo!PipeNext
  <2> QED
    BY <2>1, <2>2, <2>3, PlainStep
<1> QED
  BY <1>1, <1>2

LEMMA WriteInv == ASSUME IInv, NEW p \in Proc, Write(p) PROVE IInv' /\ Queue
<1>1. CASE Buffer(p) = NULL
  BY <1>1, PanicInv DEF Write
<1>2. CASE Buffer(p) # NULL
  <2>1. pc[p].at = "write" /\ Put(p) /\ Goto(p, "release") /\ filesys_lock' \in Proc \cup {NULL}
    BY <1>2 DEF Write, In, IInv
  <2>2. ArrayInv' /\ KeepsEmpty(p) /\ \E i \in Slot : Fifo!Write(i)
    BY <1>2, <2>1, PutStep
  <2>3. Queue
    BY <2>2 DEF Queue, Fifo!PipeNext
  <2> QED
    BY <2>1, <2>2, <2>3, PlainStep
<1> QED
  BY <1>1, <1>2

LEMMA CloseInv == ASSUME IInv, NEW p \in Proc, Close(p) PROVE IInv' /\ Queue
<1>1. CASE Buffer(p) = NULL
  BY <1>1, PanicInv DEF Close
<1>2. CASE Buffer(p) # NULL
  <2>1. /\ pc[p].at = "close" /\ Shut(p) /\ Goto(p, "release") /\ UNCHANGED moved
        /\ filesys_lock' \in Proc \cup {NULL}
    BY <1>2 DEF Close, In, IInv
  <2>2. /\ ArrayInv' /\ KeepsEmpty(p)
        /\ Chan' = Chan \/ \E i \in Slot, e \in Ends : Fifo!Close(i, e)
    BY <1>2, <2>1, ShutStep
  <2>3. Queue
    BY <2>1, <2>2 DEF Queue, Fifo!PipeNext, Fifo!Ends, Ends
  <2> QED
    BY <2>1, <2>2, <2>3, PlainStep
<1> QED
  BY <1>1, <1>2

LEMMA NextInv == IInv /\ [Next]_vars => IInv' /\ (OneMaker => Queue)
<1> SUFFICES ASSUME IInv, [Next]_vars PROVE IInv' /\ (OneMaker => Queue)
  OBVIOUS
<1>1. CASE UNCHANGED vars
  BY <1>1, NoQueueStep DEF vars, IInv, ArrayInv, MakerInv, OneMaker
<1>2. CASE Next
  <2>1. PICK p \in Proc : Pipe(p) \/ Acquire(p) \/ Step(p) \/ BadRead(p) \/ BadWrite(p)
                        \/ BadCopy(p) \/ Exit(p)
    BY <1>2 DEF Next
  <2> QED
    BY <2>1, PipeInv, AcquireInv, ScanInv, StoreInv, ReadInv, WriteInv, CloseInv, IdleInv DEF Step
<1> QED
  BY <1>1, <1>2

-----------------------------------------------------------------------------
(* In every state the counters of every pipe agree: the next character is  *)
(* written size places after the next one read, within the buffer; however *)
(* many processes make and use pipes, and for any size of the buffer.      *)
THEOREM CountersAgree == Spec => []RingExact
<1>1. IInv => RingExact
  BY DEF IInv, ArrayInv, RingExact, PipeTypeOK, IsRing, P
<1> QED
  BY <1>1, InitInv, NextInv, PTL DEF Spec

(* If one process makes the pipes, read, write and close of each are those *)
(* of a bounded queue: nothing is lost, doubled or reordered by the wrap   *)
(* of the ring, and pipe takes no place that is in use.                    *)
THEOREM PipesAreQueues == ASSUME OneMaker PROVE Spec => PipeImplementsFifo
<1>1. Init => Fifo!PipeInit
  BY InitInv
<1>2. IInv /\ [Next]_vars => [Fifo!PipeNext]_<<Chan, moved>>
  BY NextInv DEF Queue
<1> QED
  BY <1>1, <1>2, InitInv, NextInv, PTL DEF Spec, PipeImplementsFifo, Fifo!Spec
==============================================================================
