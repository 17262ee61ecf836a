----------------------------- MODULE KernlibProofs -----------------------------
(***************************************************************************)
(* Proofs about two of the subjects of Kernlib.                            *)
(*                                                                         *)
(* Memory, for any number of threads, pages and sizes: bitmap_scan misses  *)
(* no free group of pages, though the bitmap changes under it.  The scan   *)
(* relies on the pool's lock: bits are cleared at any time, but set only   *)
(* by the thread that holds it.  malloc, realloc and free keep the heap    *)
(* exact: each page in use has one claimant, each block of an arena is on  *)
(* its list or with one thread, and an arena goes with its last block in   *)
(* use.  Between a page's arrival and the first block taken from it the    *)
(* descriptor's lock is held: that is what the invariant turns on.         *)
(*                                                                         *)
(* Layout, for any width of a word, any sizes of a page and of the user's  *)
(* space, any program headers and any partition tables.  load_segment's    *)
(* loop is a function of the number of turns it has made: that is the      *)
(* invariant, and what it enters follows from it.                          *)
(***************************************************************************)
EXTENDS Memory, Layout, SequenceTheorems, FiniteSetTheorems, WellFoundedInduction, TLAPS

(* A non-empty set of natural numbers has a least element, which Min gives.*)
LEMMA MinOfNats ==
  ASSUME NEW S, S \subseteq Nat, S # {}
  PROVE  Min(S) \in S /\ \A n \in S : Min(S) <= n
<1>1. PICK m \in S : \A n \in S : ~(<<n, m>> \in OpToRel(<, Nat))
  BY NatLessThanWellFounded, WFMin
<1>2. \A n \in S : m <= n
  <2> SUFFICES ASSUME NEW n \in S, n < m PROVE FALSE
    OBVIOUS
  <2> <<n, m>> \in OpToRel(<, Nat)
    BY DEF OpToRel
  <2> QED
    BY <1>1
<1> QED
  BY <1>1, <1>2 DEF Min

-----------------------------------------------------------------------------
(* Arithmetic.                                                             *)
LEMMA ModSmall ==
  ASSUME NEW a \in Nat, NEW b \in Nat, a < b
  PROVE  a % b = a
OBVIOUS

LEMMA ModOnce ==
  ASSUME NEW a \in Nat, NEW b \in Nat \ {0}, b <= a, a < b + b
  PROVE  a % b = a - b
OBVIOUS

LEMMA DivBounds ==
  ASSUME NEW a \in Nat, NEW b \in Nat \ {0}
  PROVE  a \div b \in Nat /\ (a \div b) * b <= a /\ a < (a \div b) * b + b
OBVIOUS

LEMMA MulLess ==
  ASSUME NEW j \in Nat, NEW k \in Nat, NEW b \in Nat \ {0}
  PROVE  j * b < k * b <=> j < k
OBVIOUS

LEMMA MulAdd ==
  ASSUME NEW j \in Nat, NEW k \in Nat, NEW b \in Nat
  PROVE  (j + k) * b = j * b + k * b /\ j * b \in Nat
OBVIOUS

-----------------------------------------------------------------------------
IsFrame(f) == DOMAIN f = {"at", "size", "old", "page", "cnt", "i", "seen"}

(* Where the scan is; and no group of cnt pages that starts at p was free. *)
First(f) == IF f.page = NULL THEN 0 ELSE f.page
Taken(p, cnt, seen) == (p .. p + cnt - 1) \cap seen # {}

ScanInv(t) ==
  LET f == pc[t]
  IN /\ pool_lock = t
     /\ f.cnt \in Nat \ {0} /\ First(f) \in Nat /\ f.i \in Nat /\ f.i < f.cnt
     /\ used_map \subseteq f.seen
     /\ \A p \in 0 .. First(f) - 1 : Taken(p, f.cnt, f.seen)

NullInv(t) ==
  LET f == pc[t]
  IN f.page = NULL /\ f.cnt > 0 => \A p \in 0 .. Pages - f.cnt : Taken(p, f.cnt, f.seen)

FrameInv(t) ==
  /\ IsFrame(pc[t])
  /\ At(t, "desc") \/ At(t, "pool") => pc[t].page = NULL /\ pc[t].i = 0
  /\ At(t, "pool") => pc[t].cnt \in Nat
  /\ At(t, "scan") => ScanInv(t)
  /\ At(t, "got") => NullInv(t)

MemoryInv ==
  /\ DOMAIN pc = Thread
  /\ \A t \in Thread : FrameInv(t)

MemorySpec == MemoryInit /\ [][MemoryNext]_memoryVars

-----------------------------------------------------------------------------
LEMMA PageCount == \A size \in Requests : page_cnt(size) \in Nat
<1> SUFFICES ASSUME NEW size \in Requests PROVE page_cnt(size) \in Nat
  OBVIOUS
<1>1. /\ size \in Nat /\ Header \in Nat /\ SizeWord \in Nat \ {0} /\ PGSIZE \in Nat \ {0}
  BY MemoryAssumption
<1>2. (size + Header) % SizeWord \in Nat
  BY <1>1
<1>3. (((size + Header) % SizeWord) + PGSIZE - 1) % SizeWord \in Nat
  BY <1>1, <1>2
<1> QED
  BY <1>1, <1>3 DEF page_cnt

(* A step of thread t leaves the others' frames alone, and so what is true *)
(* of them, if it sets no bit or no other thread is in a scan.             *)
LEMMA OthersInv ==
  ASSUME MemoryInv, NEW t \in Thread, NEW f, Goto(t, f),
         \/ used_map' \subseteq used_map /\ pool_lock' = pool_lock
         \/ \A u \in Thread : u # t => ~At(u, "scan")
  PROVE  /\ DOMAIN pc' = Thread /\ pc'[t] = f
         /\ \A u \in Thread : u # t => FrameInv(u)'
<1>1. DOMAIN pc' = Thread /\ pc'[t] = f
  BY DEF MemoryInv, Goto
<1>2. ASSUME NEW u \in Thread, u # t PROVE FrameInv(u)'
  <2>1. pc'[u] = pc[u] /\ FrameInv(u)
    BY <1>2 DEF MemoryInv, Goto
  <2>2. At(u, "scan") => ScanInv(u)'
    BY <1>2, <2>1 DEF FrameInv, ScanInv, At
  <2> QED
    BY <2>1, <2>2 DEF FrameInv, NullInv, At
<1> QED
  BY <1>1, <1>2

(* Frames that are in neither half of palloc_get_multiple.                 *)
LEMMA PlainInv ==
  ASSUME MemoryInv, NEW t \in Thread, NEW f, Goto(t, f), IsFrame(f),
         f.at \notin {"desc", "pool", "scan", "got"},
         used_map' \subseteq used_map, pool_lock' = pool_lock
  PROVE  MemoryInv'
<1>1. /\ DOMAIN pc' = Thread /\ pc'[t] = f
      /\ \A u \in Thread : u # t => FrameInv(u)'
  BY OthersInv
<1>2. FrameInv(t)'
  BY <1>1 DEF FrameInv, At
<1> QED
  BY <1>1, <1>2 DEF MemoryInv

LEMMA ThreadNotNull == NULL \notin Thread
BY MemoryAssumption

LEMMA ScanningAlone ==
  ASSUME MemoryInv, NEW t \in Thread, NEW u \in Thread, At(t, "scan"), At(u, "scan")
  PROVE  t = u
BY DEF MemoryInv, FrameInv, ScanInv

-----------------------------------------------------------------------------
(* The steps that look for pages.                                          *)
LEMMA LookInv ==
  ASSUME MemoryInv, NEW t \in Thread,
         Malloc(t) \/ GetPages(t) \/ LockDesc(t)
  PROVE  MemoryInv'
<1>1. used_map' = used_map /\ pool_lock' = pool_lock
  BY DEF Malloc, GetPages, LockDesc
<1>2. ASSUME NEW f, Goto(t, f), IsFrame(f), f.at \in {"desc", "pool", "pop"},
             f.at = "pool" => f.cnt \in Nat, f.page = NULL, f.i = 0
      PROVE  MemoryInv'
  <2>1. /\ DOMAIN pc' = Thread /\ pc'[t] = f
        /\ \A u \in Thread : u # t => FrameInv(u)'
    BY <1>1, <1>2, OthersInv
  <2>2. FrameInv(t)'
    BY <1>2, <2>1 DEF FrameInv, At
  <2> QED
    BY <2>1, <2>2 DEF MemoryInv
<1>3. CASE Malloc(t)
  <2>0. PICK size \in Requests : \E old \in {x \in held[t] : x.kind = "block"} \cup {NULL} :
                   Goto(t, IF Small(size) THEN Frame("desc", size, old)
                           ELSE [Frame("pool", size, old) EXCEPT !.cnt = page_cnt(size)])
    BY <1>3 DEF Malloc
  <2>1. PICK old \in {x \in held[t] : x.kind = "block"} \cup {NULL} :
                   Goto(t, IF Small(size) THEN Frame("desc", size, old)
                           ELSE [Frame("pool", size, old) EXCEPT !.cnt = page_cnt(size)])
    BY <2>0
  <2>2. CASE Small(size)
    <3> DEFINE f == Frame("desc", size, old)
    <3>1. Goto(t, f)
      BY <2>1, <2>2
    <3>2. IsFrame(f) /\ f.at = "desc" /\ f.page = NULL /\ f.i = 0
      BY DEF Frame, IsFrame
    <3> HIDE DEF f
    <3> QED
      BY <1>2, <3>1, <3>2
  <2>3. CASE ~Small(size)
    <3> DEFINE f == [Frame("pool", size, old) EXCEPT !.cnt = page_cnt(size)]
    <3>1. Goto(t, f)
      BY <2>1, <2>3
    <3>2. IsFrame(f) /\ f.at = "pool" /\ f.cnt \in Nat /\ f.page = NULL /\ f.i = 0
      BY PageCount DEF Frame, IsFrame
    <3> HIDE DEF f
    <3> QED
      BY <1>2, <3>1, <3>2
  <2> QED
    BY <2>2, <2>3
<1>4. CASE GetPages(t)
  <2>1. PICK cnt \in 1 .. 2 : Goto(t, [Frame("pool", 0, NULL) EXCEPT !.cnt = cnt])
    BY <1>4 DEF GetPages
  <2> DEFINE f == [Frame("pool", 0, NULL) EXCEPT !.cnt = cnt]
  <2>2. IsFrame(f) /\ f.at = "pool" /\ f.cnt \in Nat /\ f.page = NULL /\ f.i = 0
    BY DEF Frame, IsFrame
  <2>3. Goto(t, f)
    BY <2>1
  <2> HIDE DEF f
  <2> QED
    BY <1>2, <2>2, <2>3
<1>5. CASE LockDesc(t)
  <2>1. IsFrame(pc[t]) /\ pc[t].page = NULL /\ pc[t].i = 0
    BY <1>5 DEF LockDesc, MemoryInv, FrameInv
  <2>2. CASE free_list[desc_of(pc[t].size)] = <<>>
    <3> DEFINE f == [pc[t] EXCEPT !.at = "pool", !.cnt = 1]
    <3>1. Goto(t, f)
      BY <1>5, <2>2 DEF LockDesc
    <3>2. IsFrame(f) /\ f.at = "pool" /\ f.cnt = 1 /\ f.page = NULL /\ f.i = 0
      BY <2>1 DEF IsFrame
    <3> HIDE DEF f
    <3> QED
      BY <1>2, <3>1, <3>2
  <2>3. CASE free_list[desc_of(pc[t].size)] # <<>>
    <3> DEFINE f == [pc[t] EXCEPT !.at = "pop"]
    <3>1. Goto(t, f)
      BY <1>5, <2>3 DEF LockDesc
    <3>2. IsFrame(f) /\ f.at = "pop" /\ f.page = NULL /\ f.i = 0
      BY <2>1 DEF IsFrame
    <3> HIDE DEF f
    <3> QED
      BY <1>2, <3>1, <3>2
  <2> QED
    BY <2>2, <2>3
<1> QED
  BY <1>3, <1>4, <1>5

LEMMA LockPoolInv ==
  ASSUME MemoryInv, NEW t \in Thread, LockPool(t)
  PROVE  MemoryInv'
<1>1. IsFrame(pc[t]) /\ pc[t].page = NULL /\ pc[t].i = 0 /\ pc[t].cnt \in Nat
  BY DEF LockPool, MemoryInv, FrameInv
<1>2. used_map' = used_map
  BY DEF LockPool
<1>3. CASE pc[t].cnt = 0
  <2> DEFINE f == [pc[t] EXCEPT !.at = "got"]
  <2>1. Goto(t, f) /\ pool_lock' = pool_lock
    BY <1>3 DEF LockPool
  <2>2. IsFrame(f) /\ f.at = "got" /\ f.cnt = 0
    BY <1>1, <1>3 DEF IsFrame
  <2> HIDE DEF f
  <2>3. /\ DOMAIN pc' = Thread /\ pc'[t] = f
        /\ \A u \in Thread : u # t => FrameInv(u)'
    BY <1>2, <2>1, OthersInv
  <2>4. FrameInv(t)'
    BY <2>2, <2>3 DEF FrameInv, At, NullInv
  <2> QED
    BY <2>3, <2>4 DEF MemoryInv
<1>4. CASE pc[t].cnt # 0
  <2> DEFINE f == [pc[t] EXCEPT !.at = "scan", !.seen = used_map]
  <2>1. Goto(t, f) /\ pool_lock = NULL /\ pool_lock' = t
    BY <1>4 DEF LockPool
  <2>2. /\ IsFrame(f) /\ f.at = "scan" /\ f.cnt \in Nat \ {0} /\ f.page = NULL /\ f.i = 0
        /\ f.seen = used_map
    BY <1>1, <1>4 DEF IsFrame
  <2> HIDE DEF f
  <2>3. ASSUME NEW u \in Thread, u # t PROVE ~At(u, "scan")
    BY <2>1, <2>3, ThreadNotNull DEF MemoryInv, FrameInv, ScanInv
  <2>4. /\ DOMAIN pc' = Thread /\ pc'[t] = f
        /\ \A u \in Thread : u # t => FrameInv(u)'
    BY <2>1, <2>3, OthersInv
  <2>5. ScanInv(t)'
    BY <1>2, <2>1, <2>2, <2>4 DEF ScanInv, First
  <2>6. FrameInv(t)'
    BY <2>2, <2>4, <2>5 DEF FrameInv, At
  <2> QED
    BY <2>4, <2>6 DEF MemoryInv
<1> QED
  BY <1>3, <1>4

LEMMA ScanStepInv ==
  ASSUME MemoryInv, NEW t \in Thread, Scan(t)
  PROVE  MemoryInv'
<1> DEFINE f == pc[t]
           first == First(f)
<1>1. /\ IsFrame(f) /\ f.at = "scan" /\ ScanInv(t) /\ Pages \in Nat
      /\ f.cnt \in Nat \ {0} /\ first \in Nat /\ f.i \in Nat /\ f.i < f.cnt
      /\ used_map \subseteq f.seen
      /\ \A p \in 0 .. first - 1 : Taken(p, f.cnt, f.seen)
  BY MemoryAssumption DEF Scan, At, MemoryInv, FrameInv, ScanInv
<1>2. \A u \in Thread : u # t => ~At(u, "scan")
  BY <1>1, ScanningAlone DEF At
<1>3. ASSUME NEW g, Goto(t, g)
      PROVE  /\ DOMAIN pc' = Thread /\ pc'[t] = g
             /\ \A u \in Thread : u # t => FrameInv(u)'
  BY <1>2, <1>3, OthersInv
<1>4. CASE first > LastStart(f.cnt)
  <2> DEFINE g == [f EXCEPT !.at = "got", !.page = NULL]
  <2>1. Goto(t, g)
    BY <1>1, <1>4 DEF Scan, First, LastStart
  <2>2. IsFrame(g) /\ g.cnt = f.cnt /\ g.seen = f.seen /\ g.at = "got" /\ g.page = NULL
    BY <1>1 DEF IsFrame
  <2> HIDE DEF g
  <2>3. \A p \in 0 .. Pages - f.cnt : Taken(p, f.cnt, f.seen)
    BY <1>1, <1>4 DEF LastStart
  <2>4. FrameInv(t)'
    BY <1>3, <2>1, <2>2, <2>3 DEF FrameInv, At, NullInv
  <2> QED
    BY <1>3, <2>1, <2>4 DEF MemoryInv
<1>5. CASE first <= LastStart(f.cnt) /\ first + f.i \in used_map
  <2> DEFINE g == [f EXCEPT !.page = first + 1, !.i = 0]
  <2>1. Goto(t, g) /\ used_map' = used_map /\ pool_lock' = pool_lock
    BY <1>1, <1>5 DEF Scan, First, LastStart
  <2>2. IsFrame(g) /\ g.cnt = f.cnt /\ g.seen = f.seen /\ g.at = "scan" /\ g.page = first + 1 /\ g.i = 0
    BY <1>1 DEF IsFrame
  <2> HIDE DEF g
  <2>3. \A p \in 0 .. (first + 1) - 1 : Taken(p, f.cnt, f.seen)
    <3>1. first + f.i \in (first .. first + f.cnt - 1) \cap f.seen
      BY <1>1, <1>5
    <3>2. Taken(first, f.cnt, f.seen)
      BY <3>1 DEF Taken
    <3> QED
      BY <1>1, <3>2
  <2>4. first + 1 # NULL
    BY <1>1, <1>5, MemoryAssumption DEF LastStart
  <2>5. ScanInv(t)'
    BY <1>1, <1>3, <2>1, <2>2, <2>3, <2>4 DEF ScanInv, First
  <2>6. FrameInv(t)'
    BY <1>3, <2>1, <2>2, <2>5 DEF FrameInv, At
  <2> QED
    BY <1>3, <2>1, <2>6 DEF MemoryInv
<1>6. CASE first <= LastStart(f.cnt) /\ first + f.i \notin used_map /\ f.i + 1 < f.cnt
  <2> DEFINE g == [f EXCEPT !.i = @ + 1]
  <2>1. Goto(t, g) /\ used_map' = used_map /\ pool_lock' = pool_lock
    BY <1>1, <1>6 DEF Scan, First, LastStart
  <2>2. IsFrame(g) /\ g.cnt = f.cnt /\ g.seen = f.seen /\ g.at = "scan" /\ g.page = f.page /\ g.i = f.i + 1
    BY <1>1 DEF IsFrame
  <2> HIDE DEF g
  <2>3. ScanInv(t)'
    BY <1>1, <1>3, <1>6, <2>1, <2>2 DEF ScanInv, First
  <2>4. FrameInv(t)'
    BY <1>3, <2>1, <2>2, <2>3 DEF FrameInv, At
  <2> QED
    BY <1>3, <2>1, <2>4 DEF MemoryInv
<1>7. CASE first <= LastStart(f.cnt) /\ first + f.i \notin used_map /\ ~(f.i + 1 < f.cnt)
  <2> DEFINE g == [f EXCEPT !.at = "got", !.page = first, !.i = 0]
  <2>1. Goto(t, g)
    BY <1>1, <1>7 DEF Scan, First, LastStart
  <2>2. IsFrame(g) /\ g.cnt = f.cnt /\ g.seen = f.seen /\ g.at = "got" /\ g.page = first
    BY <1>1 DEF IsFrame
  <2> HIDE DEF g
  <2>3. first # NULL
    BY <1>1, <1>7, MemoryAssumption DEF LastStart
  <2>4. FrameInv(t)'
    BY <1>3, <2>1, <2>2, <2>3 DEF FrameInv, At, NullInv
  <2> QED
    BY <1>3, <2>1, <2>4 DEF MemoryInv
<1> QED
  BY <1>1, <1>4, <1>5, <1>6, <1>7 DEF LastStart

-----------------------------------------------------------------------------
(* The other steps.                                                        *)
Plain(f) == IsFrame(f) /\ f.at \notin {"desc", "pool", "scan", "got"}

LEMMA PlainFrames ==
  /\ Plain(User)
  /\ \A old : Plain(Frame("free", 0, old))
  /\ \A size, old : Plain(Frame("pop", size, old))
  /\ \A page, cnt : Plain([Frame("clear", 0, NULL) EXCEPT !.page = page, !.cnt = cnt])
  /\ \A page, cnt : Plain([[Frame("clear", 0, NULL) EXCEPT !.page = page] EXCEPT !.cnt = cnt])
  /\ \A page, cnt, size :
       Plain([[Frame("clear", 0, NULL) EXCEPT !.page = page] EXCEPT !.cnt = cnt, !.size = size])
BY DEF Plain, User, Frame, IsFrame

LEMMA PlainStepInv ==
  ASSUME MemoryInv, NEW t \in Thread,
         Got(t) \/ Pop(t) \/ Free(t) \/ FreeBlock(t) \/ ClearBit(t)
  PROVE  MemoryInv'
<1>1. SUFFICES \E f : Goto(t, f) /\ Plain(f)
  <2>1. used_map' \subseteq used_map /\ pool_lock' = pool_lock
    BY DEF Got, Pop, Free, FreeBlock, ClearBit
  <2> QED
    BY <1>1, <2>1, PlainInv DEF Plain
<1>2. ASSUME NEW b, Return(t, b) PROVE \E f : Goto(t, f) /\ Plain(f)
  BY <1>2, PlainFrames DEF Return
<1>3. CASE Got(t)
  <2>1. Goto(t, User) \/ (\E b : Return(t, b)) \/ Goto(t, Frame("pop", pc[t].size, pc[t].old))
    BY <1>3 DEF Got
  <2>2. Plain(User) /\ Plain(Frame("pop", pc[t].size, pc[t].old))
    BY PlainFrames
  <2> QED
    BY <1>2, <2>1, <2>2, Zenon
<1>4. CASE Pop(t)
  BY <1>2, <1>4 DEF Pop
<1>5. CASE Free(t)
  BY <1>5, PlainFrames DEF Free
<1>6. CASE FreeBlock(t)
  <2> DEFINE c(page) == [Frame("clear", 0, NULL) EXCEPT !.page = page]
  <2>1. \/ Goto(t, [c(pc[t].old.block[1]) EXCEPT !.cnt = arena[pc[t].old.block[1]].free_cnt])
        \/ Goto(t, [c(pc[t].old.block[1]) EXCEPT !.cnt = 1, !.size = arena[pc[t].old.block[1]].desc[1]])
        \/ Goto(t, User)
    BY <1>6, Zenon DEF FreeBlock
  <2>2. CASE Goto(t, User)
    BY <2>2, PlainFrames
  <2>3. CASE Goto(t, [c(pc[t].old.block[1]) EXCEPT !.cnt = arena[pc[t].old.block[1]].free_cnt])
    BY <2>3, PlainFrames, Zenon
  <2>4. CASE Goto(t, [c(pc[t].old.block[1]) EXCEPT !.cnt = 1, !.size = arena[pc[t].old.block[1]].desc[1]])
    BY <2>4, PlainFrames, Zenon
  <2> QED
    BY <2>1, <2>2, <2>3, <2>4
<1>7. CASE ClearBit(t)
  <2> DEFINE f == [pc[t] EXCEPT !.page = @ + 1, !.cnt = @ - 1]
  <2>1. Goto(t, f) \/ Goto(t, User)
    BY <1>7 DEF ClearBit
  <2>2. IsFrame(pc[t]) /\ pc[t].at = "clear"
    BY <1>7 DEF ClearBit, At, MemoryInv, FrameInv
  <2>3. Plain(f)
    BY <2>2 DEF Plain, IsFrame
  <2> HIDE DEF f
  <2>4. CASE Goto(t, f)
    BY <2>3, <2>4
  <2>5. CASE Goto(t, User)
    BY <2>5, PlainFrames
  <2> QED
    BY <2>1, <2>4, <2>5
<1> QED
  BY <1>3, <1>4, <1>5, <1>6, <1>7

-----------------------------------------------------------------------------
LEMMA MemoryInitInv == MemoryInit => MemoryInv
BY DEF MemoryInit, MemoryInv, FrameInv, IsFrame, At, User, Frame

LEMMA MemoryStepInv == MemoryInv /\ [MemoryNext]_memoryVars => MemoryInv'
<1> SUFFICES ASSUME MemoryInv, [MemoryNext]_memoryVars PROVE MemoryInv'
  OBVIOUS
<1>1. CASE UNCHANGED memoryVars
  BY <1>1 DEF memoryVars, MemoryInv, FrameInv, ScanInv, NullInv, At
<1>2. CASE MemoryNext
  BY <1>2, LookInv, LockPoolInv, ScanStepInv, PlainStepInv DEF MemoryNext
<1> QED
  BY <1>1, <1>2

(* The invariant: whoever scans holds the pool's lock, so that the bits    *)
(* that are set are among those that were set when he began, and each      *)
(* place he has left behind has such a bit in its group.                   *)
THEOREM ScanInvariant == MemorySpec => []MemoryInv
<1> QED
  BY MemoryInitInv, MemoryStepInv, PTL DEF MemorySpec

(* bitmap_scan under the pool's lock misses no free group of pages: a NULL *)
(* from palloc_get_multiple means that none was free when the look began.  *)
THEOREM NoGroupMissed == MemorySpec => []NullOnlyIfNone
<1>1. MemoryInv => NullOnlyIfNone
  BY DEF MemoryInv, FrameInv, NullInv, NullOnlyIfNone, Taken, At
<1> QED
  BY <1>1, ScanInvariant, PTL

-----------------------------------------------------------------------------
(***************************************************************************)
(* The heap.  What is said of blocks and of pages below the lists.         *)
(***************************************************************************)
LEMMA DescIs ==
  /\ \A d \in Desc : /\ d \in Nat \ {0} /\ d \in 0 .. PGSIZE
                     /\ blocks_per_arena(d) \in Nat \ {0}
  /\ \A size \in Nat : Small(size) => desc_of(size) \in Desc /\ size <= desc_of(size)
<1>1. ASSUME NEW d \in Desc
      PROVE  d \in Nat \ {0} /\ d \in 0 .. PGSIZE /\ blocks_per_arena(d) \in Nat \ {0}
  <2>1. PICK k \in Nat \ {0} : d = Smallest * k
    BY DEF Desc
  <2>2. Smallest \in Nat \ {0} /\ PGSIZE \in Nat /\ Header \in Nat /\ Header + Header <= PGSIZE
    BY MemoryAssumption
  <2>3. d \in Nat \ {0}
    BY <2>1, <2>2
  <2>4. d < PGSIZE \div 2
    BY DEF Desc
  <2>5. d + d <= PGSIZE /\ PGSIZE - Header \in Nat
    BY <2>2, <2>3, <2>4
  <2>6. d <= PGSIZE - Header
    BY <2>2, <2>3, <2>5
  <2> DEFINE n == (PGSIZE - Header) \div d
  <2>7. n \in Nat /\ PGSIZE - Header < n * d + d
    BY <2>3, <2>5, DivBounds
  <2> HIDE DEF n
  <2>8. n # 0
    BY <2>3, <2>5, <2>6, <2>7
  <2> QED
    BY <2>2, <2>3, <2>5, <2>7, <2>8 DEF blocks_per_arena, n
<1>2. ASSUME NEW size \in Nat, Small(size)
      PROVE  desc_of(size) \in Desc /\ size <= desc_of(size)
  <2> DEFINE D == {d \in Desc : d >= size}
  <2>1. D \subseteq Nat /\ D # {}
    BY <1>1, <1>2 DEF Small
  <2>2. Min(D) \in D
    BY <2>1, MinOfNats
  <2> QED
    BY <2>2 DEF desc_of
<1> QED
  BY <1>1, <1>2

(* Unless the sum of a size and the header exceeds a word, so many pages   *)
(* hold both, or none are asked for.                                       *)
NoneWraps == \A size \in Requests : size + Header <= SizeWord

LEMMA PagesHold ==
  ASSUME NoneWraps, NEW size \in Requests, page_cnt(size) > 0
  PROVE  size <= PGSIZE * page_cnt(size) - Header
<1> DEFINE x == size + Header
           y == x % SizeWord
           z == (y + PGSIZE - 1) % SizeWord
<1>1. /\ size \in Nat \ {0} /\ Header \in Nat /\ SizeWord \in Nat \ {0} /\ PGSIZE \in Nat \ {0}
      /\ PGSIZE <= SizeWord /\ size < SizeWord /\ x <= SizeWord /\ x \in Nat
  <2>1. /\ size \in 1 .. SizeWord - 1 /\ SizeWord \in Nat /\ Header \in Nat /\ PGSIZE \in Nat
        /\ PGSIZE <= SizeWord /\ Smallest \in Nat \ {0} /\ Header + Smallest <= PGSIZE
    BY MemoryAssumption
  <2>2. PGSIZE # 0 /\ SizeWord # 0
    BY <2>1
  <2> QED
    BY <2>1, <2>2 DEF NoneWraps
<1>2. page_cnt(size) = z \div PGSIZE
  BY DEF page_cnt
<1>3. y + PGSIZE - 1 \in Nat /\ y \in Nat /\ y = IF x = SizeWord THEN 0 ELSE x
  <2>1. CASE x = SizeWord
    <3>1. y = 0
      BY <1>1, <2>1, ModOnce
    <3> QED
      BY <1>1, <2>1, <3>1
  <2>2. CASE x # SizeWord
    <3>1. y = x
      BY <1>1, <2>2, ModSmall
    <3> QED
      BY <1>1, <2>2, <3>1
  <2> QED
    BY <2>1, <2>2
<1> HIDE DEF y
<1>4. CASE y + PGSIZE - 1 < SizeWord
  <2>1. z = y + PGSIZE - 1
    BY <1>1, <1>3, <1>4, ModSmall
  <2>2. /\ z \div PGSIZE \in Nat /\ z < (z \div PGSIZE) * PGSIZE + PGSIZE
        /\ (z \div PGSIZE) * PGSIZE <= z
    BY <1>1, <1>3, <2>1, DivBounds
  <2> DEFINE q == z \div PGSIZE
  <2> HIDE DEF q, z
  <2>3. q \in Nat /\ q * PGSIZE = PGSIZE * q /\ q * PGSIZE \in Nat /\ q > 0
    BY <1>1, <1>2, <2>2 DEF q
  <2>4. PGSIZE <= q * PGSIZE
    BY <1>1, <2>3
  <2>5. x # SizeWord
    BY <1>1, <1>3, <2>1, <2>2, <2>4 DEF q
  <2> QED
    BY <1>1, <1>2, <1>3, <2>1, <2>2, <2>3, <2>5 DEF q
<1>5. CASE ~(y + PGSIZE - 1 < SizeWord)
  <2>1. z = y + PGSIZE - 1 - SizeWord
    <3>1. y + PGSIZE - 1 < SizeWord + SizeWord
      BY <1>1, <1>3
    <3> DEFINE a == y + PGSIZE - 1
    <3>2. a \in Nat /\ SizeWord <= a /\ a < SizeWord + SizeWord
      BY <1>1, <1>3, <1>5, <3>1
    <3> HIDE DEF a
    <3>3. a % SizeWord = a - SizeWord
      BY <1>1, <3>2, ModOnce
    <3> QED
      BY <1>1, <1>3, <3>3 DEF a
  <2>2. z \in Nat /\ z < PGSIZE
    BY <1>1, <1>3, <1>5, <2>1
  <2> HIDE DEF z
  <2>3. z \div PGSIZE = 0
    BY <1>1, <2>2
  <2> QED
    BY <1>2, <2>3
<1> QED
  BY <1>4, <1>5

-----------------------------------------------------------------------------
(* What stays of a list when the blocks of a page go.                      *)
LEMMA WithoutIs ==
  ASSUME NEW S, NEW list \in Seq(S), NEW p
  PROVE  /\ Without(list, p) \in Seq(S)
         /\ ToSet(Without(list, p)) = {b \in ToSet(list) : b[1] # p}
         /\ IsInjective(list) => IsInjective(Without(list, p))
<1> DEFINE kept == {i \in DOMAIN list : list[i][1] # p}
           below(i) == {j \in kept : j <= i}
           place(i) == Cardinality(below(i))
           n == Cardinality(kept)
           from(k) == CHOOSE i \in kept : place(i) = k
           f == [i \in kept |-> place(i)]
           r == [k \in 1 .. n |-> list[from(k)]]
<1>1. DOMAIN list = 1 .. Len(list) /\ Len(list) \in Nat /\ \A i \in DOMAIN list : list[i] \in S
  BY LenProperties
<1>2. IsFiniteSet(kept) /\ n \in Nat
  <2>1. IsFiniteSet(1 .. Len(list)) /\ kept \in SUBSET (1 .. Len(list))
    BY <1>1, FS_Interval
  <2>2. IsFiniteSet(kept)
    BY <2>1, FS_Subset
  <2> QED
    BY <2>2, FS_CardinalityType
<1>3. ASSUME NEW i \in kept
      PROVE  /\ IsFiniteSet(below(i)) /\ place(i) \in 1 .. n
             /\ \A j \in kept : i < j => place(i) < place(j)
  <2>1. \A j \in kept : IsFiniteSet(below(j)) /\ place(j) \in Nat /\ place(j) <= n
    <3> TAKE j \in kept
    <3>1. below(j) \in SUBSET kept
      OBVIOUS
    <3>2. IsFiniteSet(below(j)) /\ place(j) <= n
      BY <1>2, <3>1, FS_Subset
    <3> QED
      BY <3>2, FS_CardinalityType
  <2>2. place(i) # 0
    <3>1. i \in below(i)
      BY <1>1
    <3> QED
      BY <2>1, <3>1, FS_EmptySet
  <2>3. ASSUME NEW j \in kept, i < j PROVE place(i) < place(j)
    <3>1. below(i) \in SUBSET below(j) /\ j \in below(j) /\ j \notin below(i)
      BY <1>1, <2>3
    <3>2. place(i) <= place(j) /\ place(i) # place(j)
      BY <2>1, <3>1, FS_Subset
    <3>3. place(i) \in Nat /\ place(j) \in Nat
      BY <2>1
    <3> HIDE DEF place
    <3> QED
      BY <3>2, <3>3
  <2>4. IsFiniteSet(below(i)) /\ place(i) \in Nat /\ place(i) <= n
    BY <2>1
  <2> HIDE DEF place, n
  <2> QED
    BY <1>2, <2>2, <2>3, <2>4
<1> HIDE DEF below
<1>4. f \in Injection(kept, 1 .. n)
  <2>1. \A i, j \in kept : place(i) = place(j) => i = j
    <3> TAKE i, j \in kept
    <3>1. i \in Int /\ j \in Int
      BY <1>1
    <3>2. place(i) \in 1 .. n /\ place(j) \in 1 .. n /\ (i < j => place(i) < place(j)) /\ (j < i => place(j) < place(i))
      BY <1>3
    <3> HIDE DEF kept, n, place
    <3> QED
      BY <3>1, <3>2
  <2> HIDE DEF place, kept
  <2> QED
    BY <1>3, <2>1 DEF Injection, IsInjective
<1>5. f \in Surjection(kept, 1 .. n)
  <2>1. IsFiniteSet(1 .. n) /\ Cardinality(1 .. n) = n
    BY <1>2, FS_Interval
  <2> HIDE DEF f, kept
  <2>2. Cardinality(kept) = Cardinality(1 .. n)
    BY <2>1
  <2> QED
    BY <1>4, <2>1, <2>2, FS_Injection
<1>6. ASSUME NEW k \in 1 .. n PROVE from(k) \in kept /\ place(from(k)) = k
  <2>1. PICK i \in kept : f[i] = k
    BY <1>5 DEF Surjection
  <2>2. place(i) = k
    BY <2>1
  <2> QED
    BY <2>2
<1>7. Without(list, p) = r
  BY DEF Without, below
<1>8. r \in Seq(S)
  <2> HIDE DEF from
  <2>1. \A k \in 1 .. n : list[from(k)] \in S
    BY <1>1, <1>6
  <2> HIDE DEF n, kept
  <2>2. r \in [1 .. n -> S]
    BY <2>1
  <2> QED
    BY <1>2, <2>2
<1>9. ToSet(r) = {b \in ToSet(list) : b[1] # p}
  <2>1. DOMAIN r = 1 .. n
    OBVIOUS
  <2>2. ASSUME NEW k \in 1 .. n PROVE r[k] \in ToSet(list) /\ r[k][1] # p
    <3> HIDE DEF from, n
    <3> QED
      BY <1>6, <2>2 DEF ToSet
  <2>3. ASSUME NEW b \in ToSet(list), b[1] # p PROVE \E k \in 1 .. n : r[k] = b
    <3>1. PICK i \in kept : b = list[i]
      BY <2>3 DEF ToSet
    <3>2. place(i) \in 1 .. n
      BY <1>3
    <3>3. from(place(i)) \in kept /\ place(from(place(i))) = place(i)
      BY <1>6, <3>2
    <3>4. from(place(i)) = i
      BY <1>4, <3>3 DEF Injection, IsInjective
    <3> HIDE DEF from, n, place
    <3> QED
      BY <3>1, <3>2, <3>4
  <2> HIDE DEF r, n
  <2> QED
    BY <2>1, <2>2, <2>3 DEF ToSet
<1>10. IsInjective(list) => IsInjective(r)
  <2> SUFFICES ASSUME IsInjective(list), NEW k \in 1 .. n, NEW m \in 1 .. n, r[k] = r[m] PROVE k = m
    BY DEF IsInjective
  <2>1. from(k) \in kept /\ place(from(k)) = k /\ from(m) \in kept /\ place(from(m)) = m
    BY <1>6
  <2>2. list[from(k)] = list[from(m)]
    OBVIOUS
  <2> HIDE DEF from, r, n, place
  <2>3. from(k) = from(m)
    BY <2>1, <2>2 DEF IsInjective
  <2> QED
    BY <2>1, <2>3
<1> QED
  BY <1>7, <1>8, <1>9, <1>10

-----------------------------------------------------------------------------
(* What threads hold: blocks, with the sizes asked for, and groups of      *)
(* pages.  A thread has the block on its way to the free list as well.     *)
Slot == Page \X Nat
Thing == [kind : {"block"}, block : Slot, size : Nat]
Group == [kind : {"pages"}, block : Page \X {0}, size : Nat \ {0}]
ArenaOf == [desc : {NULL} \cup {<<d>> : d \in Desc}, free_cnt : Nat]

HeapType ==
  /\ used_map \subseteq Page
  /\ arena \in [Page -> ArenaOf \cup {NULL}]
  /\ \A p \in Page : arena[p] # NULL /\ arena[p].desc = NULL => arena[p].free_cnt # 0
  /\ free_list \in [Desc -> Seq(Slot)]
  /\ owner \in [Desc -> Thread \cup {NULL}]
  /\ held \in [Thread -> SUBSET (Thing \cup Group)]

Things(t) ==
  {x \in held[t] : x.kind = "block"} \cup (IF At(t, "free") THEN {pc[t].old} ELSE {})

(* Where a call is, and what it may count on there: a descriptor's lock    *)
(* while its list is empty and a page is looked for, and until a block is  *)
(* taken; pages it found or gives back.                                    *)
CallInv(t) ==
  LET f == pc[t]
      d == desc_of(f.size)
  IN /\ f.at \in {"user", "desc", "pool", "scan", "got", "pop", "free", "clear"}
     /\ f.at \in {"desc", "pool", "scan", "got", "pop"} =>
          /\ f.old = NULL \/ (f.old \in held[t] /\ f.old.kind = "block")
          /\ f.size \in Requests \cup {0}
     /\ f.at \in {"desc", "pop"} => f.size # 0 /\ Small(f.size)
     /\ f.at \in {"pool", "scan", "got"} /\ f.size # 0 =>
          IF Small(f.size) THEN f.cnt = 1 /\ owner[d] = t /\ free_list[d] = <<>>
          ELSE f.cnt = page_cnt(f.size)
     /\ f.at = "scan" => \A j \in 0 .. f.i - 1 : First(f) + j \notin used_map
     /\ f.at = "got" /\ f.page # NULL =>
          f.page \in Page /\ f.cnt \in Nat \ {0} /\ f.page + f.cnt <= Pages
     /\ f.at = "pop" => owner[d] = t /\ free_list[d] # <<>>
     /\ f.at = "free" => f.old \in Thing /\ f.old \notin held[t]
     /\ f.at = "clear" =>
          /\ f.page \in Page /\ f.cnt \in Nat \ {0} /\ f.page + f.cnt <= Pages
          /\ f.size = 0 \/ (f.size \in Desc /\ owner[f.size] = t /\ f.cnt = 1)

(* Who may claim pages, and which he claims.                               *)
Claimant == ({"arena"} \X Page) \cup ({"frame"} \X Thread) \cup ({"group"} \X (Thread \X Group))

ArenaPages(p) ==
  IF arena[p] = NULL THEN {}
  ELSE IF arena[p].desc # NULL THEN {p} ELSE p .. p + arena[p].free_cnt - 1
FramePages(t) ==
  IF pc[t].at \in {"got", "clear"} /\ pc[t].page # NULL
  THEN pc[t].page .. pc[t].page + pc[t].cnt - 1 ELSE {}
GroupPages(t, x) == IF x \in held[t] THEN x.block[1] .. x.block[1] + x.size - 1 ELSE {}

PagesOf(c) ==
  IF c[1] = "arena" THEN ArenaPages(c[2])
  ELSE IF c[1] = "frame" THEN FramePages(c[2]) ELSE GroupPages(c[2][1], c[2][2])

ClaimsInv ==
  /\ \A c, e \in Claimant : c # e => PagesOf(c) \cap PagesOf(e) = {}
  /\ \A c \in Claimant : PagesOf(c) \subseteq used_map
  /\ \A p \in used_map : \E c \in Claimant : p \in PagesOf(c)

(* Of each block of an arena, whether it is on the list or in use.         *)
Used(b) == \E t \in Thread : \E x \in Things(t) : x.block = b
SomeUsed(p) == \E t \in Thread : \E x \in Things(t) : x.block[1] = p
FreeOf(p, d) == {b \in ToSet(free_list[d]) : b[1] = p}

ListInv ==
  \A d \in Desc :
    /\ IsInjective(free_list[d])
    /\ \A b \in ToSet(free_list[d]) :
         arena[b[1]] # NULL /\ arena[b[1]].desc = <<d>> /\ b[2] < blocks_per_arena(d)

ThingOK(x) ==
  LET a == arena[x.block[1]]
  IN /\ a # NULL /\ (NoneWraps => x.size <= block_size(x.block))
     /\ IF a.desc = NULL THEN x.block[2] = 0
        ELSE x.block[2] < blocks_per_arena(a.desc[1]) /\ x.block \notin ToSet(free_list[a.desc[1]])

ThingInv == \A t \in Thread : \A x \in Things(t) : ThingOK(x)

OneUse ==
  \A t, u \in Thread : \A x \in Things(t), y \in Things(u) : x.block = y.block => t = u /\ x = y

(* An arena without a block in use: its first is about to be taken.        *)
Fresh(p, d) ==
  \E t \in Thread : At(t, "pop") /\ desc_of(pc[t].size) = d /\ owner[d] = t /\ Head(free_list[d])[1] = p

ArenaInv ==
  \A p \in Page, d \in Desc : arena[p] # NULL /\ arena[p].desc = <<d>> =>
    /\ \A i \in 0 .. blocks_per_arena(d) - 1 : <<p, i>> \in ToSet(free_list[d]) \/ Used(<<p, i>>)
    /\ arena[p].free_cnt = Cardinality(FreeOf(p, d))
    /\ SomeUsed(p) \/ Fresh(p, d)

BlocksInv == ListInv /\ ThingInv /\ OneUse /\ ArenaInv
CallsInv == \A t \in Thread : CallInv(t)
HeapInv == HeapType /\ CallsInv /\ ClaimsInv /\ BlocksInv

-----------------------------------------------------------------------------
(* A step of t to the frame f that touches nothing of the others.          *)
Own(t, f) ==
  /\ Goto(t, f)
  /\ \A u \in Thread : u # t =>
       /\ held'[u] = held[u]
       /\ \A d \in Desc : owner[d] = u => owner'[d] = u /\ free_list'[d] = free_list[d]

LEMMA SizeIs ==
  /\ \A size \in Requests \cup {0} : size \in Nat
  /\ 0 \notin Requests /\ 0 \notin Desc
BY MemoryAssumption, DescIs

LEMMA OthersHeap ==
  ASSUME MemoryInv, CallsInv, NEW t \in Thread, NEW f, Own(t, f),
         used_map' \subseteq used_map \/ \A u \in Thread : u # t => ~At(u, "scan")
  PROVE  \A u \in Thread : u # t =>
           CallInv(u)' /\ FramePages(u)' = FramePages(u) /\ Things(u)' = Things(u)
<1> SUFFICES ASSUME NEW u \in Thread, u # t
             PROVE  CallInv(u)' /\ FramePages(u)' = FramePages(u) /\ Things(u)' = Things(u)
  OBVIOUS
<1>1. pc'[u] = pc[u] /\ held'[u] = held[u] /\ CallInv(u)
  BY DEF MemoryInv, Own, Goto, CallsInv
<1>2. \A d \in Desc : owner[d] = u => owner'[d] = u /\ free_list'[d] = free_list[d]
  BY DEF Own
<1>3. At(u, "scan") => used_map' \subseteq used_map
  OBVIOUS
<1> DEFINE d == desc_of(pc[u].size)
<1>4. pc[u].at \in {"pool", "scan", "got", "pop"} /\ pc[u].size # 0 /\ Small(pc[u].size) => d \in Desc
  BY <1>1, SizeIs, DescIs DEF CallInv
<1>5. CallInv(u)'
  BY <1>1, <1>2, <1>3, <1>4 DEF CallInv, At
<1>6. FramePages(u)' = FramePages(u) /\ Things(u)' = Things(u)
  BY <1>1 DEF FramePages, Things, At
<1> QED
  BY <1>5, <1>6

-----------------------------------------------------------------------------
(* What a step may do to the claims.                                       *)
LEMMA ClaimsSame ==
  ASSUME ClaimsInv, used_map' = used_map, \A c \in Claimant : PagesOf(c)' = PagesOf(c)
  PROVE  ClaimsInv'
<1> DEFINE Q(c) == PagesOf(c)'
<1>1. \A c \in Claimant : Q(c) = PagesOf(c)
  OBVIOUS
<1>2. Claimant' = Claimant
  BY DEF Claimant, Group, Page
<1> QED
  BY <1>1, <1>2 DEF ClaimsInv

-----------------------------------------------------------------------------
LEMMA ClaimsHanded ==
  ASSUME ClaimsInv, used_map' = used_map,
         NEW c \in Claimant, NEW e \in Claimant, c # e,
         PagesOf(c)' = {}, PagesOf(e) = {}, PagesOf(e)' = PagesOf(c),
         \A k \in Claimant : k # c /\ k # e => PagesOf(k)' = PagesOf(k)
  PROVE  ClaimsInv'
<1> DEFINE Q(k) == PagesOf(k)'
<1>1. \A k \in Claimant : Q(k) = IF k = c THEN {} ELSE IF k = e THEN PagesOf(c) ELSE PagesOf(k)
  OBVIOUS
<1>2. Claimant' = Claimant
  BY DEF Claimant, Group, Page
<1> HIDE DEF Q
<1>3. \A k, m \in Claimant : k # m => Q(k) \cap Q(m) = {}
  BY <1>1 DEF ClaimsInv
<1>4. \A k \in Claimant : Q(k) \subseteq used_map
  BY <1>1 DEF ClaimsInv
<1>5. \A p \in used_map : \E k \in Claimant : p \in Q(k)
  <2> TAKE p \in used_map
  <2>1. PICK k \in Claimant : p \in PagesOf(k)
    BY DEF ClaimsInv
  <2>2. p \in Q(k) \/ p \in Q(e)
    BY <1>1, <2>1
  <2> QED
    BY <2>2
<1> QED
  BY <1>2, <1>3, <1>4, <1>5 DEF ClaimsInv, Q

LEMMA ClaimsTaken ==
  ASSUME ClaimsInv, NEW e \in Claimant, NEW G, G \cap used_map = {}, used_map' = used_map \cup G,
         PagesOf(e) = {}, PagesOf(e)' = G,
         \A k \in Claimant : k # e => PagesOf(k)' = PagesOf(k)
  PROVE  ClaimsInv'
<1> DEFINE Q(k) == PagesOf(k)'
<1>1. \A k \in Claimant : Q(k) = IF k = e THEN G ELSE PagesOf(k)
  OBVIOUS
<1>2. Claimant' = Claimant
  BY DEF Claimant, Group, Page
<1> HIDE DEF Q
<1>3. \A k, m \in Claimant : k # m => Q(k) \cap Q(m) = {}
  <2>1. \A k \in Claimant : PagesOf(k) \cap G = {}
    BY DEF ClaimsInv
  <2> QED
    BY <1>1, <2>1 DEF ClaimsInv
<1>4. \A k \in Claimant : Q(k) \subseteq used_map'
  BY <1>1 DEF ClaimsInv
<1>5. \A p \in used_map' : \E k \in Claimant : p \in Q(k)
  <2> TAKE p \in used_map'
  <2>1. CASE p \in G
    BY <1>1, <2>1
  <2>2. CASE p \in used_map
    <3>1. PICK k \in Claimant : p \in PagesOf(k)
      BY <2>2 DEF ClaimsInv
    <3> QED
      BY <1>1, <3>1
  <2> QED
    BY <2>1, <2>2
<1> QED
  BY <1>2, <1>3, <1>4, <1>5 DEF ClaimsInv, Q

LEMMA ClaimsCleared ==
  ASSUME ClaimsInv, NEW c \in Claimant, NEW p \in PagesOf(c), used_map' = used_map \ {p},
         PagesOf(c)' = PagesOf(c) \ {p},
         \A k \in Claimant : k # c => PagesOf(k)' = PagesOf(k)
  PROVE  ClaimsInv'
<1> DEFINE Q(k) == PagesOf(k)'
<1>1. \A k \in Claimant : Q(k) = IF k = c THEN PagesOf(c) \ {p} ELSE PagesOf(k)
  OBVIOUS
<1>2. Claimant' = Claimant
  BY DEF Claimant, Group, Page
<1> HIDE DEF Q
<1>3. \A k \in Claimant : Q(k) = PagesOf(k) \ {p}
  BY <1>1 DEF ClaimsInv
<1>4. /\ \A k, m \in Claimant : k # m => Q(k) \cap Q(m) = {}
      /\ \A k \in Claimant : Q(k) \subseteq used_map'
  BY <1>3 DEF ClaimsInv
<1>5. \A q \in used_map' : \E k \in Claimant : q \in Q(k)
  <2> TAKE q \in used_map'
  <2>1. PICK k \in Claimant : q \in PagesOf(k)
    BY DEF ClaimsInv
  <2> QED
    BY <1>3, <2>1
<1> QED
  BY <1>2, <1>4, <1>5 DEF ClaimsInv, Q

(* The claims of each kind.                                                *)
LEMMA ClaimantIs ==
  /\ \A p \in Page : <<"arena", p>> \in Claimant /\ PagesOf(<<"arena", p>>) = ArenaPages(p)
  /\ \A t \in Thread : <<"frame", t>> \in Claimant /\ PagesOf(<<"frame", t>>) = FramePages(t)
  /\ \A t \in Thread, x \in Group :
       <<"group", <<t, x>>>> \in Claimant /\ PagesOf(<<"group", <<t, x>>>>) = GroupPages(t, x)
  /\ \A c \in Claimant : \/ \E p \in Page : c = <<"arena", p>>
                         \/ \E t \in Thread : c = <<"frame", t>>
                         \/ \E t \in Thread, x \in Group : c = <<"group", <<t, x>>>>
BY DEF Claimant, PagesOf

LEMMA ClaimantNext ==
  /\ \A p \in Page : PagesOf(<<"arena", p>>)' = ArenaPages(p)'
  /\ \A t \in Thread : PagesOf(<<"frame", t>>)' = FramePages(t)'
  /\ \A t \in Thread, x \in Group : PagesOf(<<"group", <<t, x>>>>)' = GroupPages(t, x)'
BY DEF PagesOf

LEMMA ClaimsKept ==
  ASSUME NEW k \in Claimant,
         \A p \in Page : k = <<"arena", p>> => ArenaPages(p)' = ArenaPages(p),
         \A t \in Thread : k = <<"frame", t>> => FramePages(t)' = FramePages(t),
         \A t \in Thread, x \in Group : k = <<"group", <<t, x>>>> => GroupPages(t, x)' = GroupPages(t, x)
  PROVE  PagesOf(k)' = PagesOf(k)
<1>1. CASE \E p \in Page : k = <<"arena", p>>
  BY <1>1, ClaimantIs, ClaimantNext
<1>2. CASE \E t \in Thread : k = <<"frame", t>>
  BY <1>2, ClaimantIs, ClaimantNext
<1>3. CASE \E t \in Thread, x \in Group : k = <<"group", <<t, x>>>>
  BY <1>3, ClaimantIs, ClaimantNext
<1> QED
  BY <1>1, <1>2, <1>3, ClaimantIs

-----------------------------------------------------------------------------
LEMMA FreshKept ==
  ASSUME MemoryInv, NEW t \in Thread, NEW f, Own(t, f), NEW p, NEW d \in Desc,
         At(t, "pop") => d # desc_of(pc[t].size), Fresh(p, d)
  PROVE  Fresh(p, d)'
<1>1. PICK u \in Thread : At(u, "pop") /\ desc_of(pc[u].size) = d /\ owner[d] = u /\ Head(free_list[d])[1] = p
  BY DEF Fresh
<1>2. pc'[u] = pc[u] /\ owner'[d] = u /\ free_list'[d] = free_list[d]
  BY <1>1 DEF Own, Goto, MemoryInv
<1> QED
  BY <1>1, <1>2 DEF Fresh, At

(* A step that moves no block.                                             *)
LEMMA BlocksSame ==
  ASSUME MemoryInv, HeapInv, NEW t \in Thread, NEW f, Own(t, f), ~At(t, "pop"),
         arena' = arena, free_list' = free_list,
         \A u \in Thread : Things(u)' = Things(u)
  PROVE  BlocksInv'
<1>1. \A p \in Page, d \in Desc : Fresh(p, d) => Fresh(p, d)'
  BY FreshKept
<1>2. ListInv'
  BY DEF HeapInv, BlocksInv, ListInv
<1>3. ThingInv'
  BY DEF HeapInv, BlocksInv, ThingInv, ThingOK, block_size
<1>4. OneUse'
  BY DEF HeapInv, BlocksInv, OneUse
<1>5. ArenaInv'
  <2>1. /\ \A b : Used(b)' = Used(b)
        /\ \A p : SomeUsed(p)' = SomeUsed(p)
        /\ \A p, d : FreeOf(p, d)' = FreeOf(p, d)
    BY DEF Used, SomeUsed, FreeOf
  <2> QED
    BY <1>1, <2>1 DEF HeapInv, BlocksInv, ArenaInv
<1> QED
  BY <1>2, <1>3, <1>4, <1>5 DEF BlocksInv

(* A step that moves neither a block nor a page.                           *)
LEMMA QuietHeap ==
  ASSUME MemoryInv, HeapInv, NEW t \in Thread, NEW f, Own(t, f),
         ~At(t, "pop"), ~At(t, "free"), f.at # "free",
         used_map' = used_map, arena' = arena, free_list' = free_list, held' = held,
         owner' \in [Desc -> Thread \cup {NULL}],
         CallInv(t)', FramePages(t)' = FramePages(t)
  PROVE  HeapInv'
<1>1. \A u \in Thread : u # t => CallInv(u)' /\ FramePages(u)' = FramePages(u) /\ Things(u)' = Things(u)
  BY OthersHeap DEF HeapInv
<1>2. Things(t)' = Things(t)
  BY DEF Things, At, Own, Goto, MemoryInv
<1>3. HeapType'
  BY DEF HeapInv, HeapType, ArenaOf, Slot, Page, Thing, Group
<1>4. ClaimsInv'
  <2>1. \A k \in Claimant : PagesOf(k)' = PagesOf(k)
    <3> TAKE k \in Claimant
    <3>1. /\ \A p \in Page : ArenaPages(p)' = ArenaPages(p)
          /\ \A u \in Thread : FramePages(u)' = FramePages(u)
          /\ \A u \in Thread, x \in Group : GroupPages(u, x)' = GroupPages(u, x)
      BY <1>1 DEF ArenaPages, GroupPages
    <3> QED
      BY <3>1, ClaimsKept
  <2> QED
    BY <2>1, ClaimsSame DEF HeapInv
<1>5. BlocksInv'
  BY <1>1, <1>2, BlocksSame
<1> QED
  BY <1>1, <1>3, <1>4, <1>5 DEF HeapInv, CallsInv

LEMMA MallocHeap ==
  ASSUME MemoryInv, HeapInv, NEW t \in Thread, Malloc(t)
  PROVE  HeapInv'
<1>1. PICK size \in Requests, old \in {x \in held[t] : x.kind = "block"} \cup {NULL} :
        Goto(t, IF Small(size) THEN Frame("desc", size, old)
                ELSE [Frame("pool", size, old) EXCEPT !.cnt = page_cnt(size)])
  BY DEF Malloc
<1> DEFINE f == IF Small(size) THEN Frame("desc", size, old)
                ELSE [Frame("pool", size, old) EXCEPT !.cnt = page_cnt(size)]
<1>2. /\ f.at = (IF Small(size) THEN "desc" ELSE "pool")
      /\ f.size = size /\ f.old = old /\ f.page = NULL /\ (~Small(size) => f.cnt = page_cnt(size))
      /\ old = NULL \/ (old \in held[t] /\ old.kind = "block")
  BY <1>1 DEF Frame
<1>3. pc'[t] = f /\ Own(t, f)
  BY <1>1 DEF Own, Malloc, Goto, MemoryInv, heap
<1> HIDE DEF f
<1>4. /\ At(t, "user")
      /\ used_map' = used_map /\ arena' = arena /\ free_list' = free_list /\ held' = held /\ owner' = owner
  BY DEF Malloc, heap
<1>5. CallInv(t)'
  BY <1>1, <1>2, <1>3, <1>4, SizeIs DEF CallInv
<1>6. FramePages(t)' = FramePages(t)
  BY <1>2, <1>3, <1>4 DEF FramePages, At
<1>7. owner' \in [Desc -> Thread \cup {NULL}]
  BY <1>4 DEF HeapInv, HeapType
<1> QED
  BY <1>2, <1>3, <1>4, <1>5, <1>6, <1>7, QuietHeap DEF At

LEMMA GetPagesHeap ==
  ASSUME MemoryInv, HeapInv, NEW t \in Thread, GetPages(t)
  PROVE  HeapInv'
<1>1. PICK cnt \in 1 .. 2 : Goto(t, [Frame("pool", 0, NULL) EXCEPT !.cnt = cnt])
  BY DEF GetPages
<1> DEFINE f == [Frame("pool", 0, NULL) EXCEPT !.cnt = cnt]
<1>2. f.at = "pool" /\ f.size = 0 /\ f.old = NULL /\ f.page = NULL
  BY DEF Frame
<1>3. pc'[t] = f /\ Own(t, f)
  BY <1>1 DEF Own, GetPages, Goto, MemoryInv, heap
<1> HIDE DEF f
<1>4. /\ At(t, "user")
      /\ used_map' = used_map /\ arena' = arena /\ free_list' = free_list /\ held' = held /\ owner' = owner
  BY DEF GetPages, heap
<1>5. CallInv(t)'
  BY <1>2, <1>3, <1>4, SizeIs DEF CallInv
<1>6. FramePages(t)' = FramePages(t)
  BY <1>2, <1>3, <1>4 DEF FramePages, At
<1>7. owner' \in [Desc -> Thread \cup {NULL}]
  BY <1>4 DEF HeapInv, HeapType
<1> QED
  BY <1>2, <1>3, <1>4, <1>5, <1>6, <1>7, QuietHeap DEF At

LEMMA LockDescHeap ==
  ASSUME MemoryInv, HeapInv, NEW t \in Thread, LockDesc(t)
  PROVE  HeapInv'
<1> DEFINE d == desc_of(pc[t].size)
           f == IF free_list[d] = <<>> THEN [pc[t] EXCEPT !.at = "pool", !.cnt = 1]
                ELSE [pc[t] EXCEPT !.at = "pop"]
<1>1. IsFrame(pc[t]) /\ CallInv(t) /\ At(t, "desc") /\ pc[t].page = NULL
  BY DEF LockDesc, MemoryInv, FrameInv, HeapInv, CallsInv
<1>2. /\ f.at = (IF free_list[d] = <<>> THEN "pool" ELSE "pop")
      /\ f.size = pc[t].size /\ f.old = pc[t].old /\ f.page = NULL
      /\ free_list[d] = <<>> => f.cnt = 1
  BY <1>1 DEF IsFrame
<1>3. /\ owner[d] = NULL /\ owner' = [owner EXCEPT ![d] = t]
      /\ used_map' = used_map /\ arena' = arena /\ free_list' = free_list /\ held' = held
  BY DEF LockDesc, heap, Acquire
<1>4. owner \in [Desc -> Thread \cup {NULL}]
  BY DEF HeapInv, HeapType
<1>5. d \in Desc
  BY <1>1, SizeIs, DescIs DEF CallInv, At
<1>6. pc'[t] = f /\ Own(t, f)
  <2>1. Goto(t, f)
    BY DEF LockDesc
  <2>2. pc'[t] = f
    BY <2>1 DEF Goto, MemoryInv
  <2> HIDE DEF f, d
  <2>3. ASSUME NEW u \in Thread, u # t PROVE \A e \in Desc : owner[e] = u => owner'[e] = u
    BY <1>3, <1>4, ThreadNotNull
  <2> QED
    BY <1>3, <2>1, <2>2, <2>3 DEF Own
<1> HIDE DEF f
<1>7. owner' \in [Desc -> Thread \cup {NULL}] /\ owner'[d] = t
  BY <1>3, <1>4, <1>5
<1>8. CallInv(t)'
  BY <1>1, <1>2, <1>3, <1>6, <1>7 DEF CallInv, At
<1>9. FramePages(t)' = FramePages(t)
  BY <1>1, <1>2, <1>6 DEF FramePages, At
<1> QED
  BY <1>1, <1>2, <1>3, <1>6, <1>7, <1>8, <1>9, QuietHeap DEF At

LEMMA LockPoolHeap ==
  ASSUME MemoryInv, HeapInv, NEW t \in Thread, LockPool(t)
  PROVE  HeapInv'
<1> DEFINE f == IF pc[t].cnt = 0 THEN [pc[t] EXCEPT !.at = "got"]
                ELSE [pc[t] EXCEPT !.at = "scan", !.seen = used_map]
<1>1. IsFrame(pc[t]) /\ CallInv(t) /\ At(t, "pool") /\ pc[t].page = NULL /\ pc[t].i = 0
  BY DEF LockPool, MemoryInv, FrameInv, HeapInv, CallsInv
<1>2. /\ f.at \in {"got", "scan"}
      /\ f.size = pc[t].size /\ f.old = pc[t].old /\ f.page = NULL /\ f.cnt = pc[t].cnt /\ f.i = 0
  BY <1>1 DEF IsFrame
<1>3. /\ used_map' = used_map /\ arena' = arena /\ free_list' = free_list /\ held' = held /\ owner' = owner
  BY DEF LockPool, heap
<1>4. owner' \in [Desc -> Thread \cup {NULL}]
  BY <1>3 DEF HeapInv, HeapType
<1>5. pc'[t] = f /\ Own(t, f)
  <2>1. Goto(t, f)
    BY DEF LockPool
  <2> HIDE DEF f
  <2> QED
    BY <1>3, <2>1 DEF Own, Goto, MemoryInv
<1> HIDE DEF f
<1>6. CallInv(t)'
  BY <1>1, <1>2, <1>3, <1>5 DEF CallInv, At, First
<1>7. FramePages(t)' = FramePages(t)
  BY <1>1, <1>2, <1>5 DEF FramePages, At
<1> QED
  BY <1>1, <1>2, <1>3, <1>4, <1>5, <1>6, <1>7, QuietHeap DEF At

-----------------------------------------------------------------------------
LEMMA ScanHeap ==
  ASSUME MemoryInv, HeapInv, NEW t \in Thread, Scan(t)
  PROVE  HeapInv'
<1> DEFINE f == pc[t]
           first == First(f)
<1>1. /\ IsFrame(f) /\ f.at = "scan" /\ CallInv(t) /\ Pages \in Nat
      /\ f.cnt \in Nat \ {0} /\ first \in Nat /\ f.i \in Nat /\ f.i < f.cnt
  BY MemoryAssumption DEF Scan, At, MemoryInv, FrameInv, ScanInv, HeapInv, CallsInv
<1>2. /\ arena' = arena /\ free_list' = free_list /\ held' = held /\ owner' = owner
      /\ owner' \in [Desc -> Thread \cup {NULL}]
  BY DEF Scan, heap, HeapInv, HeapType
<1>3. ASSUME NEW g, Goto(t, g) PROVE pc'[t] = g /\ Own(t, g)
  BY <1>2, <1>3 DEF Own, Goto, MemoryInv
<1>4. FramePages(t) = {}
  BY <1>1 DEF FramePages
<1>5. CASE first > LastStart(f.cnt)
  <2> DEFINE g == [f EXCEPT !.at = "got", !.page = NULL]
  <2>1. Goto(t, g) /\ used_map' = used_map
    BY <1>1, <1>5 DEF Scan, First, LastStart
  <2>2. g.size = f.size /\ g.old = f.old /\ g.cnt = f.cnt /\ g.at = "got" /\ g.page = NULL
    BY <1>1 DEF IsFrame
  <2> HIDE DEF g
  <2>3. CallInv(t)'
    BY <1>1, <1>2, <1>3, <2>1, <2>2 DEF CallInv
  <2>4. FramePages(t)' = FramePages(t)
    BY <1>3, <1>4, <2>1, <2>2 DEF FramePages
  <2> QED
    BY <1>1, <1>2, <1>3, <2>1, <2>2, <2>3, <2>4, QuietHeap DEF At
<1>6. CASE first <= LastStart(f.cnt) /\ first + f.i \in used_map
  <2> DEFINE g == [f EXCEPT !.page = first + 1, !.i = 0]
  <2>1. Goto(t, g) /\ used_map' = used_map
    BY <1>1, <1>6 DEF Scan, First, LastStart
  <2>2. g.size = f.size /\ g.old = f.old /\ g.cnt = f.cnt /\ g.at = "scan" /\ g.page = first + 1 /\ g.i = 0
    BY <1>1 DEF IsFrame
  <2> HIDE DEF g
  <2>3. CallInv(t)'
    BY <1>1, <1>2, <1>3, <2>1, <2>2 DEF CallInv
  <2>4. FramePages(t)' = FramePages(t)
    BY <1>3, <1>4, <2>1, <2>2 DEF FramePages
  <2> QED
    BY <1>1, <1>2, <1>3, <2>1, <2>2, <2>3, <2>4, QuietHeap DEF At
<1>7. CASE first <= LastStart(f.cnt) /\ first + f.i \notin used_map /\ f.i + 1 < f.cnt
  <2> DEFINE g == [f EXCEPT !.i = @ + 1]
  <2>1. Goto(t, g) /\ used_map' = used_map
    BY <1>1, <1>7 DEF Scan, First, LastStart
  <2>2. g.size = f.size /\ g.old = f.old /\ g.cnt = f.cnt /\ g.at = "scan" /\ g.page = f.page /\ g.i = f.i + 1
    BY <1>1 DEF IsFrame
  <2> HIDE DEF g
  <2>3. \A j \in 0 .. g.i - 1 : First(g) + j \notin used_map'
    <3>1. First(g) = first /\ \A j \in 0 .. f.i - 1 : first + j \notin used_map
      BY <1>1, <2>2 DEF First, CallInv
    <3> QED
      BY <1>1, <1>7, <2>1, <2>2, <3>1
  <2>4. CallInv(t)'
    BY <1>1, <1>2, <1>3, <2>1, <2>2, <2>3 DEF CallInv
  <2>5. FramePages(t)' = FramePages(t)
    BY <1>3, <1>4, <2>1, <2>2 DEF FramePages
  <2> QED
    BY <1>1, <1>2, <1>3, <2>1, <2>2, <2>4, <2>5, QuietHeap DEF At
<1>8. CASE first <= LastStart(f.cnt) /\ first + f.i \notin used_map /\ ~(f.i + 1 < f.cnt)
  <2> DEFINE g == [f EXCEPT !.at = "got", !.page = first, !.i = 0]
             G == first .. first + f.cnt - 1
  <2>1. Goto(t, g) /\ used_map' = used_map \cup G
    BY <1>1, <1>8 DEF Scan, First, LastStart
  <2>2. g.size = f.size /\ g.old = f.old /\ g.cnt = f.cnt /\ g.at = "got" /\ g.page = first
    BY <1>1 DEF IsFrame
  <2> HIDE DEF g
  <2>3. G \cap used_map = {}
    <3>1. \A j \in 0 .. f.i - 1 : first + j \notin used_map
      BY <1>1 DEF CallInv
    <3>2. \A q \in G : q - first \in 0 .. f.i /\ q = first + (q - first)
      BY <1>1, <1>8
    <3> QED
      BY <1>1, <1>8, <3>1, <3>2
  <2>4. G \subseteq Page /\ first \in Page /\ first + f.cnt <= Pages /\ first # NULL
    BY <1>1, <1>8, MemoryAssumption DEF LastStart, Page
  <2>5. CallInv(t)'
    BY <1>1, <1>2, <1>3, <2>1, <2>2, <2>4 DEF CallInv, Page
  <2>6. \A u \in Thread : u # t => CallInv(u)' /\ FramePages(u)' = FramePages(u) /\ Things(u)' = Things(u)
    BY <1>1, <1>3, <2>1, ScanningAlone, OthersHeap DEF HeapInv, At
  <2>7. FramePages(t)' = G
    BY <1>3, <2>1, <2>2, <2>4 DEF FramePages
  <2>8. Things(t)' = Things(t)
    BY <1>1, <1>2, <1>3, <2>1, <2>2 DEF Things, At
  <2>9. HeapType'
    BY <1>2, <2>1, <2>4 DEF HeapInv, HeapType, ArenaOf, Slot, Page, Thing, Group
  <2>10. ClaimsInv'
    <3>1. \A k \in Claimant : k # <<"frame", t>> => PagesOf(k)' = PagesOf(k)
      <4> TAKE k \in Claimant
      <4> HAVE k # <<"frame", t>>
      <4>1. /\ \A p \in Page : ArenaPages(p)' = ArenaPages(p)
            /\ \A u \in Thread : k = <<"frame", u>> => FramePages(u)' = FramePages(u)
            /\ \A u \in Thread, x \in Group : GroupPages(u, x)' = GroupPages(u, x)
        BY <1>2, <2>6 DEF ArenaPages, GroupPages
      <4> QED
        BY <4>1, ClaimsKept
    <3>2. /\ <<"frame", t>> \in Claimant /\ PagesOf(<<"frame", t>>) = {}
          /\ PagesOf(<<"frame", t>>)' = G
      BY <1>4, <2>7, ClaimantIs, ClaimantNext
    <3> HIDE DEF G
    <3> QED
      BY <2>1, <2>3, <3>1, <3>2, ClaimsTaken DEF HeapInv
  <2>11. BlocksInv'
    BY <1>1, <1>2, <1>3, <2>1, <2>6, <2>8, BlocksSame DEF At
  <2> QED
    BY <2>5, <2>6, <2>9, <2>10, <2>11 DEF HeapInv, CallsInv
<1> QED
  BY <1>1, <1>5, <1>6, <1>7, <1>8 DEF LastStart

LEMMA ClearBitHeap ==
  ASSUME MemoryInv, HeapInv, NEW t \in Thread, ClearBit(t)
  PROVE  HeapInv'
<1> DEFINE f == pc[t]
           g == IF f.cnt > 1 THEN [f EXCEPT !.page = @ + 1, !.cnt = @ - 1] ELSE User
<1>1. /\ IsFrame(f) /\ f.at = "clear" /\ CallInv(t) /\ Pages \in Nat
      /\ f.page \in Page /\ f.cnt \in Nat \ {0} /\ f.page + f.cnt <= Pages
  BY MemoryAssumption DEF ClearBit, At, MemoryInv, FrameInv, HeapInv, CallsInv, CallInv
<1>2. /\ arena' = arena /\ free_list' = free_list /\ held' = held /\ used_map' = used_map \ {f.page}
      /\ owner' = owner \/ (f.size # 0 /\ f.cnt = 1 /\ owner' = [owner EXCEPT ![f.size] = NULL])
      /\ Goto(t, g)
  <2>1. f.size = 0 \/ f.size \in Nat \ {0}
    BY <1>1, DescIs DEF CallInv
  <2> QED
    BY <1>1, <2>1 DEF ClearBit, heap, Release
<1>3. /\ f.cnt > 1 => g.at = "clear" /\ g.page = f.page + 1 /\ g.cnt = f.cnt - 1 /\ g.size = f.size
      /\ f.cnt = 1 => g.at = "user"
      /\ g.at \in {"clear", "user"}
  BY <1>1 DEF IsFrame, User, Frame
<1> HIDE DEF g
<1>4. owner \in [Desc -> Thread \cup {NULL}]
  BY DEF HeapInv, HeapType
<1>5. owner' \in [Desc -> Thread \cup {NULL}]
  BY <1>2, <1>4
<1>6. pc'[t] = g /\ Own(t, g)
  <2>1. pc'[t] = g
    BY <1>2 DEF Goto, MemoryInv
  <2>2. ASSUME NEW u \in Thread, u # t PROVE \A e \in Desc : owner[e] = u => owner'[e] = u
    <3>1. f.size # 0 => f.size \in Desc /\ owner[f.size] = t
      BY <1>1 DEF CallInv
    <3> QED
      BY <1>2, <1>4, <2>2, <3>1
  <2> QED
    BY <1>2, <2>1, <2>2 DEF Own
<1>7. f.page # NULL /\ FramePages(t) = f.page .. f.page + f.cnt - 1
  BY <1>1, MemoryAssumption DEF FramePages, Page
<1>8. FramePages(t)' = FramePages(t) \ {f.page}
  <2>1. CASE f.cnt > 1
    <3>1. f.page + 1 # NULL
      BY <1>1, <2>1, MemoryAssumption DEF Page
    <3>2. FramePages(t)' = f.page + 1 .. f.page + 1 + (f.cnt - 1) - 1
      BY <1>3, <1>6, <2>1, <3>1 DEF FramePages
    <3>3. \A p \in Nat, c \in Nat \ {0} : (p + 1 .. p + 1 + (c - 1) - 1) = (p .. p + c - 1) \ {p}
      OBVIOUS
    <3>4. f.page \in Nat
      BY <1>1 DEF Page
    <3> QED
      BY <1>1, <1>7, <3>2, <3>3, <3>4
  <2>2. CASE f.cnt = 1
    <3>1. FramePages(t)' = {}
      BY <1>3, <1>6, <2>2 DEF FramePages
    <3> QED
      BY <1>1, <1>7, <2>2, <3>1 DEF Page
  <2> QED
    BY <1>1, <2>1, <2>2
<1>9. CallInv(t)'
  <2>1. CASE f.cnt > 1
    <3>1. g.page \in Page /\ g.cnt \in Nat \ {0} /\ g.page + g.cnt <= Pages /\ g.size = 0
      BY <1>1, <1>3, <2>1 DEF Page, CallInv
    <3> QED
      BY <1>3, <1>6, <2>1, <3>1 DEF CallInv, Page
  <2>2. CASE f.cnt = 1
    BY <1>3, <1>6, <2>2 DEF CallInv
  <2> QED
    BY <1>1, <2>1, <2>2
<1>10. \A u \in Thread : u # t => CallInv(u)' /\ FramePages(u)' = FramePages(u) /\ Things(u)' = Things(u)
  BY <1>2, <1>6, OthersHeap DEF HeapInv
<1>11. Things(t)' = Things(t)
  BY <1>1, <1>2, <1>3, <1>6 DEF Things, At
<1>12. HeapType'
  BY <1>2, <1>5 DEF HeapInv, HeapType, ArenaOf, Slot, Page, Thing, Group
<1>13. ClaimsInv'
  <2>1. \A k \in Claimant : k # <<"frame", t>> => PagesOf(k)' = PagesOf(k)
    <3> TAKE k \in Claimant
    <3> HAVE k # <<"frame", t>>
    <3>1. /\ \A p \in Page : ArenaPages(p)' = ArenaPages(p)
          /\ \A u \in Thread : k = <<"frame", u>> => FramePages(u)' = FramePages(u)
          /\ \A u \in Thread, x \in Group : GroupPages(u, x)' = GroupPages(u, x)
      BY <1>2, <1>10 DEF ArenaPages, GroupPages
    <3> QED
      BY <3>1, ClaimsKept
  <2>2. /\ <<"frame", t>> \in Claimant /\ f.page \in PagesOf(<<"frame", t>>)
        /\ PagesOf(<<"frame", t>>)' = PagesOf(<<"frame", t>>) \ {f.page}
    <3>1. f.page \in FramePages(t)
      BY <1>1, <1>7 DEF Page
    <3> QED
      BY <1>8, <3>1, ClaimantIs, ClaimantNext
  <2> QED
    BY <1>2, <2>1, <2>2, ClaimsCleared DEF HeapInv
<1>14. BlocksInv'
  BY <1>1, <1>2, <1>6, <1>10, <1>11, BlocksSame DEF At
<1> QED
  BY <1>9, <1>10, <1>12, <1>13, <1>14 DEF HeapInv, CallsInv

-----------------------------------------------------------------------------
LEMMA FreeHeap ==
  ASSUME MemoryInv, HeapInv, NEW t \in Thread, Free(t)
  PROVE  HeapInv'
<1> DEFINE to(x) == IF x.kind = "block" THEN Frame("free", 0, x)
                    ELSE [Frame("clear", 0, NULL) EXCEPT !.page = x.block[1], !.cnt = x.size]
<1>1. PICK x \in held[t] : held' = [held EXCEPT ![t] = @ \ {x}] /\ Goto(t, to(x))
  BY DEF Free
<1> DEFINE f == to(x)
<1>2. /\ At(t, "user") /\ used_map' = used_map /\ arena' = arena /\ free_list' = free_list /\ owner' = owner
  BY DEF Free, heap
<1>3. held[t] \subseteq Thing \cup Group /\ DOMAIN held = Thread
  BY DEF HeapInv, HeapType
<1>4. /\ x.kind = "block" => x \in Thing /\ f.at = "free" /\ f.old = x
      /\ x.kind # "block" => /\ x \in Group /\ f.at = "clear" /\ f.size = 0
                             /\ f.page = x.block[1] /\ f.cnt = x.size
  BY <1>3 DEF Frame, Thing, Group
<1> HIDE DEF f
<1>5. pc'[t] = f /\ held'[t] = held[t] \ {x} /\ Own(t, f)
  BY <1>1, <1>2, <1>3 DEF Own, Goto, MemoryInv, f
<1>6. \A u \in Thread : u # t => CallInv(u)' /\ FramePages(u)' = FramePages(u) /\ Things(u)' = Things(u)
  BY <1>2, <1>5, OthersHeap DEF HeapInv
<1>7. Things(t)' = Things(t)
  <2>1. Things(t)' = {y \in held[t] \ {x} : y.kind = "block"} \cup (IF f.at = "free" THEN {f.old} ELSE {})
    BY <1>5 DEF Things, At
  <2>2. Things(t) = {y \in held[t] : y.kind = "block"}
    BY <1>2 DEF Things, At
  <2>3. CASE x.kind = "block"
    BY <1>4, <2>1, <2>2, <2>3
  <2>4. CASE x.kind # "block"
    BY <1>4, <2>1, <2>2, <2>4
  <2> QED
    BY <2>3, <2>4
<1>8. HeapType'
  <2>1. held' \in [Thread -> SUBSET (Thing \cup Group)]
    BY <1>1 DEF HeapInv, HeapType
  <2> QED
    BY <1>2, <2>1 DEF HeapInv, HeapType, ArenaOf, Slot, Page, Thing, Group
<1>9. BlocksInv'
  BY <1>2, <1>5, <1>6, <1>7, BlocksSame DEF At
<1>10. FramePages(t) = {}
  BY <1>2 DEF FramePages, At
<1>11. CASE x.kind = "block"
  <2>1. CallInv(t)'
    BY <1>4, <1>5, <1>11 DEF CallInv, Thing, Slot, Page
  <2>2. FramePages(t)' = {}
    BY <1>4, <1>5, <1>11 DEF FramePages
  <2>3. ASSUME NEW k \in Claimant PROVE PagesOf(k)' = PagesOf(k)
    <3>1. /\ \A p \in Page : ArenaPages(p)' = ArenaPages(p)
          /\ \A u \in Thread : FramePages(u)' = FramePages(u)
      BY <1>2, <1>6, <1>10, <2>2 DEF ArenaPages
    <3>2. \A u \in Thread, y \in Group : GroupPages(u, y)' = GroupPages(u, y)
      <4>1. x \notin Group
        BY <1>11 DEF Group
      <4> QED
        BY <1>5, <4>1 DEF GroupPages, Own
    <3> QED
      BY <3>1, <3>2, ClaimsKept
  <2>4. ClaimsInv'
    BY <1>2, <2>3, ClaimsSame DEF HeapInv
  <2> QED
    BY <1>6, <1>8, <1>9, <2>1, <2>4 DEF HeapInv, CallsInv
<1>12. CASE x.kind # "block"
  <2> DEFINE c == <<"group", <<t, x>>>>
             e == <<"frame", t>>
  <2>1. /\ x \in Group /\ x.block[1] \in Page /\ x.size \in Nat \ {0} /\ Pages \in Nat
        /\ x.block[1] \in Nat
    BY <1>4, <1>12, MemoryAssumption DEF Group, Page
  <2>2. /\ c \in Claimant /\ e \in Claimant /\ c # e
        /\ PagesOf(c) = x.block[1] .. x.block[1] + x.size - 1 /\ PagesOf(e) = {}
        /\ PagesOf(c)' = {}
    BY <1>5, <1>10, <2>1, ClaimantIs, ClaimantNext DEF GroupPages
  <2>3. x.block[1] + x.size <= Pages
    <3>1. PagesOf(c) \subseteq Page
      BY <2>2 DEF HeapInv, HeapType, ClaimsInv
    <3>2. x.block[1] + x.size - 1 \in PagesOf(c)
      BY <2>1, <2>2
    <3> QED
      BY <2>1, <3>1, <3>2 DEF Page
  <2>4. CallInv(t)'
    BY <1>4, <1>5, <1>12, <2>1, <2>3 DEF CallInv, Page
  <2>5. PagesOf(e)' = PagesOf(c)
    <3>1. x.block[1] # NULL
      BY <2>1, MemoryAssumption DEF Page
    <3>2. FramePages(t)' = x.block[1] .. x.block[1] + x.size - 1
      BY <1>4, <1>5, <1>12, <3>1 DEF FramePages
    <3> QED
      BY <2>2, <3>2, ClaimantNext
  <2>6. ASSUME NEW k \in Claimant, k # c, k # e PROVE PagesOf(k)' = PagesOf(k)
    <3>1. /\ \A p \in Page : ArenaPages(p)' = ArenaPages(p)
          /\ \A u \in Thread : k = <<"frame", u>> => FramePages(u)' = FramePages(u)
          /\ \A u \in Thread, y \in Group : k = <<"group", <<u, y>>>> => GroupPages(u, y)' = GroupPages(u, y)
      BY <1>2, <1>5, <1>6, <2>6 DEF ArenaPages, GroupPages, Own
    <3> QED
      BY <3>1, ClaimsKept
  <2> HIDE DEF c, e
  <2>7. ClaimsInv'
    BY <1>2, <2>2, <2>5, <2>6, ClaimsHanded DEF HeapInv
  <2> QED
    BY <1>6, <1>8, <1>9, <2>4, <2>7 DEF HeapInv, CallsInv
<1> QED
  BY <1>11, <1>12

(* A search that found nothing.                                            *)
LEMMA GotNothingHeap ==
  ASSUME MemoryInv, HeapInv, NEW t \in Thread, Got(t), pc[t].page = NULL
  PROVE  HeapInv'
<1> DEFINE d == desc_of(pc[t].size)
<1>1. At(t, "got") /\ CallInv(t) /\ owner \in [Desc -> Thread \cup {NULL}]
  BY DEF Got, HeapInv, CallsInv, HeapType
<1>2. /\ arena' = arena /\ free_list' = free_list /\ used_map' = used_map /\ held' = held
      /\ Goto(t, User)
      /\ \/ owner' = owner
         \/ pc[t].size > 0 /\ Small(pc[t].size) /\ owner' = [owner EXCEPT ![d] = NULL]
  BY DEF Got, heap, Release
<1>3. User.at = "user" /\ pc'[t] = User
  BY <1>2 DEF Goto, MemoryInv, User, Frame
<1>4. Own(t, User)
  <2>1. ASSUME NEW u \in Thread, u # t PROVE \A e \in Desc : owner[e] = u => owner'[e] = u
    <3>1. pc[t].size > 0 /\ Small(pc[t].size) => owner[d] = t
      BY <1>1, SizeIs DEF CallInv, At
    <3> QED
      BY <1>1, <1>2, <2>1, <3>1
  <2> QED
    BY <1>2, <2>1 DEF Own
<1>5. owner' \in [Desc -> Thread \cup {NULL}]
  BY <1>1, <1>2
<1>6. CallInv(t)' /\ FramePages(t)' = FramePages(t)
  BY <1>1, <1>3 DEF CallInv, FramePages, At
<1> QED
  BY <1>1, <1>2, <1>3, <1>4, <1>5, <1>6, QuietHeap DEF At

-----------------------------------------------------------------------------
(* A step of t that has pages and gives them to p's arena, or to a group.  *)
LEMMA FrameToArena ==
  ASSUME MemoryInv, HeapInv, NEW t \in Thread, NEW f, Own(t, f),
         used_map' = used_map, NEW p \in Page, p \in FramePages(t),
         FramePages(t)' = {}, ArenaPages(p)' = FramePages(t), ArenaPages(p) = {},
         \A q \in Page : q # p => arena'[q] = arena[q],
         \A x \in Group : x \in held'[t] <=> x \in held[t]
  PROVE  ClaimsInv'
<1> DEFINE c == <<"frame", t>>
           e == <<"arena", p>>
<1>1. \A u \in Thread : u # t => FramePages(u)' = FramePages(u)
  BY OthersHeap DEF HeapInv
<1>2. /\ c \in Claimant /\ e \in Claimant /\ c # e
      /\ PagesOf(c)' = {} /\ PagesOf(e) = {} /\ PagesOf(e)' = PagesOf(c)
  BY ClaimantIs, ClaimantNext
<1>3. ASSUME NEW k \in Claimant, k # c, k # e PROVE PagesOf(k)' = PagesOf(k)
  <2>1. /\ \A q \in Page : k = <<"arena", q>> => ArenaPages(q)' = ArenaPages(q)
        /\ \A u \in Thread : k = <<"frame", u>> => FramePages(u)' = FramePages(u)
        /\ \A u \in Thread, y \in Group : GroupPages(u, y)' = GroupPages(u, y)
    BY <1>1, <1>3 DEF ArenaPages, GroupPages, Own
  <2> QED
    BY <2>1, ClaimsKept
<1> HIDE DEF c, e
<1> QED
  BY <1>2, <1>3, ClaimsHanded DEF HeapInv

(* An arena has the page it is on, so that nobody else has that.           *)
LEMMA NoArenaThere ==
  ASSUME HeapInv, NEW t \in Thread, NEW p \in Page, p \in FramePages(t)
  PROVE  arena[p] = NULL /\ ArenaPages(p) = {}
<1>1. ArenaPages(p) \cap FramePages(t) = {}
  <2> DEFINE c == <<"arena", p>>
             e == <<"frame", t>>
  <2>1. c \in Claimant /\ e \in Claimant /\ c # e /\ PagesOf(c) = ArenaPages(p) /\ PagesOf(e) = FramePages(t)
    BY ClaimantIs
  <2> HIDE DEF c, e
  <2> QED
    BY <2>1 DEF HeapInv, ClaimsInv
<1>2. arena[p] # NULL => p \in ArenaPages(p)
  BY MemoryAssumption DEF HeapInv, HeapType, ArenaPages, ArenaOf, Page
<1>3. arena[p] = NULL
  BY <1>1, <1>2
<1> QED
  BY <1>3 DEF ArenaPages

LEMMA GotGroupHeap ==
  ASSUME MemoryInv, HeapInv, NEW t \in Thread, Got(t), pc[t].page # NULL, pc[t].size = 0
  PROVE  HeapInv'
<1> DEFINE f == pc[t]
<1>1. /\ At(t, "got") /\ CallInv(t) /\ owner' = owner
      /\ arena' = arena /\ free_list' = free_list /\ used_map' = used_map
      /\ held' = [held EXCEPT ![t] = @ \cup {PageGroup(f.page, f.cnt)}]
      /\ Goto(t, User)
  BY DEF Got, heap, HeapInv, CallsInv
<1>2. f.page \in Page /\ f.cnt \in Nat \ {0} /\ f.page + f.cnt <= Pages /\ Pages \in Nat
  BY <1>1, MemoryAssumption DEF CallInv, At
<1>3. PICK x \in Group : x = PageGroup(f.page, f.cnt) /\ x.kind = "pages" /\ x.block[1] = f.page /\ x.size = f.cnt
  <2> DEFINE y == PageGroup(f.page, f.cnt)
  <2>1. y \in Group /\ y.kind = "pages" /\ y.block[1] = f.page /\ y.size = f.cnt
    BY <1>2 DEF PageGroup, Group
  <2> HIDE DEF y
  <2>2. y = PageGroup(f.page, f.cnt)
    BY DEF y
  <2> QED
    BY <2>1, <2>2
<1>4. User.at = "user" /\ pc'[t] = User /\ held'[t] = held[t] \cup {x} /\ Own(t, User)
  BY <1>1, <1>3 DEF Own, Goto, MemoryInv, HeapInv, HeapType, User, Frame
<1>5. \A u \in Thread : u # t => CallInv(u)' /\ FramePages(u)' = FramePages(u) /\ Things(u)' = Things(u)
  BY <1>1, <1>4, OthersHeap DEF HeapInv
<1>6. CallInv(t)' /\ FramePages(t)' = {}
  BY <1>4 DEF CallInv, FramePages
<1>7. Things(t)' = Things(t)
  BY <1>1, <1>3, <1>4 DEF Things, At
<1>8. HeapType'
  <2>1. held' \in [Thread -> SUBSET (Thing \cup Group)]
    BY <1>1, <1>3 DEF HeapInv, HeapType
  <2>2. owner' = owner /\ arena' = arena /\ free_list' = free_list /\ used_map' = used_map
    BY <1>1
  <2> QED
    BY <2>1, <2>2 DEF HeapInv, HeapType, ArenaOf, Slot, Page, Thing, Group
<1>9. BlocksInv'
  BY <1>1, <1>4, <1>5, <1>7, BlocksSame DEF At
<1>10. ClaimsInv'
  <2> DEFINE c == <<"frame", t>>
             e == <<"group", <<t, x>>>>
  <2>1. /\ c \in Claimant /\ e \in Claimant /\ c # e
        /\ PagesOf(c) = FramePages(t) /\ PagesOf(e) = GroupPages(t, x)
        /\ PagesOf(c)' = {} /\ PagesOf(e)' = GroupPages(t, x)'
    BY <1>3, <1>6, ClaimantIs, ClaimantNext
  <2>2. FramePages(t) = f.page .. f.page + f.cnt - 1
    BY <1>1 DEF FramePages, At
  <2>3. GroupPages(t, x)' = FramePages(t)
    BY <1>3, <1>4, <2>2 DEF GroupPages
  <2>4. GroupPages(t, x) = {}
    <3>1. f.page \in FramePages(t)
      BY <1>2, <2>2 DEF Page
    <3>2. FramePages(t) \cap GroupPages(t, x) = {}
      <4> HIDE DEF c, e
      <4> QED
        BY <2>1 DEF HeapInv, ClaimsInv
    <3> QED
      BY <1>3, <2>2, <3>1, <3>2 DEF GroupPages
  <2>5. ASSUME NEW k \in Claimant, k # c, k # e PROVE PagesOf(k)' = PagesOf(k)
    <3>1. /\ \A p \in Page : ArenaPages(p)' = ArenaPages(p)
          /\ \A u \in Thread : k = <<"frame", u>> => FramePages(u)' = FramePages(u)
          /\ \A u \in Thread, y \in Group : k = <<"group", <<u, y>>>> => GroupPages(u, y)' = GroupPages(u, y)
      <4> QED
        BY <1>1, <1>4, <1>5, <2>5 DEF ArenaPages, GroupPages, Own
    <3> QED
      BY <3>1, ClaimsKept
  <2> HIDE DEF c, e
  <2> QED
    BY <1>1, <2>1, <2>3, <2>4, <2>5, ClaimsHanded DEF HeapInv
<1> QED
  BY <1>5, <1>6, <1>8, <1>9, <1>10 DEF HeapInv, CallsInv

-----------------------------------------------------------------------------
(* malloc returns a block that nobody has.                                 *)
LEMMA ReturnIs ==
  ASSUME MemoryInv, HeapInv, NEW t \in Thread, At(t, "got") \/ At(t, "pop"), pc[t].size # 0,
         NEW b \in Slot, ~Used(b), Return(t, b)
  PROVE  /\ Block(b, pc[t].size) \in Thing /\ Block(b, pc[t].size).block = b
         /\ Block(b, pc[t].size).size = pc[t].size /\ pc[t].size \in Requests
         /\ held' \in [Thread -> SUBSET (Thing \cup Group)]
         /\ Things(t)' = Things(t) \cup {Block(b, pc[t].size)}
         /\ \A x \in Group : x \in held'[t] <=> x \in held[t]
         /\ CallInv(t)' /\ FramePages(t)' = {}
         /\ \E f : Goto(t, f)
         /\ \A u \in Thread : u # t => held'[u] = held[u]
<1> DEFINE old == pc[t].old
           x == Block(b, pc[t].size)
           f == IF old = NULL THEN User ELSE Frame("free", 0, old)
<1>1. /\ pc[t].size \in Requests /\ pc[t].size \in Nat
      /\ old = NULL \/ (old \in held[t] /\ old.kind = "block")
  BY SizeIs DEF HeapInv, CallsInv, CallInv, At
<1>2. x \in Thing /\ x.block = b /\ x.size = pc[t].size /\ x.kind = "block"
  BY <1>1 DEF Block, Thing
<1>3. held' = [held EXCEPT ![t] = (@ \ {old}) \cup {x}] /\ Goto(t, f)
  BY DEF Return
<1>4. held \in [Thread -> SUBSET (Thing \cup Group)] /\ NULL \notin held[t]
  <2>1. NULL \notin Thing \cup Group
    BY MemoryAssumption DEF Thing, Group, Slot, Page
  <2> QED
    BY <2>1 DEF HeapInv, HeapType
<1>5. /\ f.at = (IF old = NULL THEN "user" ELSE "free") /\ (old # NULL => f.old = old)
      /\ pc'[t] = f
  BY <1>3 DEF User, Frame, Goto, MemoryInv
<1> HIDE DEF f
<1>6. held'[t] = (held[t] \ {old}) \cup {x} /\ held' \in [Thread -> SUBSET (Thing \cup Group)]
  BY <1>2, <1>3, <1>4
<1>7. Things(t) = {y \in held[t] : y.kind = "block"}
  BY DEF Things, At
<1>8. x \notin Things(t)
  BY <1>2 DEF Used
<1>9. Things(t)' = Things(t) \cup {x}
  <2>1. Things(t)' = {y \in held'[t] : y.kind = "block"} \cup (IF f.at = "free" THEN {f.old} ELSE {})
    BY <1>5 DEF Things, At
  <2>2. CASE old = NULL
    BY <1>2, <1>4, <1>5, <1>6, <1>7, <2>1, <2>2
  <2>3. CASE old # NULL
    BY <1>1, <1>2, <1>5, <1>6, <1>7, <2>1, <2>3
  <2> QED
    BY <2>2, <2>3
<1>10. \A y \in Group : y \in held'[t] <=> y \in held[t]
  <2>1. \A y \in Group : y.kind # "block" /\ y # x
    BY <1>2 DEF Group
  <2>2. \A y \in Group : y \in held[t] => y # old
    BY <1>1, <1>4, <2>1
  <2> HIDE DEF x
  <2> QED
    BY <1>6, <2>1, <2>2
<1>11. CallInv(t)'
  <2>1. old # NULL => old \in Thing /\ old \notin held'[t]
    <3>1. old # NULL => old \in Thing
      BY <1>1, <1>4 DEF Group
    <3>2. old # NULL => old # x
      BY <1>1, <1>7, <1>8
    <3> QED
      BY <1>6, <3>1, <3>2
  <2> QED
    BY <1>5, <2>1 DEF CallInv, Thing, Slot, Page
<1>12. FramePages(t)' = {}
  BY <1>5 DEF FramePages
<1>13. \A u \in Thread : u # t => held'[u] = held[u]
  BY <1>3, <1>4
<1> QED
  BY <1>1, <1>2, <1>3, <1>6, <1>9, <1>10, <1>11, <1>12, <1>13

-----------------------------------------------------------------------------
LEMMA ThingsTyped ==
  ASSUME HeapInv
  PROVE  \A t \in Thread : \A x \in Things(t) : x \in Thing /\ x.block \in Slot /\ x.block[1] \in Page /\ ThingOK(x)
<1> SUFFICES ASSUME NEW t \in Thread, NEW x \in Things(t) PROVE x \in Thing /\ ThingOK(x)
  BY DEF Thing, Slot
<1>1. x \in Thing
  <2>1. CASE x \in held[t] /\ x.kind = "block"
    BY <2>1 DEF HeapInv, HeapType, Group
  <2>2. CASE At(t, "free") /\ x = pc[t].old
    BY <2>2 DEF HeapInv, CallsInv, CallInv, At
  <2> QED
    BY <2>1, <2>2 DEF Things
<1> QED
  BY <1>1 DEF HeapInv, BlocksInv, ThingInv

LEMMA OneUseAdd ==
  ASSUME OneUse, NEW t \in Thread, NEW x, ~Used(x.block),
         Things(t)' = Things(t) \cup {x}, \A u \in Thread : u # t => Things(u)' = Things(u)
  PROVE  OneUse'
<1> DEFINE T(u) == Things(u)'
<1>1. \A u \in Thread : T(u) = IF u = t THEN Things(t) \cup {x} ELSE Things(u)
  OBVIOUS
<1>2. \A u \in Thread : \A y \in Things(u) : y.block # x.block
  BY DEF Used
<1> HIDE DEF T
<1>3. \A u, v \in Thread : \A y \in T(u), z \in T(v) : y.block = z.block => u = v /\ y = z
  BY <1>1, <1>2 DEF OneUse
<1> QED
  BY <1>3 DEF OneUse, T

(* Where there is no arena there is no block.                              *)
LEMMA NoBlockThere ==
  ASSUME HeapInv, NEW p \in Page, arena[p] = NULL
  PROVE  /\ \A u \in Thread : \A y \in Things(u) : y.block[1] # p
         /\ \A d \in Desc : \A b \in ToSet(free_list[d]) : b[1] # p
         /\ \A i : ~Used(<<p, i>>)
<1>1. \A u \in Thread : \A y \in Things(u) : y.block[1] # p
  BY ThingsTyped DEF ThingOK
<1>2. \A d \in Desc : \A b \in ToSet(free_list[d]) : b[1] # p
  BY DEF HeapInv, BlocksInv, ListInv
<1> QED
  BY <1>1, <1>2 DEF Used

LEMMA GotBigHeap ==
  ASSUME MemoryInv, HeapInv, NEW t \in Thread, Got(t),
         pc[t].page # NULL, pc[t].size # 0, ~Small(pc[t].size)
  PROVE  HeapInv'
<1>1. /\ At(t, "got") /\ CallInv(t) /\ owner' = owner
      /\ arena' = [arena EXCEPT ![pc[t].page] = [desc |-> NULL, free_cnt |-> pc[t].cnt]]
      /\ free_list' = free_list /\ used_map' = used_map
      /\ Return(t, <<pc[t].page, 0>>)
  BY SizeIs DEF Got, heap, HeapInv, CallsInv, CallInv, At
<1>2. PICK p \in Page : p = pc[t].page
  BY <1>1 DEF CallInv, At
<1>3. PICK cnt \in Nat \ {0} : cnt = pc[t].cnt
  BY <1>1, <1>2 DEF CallInv, At
<1>4. PICK b \in Slot : b = <<p, 0>>
  BY DEF Slot
<1>5. FramePages(t) = p .. p + cnt - 1 /\ p \in FramePages(t)
  BY <1>1, <1>2, <1>3 DEF FramePages, At, Page
<1>6. arena[p] = NULL /\ ArenaPages(p) = {}
  BY <1>5, NoArenaThere
<1>7. ~Used(b)
  BY <1>4, <1>6, NoBlockThere
<1>8. PICK x : x = Block(b, pc[t].size)
  OBVIOUS
<1>9. /\ x \in Thing /\ x.block = b /\ x.size = pc[t].size /\ x.size \in Requests
      /\ held' \in [Thread -> SUBSET (Thing \cup Group)]
      /\ Things(t)' = Things(t) \cup {x}
      /\ \A y \in Group : y \in held'[t] <=> y \in held[t]
      /\ CallInv(t)' /\ FramePages(t)' = {}
      /\ \E f : Goto(t, f)
      /\ \A u \in Thread : u # t => held'[u] = held[u]
  BY <1>1, <1>2, <1>4, <1>7, <1>8, ReturnIs
<1>10. PICK f : Own(t, f)
  BY <1>1, <1>9 DEF Own
<1>11. \A u \in Thread : u # t => CallInv(u)' /\ FramePages(u)' = FramePages(u) /\ Things(u)' = Things(u)
  BY <1>1, <1>10, OthersHeap DEF HeapInv
<1>12. /\ arena' \in [Page -> ArenaOf \cup {NULL}]
       /\ arena'[p] = [desc |-> NULL, free_cnt |-> cnt]
       /\ \A q \in Page : q # p => arena'[q] = arena[q]
  <2>1. [desc |-> NULL, free_cnt |-> cnt] \in ArenaOf
    BY DEF ArenaOf
  <2> QED
    BY <1>1, <1>2, <1>3, <2>1 DEF HeapInv, HeapType
<1>13. arena'[p] # NULL /\ arena'[p].desc = NULL /\ arena'[p].free_cnt = cnt
  BY <1>12, MemoryAssumption
<1>14. HeapType'
  BY <1>1, <1>9, <1>12, <1>13 DEF HeapInv, HeapType, ArenaOf, Slot, Page, Thing, Group
<1>15. ClaimsInv'
  <2>1. ArenaPages(p)' = FramePages(t)
    BY <1>5, <1>13 DEF ArenaPages
  <2>2. /\ used_map' = used_map /\ FramePages(t)' = {}
        /\ \A y \in Group : y \in held'[t] <=> y \in held[t]
        /\ \A q \in Page : q # p => arena'[q] = arena[q]
    BY <1>1, <1>9, <1>12
  <2> QED
    BY <1>5, <1>6, <1>10, <2>1, <2>2, FrameToArena
<1>16. BlocksInv'
  <2>1. /\ \A u \in Thread : \A y \in Things(u) : y \in Thing /\ y.block[1] \in Page /\ y.block[1] # p /\ ThingOK(y)
        /\ \A d \in Desc : \A c \in ToSet(free_list[d]) : c[1] # p /\ c[1] \in Page
    <3>1. \A d \in Desc : ToSet(free_list[d]) \subseteq Slot
      BY LenProperties DEF HeapInv, HeapType, ToSet
    <3>2. \A u \in Thread : \A y \in Things(u) : y \in Thing /\ y.block[1] \in Page /\ ThingOK(y)
      BY ThingsTyped
    <3>3. \A c \in Slot : c[1] \in Page
      BY DEF Slot
    <3>4. /\ \A u \in Thread : \A y \in Things(u) : y.block[1] # p
          /\ \A d \in Desc : \A c \in ToSet(free_list[d]) : c[1] # p
      BY <1>6, NoBlockThere
    <3> QED
      BY <3>1, <3>2, <3>3, <3>4
  <2>2. ListInv'
    BY <1>1, <1>12, <2>1 DEF HeapInv, BlocksInv, ListInv
  <2>3. ThingInv'
    <3>1. ASSUME NEW u \in Thread, NEW y \in Things(u) PROVE ThingOK(y)'
      <4>1. arena'[y.block[1]] = arena[y.block[1]] /\ free_list' = free_list /\ ThingOK(y)
        BY <1>1, <1>12, <2>1
      <4> QED
        BY <4>1 DEF ThingOK, block_size
    <3>2. ThingOK(x)'
      <4>1. NoneWraps => x.size <= PGSIZE * cnt - Header
        <5>1. cnt = page_cnt(x.size) /\ cnt > 0
          BY <1>1, <1>3, <1>9 DEF CallInv, At
        <5> QED
          BY <1>9, <5>1, PagesHold
      <4> QED
        BY <1>4, <1>9, <1>13, <4>1 DEF ThingOK, block_size
    <3> QED
      BY <1>9, <1>11, <3>1, <3>2 DEF ThingInv
  <2>4. OneUse'
    BY <1>7, <1>9, <1>11, OneUseAdd DEF HeapInv, BlocksInv
  <2>5. ArenaInv'
    <3> SUFFICES ASSUME NEW q \in Page, NEW d \in Desc, arena'[q] # NULL, arena'[q].desc = <<d>>
                 PROVE  /\ \A i \in 0 .. blocks_per_arena(d) - 1 : <<q, i>> \in ToSet(free_list'[d]) \/ Used(<<q, i>>)'
                        /\ arena'[q].free_cnt = Cardinality(FreeOf(q, d)')
                        /\ SomeUsed(q)' \/ Fresh(q, d)'
      BY DEF ArenaInv
    <3>1. q # p
      BY <1>13, DescIs, MemoryAssumption
    <3>2. /\ \A i : Used(<<q, i>>) => Used(<<q, i>>)'
          /\ SomeUsed(q) => SomeUsed(q)'
          /\ FreeOf(q, d)' = FreeOf(q, d)
          /\ Fresh(q, d) => Fresh(q, d)'
      <4>1. \A u \in Thread : Things(u) \subseteq Things(u)'
        BY <1>9, <1>11
      <4>2. ~At(t, "pop")
        BY <1>1 DEF At
      <4> QED
        BY <1>1, <1>10, <4>1, <4>2, FreshKept DEF Used, SomeUsed, FreeOf
    <3> QED
      BY <1>1, <1>12, <3>1, <3>2 DEF HeapInv, BlocksInv, ArenaInv
  <2> QED
    BY <2>2, <2>3, <2>4, <2>5 DEF BlocksInv
<1> QED
  BY <1>9, <1>11, <1>14, <1>15, <1>16 DEF HeapInv, CallsInv

-----------------------------------------------------------------------------
(* The elements of a list of distinct ones.                                *)
LEMMA ElementsFinite ==
  ASSUME NEW S, NEW s \in Seq(S)
  PROVE  IsFiniteSet(ToSet(s)) /\ ToSet(s) \subseteq S
<1>1. DOMAIN s = 1 .. Len(s) /\ Len(s) \in Nat /\ \A i \in DOMAIN s : s[i] \in S
  BY LenProperties
<1>2. s \in Surjection(1 .. Len(s), ToSet(s))
  BY <1>1 DEF Surjection, ToSet
<1>3. IsFiniteSet(1 .. Len(s))
  BY <1>1, FS_Interval
<1>4. IsFiniteSet(ToSet(s))
  BY <1>2, <1>3, FS_Surjection
<1> QED
  BY <1>1, <1>4 DEF ToSet

LEMMA ElementsCounted ==
  ASSUME NEW S, NEW s \in Seq(S), IsInjective(s)
  PROVE  Cardinality(ToSet(s)) = Len(s)
<1>1. DOMAIN s = 1 .. Len(s) /\ Len(s) \in Nat /\ \A i \in DOMAIN s : s[i] \in S
  BY LenProperties
<1>2. s \in Surjection(1 .. Len(s), ToSet(s)) /\ s \in Injection(1 .. Len(s), ToSet(s))
  BY <1>1 DEF Surjection, Injection, ToSet
<1>3. IsFiniteSet(1 .. Len(s)) /\ Cardinality(1 .. Len(s)) = Len(s)
  BY <1>1, FS_Interval
<1> QED
  BY <1>2, <1>3, FS_Surjection

LEMMA TailIs ==
  ASSUME NEW S, NEW s \in Seq(S), s # <<>>, IsInjective(s)
  PROVE  /\ Head(s) \in ToSet(s) /\ Tail(s) \in Seq(S)
         /\ ToSet(Tail(s)) = ToSet(s) \ {Head(s)} /\ IsInjective(Tail(s))
<1>1. DOMAIN s = 1 .. Len(s) /\ Len(s) \in Nat \ {0} /\ Head(s) = s[1]
  BY LenProperties, EmptySeq
<1>2. /\ Tail(s) \in Seq(S) /\ Len(Tail(s)) = Len(s) - 1 /\ DOMAIN Tail(s) = 1 .. Len(s) - 1
      /\ \A i \in 1 .. Len(s) - 1 : Tail(s)[i] = s[i + 1]
  BY <1>1, HeadTailProperties, LenProperties
<1>3. Head(s) \in ToSet(s)
  BY <1>1 DEF ToSet
<1>4. IsInjective(Tail(s))
  BY <1>1, <1>2 DEF IsInjective
<1>5. \A i \in 1 .. Len(s) - 1 : Tail(s)[i] \in ToSet(s) \ {Head(s)}
  BY <1>1, <1>2 DEF ToSet, IsInjective
<1>6. ASSUME NEW x \in ToSet(s), x # Head(s) PROVE x \in ToSet(Tail(s))
  <2>1. PICK i \in 1 .. Len(s) : x = s[i]
    BY <1>1 DEF ToSet
  <2>2. i - 1 \in 1 .. Len(s) - 1 /\ Tail(s)[i - 1] = x
    BY <1>1, <1>2, <1>6, <2>1
  <2> QED
    BY <1>2, <2>2 DEF ToSet
<1>7. \A x \in ToSet(Tail(s)) : x \in ToSet(s) \ {Head(s)}
  BY <1>2, <1>5 DEF ToSet
<1> QED
  BY <1>2, <1>3, <1>4, <1>6, <1>7

LEMMA BlocksIs ==
  ASSUME NEW p \in Page, NEW d \in Desc
  PROVE  /\ Blocks(p, d) \in Seq(Slot) /\ Blocks(p, d) # <<>> /\ IsInjective(Blocks(p, d))
         /\ ToSet(Blocks(p, d)) = {<<p, i>> : i \in 0 .. blocks_per_arena(d) - 1}
         /\ Cardinality(ToSet(Blocks(p, d))) = blocks_per_arena(d)
         /\ Head(Blocks(p, d))[1] = p
<1> DEFINE s == Blocks(p, d)
<1>0. PICK n \in Nat \ {0} : n = blocks_per_arena(d)
  BY DescIs
<1>1. s = [i \in 1 .. n |-> <<p, i - 1>>]
  BY <1>0 DEF Blocks
<1>2. \A i \in 1 .. n : <<p, i - 1>> \in Slot
  BY DEF Slot
<1>3. s \in Seq(Slot) /\ Len(s) = n /\ DOMAIN s = 1 .. n /\ \A i \in 1 .. n : s[i] = <<p, i - 1>>
  BY <1>1, <1>2
<1> HIDE DEF s
<1>4. s # <<>> /\ Head(s) = <<p, 0>>
  BY <1>0, <1>3
<1>5. IsInjective(s)
  BY <1>3 DEF IsInjective
<1>6. ToSet(s) = {<<p, i>> : i \in 0 .. n - 1}
  <2>1. \A i \in 1 .. n : i - 1 \in 0 .. n - 1
    OBVIOUS
  <2>2. \A i \in 0 .. n - 1 : i + 1 \in 1 .. n /\ s[i + 1] = <<p, i>>
    BY <1>3
  <2> QED
    BY <1>3, <2>1, <2>2 DEF ToSet
<1>7. Cardinality(ToSet(s)) = n
  BY <1>3, <1>5, ElementsCounted
<1> QED
  BY <1>0, <1>3, <1>4, <1>5, <1>6, <1>7 DEF s

LEMMA GotSmallHeap ==
  ASSUME MemoryInv, HeapInv, NEW t \in Thread, Got(t),
         pc[t].page # NULL, pc[t].size # 0, Small(pc[t].size)
  PROVE  HeapInv'
<1>1. /\ At(t, "got") /\ CallInv(t) /\ pc[t].size \in Nat /\ pc[t].size > 0
  BY SizeIs DEF Got, HeapInv, CallsInv, CallInv, At
<1>2. PICK d \in Desc : d = desc_of(pc[t].size)
  BY <1>1, DescIs
<1>3. PICK p \in Page : p = pc[t].page
  BY <1>1 DEF CallInv, At
<1>4. PICK n \in Nat \ {0} : n = blocks_per_arena(d)
  BY DescIs
<1>5. PICK f : f = Frame("pop", pc[t].size, pc[t].old)
  OBVIOUS
<1>6. /\ arena' = [arena EXCEPT ![p] = [desc |-> <<d>>, free_cnt |-> n]]
      /\ free_list' = [free_list EXCEPT ![d] = @ \o Blocks(p, d)]
      /\ owner' = owner /\ used_map' = used_map /\ held' = held
      /\ Goto(t, f)
  BY <1>1, <1>2, <1>3, <1>4, <1>5 DEF Got
<1>7. /\ pc[t].cnt = 1 /\ owner[d] = t /\ free_list[d] = <<>> /\ pc[t].size \in Requests
      /\ pc[t].old = NULL \/ (pc[t].old \in held[t] /\ pc[t].old.kind = "block")
  BY <1>1, <1>2 DEF CallInv, At
<1>8. FramePages(t) = {p} /\ p \in FramePages(t)
  <2>1. FramePages(t) = p .. p + 1 - 1
    BY <1>1, <1>3, <1>7 DEF FramePages, At
  <2> QED
    BY <2>1 DEF Page
<1>9. arena[p] = NULL /\ ArenaPages(p) = {}
  BY <1>8, NoArenaThere
<1>10. PICK L \in Seq(Slot) : L = Blocks(p, d)
  BY BlocksIs
<1>11. /\ L # <<>> /\ IsInjective(L) /\ ToSet(L) = {<<p, i>> : i \in 0 .. n - 1}
       /\ Cardinality(ToSet(L)) = n /\ Head(L)[1] = p
  BY <1>4, <1>10, BlocksIs
<1>12. /\ free_list' \in [Desc -> Seq(Slot)] /\ free_list'[d] = L
       /\ \A e \in Desc : e # d => free_list'[e] = free_list[e]
  <2>1. free_list \in [Desc -> Seq(Slot)]
    BY DEF HeapInv, HeapType
  <2>2. <<>> \o L = L
    OBVIOUS
  <2> QED
    BY <1>6, <1>7, <1>10, <2>1, <2>2
<1>13. /\ pc'[t] = f /\ f.at = "pop" /\ f.size = pc[t].size /\ f.old = pc[t].old /\ f.page = NULL
  BY <1>5, <1>6 DEF Goto, MemoryInv, Frame
<1>14. Own(t, f)
  BY <1>6, <1>7, <1>12 DEF Own
<1>15. \A u \in Thread : u # t => CallInv(u)' /\ FramePages(u)' = FramePages(u) /\ Things(u)' = Things(u)
  BY <1>6, <1>14, OthersHeap DEF HeapInv
<1>16. Things(t)' = Things(t)
  BY <1>1, <1>6, <1>13 DEF Things, At
<1>17. CallInv(t)' /\ FramePages(t)' = {}
  BY <1>1, <1>2, <1>6, <1>7, <1>11, <1>12, <1>13 DEF CallInv, FramePages
<1>18. /\ arena' \in [Page -> ArenaOf \cup {NULL}]
       /\ arena'[p] = [desc |-> <<d>>, free_cnt |-> n]
       /\ \A q \in Page : q # p => arena'[q] = arena[q]
  <2>1. [desc |-> <<d>>, free_cnt |-> n] \in ArenaOf
    BY DEF ArenaOf
  <2> QED
    BY <1>6, <2>1 DEF HeapInv, HeapType
<1>19. arena'[p] # NULL /\ arena'[p].desc = <<d>> /\ arena'[p].free_cnt = n /\ <<d>> # NULL
  <2>1. d \in 0 .. PGSIZE
    BY DescIs
  <2> QED
    BY <1>18, <2>1, MemoryAssumption
<1>20. HeapType'
  BY <1>6, <1>12, <1>18, <1>19 DEF HeapInv, HeapType, ArenaOf, Slot, Page, Thing, Group
<1>21. ClaimsInv'
  <2>1. ArenaPages(p)' = FramePages(t)
    BY <1>8, <1>19 DEF ArenaPages
  <2> QED
    BY <1>6, <1>8, <1>9, <1>14, <1>17, <1>18, <2>1, FrameToArena
<1>22. BlocksInv'
  <2>1. /\ \A u \in Thread : \A y \in Things(u) : y \in Thing /\ y.block[1] \in Page /\ y.block[1] # p /\ ThingOK(y)
        /\ \A e \in Desc : \A c \in ToSet(free_list[e]) : c[1] # p /\ c[1] \in Page
    <3>1. \A e \in Desc : ToSet(free_list[e]) \subseteq Slot
      BY ElementsFinite DEF HeapInv, HeapType
    <3> QED
      BY <1>9, <3>1, NoBlockThere, ThingsTyped DEF Slot
  <2>2. ListInv'
    <3> SUFFICES ASSUME NEW e \in Desc
                 PROVE  /\ IsInjective(free_list'[e])
                        /\ \A c \in ToSet(free_list'[e]) :
                             /\ arena'[c[1]] # NULL /\ arena'[c[1]].desc = <<e>>
                             /\ c[2] < blocks_per_arena(e)
      BY DEF ListInv
    <3>1. CASE e = d
      BY <1>4, <1>11, <1>12, <1>19, <3>1
    <3>2. CASE e # d
      <4>1. free_list'[e] = free_list[e] /\ \A c \in ToSet(free_list[e]) : arena'[c[1]] = arena[c[1]]
        BY <1>12, <1>18, <2>1, <3>2
      <4> QED
        BY <4>1 DEF HeapInv, BlocksInv, ListInv
    <3> QED
      BY <3>1, <3>2
  <2>3. ThingInv'
    <3>1. ASSUME NEW u \in Thread, NEW y \in Things(u) PROVE ThingOK(y)'
      <4>1. y.block[1] \in Page /\ y.block[1] # p /\ ThingOK(y) /\ arena'[y.block[1]] = arena[y.block[1]]
        BY <1>18, <2>1
      <4>2. y.block \notin ToSet(L)
        BY <1>11, <4>1
      <4>3. arena[y.block[1]].desc # NULL => arena[y.block[1]].desc[1] \in Desc
        BY <4>1 DEF HeapInv, HeapType, ArenaOf, ThingOK
      <4> QED
        BY <1>12, <4>1, <4>2, <4>3 DEF ThingOK, block_size
    <3> QED
      BY <1>15, <1>16, <3>1 DEF ThingInv
  <2>4. OneUse'
    BY <1>15, <1>16 DEF HeapInv, BlocksInv, OneUse
  <2>5. ArenaInv'
    <3>1. ASSUME NEW q, NEW i PROVE Used(<<q, i>>)' = Used(<<q, i>>) /\ SomeUsed(q)' = SomeUsed(q)
      BY <1>15, <1>16 DEF Used, SomeUsed
    <3> SUFFICES ASSUME NEW q \in Page, NEW e \in Desc, arena'[q] # NULL, arena'[q].desc = <<e>>
                 PROVE  /\ \A i \in 0 .. blocks_per_arena(e) - 1 : <<q, i>> \in ToSet(free_list'[e]) \/ Used(<<q, i>>)'
                        /\ arena'[q].free_cnt = Cardinality(FreeOf(q, e)')
                        /\ SomeUsed(q)' \/ Fresh(q, e)'
      BY DEF ArenaInv
    <3>2. CASE q = p
      <4>1. e = d
        BY <1>19, <3>2
      <4>2. FreeOf(p, d)' = ToSet(L)
        BY <1>11, <1>12 DEF FreeOf
      <4>3. Fresh(p, d)'
        BY <1>2, <1>6, <1>7, <1>11, <1>12, <1>13 DEF Fresh, At
      <4> QED
        BY <1>4, <1>11, <1>12, <1>19, <3>2, <4>1, <4>2, <4>3
    <3>3. CASE q # p /\ e = d
      <4>1. arena[q] # NULL /\ arena[q].desc = <<d>> /\ arena'[q] = arena[q]
        BY <1>18, <3>3
      <4>2. ToSet(free_list[d]) = {}
        BY <1>7 DEF ToSet
      <4>3. FreeOf(q, d)' = {} /\ FreeOf(q, d) = {}
        BY <1>11, <1>12, <3>3, <4>2 DEF FreeOf
      <4>4. /\ \A i \in 0 .. n - 1 : Used(<<q, i>>)
            /\ arena[q].free_cnt = Cardinality({})
        BY <1>4, <4>1, <4>2, <4>3 DEF HeapInv, BlocksInv, ArenaInv
      <4>5. SomeUsed(q)
        <5>1. Used(<<q, 0>>)
          BY <4>4
        <5> QED
          BY <5>1 DEF Used, SomeUsed
      <4> QED
        BY <1>4, <3>1, <3>3, <4>1, <4>3, <4>4, <4>5
    <3>4. CASE q # p /\ e # d
      <4>1. arena[q] # NULL /\ arena[q].desc = <<e>> /\ arena'[q] = arena[q] /\ free_list'[e] = free_list[e]
        BY <1>12, <1>18, <3>4
      <4>2. Fresh(q, e) => Fresh(q, e)'
        BY <1>1, <1>14, FreshKept DEF At
      <4>3. FreeOf(q, e)' = FreeOf(q, e)
        BY <4>1 DEF FreeOf
      <4> QED
        BY <3>1, <4>1, <4>2, <4>3 DEF HeapInv, BlocksInv, ArenaInv
    <3> QED
      BY <3>2, <3>3, <3>4
  <2> QED
    BY <2>2, <2>3, <2>4, <2>5 DEF BlocksInv
<1> QED
  BY <1>15, <1>17, <1>20, <1>21, <1>22 DEF HeapInv, CallsInv

-----------------------------------------------------------------------------
(* The blocks of an arena on its list, of which one comes or goes.         *)
LEMMA FreeOfFinite ==
  ASSUME HeapInv, NEW d \in Desc, NEW p
  PROVE  /\ IsFiniteSet(FreeOf(p, d)) /\ Cardinality(FreeOf(p, d)) \in Nat
         /\ ToSet(free_list[d]) \subseteq Slot
<1>1. IsFiniteSet(ToSet(free_list[d])) /\ ToSet(free_list[d]) \subseteq Slot
  BY ElementsFinite DEF HeapInv, HeapType
<1>2. FreeOf(p, d) \in SUBSET ToSet(free_list[d])
  BY DEF FreeOf
<1>3. IsFiniteSet(FreeOf(p, d))
  BY <1>1, <1>2, FS_Subset
<1> QED
  BY <1>1, <1>3, FS_CardinalityType

LEMMA PopHeap ==
  ASSUME MemoryInv, HeapInv, NEW t \in Thread, Pop(t)
  PROVE  HeapInv'
<1>1. /\ At(t, "pop") /\ CallInv(t) /\ pc[t].size \in Nat /\ pc[t].size # 0 /\ Small(pc[t].size)
  BY SizeIs DEF Pop, HeapInv, CallsInv, CallInv, At
<1>2. PICK d \in Desc : d = desc_of(pc[t].size) /\ pc[t].size <= d
  BY <1>1, DescIs
<1>3. PICK L \in Seq(Slot) : L = free_list[d] /\ L # <<>> /\ IsInjective(L)
  BY <1>1, <1>2 DEF HeapInv, HeapType, BlocksInv, ListInv, CallInv, At
<1>4. PICK b \in Slot : b = Head(L) /\ b \in ToSet(L)
  BY <1>3, TailIs, ElementsFinite
<1>5. PICK p \in Page : p = b[1]
  BY DEF Slot
<1>6. PICK n \in Nat \ {0} : n = blocks_per_arena(d)
  BY DescIs
<1>7. /\ arena[p] # NULL /\ arena[p].desc = <<d>> /\ b[2] < n
      /\ arena[p].free_cnt = Cardinality(FreeOf(p, d)) /\ b \in FreeOf(p, d)
      /\ arena[p] \in ArenaOf
  BY <1>3, <1>4, <1>5, <1>6 DEF HeapInv, HeapType, BlocksInv, ListInv, ArenaInv, FreeOf
<1>8. PICK m \in Nat \ {0} : m = arena[p].free_cnt
  BY <1>7, FreeOfFinite, FS_EmptySet
<1>9. /\ arena' = [arena EXCEPT ![p].free_cnt = @ - 1]
      /\ free_list' = [free_list EXCEPT ![d] = Tail(@)]
      /\ owner' = [owner EXCEPT ![d] = NULL] /\ used_map' = used_map
      /\ Return(t, b)
  BY <1>2, <1>3, <1>4, <1>5 DEF Pop, Release
<1>10. owner[d] = t /\ owner \in [Desc -> Thread \cup {NULL}] /\ owner'[d] = NULL
       /\ owner' \in [Desc -> Thread \cup {NULL}]
  BY <1>1, <1>2, <1>9 DEF CallInv, At, HeapInv, HeapType
<1>11. ~Used(b)
  <2> SUFFICES ASSUME NEW u \in Thread, NEW y \in Things(u), y.block = b PROVE FALSE
    BY DEF Used
  <2>1. ThingOK(y)
    BY ThingsTyped
  <2>2. <<d>> # NULL
    BY <1>7, DescIs, MemoryAssumption
  <2> QED
    BY <1>3, <1>4, <1>5, <1>7, <2>1, <2>2 DEF ThingOK
<1>12. PICK x : x = Block(b, pc[t].size)
  OBVIOUS
<1>13. /\ x \in Thing /\ x.block = b /\ x.size = pc[t].size /\ x.size \in Requests
       /\ held' \in [Thread -> SUBSET (Thing \cup Group)]
       /\ Things(t)' = Things(t) \cup {x}
       /\ \A y \in Group : y \in held'[t] <=> y \in held[t]
       /\ CallInv(t)' /\ FramePages(t)' = {}
       /\ \E f : Goto(t, f)
       /\ \A u \in Thread : u # t => held'[u] = held[u]
  BY <1>1, <1>9, <1>11, <1>12, ReturnIs
<1>14. /\ Tail(L) \in Seq(Slot) /\ IsInjective(Tail(L)) /\ ToSet(Tail(L)) = ToSet(L) \ {b}
       /\ free_list' \in [Desc -> Seq(Slot)] /\ free_list'[d] = Tail(L)
       /\ \A e \in Desc : e # d => free_list'[e] = free_list[e]
  <2>1. /\ Tail(L) \in Seq(Slot) /\ IsInjective(Tail(L)) /\ ToSet(Tail(L)) = ToSet(L) \ {b}
    BY <1>3, <1>4, TailIs
  <2>2. free_list \in [Desc -> Seq(Slot)]
    BY DEF HeapInv, HeapType
  <2> QED
    BY <1>3, <1>9, <2>1, <2>2
<1>15. PICK f : Own(t, f)
  BY <1>9, <1>10, <1>13, <1>14 DEF Own
<1>16. \A u \in Thread : u # t => CallInv(u)' /\ FramePages(u)' = FramePages(u) /\ Things(u)' = Things(u)
  BY <1>9, <1>15, OthersHeap DEF HeapInv
<1>17. /\ arena' \in [Page -> ArenaOf \cup {NULL}]
       /\ arena'[p] \in ArenaOf /\ arena'[p].desc = <<d>> /\ arena'[p].free_cnt = m - 1
       /\ \A q \in Page : q # p => arena'[q] = arena[q]
  <2>1. /\ [arena[p] EXCEPT !.free_cnt = @ - 1] \in ArenaOf
        /\ [arena[p] EXCEPT !.free_cnt = @ - 1].desc = <<d>>
        /\ [arena[p] EXCEPT !.free_cnt = @ - 1].free_cnt = m - 1
    BY <1>7, <1>8 DEF ArenaOf
  <2>2. arena \in [Page -> ArenaOf \cup {NULL}]
    BY DEF HeapInv, HeapType
  <2>3. arena'[p] = [arena[p] EXCEPT !.free_cnt = @ - 1]
    BY <1>9, <2>2
  <2> QED
    BY <1>9, <2>1, <2>2, <2>3
<1>18. arena'[p] # NULL /\ <<d>> # NULL
  <2>1. Desc \subseteq 0 .. PGSIZE
    BY DescIs
  <2>2. NULL \notin ArenaOf /\ <<d>> # NULL
    BY <2>1, MemoryAssumption DEF ArenaOf
  <2> QED
    BY <1>17, <2>2
<1>19. HeapType'
  BY <1>9, <1>10, <1>13, <1>14, <1>17, <1>18 DEF HeapInv, HeapType, ArenaOf, Slot, Page, Thing, Group
<1>20. ClaimsInv'
  <2>1. FramePages(t) = {}
    BY <1>1 DEF FramePages, At
  <2>2. \A k \in Claimant : PagesOf(k)' = PagesOf(k)
    <3> TAKE k \in Claimant
    <3>1. \A q \in Page : ArenaPages(q)' = ArenaPages(q)
      BY <1>7, <1>17, <1>18 DEF ArenaPages
    <3>2. \A u \in Thread : FramePages(u)' = FramePages(u)
      BY <1>13, <1>16, <2>1
    <3>3. \A u \in Thread, y \in Group : GroupPages(u, y)' = GroupPages(u, y)
      BY <1>13 DEF GroupPages
    <3> QED
      BY <3>1, <3>2, <3>3, ClaimsKept
  <2> QED
    BY <1>9, <2>2, ClaimsSame DEF HeapInv
<1>21. BlocksInv'
  <2>1. \A u \in Thread : \A y \in Things(u) : y \in Thing /\ y.block[1] \in Page /\ ThingOK(y) /\ y.block # b
    BY <1>11, ThingsTyped DEF Used
  <2>2. ListInv'
    <3> SUFFICES ASSUME NEW e \in Desc
                 PROVE  /\ IsInjective(free_list'[e])
                        /\ \A c \in ToSet(free_list'[e]) :
                             /\ arena'[c[1]] # NULL /\ arena'[c[1]].desc = <<e>>
                             /\ c[2] < blocks_per_arena(e)
      BY DEF ListInv
    <3>1. /\ IsInjective(free_list'[e]) /\ ToSet(free_list'[e]) \subseteq ToSet(free_list[e])
      BY <1>3, <1>14 DEF HeapInv, BlocksInv, ListInv
    <3>2. ASSUME NEW c \in ToSet(free_list[e])
          PROVE  /\ arena'[c[1]] # NULL /\ arena'[c[1]].desc = <<e>>
                 /\ c[2] < blocks_per_arena(e)
      <4>1. arena[c[1]] # NULL /\ arena[c[1]].desc = <<e>> /\ c[2] < blocks_per_arena(e) /\ c[1] \in Page
        BY FreeOfFinite DEF HeapInv, BlocksInv, ListInv, Slot
      <4> QED
        BY <1>7, <1>17, <1>18, <4>1
    <3> QED
      BY <3>1, <3>2
  <2>3. ThingInv'
    <3>1. ASSUME NEW u \in Thread, NEW y \in Things(u) PROVE ThingOK(y)'
      <4>1. y.block[1] \in Page /\ ThingOK(y) /\ y.block # b
        BY <2>1
      <4>2. CASE y.block[1] = p
        <5>0. arena[p].desc[1] = d /\ arena'[p].desc[1] = d /\ arena[p].desc # NULL /\ arena'[p].desc # NULL
          BY <1>7, <1>17, <1>18
        <5>1. y.block[2] < n /\ y.block \notin ToSet(L) /\ (NoneWraps => y.size <= d)
          BY <1>3, <1>6, <4>1, <4>2, <5>0 DEF ThingOK, block_size
        <5>2. y.block \notin ToSet(free_list'[d])
          BY <1>14, <5>1
        <5> QED
          BY <1>6, <1>18, <4>2, <5>0, <5>1, <5>2 DEF ThingOK, block_size
      <4>3. CASE y.block[1] # p
        <5>1. arena'[y.block[1]] = arena[y.block[1]]
          BY <1>17, <4>1, <4>3
        <5>2. arena[y.block[1]].desc # NULL => arena[y.block[1]].desc[1] \in Desc
          BY <4>1 DEF HeapInv, HeapType, ArenaOf, ThingOK
        <5>3. \A e \in Desc : ToSet(free_list'[e]) \subseteq ToSet(free_list[e])
          BY <1>3, <1>14
        <5> QED
          BY <4>1, <5>1, <5>2, <5>3 DEF ThingOK, block_size
      <4> QED
        BY <4>2, <4>3
    <3>2. ThingOK(x)'
      <4>1. arena'[p].desc[1] = d /\ arena'[p].desc # NULL
        BY <1>17, <1>18
      <4>2. block_size(b)' = d
        BY <1>5, <4>1 DEF block_size
      <4>3. b \notin ToSet(free_list'[d]) /\ b[2] < blocks_per_arena(d) /\ x.size <= d
        BY <1>2, <1>6, <1>7, <1>13, <1>14
      <4> QED
        BY <1>5, <1>13, <1>18, <4>1, <4>2, <4>3 DEF ThingOK
    <3> QED
      BY <1>13, <1>16, <3>1, <3>2 DEF ThingInv
  <2>4. OneUse'
    BY <1>11, <1>13, <1>16, OneUseAdd DEF HeapInv, BlocksInv
  <2>5. ArenaInv'
    <3>1. \A u \in Thread : Things(u) \subseteq Things(u)'
      BY <1>13, <1>16
    <3>2. /\ \A q, i : Used(<<q, i>>) => Used(<<q, i>>)'
          /\ \A q : SomeUsed(q) => SomeUsed(q)'
          /\ Used(b)' /\ SomeUsed(p)'
      BY <1>5, <1>13, <3>1 DEF Used, SomeUsed
    <3> SUFFICES ASSUME NEW q \in Page, NEW e \in Desc, arena'[q] # NULL, arena'[q].desc = <<e>>
                 PROVE  /\ \A i \in 0 .. blocks_per_arena(e) - 1 : <<q, i>> \in ToSet(free_list'[e]) \/ Used(<<q, i>>)'
                        /\ arena'[q].free_cnt = Cardinality(FreeOf(q, e)')
                        /\ SomeUsed(q)' \/ Fresh(q, e)'
      BY DEF ArenaInv
    <3>3. CASE q = p
      <4>1. e = d
        BY <1>17, <3>3
      <4>2. FreeOf(p, d)' = FreeOf(p, d) \ {b}
        BY <1>3, <1>14 DEF FreeOf
      <4>3. Cardinality(FreeOf(p, d)') = m - 1
        <5> DEFINE F == FreeOf(p, d)
        <5>1. IsFiniteSet(F) /\ b \in F /\ Cardinality(F) = m
          BY <1>7, <1>8, FreeOfFinite
        <5> HIDE DEF F
        <5>2. Cardinality(F \ {b}) = m - 1
          BY <5>1, FS_RemoveElement
        <5> QED
          BY <4>2, <5>2 DEF F
      <4>4. \A i \in 0 .. n - 1 : <<p, i>> \in ToSet(Tail(L)) \/ Used(<<p, i>>)'
        <5>1. \A i \in 0 .. n - 1 : <<p, i>> \in ToSet(L) \/ Used(<<p, i>>)
          BY <1>3, <1>6, <1>7 DEF HeapInv, BlocksInv, ArenaInv
        <5>2. \A i : <<p, i>> = b => Used(<<p, i>>)'
          BY <3>2
        <5> QED
          BY <1>14, <3>2, <5>1, <5>2
      <4> QED
        BY <1>6, <1>14, <1>17, <3>2, <3>3, <4>1, <4>3, <4>4
    <3>4. CASE q # p
      <4>1. arena[q] # NULL /\ arena[q].desc = <<e>> /\ arena'[q] = arena[q]
        BY <1>17, <3>4
      <4>2. FreeOf(q, e)' = FreeOf(q, e) /\ \A i : <<q, i>> \in ToSet(free_list[e]) => <<q, i>> \in ToSet(free_list'[e])
        <5>1. \A c : c[1] = q => c # b
          BY <1>5, <3>4
        <5>2. \A c : c[1] = q => (c \in ToSet(free_list'[e]) <=> c \in ToSet(free_list[e]))
          BY <1>3, <1>14, <5>1
        <5>3. \A i : <<q, i>>[1] = q
          OBVIOUS
        <5> QED
          BY <5>2, <5>3 DEF FreeOf
      <4>3. Fresh(q, e) => SomeUsed(q) \/ Fresh(q, e)'
        <5>1. CASE e = d
          BY <1>3, <1>4, <1>5, <1>10, <3>4, <5>1 DEF Fresh
        <5>2. CASE e # d
          BY <1>2, <1>15, <5>2, FreshKept
        <5> QED
          BY <5>1, <5>2
      <4> QED
        BY <3>2, <4>1, <4>2, <4>3 DEF HeapInv, BlocksInv, ArenaInv
    <3> QED
      BY <3>3, <3>4
  <2> QED
    BY <2>2, <2>3, <2>4, <2>5 DEF BlocksInv
<1> QED
  BY <1>13, <1>16, <1>19, <1>20, <1>21 DEF HeapInv, CallsInv

-----------------------------------------------------------------------------
(* What free finds: a block nobody else has.                               *)
LEMMA FreeingIs ==
  ASSUME MemoryInv, HeapInv, NEW t \in Thread, At(t, "free")
  PROVE  LET x == pc[t].old IN
         /\ x \in Thing /\ x.block \in Slot /\ x.block = <<x.block[1], x.block[2]>>
         /\ x.block[1] \in Page /\ x.block[2] \in Nat /\ ThingOK(x)
         /\ x \in Things(t)
         /\ held' = held /\ (\E f : Goto(t, f)) /\ ~At(t, "free")' => Things(t)' = Things(t) \ {x}
         /\ arena[x.block[1]] \in ArenaOf /\ arena[x.block[1]] # NULL
<1>1. CallInv(t) /\ pc[t].old \in Thing /\ pc[t].old \notin held[t]
  BY DEF HeapInv, CallsInv, CallInv, At
<1>2. pc[t].old \in Things(t)
  BY DEF Things
<1>3. /\ pc[t].old.block \in Slot /\ pc[t].old.block = <<pc[t].old.block[1], pc[t].old.block[2]>>
      /\ pc[t].old.block[1] \in Page /\ pc[t].old.block[2] \in Nat
  BY <1>1 DEF Thing, Slot
<1>4. ThingOK(pc[t].old)
  BY <1>2, ThingsTyped
<1>5. held' = held /\ ~At(t, "free")' => Things(t)' = Things(t) \ {pc[t].old}
  BY <1>1 DEF Things
<1>6. arena[pc[t].old.block[1]] \in ArenaOf /\ arena[pc[t].old.block[1]] # NULL
  BY <1>3, <1>4 DEF ThingOK, HeapInv, HeapType
<1> QED
  BY <1>1, <1>2, <1>3, <1>4, <1>5, <1>6

LEMMA OneUseLess ==
  ASSUME OneUse, \A u \in Thread : Things(u)' \subseteq Things(u)
  PROVE  OneUse'
<1> DEFINE T(u) == Things(u)'
<1>1. \A u \in Thread : T(u) \subseteq Things(u)
  OBVIOUS
<1> HIDE DEF T
<1>2. \A u, v \in Thread : \A y \in T(u), z \in T(v) : y.block = z.block => u = v /\ y = z
  BY <1>1 DEF OneUse
<1> QED
  BY <1>2 DEF OneUse, T

(* The pages of an arena that goes are those of the thread that frees it.  *)
LEMMA ArenaToFrame ==
  ASSUME MemoryInv, HeapInv, NEW t \in Thread, NEW f, Own(t, f),
         used_map' = used_map, NEW p \in Page,
         FramePages(t) = {}, ArenaPages(p)' = {}, FramePages(t)' = ArenaPages(p),
         \A q \in Page : q # p => arena'[q] = arena[q], held' = held
  PROVE  ClaimsInv'
<1> DEFINE e == <<"frame", t>>
           c == <<"arena", p>>
<1>1. \A u \in Thread : u # t => FramePages(u)' = FramePages(u)
  BY OthersHeap DEF HeapInv
<1>2. /\ c \in Claimant /\ e \in Claimant /\ c # e
      /\ PagesOf(c)' = {} /\ PagesOf(e) = {} /\ PagesOf(e)' = PagesOf(c)
  BY ClaimantIs, ClaimantNext
<1>3. ASSUME NEW k \in Claimant, k # c, k # e PROVE PagesOf(k)' = PagesOf(k)
  <2>1. /\ \A q \in Page : k = <<"arena", q>> => ArenaPages(q)' = ArenaPages(q)
        /\ \A u \in Thread : k = <<"frame", u>> => FramePages(u)' = FramePages(u)
        /\ \A u \in Thread, y \in Group : GroupPages(u, y)' = GroupPages(u, y)
    BY <1>1, <1>3 DEF ArenaPages, GroupPages
  <2> QED
    BY <2>1, ClaimsKept
<1> HIDE DEF c, e
<1> QED
  BY <1>2, <1>3, ClaimsHanded DEF HeapInv

(* An arena goes: of its blocks, none is in use and none is on a list.     *)
LEMMA ArenaGone ==
  ASSUME MemoryInv, HeapInv, NEW t \in Thread, NEW f, Own(t, f), ~At(t, "pop"),
         NEW p \in Page, NEW x \in Things(t), x.block[1] = p,
         \A u \in Thread : u # t => Things(u)' = Things(u), Things(t)' = Things(t) \ {x},
         \A u \in Thread : \A y \in Things(u) : y.block[1] = p => u = t /\ y = x,
         arena'[p] = NULL, \A q \in Page : q # p => arena'[q] = arena[q],
         \A d \in Desc : /\ IsInjective(free_list'[d])
                         /\ ToSet(free_list'[d]) = {c \in ToSet(free_list[d]) : c[1] # p}
  PROVE  BlocksInv'
<1>1. \A u \in Thread : \A y \in Things(u)' : y \in Things(u) /\ y.block[1] # p /\ y.block[1] \in Page /\ ThingOK(y)
  <2> TAKE u \in Thread
  <2> TAKE y \in Things(u)'
  <2>1. y \in Things(u) /\ ~(u = t /\ y = x)
    OBVIOUS
  <2> QED
    BY <2>1, ThingsTyped
<1>2. ListInv'
  <2>1. ASSUME NEW d \in Desc, NEW c \in ToSet(free_list[d]), c[1] # p
        PROVE  arena'[c[1]] # NULL /\ arena'[c[1]].desc = <<d>> /\ c[2] < blocks_per_arena(d)
    <3>1. c[1] \in Page
      BY FreeOfFinite DEF Slot
    <3>2. arena'[c[1]] = arena[c[1]]
      BY <2>1, <3>1
    <3> QED
      BY <3>2 DEF HeapInv, BlocksInv, ListInv
  <2>2. \A d \in Desc : \A c \in ToSet(free_list'[d]) : c \in ToSet(free_list[d]) /\ c[1] # p
    OBVIOUS
  <2> QED
    BY <2>1, <2>2 DEF ListInv
<1>3. ThingInv'
  <2> SUFFICES ASSUME NEW u \in Thread, NEW y \in Things(u)' PROVE ThingOK(y)'
    BY DEF ThingInv
  <2>1. arena'[y.block[1]] = arena[y.block[1]] /\ ThingOK(y)
    <3>1. y.block[1] # p /\ y.block[1] \in Page /\ ThingOK(y)
      BY <1>1
    <3> QED
      BY <3>1
  <2>2. arena[y.block[1]].desc # NULL => arena[y.block[1]].desc[1] \in Desc
    <3>1. y.block[1] \in Page /\ arena[y.block[1]] # NULL
      BY <1>1 DEF ThingOK
    <3> QED
      BY <3>1 DEF HeapInv, HeapType, ArenaOf
  <2>3. \A d \in Desc : ToSet(free_list'[d]) \subseteq ToSet(free_list[d])
    OBVIOUS
  <2> QED
    BY <2>1, <2>2, <2>3 DEF ThingOK, block_size
<1>4. OneUse'
  BY <1>1, OneUseLess DEF HeapInv, BlocksInv
<1>5. ArenaInv'
  <2> SUFFICES ASSUME NEW q \in Page, NEW d \in Desc, arena'[q] # NULL, arena'[q].desc = <<d>>
               PROVE  /\ \A i \in 0 .. blocks_per_arena(d) - 1 : <<q, i>> \in ToSet(free_list'[d]) \/ Used(<<q, i>>)'
                      /\ arena'[q].free_cnt = Cardinality(FreeOf(q, d)')
                      /\ SomeUsed(q)' \/ Fresh(q, d)'
    BY DEF ArenaInv
  <2>1. q # p /\ arena[q] # NULL /\ arena[q].desc = <<d>> /\ arena'[q] = arena[q]
    OBVIOUS
  <2>2. \A u \in Thread : \A y \in Things(u) : y.block[1] = q => y \in Things(u)'
    BY <2>1
  <2>3. /\ \A i : Used(<<q, i>>) => Used(<<q, i>>)'
        /\ SomeUsed(q) => SomeUsed(q)'
    BY <2>2 DEF Used, SomeUsed
  <2>4. FreeOf(q, d)' = FreeOf(q, d) /\ \A i : <<q, i>> \in ToSet(free_list[d]) => <<q, i>> \in ToSet(free_list'[d])
    BY <2>1 DEF FreeOf
  <2>5. Fresh(q, d) => Fresh(q, d)'
    BY FreshKept
  <2> QED
    BY <2>1, <2>3, <2>4, <2>5 DEF HeapInv, BlocksInv, ArenaInv
<1> QED
  BY <1>2, <1>3, <1>4, <1>5 DEF BlocksInv

(* A block at the front of a list.                                         *)
LEMMA PushIs ==
  ASSUME NEW S, NEW s \in Seq(S), NEW b \in S
  PROVE  /\ <<b>> \o s \in Seq(S) /\ ToSet(<<b>> \o s) = ToSet(s) \cup {b}
         /\ IsInjective(s) /\ b \notin ToSet(s) => IsInjective(<<b>> \o s)
<1> DEFINE r == <<b>> \o s
<1>1. DOMAIN s = 1 .. Len(s) /\ Len(s) \in Nat
  BY LenProperties
<1>2. /\ r \in Seq(S) /\ DOMAIN r = 1 .. Len(s) + 1
      /\ \A i \in 1 .. Len(s) + 1 : r[i] = IF i = 1 THEN b ELSE s[i - 1]
  <2>1. <<b>> \in Seq(S) /\ Len(<<b>>) = 1 /\ <<b>>[1] = b
    OBVIOUS
  <2>2. /\ r \in Seq(S) /\ Len(r) = 1 + Len(s)
        /\ \A i \in 1 .. 1 + Len(s) : r[i] = IF i <= 1 THEN <<b>>[i] ELSE s[i - 1]
    BY <2>1, ConcatProperties, LenProperties
  <2> HIDE DEF r
  <2> QED
    BY <1>1, <2>1, <2>2, LenProperties
<1> HIDE DEF r
<1>3. ToSet(r) = ToSet(s) \cup {b}
  <2>1. \A i \in 1 .. Len(s) + 1 : r[i] \in ToSet(s) \cup {b}
    BY <1>1, <1>2 DEF ToSet
  <2>2. r[1] = b /\ \A i \in 1 .. Len(s) : i + 1 \in 1 .. Len(s) + 1 /\ r[i + 1] = s[i]
    BY <1>1, <1>2
  <2>3. \A c \in ToSet(s) \cup {b} : \E i \in 1 .. Len(s) + 1 : r[i] = c
    BY <1>1, <2>2 DEF ToSet
  <2>4. ToSet(r) = {r[i] : i \in 1 .. Len(s) + 1}
    BY <1>2 DEF ToSet
  <2> QED
    BY <2>1, <2>3, <2>4
<1>4. IsInjective(s) /\ b \notin ToSet(s) => IsInjective(r)
  <2> SUFFICES ASSUME IsInjective(s), b \notin ToSet(s),
                      NEW i \in 1 .. Len(s) + 1, NEW j \in 1 .. Len(s) + 1, r[i] = r[j]
               PROVE  i = j
    BY <1>2 DEF IsInjective
  <2>1. \A k \in 1 .. Len(s) : s[k] # b
    BY <1>1 DEF ToSet
  <2>2. /\ i # 1 => i - 1 \in 1 .. Len(s) /\ r[i] = s[i - 1]
        /\ j # 1 => j - 1 \in 1 .. Len(s) /\ r[j] = s[j - 1]
        /\ i = 1 => r[i] = b
        /\ j = 1 => r[j] = b
    BY <1>1, <1>2
  <2>3. i # 1 /\ j # 1 => i - 1 = j - 1
    BY <1>1, <2>2 DEF IsInjective
  <2> QED
    BY <1>1, <2>1, <2>2, <2>3
<1> QED
  BY <1>2, <1>3, <1>4 DEF r

-----------------------------------------------------------------------------
LEMMA FreeBigHeap ==
  ASSUME MemoryInv, HeapInv, NEW t \in Thread, FreeBlock(t),
         arena[pc[t].old.block[1]].desc = NULL
  PROVE  HeapInv'
<1>1. At(t, "free")
  BY DEF FreeBlock
<1>2. PICK x \in Things(t) : x = pc[t].old
  BY <1>1, FreeingIs
<1>3. PICK p \in Page : p = x.block[1]
  BY <1>1, <1>2, FreeingIs
<1>4. /\ x \in Thing /\ x.block = <<p, 0>> /\ arena[p] \in ArenaOf /\ arena[p] # NULL /\ arena[p].desc = NULL
  BY <1>1, <1>2, <1>3, FreeingIs DEF ThingOK
<1>5. PICK cnt \in Nat \ {0} : cnt = arena[p].free_cnt
  BY <1>4 DEF HeapInv, HeapType, ArenaOf
<1>6. PICK f : f = [[Frame("clear", 0, NULL) EXCEPT !.page = p] EXCEPT !.cnt = cnt]
  OBVIOUS
<1>7. /\ Goto(t, f) /\ arena' = [arena EXCEPT ![p] = NULL] /\ free_list' = free_list /\ owner' = owner
      /\ used_map' = used_map /\ held' = held
  BY <1>2, <1>3, <1>4, <1>5, <1>6 DEF FreeBlock
<1>8. pc'[t] = f /\ f.at = "clear" /\ f.page = p /\ f.cnt = cnt /\ f.size = 0
  BY <1>6, <1>7 DEF Goto, MemoryInv, Frame
<1>9. Own(t, f)
  BY <1>7 DEF Own
<1>10. \A u \in Thread : u # t => CallInv(u)' /\ FramePages(u)' = FramePages(u) /\ Things(u)' = Things(u)
  BY <1>7, <1>9, OthersHeap DEF HeapInv
<1>11. Things(t)' = Things(t) \ {x}
  <2>1. ~At(t, "free")'
    BY <1>8 DEF At
  <2> QED
    BY <1>1, <1>2, <1>7, <2>1, FreeingIs
<1>12. ArenaPages(p) = p .. p + cnt - 1
  BY <1>4, <1>5 DEF ArenaPages
<1>13. p + cnt <= Pages /\ p # NULL /\ Pages \in Nat /\ p \in Nat
  <2>1. ArenaPages(p) \subseteq Page
    <3> DEFINE c == <<"arena", p>>
    <3>1. c \in Claimant /\ PagesOf(c) = ArenaPages(p)
      BY ClaimantIs
    <3> HIDE DEF c
    <3> QED
      BY <3>1 DEF HeapInv, HeapType, ClaimsInv
  <2>2. p \in Nat /\ Pages \in Nat /\ p # NULL
    BY MemoryAssumption DEF Page
  <2>3. p + cnt - 1 \in ArenaPages(p)
    BY <1>12, <2>2
  <2> QED
    BY <2>1, <2>2, <2>3 DEF Page
<1>14. CallInv(t)'
  BY <1>8, <1>13 DEF CallInv, Page
<1>15. FramePages(t) = {} /\ FramePages(t)' = p .. p + cnt - 1
  BY <1>1, <1>8, <1>13 DEF FramePages, At
<1>16. /\ arena'[p] = NULL /\ (\A q \in Page : q # p => arena'[q] = arena[q])
       /\ arena' \in [Page -> ArenaOf \cup {NULL}]
  BY <1>7 DEF HeapInv, HeapType
<1>17. HeapType'
  BY <1>7, <1>16 DEF HeapInv, HeapType, ArenaOf, Slot, Page, Thing, Group
<1>18. ClaimsInv'
  <2>1. ArenaPages(p)' = {}
    BY <1>16 DEF ArenaPages
  <2> QED
    BY <1>7, <1>9, <1>12, <1>15, <1>16, <2>1, ArenaToFrame
<1>19. BlocksInv'
  <2>1. ASSUME NEW u \in Thread, NEW y \in Things(u), y.block[1] = p PROVE u = t /\ y = x
    <3>1. y.block = <<p, 0>>
      <4>1. ThingOK(y) /\ y.block \in Slot
        BY ThingsTyped
      <4>2. y.block[2] = 0
        BY <1>4, <2>1, <4>1 DEF ThingOK
      <4> QED
        BY <2>1, <4>1, <4>2 DEF Slot
    <3> QED
      BY <1>4, <3>1 DEF HeapInv, BlocksInv, OneUse
  <2>2. \A d \in Desc : /\ IsInjective(free_list'[d])
                        /\ ToSet(free_list'[d]) = {c \in ToSet(free_list[d]) : c[1] # p}
    <3>1. \A d \in Desc : \A c \in ToSet(free_list[d]) : c[1] # p
      <4>1. \A d \in Desc : <<d>> # NULL
        BY DescIs, MemoryAssumption
      <4> QED
        BY <1>4, <4>1 DEF HeapInv, BlocksInv, ListInv
    <3> QED
      BY <1>7, <3>1 DEF HeapInv, BlocksInv, ListInv
  <2>3. ~At(t, "pop") /\ x.block[1] = p
    BY <1>1, <1>3 DEF At
  <2>4. /\ arena'[p] = NULL /\ \A q \in Page : q # p => arena'[q] = arena[q]
        /\ \A u \in Thread : u # t => Things(u)' = Things(u)
    BY <1>10, <1>16
  <2> QED
    BY <1>9, <1>11, <2>1, <2>2, <2>3, <2>4, ArenaGone
<1> QED
  BY <1>10, <1>14, <1>17, <1>18, <1>19 DEF HeapInv, CallsInv

(* What free of the small block b of p's arena does.                       *)
FreesSmall(t, x, p, d, n, m, b) ==
  /\ x = pc[t].old /\ x.block = b /\ b[1] = p /\ n = blocks_per_arena(d) /\ m = arena[p].free_cnt
  /\ b[2] < n /\ b \notin ToSet(free_list[d]) /\ b = <<p, b[2]>>
  /\ arena[p] # NULL /\ arena[p] \in ArenaOf /\ arena[p].desc = <<d>>
  /\ m = Cardinality(FreeOf(p, d)) /\ owner[d] = NULL
  /\ used_map' = used_map /\ held' = held
  /\ \A u \in Thread : u # t => \A e \in Desc : owner[e] = u => e # d
  /\ IF m + 1 >= n
     THEN /\ free_list' = [free_list EXCEPT ![d] = Without(<<b>> \o free_list[d], p)]
          /\ arena' = [arena EXCEPT ![p] = NULL] /\ owner' = [owner EXCEPT ![d] = t]
          /\ Goto(t, [[Frame("clear", 0, NULL) EXCEPT !.page = p] EXCEPT !.cnt = 1, !.size = d])
     ELSE /\ free_list' = [free_list EXCEPT ![d] = <<b>> \o free_list[d]]
          /\ arena' = [arena EXCEPT ![p] = [arena[p] EXCEPT !.free_cnt = @ + 1]]
          /\ owner' = owner /\ Goto(t, User)

LEMMA FreeSmallIs ==
  ASSUME MemoryInv, HeapInv, NEW t \in Thread, FreeBlock(t),
         arena[pc[t].old.block[1]].desc # NULL
  PROVE  \E x \in Things(t), p \in Page, d \in Desc, n \in Nat \ {0}, m \in Nat, b \in Slot :
           FreesSmall(t, x, p, d, n, m, b)
<1>1. At(t, "free")
  BY DEF FreeBlock
<1>2. PICK x \in Things(t) : x = pc[t].old
  BY <1>1, FreeingIs
<1>3. PICK b \in Slot : b = x.block
  BY <1>1, <1>2, FreeingIs
<1>4. PICK p \in Page : p = b[1]
  BY DEF Slot
<1>5. /\ x \in Thing /\ b = <<p, b[2]>> /\ arena[p] \in ArenaOf /\ arena[p] # NULL /\ arena[p].desc # NULL
      /\ ThingOK(x)
  BY <1>1, <1>2, <1>3, <1>4, FreeingIs
<1>6. PICK d \in Desc : arena[p].desc = <<d>>
  BY <1>5 DEF ArenaOf
<1>7. PICK n \in Nat \ {0} : n = blocks_per_arena(d)
  BY DescIs
<1>8. PICK m \in Nat : m = arena[p].free_cnt
  BY <1>5 DEF ArenaOf
<1>9. arena[p].desc[1] = d
  BY <1>6
<1>10. b[2] < n /\ b \notin ToSet(free_list[d])
  BY <1>3, <1>4, <1>5, <1>7, <1>9 DEF ThingOK
<1>11. m = Cardinality(FreeOf(p, d))
  BY <1>5, <1>6, <1>8 DEF HeapInv, BlocksInv, ArenaInv
<1>12. /\ owner[d] = NULL /\ used_map' = used_map /\ held' = held
       /\ free_list' = [free_list EXCEPT ![d] =
                          IF m + 1 >= n THEN Without(<<b>> \o free_list[d], p) ELSE <<b>> \o free_list[d]]
       /\ arena' = [arena EXCEPT ![p] = IF m + 1 >= n THEN NULL ELSE [arena[p] EXCEPT !.free_cnt = @ + 1]]
       /\ IF m + 1 >= n THEN /\ owner' = [owner EXCEPT ![d] = t]
                             /\ Goto(t, [[Frame("clear", 0, NULL) EXCEPT !.page = p] EXCEPT !.cnt = 1, !.size = d])
          ELSE Goto(t, User) /\ owner' = owner
  BY <1>2, <1>3, <1>4, <1>5, <1>7, <1>8, <1>9 DEF FreeBlock
<1>13. \A u \in Thread : u # t => \A e \in Desc : owner[e] = u => e # d
  BY <1>12, ThreadNotNull
<1>14. IF m + 1 >= n
       THEN /\ free_list' = [free_list EXCEPT ![d] = Without(<<b>> \o free_list[d], p)]
            /\ arena' = [arena EXCEPT ![p] = NULL] /\ owner' = [owner EXCEPT ![d] = t]
            /\ Goto(t, [[Frame("clear", 0, NULL) EXCEPT !.page = p] EXCEPT !.cnt = 1, !.size = d])
       ELSE /\ free_list' = [free_list EXCEPT ![d] = <<b>> \o free_list[d]]
            /\ arena' = [arena EXCEPT ![p] = [arena[p] EXCEPT !.free_cnt = @ + 1]]
            /\ owner' = owner /\ Goto(t, User)
  BY <1>12
<1>15. FreesSmall(t, x, p, d, n, m, b)
  BY <1>2, <1>3, <1>4, <1>5, <1>6, <1>7, <1>8, <1>10, <1>11, <1>12, <1>13, <1>14 DEF FreesSmall
<1> QED
  BY <1>15

-----------------------------------------------------------------------------
(* The blocks of an arena on its list, with the one that is freed.         *)
LEMMA FreedCount ==
  ASSUME MemoryInv, HeapInv, NEW p \in Page, NEW d \in Desc, NEW n \in Nat \ {0}, NEW m \in Nat, NEW b \in Slot,
         n = blocks_per_arena(d), m = Cardinality(FreeOf(p, d)), b \notin ToSet(free_list[d]),
         b = <<p, b[2]>>, b[2] < n, arena[p] # NULL, arena[p].desc = <<d>>
  PROVE  /\ Cardinality(FreeOf(p, d) \cup {b}) = m + 1
         /\ FreeOf(p, d) \cup {b} \subseteq {<<p, i>> : i \in 0 .. n - 1}
         /\ m + 1 < n => \E i \in 0 .. n - 1 : <<p, i>> # b /\ <<p, i>> \notin ToSet(free_list[d])
         /\ m + 1 >= n => \A i \in 0 .. n - 1 : <<p, i>> = b \/ <<p, i>> \in ToSet(free_list[d])
<1> DEFINE E == FreeOf(p, d)
           F == E \cup {b}
           B == {<<p, i>> : i \in 0 .. n - 1}
<1>1. F \subseteq B
  <2>1. \A c \in E : c \in Slot /\ c[1] = p /\ c[2] < n
    BY FreeOfFinite DEF FreeOf, HeapInv, BlocksInv, ListInv
  <2>2. \A c \in E : c \in B
    BY <2>1 DEF Slot
  <2>3. b \in B
    BY DEF Slot
  <2> QED
    BY <2>2, <2>3
<1>2. IsFiniteSet(F) /\ Cardinality(F) = m + 1
  <2>1. IsFiniteSet(E) /\ Cardinality(E) = m /\ b \notin E
    BY FreeOfFinite DEF FreeOf
  <2> HIDE DEF E
  <2> QED
    BY <2>1, FS_AddElement
<1>3. Cardinality(B) = n /\ IsFiniteSet(B)
  <2>1. Blocks(p, d) \in Seq(Slot) /\ ToSet(Blocks(p, d)) = B /\ Cardinality(ToSet(Blocks(p, d))) = n
    BY BlocksIs
  <2>2. IsFiniteSet(ToSet(Blocks(p, d)))
    BY <2>1, ElementsFinite
  <2> QED
    BY <2>1, <2>2
<1> HIDE DEF F, B
<1>4. m + 1 <= n /\ (m + 1 = n => F = B)
  BY <1>1, <1>2, <1>3, FS_Subset
<1>5. \A i \in 0 .. n - 1 : <<p, i>> \in B /\ (<<p, i>> \in F <=> <<p, i>> = b \/ <<p, i>> \in ToSet(free_list[d]))
  BY DEF F, B, FreeOf
<1>6. m + 1 < n => \E i \in 0 .. n - 1 : <<p, i>> \notin F
  <2>1. m + 1 < n => F # B
    BY <1>2, <1>3
  <2>2. m + 1 < n => \E c \in B : c \notin F
    BY <1>1, <2>1
  <2> QED
    BY <2>2 DEF B
<1>7. m + 1 >= n => F = B
  BY <1>4
<1>8. /\ m + 1 < n => \E i \in 0 .. n - 1 : <<p, i>> # b /\ <<p, i>> \notin ToSet(free_list[d])
      /\ m + 1 >= n => \A i \in 0 .. n - 1 : <<p, i>> = b \/ <<p, i>> \in ToSet(free_list[d])
  BY <1>5, <1>6, <1>7
<1> QED
  BY <1>1, <1>2, <1>8 DEF F, B

LEMMA FreeKeptHeap ==
  ASSUME MemoryInv, HeapInv, NEW t \in Thread, At(t, "free"),
         NEW x \in Things(t), NEW p \in Page, NEW d \in Desc, NEW n \in Nat \ {0}, NEW m \in Nat, NEW b \in Slot,
         FreesSmall(t, x, p, d, n, m, b), m + 1 < n
  PROVE  HeapInv'
<1>1. /\ x = pc[t].old /\ x.block = b /\ b[1] = p /\ n = blocks_per_arena(d) /\ m = arena[p].free_cnt
      /\ b[2] < n /\ b \notin ToSet(free_list[d]) /\ b = <<p, b[2]>>
      /\ arena[p] # NULL /\ arena[p] \in ArenaOf /\ arena[p].desc = <<d>>
      /\ m = Cardinality(FreeOf(p, d)) /\ owner[d] = NULL
      /\ used_map' = used_map /\ held' = held
      /\ \A u \in Thread : u # t => \A e \in Desc : owner[e] = u => e # d
      /\ free_list' = [free_list EXCEPT ![d] = <<b>> \o free_list[d]]
      /\ arena' = [arena EXCEPT ![p] = [arena[p] EXCEPT !.free_cnt = @ + 1]]
      /\ owner' = owner /\ Goto(t, User)
  BY DEF FreesSmall
<1>0. /\ n = blocks_per_arena(d) /\ m = Cardinality(FreeOf(p, d)) /\ b \notin ToSet(free_list[d])
      /\ b = <<p, b[2]>> /\ b[2] < n /\ arena[p] # NULL /\ arena[p].desc = <<d>>
  BY DEF FreesSmall
<1>2. pc'[t] = User /\ User.at = "user"
  BY <1>1 DEF Goto, MemoryInv, User, Frame
<1>3. PICK L \in Seq(Slot) : L = free_list[d] /\ IsInjective(L)
  BY DEF HeapInv, HeapType, BlocksInv, ListInv
<1>4. /\ <<b>> \o L \in Seq(Slot) /\ ToSet(<<b>> \o L) = ToSet(L) \cup {b} /\ IsInjective(<<b>> \o L)
  BY <1>1, <1>3, PushIs
<1>5. /\ free_list' \in [Desc -> Seq(Slot)] /\ free_list'[d] = <<b>> \o L
      /\ \A e \in Desc : e # d => free_list'[e] = free_list[e]
  <2>1. free_list \in [Desc -> Seq(Slot)]
    BY DEF HeapInv, HeapType
  <2> QED
    BY <1>1, <1>3, <1>4, <2>1
<1>6. Own(t, User)
  BY <1>1, <1>5 DEF Own
<1>7. \A u \in Thread : u # t => CallInv(u)' /\ FramePages(u)' = FramePages(u) /\ Things(u)' = Things(u)
  BY <1>1, <1>6, OthersHeap DEF HeapInv
<1>8. Things(t)' = Things(t) \ {x}
  BY <1>1, <1>2, FreeingIs DEF At
<1>9. CallInv(t)' /\ FramePages(t)' = {} /\ FramePages(t) = {}
  BY <1>2 DEF CallInv, FramePages, At
<1>10. /\ arena' \in [Page -> ArenaOf \cup {NULL}]
       /\ arena'[p] \in ArenaOf /\ arena'[p].desc = <<d>> /\ arena'[p].free_cnt = m + 1
       /\ \A q \in Page : q # p => arena'[q] = arena[q]
  <2>1. /\ [arena[p] EXCEPT !.free_cnt = @ + 1] \in ArenaOf
        /\ [arena[p] EXCEPT !.free_cnt = @ + 1].desc = <<d>>
        /\ [arena[p] EXCEPT !.free_cnt = @ + 1].free_cnt = m + 1
    BY <1>1 DEF ArenaOf
  <2>2. arena \in [Page -> ArenaOf \cup {NULL}]
    BY DEF HeapInv, HeapType
  <2>3. arena'[p] = [arena[p] EXCEPT !.free_cnt = @ + 1]
    BY <1>1, <2>2
  <2> QED
    BY <1>1, <2>1, <2>2, <2>3
<1>11. arena'[p] # NULL /\ <<d>> # NULL
  <2>1. Desc \subseteq 0 .. PGSIZE
    BY DescIs
  <2>2. NULL \notin ArenaOf /\ <<d>> # NULL
    BY <2>1, MemoryAssumption DEF ArenaOf
  <2> QED
    BY <1>10, <2>2
<1>12. HeapType'
  BY <1>1, <1>5, <1>10, <1>11 DEF HeapInv, HeapType, ArenaOf, Slot, Page, Thing, Group
<1>13. ClaimsInv'
  <2>1. \A k \in Claimant : PagesOf(k)' = PagesOf(k)
    <3> TAKE k \in Claimant
    <3>1. \A q \in Page : ArenaPages(q)' = ArenaPages(q)
      BY <1>1, <1>10, <1>11 DEF ArenaPages
    <3>2. \A u \in Thread : FramePages(u)' = FramePages(u)
      BY <1>7, <1>9
    <3>3. \A u \in Thread, y \in Group : GroupPages(u, y)' = GroupPages(u, y)
      BY <1>1 DEF GroupPages
    <3> QED
      BY <3>1, <3>2, <3>3, ClaimsKept
  <2> QED
    BY <1>1, <2>1, ClaimsSame DEF HeapInv
<1>14. ListInv'
  <2> SUFFICES ASSUME NEW e \in Desc
               PROVE  /\ IsInjective(free_list'[e])
                      /\ \A c \in ToSet(free_list'[e]) :
                           /\ arena'[c[1]] # NULL /\ arena'[c[1]].desc = <<e>>
                           /\ c[2] < blocks_per_arena(e)
    BY DEF ListInv
  <2>1. /\ IsInjective(free_list'[e])
        /\ \A c \in ToSet(free_list'[e]) : c \in ToSet(free_list[e]) \/ (c = b /\ e = d)
    <3>1. IsInjective(free_list[e]) /\ (e # d => free_list'[e] = free_list[e])
      BY <1>5 DEF HeapInv, BlocksInv, ListInv
    <3>2. CASE e = d
      BY <1>3, <1>4, <1>5, <3>2
    <3> QED
      BY <3>1, <3>2
  <2>2. ASSUME NEW c \in ToSet(free_list[e])
        PROVE  /\ arena'[c[1]] # NULL /\ arena'[c[1]].desc = <<e>>
               /\ c[2] < blocks_per_arena(e)
    <3>1. arena[c[1]] # NULL /\ arena[c[1]].desc = <<e>> /\ c[2] < blocks_per_arena(e) /\ c[1] \in Page
      BY FreeOfFinite DEF HeapInv, BlocksInv, ListInv, Slot
    <3> QED
      BY <1>1, <1>10, <1>11, <3>1
  <2>3. arena'[b[1]] # NULL /\ arena'[b[1]].desc = <<d>> /\ b[2] < blocks_per_arena(d)
    BY <1>1, <1>10, <1>11
  <2> QED
    BY <2>1, <2>2, <2>3
<1>15. \A u \in Thread : \A y \in Things(u)' : y \in Things(u) /\ y.block # b
  <2>1. \A u \in Thread : \A y \in Things(u)' : y \in Things(u) /\ ~(u = t /\ y = x)
    BY <1>7, <1>8
  <2>2. \A u \in Thread : \A y \in Things(u) : y.block = b => u = t /\ y = x
    BY <1>1 DEF HeapInv, BlocksInv, OneUse
  <2> QED
    BY <2>1, <2>2
<1>16. ThingInv'
  <2> SUFFICES ASSUME NEW u \in Thread, NEW y \in Things(u)' PROVE ThingOK(y)'
    BY DEF ThingInv
  <2>1. y.block[1] \in Page /\ ThingOK(y) /\ y.block # b
    BY <1>15, ThingsTyped
  <2>2. CASE y.block[1] = p
    <3>0. arena[p].desc[1] = d /\ arena'[p].desc[1] = d /\ arena[p].desc # NULL /\ arena'[p].desc # NULL
      BY <1>1, <1>10, <1>11
    <3>1. y.block[2] < n /\ y.block \notin ToSet(L) /\ (NoneWraps => y.size <= d)
      BY <1>1, <1>3, <2>1, <2>2, <3>0 DEF ThingOK, block_size
    <3>2. y.block \notin ToSet(free_list'[d])
      BY <1>4, <1>5, <2>1, <3>1
    <3> QED
      BY <1>1, <1>11, <2>2, <3>0, <3>1, <3>2 DEF ThingOK, block_size
  <2>3. CASE y.block[1] # p
    <3>1. arena'[y.block[1]] = arena[y.block[1]]
      BY <1>10, <2>1, <2>3
    <3>2. arena[y.block[1]].desc # NULL => arena[y.block[1]].desc[1] \in Desc
      BY <2>1 DEF HeapInv, HeapType, ArenaOf, ThingOK
    <3>3. \A e \in Desc : \A c \in ToSet(free_list'[e]) : c \in ToSet(free_list[e]) \/ c = b
      BY <1>3, <1>4, <1>5
    <3> QED
      BY <2>1, <3>1, <3>2, <3>3 DEF ThingOK, block_size
  <2> QED
    BY <2>2, <2>3
<1>17. OneUse'
  BY <1>15, OneUseLess DEF HeapInv, BlocksInv
<1>18. \A u \in Thread : \A y \in Things(u) : y.block # b => y \in Things(u)'
  BY <1>1, <1>7, <1>8
<1>19. SomeUsed(p)'
  <2>1. \E i \in 0 .. n - 1 : <<p, i>> # b /\ <<p, i>> \notin ToSet(free_list[d])
    BY <1>0, FreedCount
  <2>2. PICK i \in 0 .. n - 1 : <<p, i>> # b /\ <<p, i>> \notin ToSet(free_list[d])
    BY <2>1
  <2>3. <<p, i>> \notin ToSet(free_list[d]) /\ <<p, i>> # b
    BY <2>2
  <2>4. Used(<<p, i>>)
    BY <1>1, <2>2, <2>3 DEF HeapInv, BlocksInv, ArenaInv
  <2>5. PICK u \in Thread : \E y \in Things(u) : y.block = <<p, i>>
    BY <2>4 DEF Used
  <2>6. PICK y \in Things(u) : y.block = <<p, i>>
    BY <2>5
  <2>7. y \in Things(u)' /\ y.block[1] = p
    BY <1>18, <2>3, <2>6
  <2> QED
    BY <2>7 DEF SomeUsed
<1>20. ArenaInv'
  <2>1. \A c : c # b => (Used(c) => Used(c)')
    BY <1>18 DEF Used
  <2> SUFFICES ASSUME NEW q \in Page, NEW e \in Desc, arena'[q] # NULL, arena'[q].desc = <<e>>
               PROVE  /\ \A i \in 0 .. blocks_per_arena(e) - 1 : <<q, i>> \in ToSet(free_list'[e]) \/ Used(<<q, i>>)'
                      /\ arena'[q].free_cnt = Cardinality(FreeOf(q, e)')
                      /\ SomeUsed(q)' \/ Fresh(q, e)'
    BY DEF ArenaInv
  <2>2. CASE q = p
    <3>1. e = d
      BY <1>10, <2>2
    <3>2. FreeOf(p, d)' = FreeOf(p, d) \cup {b}
      BY <1>1, <1>3, <1>4, <1>5 DEF FreeOf
    <3>3. Cardinality(FreeOf(p, d)') = m + 1
      BY <1>0, <3>2, FreedCount
    <3>4. \A i \in 0 .. n - 1 : <<p, i>> \in ToSet(<<b>> \o L) \/ Used(<<p, i>>)'
      <4>1. \A i \in 0 .. n - 1 : <<p, i>> \in ToSet(L) \/ Used(<<p, i>>)
        BY <1>1, <1>3 DEF HeapInv, BlocksInv, ArenaInv
      <4> QED
        BY <1>4, <2>1, <4>1
    <3> QED
      BY <1>0, <1>5, <1>10, <1>19, <2>2, <3>1, <3>3, <3>4
  <2>3. CASE q # p
    <3>1. arena[q] # NULL /\ arena[q].desc = <<e>> /\ arena'[q] = arena[q]
      BY <1>10, <2>3
    <3>2. FreeOf(q, e)' = FreeOf(q, e) /\ \A i : <<q, i>> \in ToSet(free_list[e]) => <<q, i>> \in ToSet(free_list'[e])
      <4>1. \A c : c[1] = q => c # b
        BY <1>1, <2>3
      <4>2. \A c : c[1] = q => (c \in ToSet(free_list'[e]) <=> c \in ToSet(free_list[e]))
        BY <1>3, <1>4, <1>5, <4>1
      <4>3. \A i : <<q, i>>[1] = q
        OBVIOUS
      <4> QED
        BY <4>2, <4>3 DEF FreeOf
    <3>3. Fresh(q, e) => Fresh(q, e)'
      <4>1. ~At(t, "pop")
        BY DEF At
      <4> QED
        BY <1>6, <4>1, FreshKept
    <3>4. SomeUsed(q) => SomeUsed(q)'
      <4>1. \A u \in Thread : \A y \in Things(u) : y.block[1] = q => y \in Things(u)'
        BY <1>1, <1>18, <2>3
      <4> QED
        BY <4>1 DEF SomeUsed
    <3>5. \A i : Used(<<q, i>>) => Used(<<q, i>>)'
      <4>1. \A i : <<q, i>> # b
        BY <1>1, <2>3
      <4> QED
        BY <2>1, <4>1
    <3> QED
      BY <3>1, <3>2, <3>3, <3>4, <3>5 DEF HeapInv, BlocksInv, ArenaInv
  <2> QED
    BY <2>2, <2>3
<1> QED
  BY <1>7, <1>9, <1>12, <1>13, <1>14, <1>16, <1>17, <1>20 DEF HeapInv, CallsInv, BlocksInv

-----------------------------------------------------------------------------
LEMMA FreeLastHeap ==
  ASSUME MemoryInv, HeapInv, NEW t \in Thread, At(t, "free"),
         NEW x \in Things(t), NEW p \in Page, NEW d \in Desc, NEW n \in Nat \ {0}, NEW m \in Nat, NEW b \in Slot,
         FreesSmall(t, x, p, d, n, m, b), m + 1 >= n
  PROVE  HeapInv'
<1>0. /\ n = blocks_per_arena(d) /\ m = Cardinality(FreeOf(p, d)) /\ b \notin ToSet(free_list[d])
      /\ b = <<p, b[2]>> /\ b[2] < n /\ arena[p] # NULL /\ arena[p].desc = <<d>>
  BY DEF FreesSmall
<1>1. /\ x = pc[t].old /\ x.block = b /\ b[1] = p /\ owner[d] = NULL
      /\ used_map' = used_map /\ held' = held
      /\ \A u \in Thread : u # t => \A e \in Desc : owner[e] = u => e # d
      /\ free_list' = [free_list EXCEPT ![d] = Without(<<b>> \o free_list[d], p)]
      /\ arena' = [arena EXCEPT ![p] = NULL] /\ owner' = [owner EXCEPT ![d] = t]
      /\ Goto(t, [[Frame("clear", 0, NULL) EXCEPT !.page = p] EXCEPT !.cnt = 1, !.size = d])
  BY DEF FreesSmall
<1>2. PICK f : f = [[Frame("clear", 0, NULL) EXCEPT !.page = p] EXCEPT !.cnt = 1, !.size = d]
  OBVIOUS
<1>3. /\ pc'[t] = f /\ Goto(t, f) /\ f.at = "clear" /\ f.page = p /\ f.cnt = 1 /\ f.size = d
  BY <1>1, <1>2 DEF Goto, MemoryInv, Frame
<1>4. PICK L \in Seq(Slot) : L = free_list[d] /\ IsInjective(L)
  BY DEF HeapInv, HeapType, BlocksInv, ListInv
<1>5. PICK R \in Seq(Slot) : R = <<b>> \o L /\ ToSet(R) = ToSet(L) \cup {b} /\ IsInjective(R)
  BY <1>0, <1>4, PushIs
<1>6. PICK W \in Seq(Slot) : /\ W = Without(R, p) /\ IsInjective(W)
                             /\ ToSet(W) = {c \in ToSet(L) : c[1] # p}
  <2>1. /\ Without(R, p) \in Seq(Slot) /\ IsInjective(Without(R, p))
        /\ ToSet(Without(R, p)) = {c \in ToSet(R) : c[1] # p}
    <3> HIDE <1>5
    <3>1. IsInjective(R)
      BY <1>5
    <3>2. Without(R, p) \in Seq(Slot)
      BY WithoutIs
    <3>3. IsInjective(R) => IsInjective(Without(R, p))
      BY WithoutIs
    <3>4. ToSet(Without(R, p)) = {c \in ToSet(R) : c[1] # p}
      BY ONLY WithoutIs, R \in Seq(Slot)
    <3> QED
      BY <3>1, <3>2, <3>3, <3>4
  <2>2. {c \in ToSet(R) : c[1] # p} = {c \in ToSet(L) : c[1] # p}
    BY <1>1, <1>5
  <2> QED
    BY <2>1, <2>2
<1>7. /\ free_list' \in [Desc -> Seq(Slot)] /\ free_list'[d] = W
      /\ \A e \in Desc : e # d => free_list'[e] = free_list[e]
  <2>1. free_list \in [Desc -> Seq(Slot)]
    BY DEF HeapInv, HeapType
  <2> QED
    BY <1>1, <1>4, <1>5, <1>6, <2>1
<1>8. owner'[d] = t /\ owner' \in [Desc -> Thread \cup {NULL}] /\ \A e \in Desc : e # d => owner'[e] = owner[e]
  BY <1>1 DEF HeapInv, HeapType
<1>9. Own(t, f)
  BY <1>1, <1>3, <1>7, <1>8 DEF Own
<1>10. \A u \in Thread : u # t => CallInv(u)' /\ FramePages(u)' = FramePages(u) /\ Things(u)' = Things(u)
  BY <1>1, <1>9, OthersHeap DEF HeapInv
<1>11. Things(t)' = Things(t) \ {x}
  <2>1. ~At(t, "free")'
    BY <1>3 DEF At
  <2> QED
    BY <1>1, <1>3, <2>1, FreeingIs
<1>12. p \in Nat /\ Pages \in Nat /\ p + 1 <= Pages /\ p # NULL
  BY MemoryAssumption DEF Page
<1>13. CallInv(t)'
  BY <1>3, <1>8, <1>12 DEF CallInv, Page
<1>14. FramePages(t) = {} /\ FramePages(t)' = {p} /\ ArenaPages(p) = {p}
  <2>1. FramePages(t) = {} /\ FramePages(t)' = p .. p + 1 - 1
    BY <1>3, <1>12 DEF FramePages, At
  <2>2. <<d>> # NULL
    BY DescIs, MemoryAssumption
  <2> QED
    BY <1>0, <1>12, <2>1, <2>2 DEF ArenaPages
<1>15. /\ arena'[p] = NULL /\ (\A q \in Page : q # p => arena'[q] = arena[q])
       /\ arena' \in [Page -> ArenaOf \cup {NULL}]
  BY <1>1 DEF HeapInv, HeapType
<1>16. HeapType'
  BY <1>1, <1>7, <1>8, <1>15 DEF HeapInv, HeapType, ArenaOf, Slot, Page, Thing, Group
<1>17. ClaimsInv'
  <2>1. ArenaPages(p)' = {}
    BY <1>15 DEF ArenaPages
  <2>2. used_map' = used_map /\ held' = held
    BY <1>1
  <2> QED
    BY <1>9, <1>14, <1>15, <2>1, <2>2, ArenaToFrame
<1>18. BlocksInv'
  <2>1. ASSUME NEW u \in Thread, NEW y \in Things(u), y.block[1] = p PROVE u = t /\ y = x
    <3>1. ThingOK(y) /\ y.block \in Slot
      BY ThingsTyped
    <3>2. arena[p].desc # NULL /\ arena[p].desc[1] = d
      <4>1. <<d>> # NULL
        BY DescIs, MemoryAssumption
      <4> QED
        BY <1>0, <4>1
    <3>3. y.block[2] < n /\ y.block \notin ToSet(free_list[d])
      BY <1>0, <2>1, <3>1, <3>2 DEF ThingOK
    <3>4. y.block = <<p, y.block[2]>> /\ y.block[2] \in 0 .. n - 1
      BY <2>1, <3>1, <3>3 DEF Slot
    <3>5. \A i \in 0 .. n - 1 : <<p, i>> = b \/ <<p, i>> \in ToSet(free_list[d])
      BY <1>0, FreedCount
    <3>6. y.block = b
      BY <3>3, <3>4, <3>5
    <3> QED
      BY <1>1, <3>6 DEF HeapInv, BlocksInv, OneUse
  <2>2. \A e \in Desc : /\ IsInjective(free_list'[e])
                        /\ ToSet(free_list'[e]) = {c \in ToSet(free_list[e]) : c[1] # p}
    <3> TAKE e \in Desc
    <3>1. CASE e = d
      BY <1>4, <1>6, <1>7, <3>1
    <3>2. CASE e # d
      <4>1. \A c \in ToSet(free_list[e]) : c[1] # p
        BY <1>0, <3>2 DEF HeapInv, BlocksInv, ListInv
      <4> QED
        BY <1>7, <3>2, <4>1 DEF HeapInv, BlocksInv, ListInv
    <3> QED
      BY <3>1, <3>2
  <2>3. ~At(t, "pop") /\ x.block[1] = p
    BY <1>1 DEF At
  <2>4. /\ arena'[p] = NULL /\ \A q \in Page : q # p => arena'[q] = arena[q]
        /\ \A u \in Thread : u # t => Things(u)' = Things(u)
    BY <1>10, <1>15
  <2> QED
    BY <1>9, <1>11, <2>1, <2>2, <2>3, <2>4, ArenaGone
<1> QED
  BY <1>10, <1>13, <1>16, <1>17, <1>18 DEF HeapInv, CallsInv

LEMMA FreeBlockHeap ==
  ASSUME MemoryInv, HeapInv, NEW t \in Thread, FreeBlock(t)
  PROVE  HeapInv'
<1>1. At(t, "free")
  BY DEF FreeBlock
<1>2. CASE arena[pc[t].old.block[1]].desc = NULL
  BY <1>2, FreeBigHeap
<1>3. CASE arena[pc[t].old.block[1]].desc # NULL
  <2>1. PICK x \in Things(t), p \in Page, d \in Desc, n \in Nat \ {0}, m \in Nat, b \in Slot :
               FreesSmall(t, x, p, d, n, m, b)
    BY <1>3, FreeSmallIs
  <2>2. m + 1 < n \/ m + 1 >= n
    OBVIOUS
  <2> QED
    BY <1>1, <2>1, <2>2, FreeKeptHeap, FreeLastHeap
<1> QED
  BY <1>2, <1>3

-----------------------------------------------------------------------------
LEMMA HeapInit == MemoryInit => HeapInv
<1> SUFFICES ASSUME MemoryInit PROVE HeapInv
  OBVIOUS
<1>1. /\ used_map = {} /\ arena = [p \in Page |-> NULL] /\ free_list = [d \in Desc |-> <<>>]
      /\ owner = [d \in Desc |-> NULL] /\ held = [t \in Thread |-> {}]
      /\ \A t \in Thread : pc[t].at = "user"
  BY DEF MemoryInit, User, Frame
<1>2. HeapType
  BY <1>1 DEF HeapType
<1>3. CallsInv
  BY <1>1 DEF CallsInv, CallInv
<1>4. \A t \in Thread : Things(t) = {} /\ FramePages(t) = {}
  BY <1>1 DEF Things, FramePages, At
<1>5. ClaimsInv
  <2>1. /\ \A p \in Page : ArenaPages(p) = {}
        /\ \A x : \A t \in Thread : GroupPages(t, x) = {}
    BY <1>1 DEF ArenaPages, GroupPages
  <2>2. \A c \in Claimant : PagesOf(c) = {}
    BY <1>4, <2>1, ClaimantIs
  <2> QED
    BY <1>1, <2>2 DEF ClaimsInv
<1>6. ListInv
  <2>1. IsInjective(<<>>) /\ ToSet(<<>>) = {}
    BY DEF IsInjective, ToSet
  <2> QED
    BY <1>1, <2>1 DEF ListInv
<1>7. ThingInv /\ OneUse /\ ArenaInv
  BY <1>1, <1>4 DEF ThingInv, OneUse, ArenaInv
<1> QED
  BY <1>2, <1>3, <1>5, <1>6, <1>7 DEF HeapInv, BlocksInv

LEMMA GotHeap ==
  ASSUME MemoryInv, HeapInv, NEW t \in Thread, Got(t)
  PROVE  HeapInv'
BY GotNothingHeap, GotGroupHeap, GotSmallHeap, GotBigHeap

LEMMA IdleHeap ==
  ASSUME MemoryInv, HeapInv, UNCHANGED memoryVars
  PROVE  HeapInv'
<1>1. /\ pc' = pc /\ used_map' = used_map /\ arena' = arena /\ free_list' = free_list
      /\ owner' = owner /\ held' = held
  BY DEF memoryVars
<1>2. HeapType' /\ CallsInv'
  BY <1>1 DEF HeapInv, HeapType, ArenaOf, Slot, Page, Thing, Group, CallsInv, CallInv, First
<1>3. ClaimsInv'
  <2>1. \A k \in Claimant : PagesOf(k)' = PagesOf(k)
    BY <1>1, ClaimsKept DEF ArenaPages, FramePages, GroupPages
  <2> QED
    BY <1>1, <2>1, ClaimsSame DEF HeapInv
<1>4. \A t \in Thread : Things(t)' = Things(t)
  BY <1>1 DEF Things, At
<1>5. ListInv' /\ ThingInv' /\ OneUse'
  BY <1>1, <1>4 DEF HeapInv, BlocksInv, ListInv, ThingInv, ThingOK, block_size, OneUse
<1>6. ArenaInv'
  <2>1. /\ \A b : Used(b)' = Used(b)
        /\ \A p : SomeUsed(p)' = SomeUsed(p)
        /\ \A p, d : FreeOf(p, d)' = FreeOf(p, d) /\ Fresh(p, d)' = Fresh(p, d)
    BY <1>1, <1>4 DEF Used, SomeUsed, FreeOf, Fresh, At
  <2> QED
    BY <1>1, <2>1 DEF HeapInv, BlocksInv, ArenaInv
<1> QED
  BY <1>2, <1>3, <1>5, <1>6 DEF HeapInv, BlocksInv

LEMMA HeapStep ==
  ASSUME MemoryInv, HeapInv, [MemoryNext]_memoryVars
  PROVE  HeapInv'
<1>1. ASSUME NEW t \in Thread,
             \/ Malloc(t) \/ GetPages(t) \/ Free(t)
             \/ LockDesc(t) \/ LockPool(t) \/ Scan(t) \/ Got(t) \/ Pop(t)
             \/ FreeBlock(t) \/ ClearBit(t)
      PROVE  HeapInv'
  BY <1>1, MallocHeap, GetPagesHeap, FreeHeap, LockDescHeap, LockPoolHeap, ScanHeap, GotHeap, PopHeap,
     FreeBlockHeap, ClearBitHeap
<1> QED
  BY <1>1, IdleHeap DEF MemoryNext

(* Between steps the pages, the lists and what threads hold agree: each    *)
(* page in use is claimed by one arena, caller or frame, each block of an  *)
(* arena is on its list or with one thread (malloc, realloc, free).        *)
THEOREM HeapInvariant == MemorySpec => []HeapInv
<1>1. MemoryInit => HeapInv
  BY HeapInit
<1>2. MemoryInv /\ HeapInv /\ [MemoryNext]_memoryVars => HeapInv'
  BY HeapStep
<1> QED
  BY <1>1, <1>2, ScanInvariant, PTL DEF MemorySpec

-----------------------------------------------------------------------------
(* The claims of a page are those of the claimants that have it.           *)
LEMMA ClaimsAre ==
  ASSUME HeapInv, NEW p \in Page
  PROVE  Cardinality(Claims(p)) = IF p \in used_map THEN 1 ELSE 0
<1> DEFINE Who(c) == IF c[1] = "arena" THEN <<"arena", c[2]>>
                     ELSE IF c[1] = "frame" THEN <<"frame", c[2]>> ELSE <<"holder", c[2][1]>>
<1>1. \A q \in Page : (/\ arena[q] # NULL
                       /\ IF arena[q].desc # NULL THEN p = q ELSE p \in q .. q + arena[q].free_cnt - 1)
                      <=> p \in ArenaPages(q)
  BY DEF ArenaPages
<1>2. \A t \in Thread : (\E x \in held[t] : x.kind = "pages" /\ p \in x.block[1] .. x.block[1] + x.size - 1)
                        <=> \E x \in Group : p \in GroupPages(t, x)
  BY DEF HeapInv, HeapType, Thing, Group, GroupPages
<1>3. \A t \in Thread : (/\ pc[t].at \in {"got", "clear"} /\ pc[t].page # NULL
                         /\ p \in pc[t].page .. pc[t].page + pc[t].cnt - 1)
                        <=> p \in FramePages(t)
  BY DEF FramePages
<1>4. Claims(p) = {<<"arena", q>> : q \in {r \in Page : p \in ArenaPages(r)}}
                    \cup {<<"holder", t>> : t \in {u \in Thread : \E x \in Group : p \in GroupPages(u, x)}}
                    \cup {<<"frame", t>> : t \in {u \in Thread : p \in FramePages(u)}}
  BY <1>1, <1>2, <1>3 DEF Claims
<1>5. \A c \in Claimant : p \in PagesOf(c) => Who(c) \in Claims(p)
  <2> SUFFICES ASSUME NEW c \in Claimant, p \in PagesOf(c) PROVE Who(c) \in Claims(p)
    OBVIOUS
  <2>1. CASE \E q \in Page : c = <<"arena", q>>
    BY <1>4, <2>1, ClaimantIs
  <2>2. CASE \E t \in Thread : c = <<"frame", t>>
    BY <1>4, <2>2, ClaimantIs
  <2>3. CASE \E t \in Thread, x \in Group : c = <<"group", <<t, x>>>>
    BY <1>4, <2>3, ClaimantIs
  <2> QED
    BY <2>1, <2>2, <2>3, ClaimantIs
<1>6. \A w \in Claims(p) : \E c \in Claimant : p \in PagesOf(c) /\ w = Who(c)
  <2> SUFFICES ASSUME NEW w \in Claims(p) PROVE \E c \in Claimant : p \in PagesOf(c) /\ w = Who(c)
    OBVIOUS
  <2>1. CASE \E q \in Page : p \in ArenaPages(q) /\ w = <<"arena", q>>
    BY <2>1, ClaimantIs
  <2>2. CASE \E t \in Thread : p \in FramePages(t) /\ w = <<"frame", t>>
    BY <2>2, ClaimantIs
  <2>3. CASE \E t \in Thread, x \in Group : p \in GroupPages(t, x) /\ w = <<"holder", t>>
    <3>1. PICK t \in Thread, x \in Group : p \in GroupPages(t, x) /\ w = <<"holder", t>>
      BY <2>3
    <3>2. Who(<<"group", <<t, x>>>>) = w
      BY <3>1
    <3> HIDE DEF Who
    <3> QED
      BY <3>1, <3>2, ClaimantIs
  <2> QED
    BY <1>4, <2>1, <2>2, <2>3
<1> HIDE DEF Who
<1>7. CASE p \in used_map
  <2>1. PICK c \in Claimant : p \in PagesOf(c)
    BY <1>7 DEF HeapInv, ClaimsInv
  <2>2. \A e \in Claimant : p \in PagesOf(e) => e = c
    BY <2>1 DEF HeapInv, ClaimsInv
  <2>3. Claims(p) = {Who(c)}
    BY <1>5, <1>6, <2>1, <2>2
  <2> QED
    BY <1>7, <2>3, FS_Singleton
<1>8. CASE p \notin used_map
  <2>1. \A c \in Claimant : p \notin PagesOf(c)
    BY <1>8 DEF HeapInv, ClaimsInv
  <2>2. Claims(p) = {}
    BY <1>6, <2>1
  <2> QED
    BY <1>8, <2>2, FS_EmptySet
<1> QED
  BY <1>7, <1>8

LEMMA HeapFromInv == NoneWraps /\ HeapInv => HeapExact
<1> SUFFICES ASSUME NoneWraps, HeapInv PROVE HeapExact
  OBVIOUS
<1>1. \A t \in Thread : InUse(t) = {x.block : x \in Things(t)}
  BY DEF InUse, Things
<1>2. \A t, u \in Thread : t # u => InUse(t) \cap InUse(u) = {}
  BY <1>1 DEF HeapInv, BlocksInv, OneUse
<1>3. \A t \in Thread, x \in UNION {held[u] : u \in Thread} :
        x.kind = "block" => arena[x.block[1]] # NULL /\ block_size(x.block) >= x.size
  <2> SUFFICES ASSUME NEW u \in Thread, NEW x \in held[u], x.kind = "block"
               PROVE  arena[x.block[1]] # NULL /\ block_size(x.block) >= x.size
    OBVIOUS
  <2>1. x \in Things(u)
    BY DEF Things
  <2>2. ThingOK(x)
    BY <2>1, ThingsTyped
  <2> QED
    BY <2>2 DEF ThingOK
<1>4. ASSUME NEW p \in Page, NEW d \in Desc, arena[p] # NULL, arena[p].desc = <<d>>
      PROVE  LET free == {b \in ToSet(free_list[d]) : b[1] = p}
                 used == {b \in UNION {InUse(t) : t \in Thread} : b[1] = p}
             IN /\ free \cap used = {} /\ free \cup used = ToSet(Blocks(p, d))
                /\ Cardinality(free) = arena[p].free_cnt
                /\ owner[d] = NULL => used # {}
  <2> DEFINE free == {b \in ToSet(free_list[d]) : b[1] = p}
             used == {b \in UNION {InUse(t) : t \in Thread} : b[1] = p}
  <2>1. PICK n \in Nat \ {0} : n = blocks_per_arena(d)
    BY DescIs
  <2>2. \A b \in free : b \in {<<p, i>> : i \in 0 .. n - 1}
    <3>1. \A b \in free : b \in Slot /\ b[1] = p /\ b[2] < n
      BY <2>1, FreeOfFinite DEF HeapInv, BlocksInv, ListInv
    <3> QED
      BY <3>1 DEF Slot
  <2>3. \A b : b \in used <=> b[1] = p /\ Used(b)
    BY <1>1 DEF Used
  <2>4. \A b \in used : b \in {<<p, i>> : i \in 0 .. n - 1} /\ b \notin free
    <3> SUFFICES ASSUME NEW u \in Thread, NEW y \in Things(u), y.block[1] = p
                 PROVE  y.block \in {<<p, i>> : i \in 0 .. n - 1} /\ y.block \notin free
      BY <2>3 DEF Used
    <3>1. ThingOK(y) /\ y.block \in Slot
      BY ThingsTyped
    <3>2. arena[p].desc # NULL /\ arena[p].desc[1] = d
      <4>1. <<d>> # NULL
        BY DescIs, MemoryAssumption
      <4> QED
        BY <1>4, <4>1
    <3>3. y.block[2] < n /\ y.block \notin ToSet(free_list[d])
      BY <2>1, <3>1, <3>2 DEF ThingOK
    <3> QED
      BY <3>1, <3>3 DEF Slot
  <2>5. \A i \in 0 .. n - 1 : <<p, i>> \in free \/ <<p, i>> \in used
    <3>1. \A i \in 0 .. n - 1 : <<p, i>> \in ToSet(free_list[d]) \/ Used(<<p, i>>)
      BY <1>4, <2>1 DEF HeapInv, BlocksInv, ArenaInv
    <3>2. \A i : <<p, i>>[1] = p
      OBVIOUS
    <3> QED
      BY <2>3, <3>1, <3>2
  <2>6. ToSet(Blocks(p, d)) = {<<p, i>> : i \in 0 .. n - 1}
    BY <2>1, BlocksIs
  <2>7. Cardinality(free) = arena[p].free_cnt
    BY <1>4 DEF HeapInv, BlocksInv, ArenaInv, FreeOf
  <2>8. owner[d] = NULL => used # {}
    <3>1. owner[d] = NULL => SomeUsed(p)
      BY <1>4, ThreadNotNull DEF HeapInv, BlocksInv, ArenaInv, Fresh
    <3>2. SomeUsed(p) => \E b : b \in used
      BY <2>3 DEF SomeUsed, Used
    <3> QED
      BY <3>1, <3>2
  <2>9. free \cap used = {}
    BY <2>4
  <2>10. free \cup used = ToSet(Blocks(p, d))
    <3> HIDE DEF free, used
    <3>1. \A c \in {<<p, i>> : i \in 0 .. n - 1} : c \in free \cup used
      BY <2>5
    <3> QED
      BY <2>2, <2>4, <2>6, <3>1
  <2> QED
    BY <2>7, <2>8, <2>9, <2>10
<1>5. \A p \in Page : arena[p] # NULL /\ arena[p].desc # NULL =>
        \E d \in Desc : arena[p].desc = <<d>> /\ arena[p].desc[1] = d
  BY DEF HeapInv, HeapType, ArenaOf
<1>6. \A d \in Desc : IsInjective(free_list[d])
                      /\ \A b \in ToSet(free_list[d]) : arena[b[1]] # NULL /\ arena[b[1]].desc = <<d>>
  BY DEF HeapInv, BlocksInv, ListInv
<1>7. ASSUME NEW p \in Page, arena[p] # NULL, arena[p].desc # NULL
      PROVE  LET d == arena[p].desc[1]
                 free == {b \in ToSet(free_list[d]) : b[1] = p}
                 used == {b \in UNION {InUse(t) : t \in Thread} : b[1] = p}
             IN /\ free \cap used = {} /\ free \cup used = ToSet(Blocks(p, d))
                /\ Cardinality(free) = arena[p].free_cnt
                /\ owner[d] = NULL => used # {}
  <2>1. PICK d \in Desc : arena[p].desc = <<d>> /\ arena[p].desc[1] = d
    BY <1>5, <1>7
  <2> QED
    BY <1>4, <1>7, <2>1
<1>8. \A p \in Page : Cardinality(Claims(p)) = IF p \in used_map THEN 1 ELSE 0
  BY ClaimsAre
<1> QED
  BY <1>2, <1>3, <1>6, <1>7, <1>8 DEF HeapExact

(* malloc, realloc, free and the pages they and others get and give back   *)
(* keep the heap exact, however the calls of threads mix, as long as no    *)
(* size that malloc is asked for wraps when the header is added to it.     *)
THEOREM HeapAlwaysExact == NoneWraps => (MemorySpec => []HeapExact)
<1> SUFFICES ASSUME NoneWraps PROVE MemorySpec => []HeapExact
  OBVIOUS
<1>1. HeapInv => HeapExact
  BY HeapFromInv
<1> QED
  BY <1>1, HeapInvariant, PTL

-----------------------------------------------------------------------------
ProgramHeader == [vaddr : 0 .. WORD - 1, offset : 0 .. WORD - 1, filesz : 0 .. WORD - 1, memsz : 0 .. WORD - 1]

Offset(p) == p.vaddr - PageOf(p.vaddr)
Total(p) == ROUND_UP((Offset(p) + p.memsz) % WORD)

(* What validate_segment and the sums behind it come to: nothing wraps.    *)
HeaderOK(p) ==
  /\ \E q, r \in Nat : /\ PageOf(p.vaddr) = q * PageSize /\ Total(p) = r * PageSize
                       /\ 1 <= q /\ q + r <= UserPages
  /\ PageOf(p.vaddr) \in Nat /\ Offset(p) \in 0 .. PageSize - 1
  /\ PageOf(p.offset) \in Nat /\ p.offset = PageOf(p.offset) + Offset(p)
  /\ Total(p) \in Nat /\ Offset(p) + p.memsz <= Total(p)
  /\ ReadBytes(p) = IF p.filesz > 0 THEN Offset(p) + p.filesz ELSE 0
  /\ p.filesz <= p.memsz
  /\ PageOf(p.offset) + ReadBytes(p) < WORD

LEMMA HeaderFacts ==
  ASSUME NEW p \in ProgramHeader, NEW length \in Lengths, validate_segment(p, length)
  PROVE  HeaderOK(p)
<1> DEFINE q == p.vaddr \div PageSize
           end == Offset(p) + p.memsz
           r == (end + PageSize - 1) \div PageSize
<1>1. /\ WORD \in Nat /\ PageSize \in Nat \ {0} /\ UserPages \in Nat /\ PHYS_BASE \in Nat
      /\ PHYS_BASE + PageSize < WORD
      /\ length + PHYS_BASE < WORD /\ length \in Nat
  BY LayoutAssumption DEF PHYS_BASE
<1>2. /\ p.vaddr \in Nat /\ p.offset \in Nat /\ p.filesz \in Nat /\ p.memsz \in Nat
      /\ p.vaddr < WORD /\ p.memsz < WORD
  BY <1>1 DEF ProgramHeader
<1>3. p.vaddr + p.memsz < PHYS_BASE
  <2>1. CASE p.vaddr + p.memsz < WORD
    BY <1>1, <1>2, <2>1, ModSmall DEF validate_segment, is_user_vaddr
  <2>2. CASE p.vaddr + p.memsz >= WORD
    <3>1. (p.vaddr + p.memsz) % WORD = p.vaddr + p.memsz - WORD
      BY <1>1, <1>2, <2>2, ModOnce
    <3> QED
      BY <1>1, <1>2, <3>1 DEF validate_segment
  <2> QED
    BY <1>1, <1>2, <2>1, <2>2
<1>4. /\ q \in Nat /\ PageOf(p.vaddr) = q * PageSize
      /\ PageOf(p.vaddr) \in Nat /\ Offset(p) \in 0 .. PageSize - 1
  <2>1. q \in Nat /\ q * PageSize <= p.vaddr /\ p.vaddr < q * PageSize + PageSize
    BY <1>1, <1>2, DivBounds
  <2>2. q * PageSize \in Nat /\ PageOf(p.vaddr) = q * PageSize
    BY <1>1, <2>1, MulAdd DEF PageOf
  <2> QED
    BY <1>1, <1>2, <2>1, <2>2 DEF Offset
<1>5. PageOf(p.offset) \in Nat /\ p.offset = PageOf(p.offset) + Offset(p)
  <2>1. p.offset \div PageSize \in Nat
    BY <1>1, <1>2, DivBounds
  <2>2. PageOf(p.offset) \in Nat
    BY <1>1, <2>1, MulAdd DEF PageOf
  <2> QED
    BY <1>2, <1>4, <2>2 DEF validate_segment, Offset
<1>6. /\ end \in Nat /\ end % WORD = end
      /\ end + PageSize - 1 \in Nat /\ (end + PageSize - 1) % WORD = end + PageSize - 1
  <2>1. end \in Nat /\ end + PageSize - 1 \in Nat /\ end + PageSize - 1 < WORD /\ end < WORD
    BY <1>1, <1>2, <1>3, <1>4 DEF Offset
  <2> QED
    BY <1>1, <2>1, ModSmall
<1>7. /\ r \in Nat /\ Total(p) = r * PageSize /\ Total(p) \in Nat
      /\ end <= Total(p) /\ Total(p) <= end + PageSize - 1
  <2>1. Total(p) = r * PageSize
    BY <1>6 DEF Total, ROUND_UP, PageOf
  <2> DEFINE x == end + PageSize - 1
             m == r * PageSize
  <2>2. x \in Nat /\ end \in Nat /\ PageSize \in Nat \ {0} /\ r = x \div PageSize
    BY <1>1, <1>6
  <2> HIDE DEF x
  <2>3. r \in Nat /\ m <= x /\ x < m + PageSize
    BY <2>2, DivBounds
  <2>4. m \in Nat
    BY <2>2, <2>3, MulAdd
  <2> HIDE DEF m
  <2>5. end <= m /\ m <= end + PageSize - 1
    <3>1. x = end + PageSize - 1
      BY DEF x
    <3> HIDE DEF end
    <3> QED
      BY <2>2, <2>3, <2>4, <3>1
  <2> QED
    BY <2>1, <2>3, <2>4, <2>5 DEF m
<1>8. 1 <= q
  <2>1. ~(p.vaddr < PageSize)
    BY <1>1, <1>2 DEF validate_segment
  <2> QED
    BY <1>1, <1>2, <1>4, <2>1 DEF Offset
<1>9. q + r <= UserPages
  <2>1. (q + r) * PageSize < (UserPages + 1) * PageSize
    <3>1. (q + r) * PageSize = PageOf(p.vaddr) + Total(p)
      BY <1>1, <1>4, <1>7, MulAdd
    <3>2. PageOf(p.vaddr) + Total(p) < PHYS_BASE + PageSize
      BY <1>1, <1>2, <1>3, <1>4, <1>7 DEF Offset
    <3>3. (UserPages + 1) * PageSize = PHYS_BASE + PageSize
      BY <1>1, MulAdd DEF PHYS_BASE
    <3> QED
      BY <3>1, <3>2, <3>3
  <2> QED
    BY <1>1, <1>4, <1>7, <2>1, MulLess
<1>10. p.filesz <= p.memsz /\ ReadBytes(p) = IF p.filesz > 0 THEN Offset(p) + p.filesz ELSE 0
  <2>1. p.filesz <= p.memsz
    BY <1>2 DEF validate_segment
  <2>2. (Offset(p) + p.filesz) % WORD = Offset(p) + p.filesz
    <3>1. Offset(p) + p.filesz \in Nat /\ Offset(p) + p.filesz < WORD
      BY <1>1, <1>2, <1>3, <1>4, <2>1 DEF Offset
    <3> QED
      BY <1>1, <3>1, ModSmall
  <2> QED
    BY <2>1, <2>2 DEF ReadBytes, Offset
<1>11. PageOf(p.offset) + ReadBytes(p) < WORD
  <2>1. p.offset <= length
    BY DEF validate_segment
  <2>2. Offset(p) + p.filesz <= PHYS_BASE - PageOf(p.vaddr)
    BY <1>1, <1>2, <1>3, <1>4, <1>10 DEF Offset
  <2> QED
    BY <1>1, <1>2, <1>4, <1>5, <1>10, <2>1, <2>2
<1> QED
  BY <1>4, <1>5, <1>7, <1>8, <1>9, <1>10, <1>11 DEF HeaderOK

-----------------------------------------------------------------------------
(* The state of load_segment's loop after k turns, and the entry that the  *)
(* turn after those makes.                                                 *)
Left(p, d) == IF d < ReadBytes(p) THEN ReadBytes(p) - d ELSE 0
Done(p, d) == IF d < ReadBytes(p) THEN d ELSE ReadBytes(p)

LoadingAt(p, k) ==
  [read_bytes |-> Left(p, k * PageSize),
   zero_bytes |-> Total(p) - k * PageSize - Left(p, k * PageSize),
   ofs |-> PageOf(p.offset) + Done(p, k * PageSize),
   upage |-> PageOf(p.vaddr) + k * PageSize]

EntryAt(p, k) ==
  [upage |-> PageOf(p.vaddr) + k * PageSize,
   ofs |-> PageOf(p.offset) + Done(p, k * PageSize),
   read |-> PageRead(Left(p, k * PageSize)),
   zero |-> PageSize - PageRead(Left(p, k * PageSize))]

Turns(k) ==
  /\ k * PageSize <= Total(phdr)
  /\ loading = LoadingAt(phdr, k)
  /\ table = {EntryAt(phdr, i) : i \in 0 .. k - 1}

LoaderInv ==
  IF phdr = NoHeader THEN loading = Idle /\ table = {}
  ELSE HeaderOK(phdr) /\ phdr \in ProgramHeader /\ \E k \in Nat : Turns(k)

PartitionInv ==
  /\ partition.start \in Nat /\ partition.size \in Nat /\ partition.device \in Nat
  /\ partition.start + partition.size <= partition.device
  /\ partition.device < WORD

LayoutInv == LoaderInv /\ PartitionInv

LEMMA LayoutInitInv == LayoutInit => LayoutInv
<1> SUFFICES ASSUME LayoutInit PROVE LayoutInv
  OBVIOUS
<1>1. LoaderInv
  BY DEF LayoutInit, LoaderInv
<1>2. PartitionInv
  BY LayoutAssumption DEF LayoutInit, PartitionInv, NoPartition, PHYS_BASE
<1> QED
  BY <1>1, <1>2 DEF LayoutInv

LEMMA ValidateInv ==
  ASSUME NEW p \in [vaddr : Vaddrs, offset : Offsets, filesz : Sizes, memsz : Sizes],
         NEW length \in Lengths, Validate(p, length), LoaderInv
  PROVE  LoaderInv'
<1>1. p \in ProgramHeader
  BY LayoutAssumption DEF ProgramHeader
<1>2. validate_segment(p, length) /\ HeaderOK(p)
  BY <1>1, HeaderFacts DEF Validate
<1>3. p # NoHeader
  BY <1>2 DEF validate_segment, NoHeader
<1>4. /\ PageSize \in Nat \ {0} /\ WORD \in Nat /\ 0 * PageSize = 0
  BY LayoutAssumption
<1>5. /\ ReadBytes(p) \in Nat /\ Total(p) \in Nat /\ ReadBytes(p) <= Total(p)
      /\ PageOf(p.offset) \in Nat /\ PageOf(p.vaddr) \in Nat
  BY <1>1, <1>2, <1>4 DEF HeaderOK, ProgramHeader
<1>6. loading' = LoadingAt(p, 0)
  <2>1. Total(p) - ReadBytes(p) \in Nat /\ Total(p) - ReadBytes(p) < WORD
    <3>1. Total(p) < WORD
      <4>1. PICK q \in Nat, r \in Nat : Total(p) = r * PageSize /\ 1 <= q /\ q + r <= UserPages
        BY <1>2 DEF HeaderOK
      <4>2. r * PageSize <= PHYS_BASE
        BY <4>1, <1>4, LayoutAssumption, MulLess DEF PHYS_BASE
      <4> QED
        BY <1>4, <4>1, <4>2, LayoutAssumption DEF PHYS_BASE
    <3> QED
      BY <1>4, <1>5, <3>1
  <2>2. (Total(p) - ReadBytes(p)) % WORD = Total(p) - ReadBytes(p)
    BY <1>4, <2>1, ModSmall
  <2>3. Left(p, 0) = ReadBytes(p) /\ Done(p, 0) = 0
    BY <1>5 DEF Left, Done
  <2> QED
    BY <1>4, <1>5, <2>2, <2>3 DEF Validate, LoadingAt, Total, Offset
<1>7. table' = {EntryAt(p, i) : i \in 0 .. 0 - 1}
  BY DEF Validate, LoaderInv
<1>8. phdr' = p
  BY DEF Validate
<1>9. Turns(0)'
  BY <1>4, <1>5, <1>6, <1>7, <1>8 DEF Turns
<1> QED
  BY <1>1, <1>2, <1>3, <1>8, <1>9 DEF LoaderInv

LEMMA LoadPageInv ==
  ASSUME LoaderInv, LoadPage
  PROVE  LoaderInv' /\ phdr # NoHeader /\ phdr' = phdr
<1>1. phdr # NoHeader
  BY DEF LoaderInv, LoadPage, Idle
<1>2. HeaderOK(phdr) /\ phdr \in ProgramHeader /\ phdr' = phdr
  BY <1>1 DEF LoaderInv, LoadPage
<1>3. PICK k \in Nat : Turns(k)
  BY <1>1 DEF LoaderInv
<1>4. PICK q \in Nat, r \in Nat :
        PageOf(phdr.vaddr) = q * PageSize /\ Total(phdr) = r * PageSize /\ 1 <= q /\ q + r <= UserPages
  BY <1>2 DEF HeaderOK
<1> DEFINE d == k * PageSize
           e == (k + 1) * PageSize
           rb == ReadBytes(phdr)
           pr == PageRead(Left(phdr, d))
<1>5. /\ PageSize \in Nat \ {0} /\ WORD \in Nat /\ UserPages \in Nat
      /\ UserPages * PageSize + PageSize < WORD
  BY LayoutAssumption DEF PHYS_BASE
<1>6. d \in Nat /\ e \in Nat /\ e = d + PageSize
  <2>1. 1 * PageSize = PageSize
    BY <1>5
  <2> QED
    BY <1>5, <2>1, MulAdd
<1>7. /\ rb \in Nat /\ Total(phdr) \in Nat /\ rb <= Total(phdr)
      /\ PageOf(phdr.offset) \in Nat /\ PageOf(phdr.vaddr) \in Nat
      /\ PageOf(phdr.offset) + rb < WORD
  BY <1>2, <1>5 DEF HeaderOK, ProgramHeader
<1>8. Left(phdr, d) \in Nat /\ (d < rb => Left(phdr, d) = rb - d) /\ (~(d < rb) => Left(phdr, d) = 0)
  BY <1>6, <1>7 DEF Left
<1>9. d < Total(phdr)
  <2>1. loading.read_bytes = Left(phdr, d) /\ loading.zero_bytes = Total(phdr) - d - Left(phdr, d)
    BY <1>3 DEF Turns, LoadingAt
  <2>2. loading.read_bytes > 0 \/ loading.zero_bytes > 0
    BY DEF LoadPage
  <2> QED
    BY <1>6, <1>7, <1>8, <2>1, <2>2
<1>10. k + 1 <= r /\ e <= Total(phdr)
  <2>1. k < r
    BY <1>4, <1>5, <1>9, MulLess
  <2>2. ~(r < k + 1)
    BY <2>1
  <2>3. ~(r * PageSize < e)
    BY <1>5, <2>2, MulLess
  <2> QED
    BY <1>4, <1>6, <1>7, <2>1, <2>3
<1>11. PageOf(phdr.vaddr) + e < WORD /\ Total(phdr) < WORD
  <2>1. q * PageSize + r * PageSize = (q + r) * PageSize
    BY <1>5, MulAdd
  <2>2. ~(UserPages < q + r)
    BY <1>4, <1>5
  <2>3. ~(UserPages * PageSize < (q + r) * PageSize)
    BY <1>5, <2>2, MulLess
  <2>4. q * PageSize \in Nat /\ r * PageSize \in Nat /\ UserPages * PageSize \in Nat
    BY <1>5, MulAdd
  <2>5. PageOf(phdr.vaddr) + Total(phdr) <= UserPages * PageSize
    BY <1>4, <2>1, <2>3, <2>4
  <2> QED
    BY <1>5, <1>6, <1>7, <1>10, <2>4, <2>5
<1> HIDE DEF d, e, rb
<1>12. /\ pr \in Nat /\ pr <= PageSize /\ pr <= Left(phdr, d)
       /\ Left(phdr, e) = Left(phdr, d) - pr
       /\ Done(phdr, e) = Done(phdr, d) + pr
       /\ Done(phdr, d) \in Nat /\ Done(phdr, e) <= rb
  <2>1. CASE ~(d < rb)
    BY <1>5, <1>6, <1>7, <1>8, <2>1 DEF PageRead, Left, Done, rb
  <2>2. CASE d < rb /\ rb - d < PageSize
    BY <1>5, <1>6, <1>7, <1>8, <2>2 DEF PageRead, Left, Done, rb
  <2>3. CASE d < rb /\ ~(rb - d < PageSize)
    <3>1. pr = PageSize /\ Done(phdr, d) = d /\ Left(phdr, d) = rb - d
      BY <1>5, <1>6, <1>7, <1>8, <2>3 DEF PageRead, Done, rb
    <3>2. CASE e < rb
      BY <1>5, <1>6, <1>7, <2>3, <3>1, <3>2 DEF Left, Done, rb
    <3>3. CASE e = rb
      BY <1>5, <1>6, <1>7, <2>3, <3>1, <3>3 DEF Left, Done, rb
    <3>4. e < rb \/ e = rb
      BY <1>5, <1>6, <1>7, <2>3
    <3> QED
      BY <3>2, <3>3, <3>4
  <2> QED
    BY <2>1, <2>2, <2>3
<1> HIDE DEF pr
<1>13. loading = [read_bytes |-> Left(phdr, d), zero_bytes |-> Total(phdr) - d - Left(phdr, d),
                  ofs |-> PageOf(phdr.offset) + Done(phdr, d), upage |-> PageOf(phdr.vaddr) + d]
  BY <1>3 DEF Turns, LoadingAt, d
<1>14. loading' = LoadingAt(phdr, k + 1)
  <2>1. (Left(phdr, d) - pr) % WORD = Left(phdr, e)
    <3>1. Left(phdr, e) \in Nat /\ Left(phdr, e) < WORD
      BY <1>5, <1>6, <1>7, <1>11, <1>12 DEF Left, rb
    <3> QED
      BY <1>5, <1>12, <3>1, ModSmall
  <2>2. (Total(phdr) - d - Left(phdr, d) - (PageSize - pr)) % WORD = Total(phdr) - e - Left(phdr, e)
    <3>1. Total(phdr) - e - Left(phdr, e) \in Nat /\ Total(phdr) - e - Left(phdr, e) < WORD
      BY <1>5, <1>6, <1>7, <1>10, <1>11 DEF Left, rb
    <3>2. Total(phdr) - d - Left(phdr, d) - (PageSize - pr) = Total(phdr) - e - Left(phdr, e)
      BY <1>5, <1>6, <1>7, <1>8, <1>12
    <3> QED
      BY <1>5, <3>1, <3>2, ModSmall
  <2>3. (PageOf(phdr.offset) + Done(phdr, d) + pr) % WORD = PageOf(phdr.offset) + Done(phdr, e)
    <3>1. PageOf(phdr.offset) + Done(phdr, d) + pr \in Nat /\ PageOf(phdr.offset) + Done(phdr, d) + pr < WORD
      BY <1>5, <1>7, <1>12
    <3> QED
      BY <1>5, <1>7, <1>12, <3>1, ModSmall
  <2>4. (PageOf(phdr.vaddr) + d + PageSize) % WORD = PageOf(phdr.vaddr) + e
    BY <1>5, <1>6, <1>7, <1>11, ModSmall
  <2>5. loading' = [read_bytes |-> (Left(phdr, d) - pr) % WORD,
                    zero_bytes |-> (Total(phdr) - d - Left(phdr, d) - (PageSize - pr)) % WORD,
                    ofs |-> (PageOf(phdr.offset) + Done(phdr, d) + pr) % WORD,
                    upage |-> (PageOf(phdr.vaddr) + d + PageSize) % WORD]
    BY <1>13 DEF LoadPage, pr
  <2> QED
    BY <2>1, <2>2, <2>3, <2>4, <2>5 DEF LoadingAt, e
<1>15. table' = {EntryAt(phdr, i) : i \in 0 .. (k + 1) - 1}
  <2>1. table' = table \cup {EntryAt(phdr, k)}
    BY <1>13 DEF LoadPage, EntryAt, pr, d
  <2>2. table = {EntryAt(phdr, i) : i \in 0 .. k - 1}
    BY <1>3 DEF Turns
  <2>3. 0 .. (k + 1) - 1 = (0 .. k - 1) \cup {k}
    OBVIOUS
  <2> QED
    BY <2>1, <2>2, <2>3
<1>16. Turns(k + 1)'
  BY <1>2, <1>10, <1>14, <1>15 DEF Turns, e
<1> QED
  BY <1>1, <1>2, <1>16 DEF LoaderInv

LEMMA PartitionStep ==
  ASSUME NEW device \in Devices, NEW start \in Devices, NEW size \in Devices,
         found_partition(device, start, size)
  PROVE  PartitionInv'
<1>1. /\ WORD \in Nat \ {0} /\ start \in Nat /\ size \in Nat /\ device \in Nat
      /\ start < WORD /\ size < WORD /\ device < WORD
  BY LayoutAssumption
<1>2. start + size < WORD
  <2>1. CASE start + size >= WORD
    <3>1. (start + size) % WORD = start + size - WORD
      <4> DEFINE end == start + size
      <4>1. WORD \in Nat \ {0} /\ end \in Nat /\ WORD <= end /\ end < WORD + WORD
        BY <1>1, <2>1
      <4> HIDE DEF end
      <4>2. end % WORD = end - WORD
        BY ONLY <4>1, ModOnce
      <4> QED
        BY <1>1, <4>2, SMT DEF end
    <3> QED
      BY <1>1, <3>1 DEF found_partition
  <2> QED
    BY <1>1, <2>1
<1>3. (start + size) % WORD = start + size
  BY <1>1, <1>2, ModSmall
<1>4. start + size <= device
  BY <1>3 DEF found_partition
<1> QED
  BY <1>1, <1>4 DEF found_partition, PartitionInv

LEMMA LayoutStepInv == LayoutInv /\ [LayoutNext]_layoutVars => LayoutInv'
<1> SUFFICES ASSUME LayoutInv, [LayoutNext]_layoutVars PROVE LayoutInv'
  OBVIOUS
<1>1. LoaderInv /\ PartitionInv
  BY DEF LayoutInv
<1>2. ASSUME NEW p \in [vaddr : Vaddrs, offset : Offsets, filesz : Sizes, memsz : Sizes],
             NEW length \in Lengths, Validate(p, length)
      PROVE  LayoutInv'
  <2>1. LoaderInv'
    BY <1>1, <1>2, ValidateInv
  <2>2. PartitionInv'
    BY <1>1, <1>2 DEF Validate, PartitionInv
  <2> QED
    BY <2>1, <2>2 DEF LayoutInv
<1>3. CASE LoadPage
  <2>1. LoaderInv'
    BY <1>1, <1>3, LoadPageInv
  <2>2. PartitionInv'
    BY <1>1, <1>3 DEF LoadPage, PartitionInv
  <2> QED
    BY <2>1, <2>2 DEF LayoutInv
<1>4. ASSUME NEW device \in Devices, NEW start \in Devices, NEW size \in Devices,
             found_partition(device, start, size)
      PROVE  LayoutInv'
  <2>1. PartitionInv'
    BY <1>4, PartitionStep
  <2>2. LoaderInv'
    BY <1>1, <1>4 DEF found_partition, LoaderInv
  <2> QED
    BY <2>1, <2>2 DEF LayoutInv
<1>5. CASE UNCHANGED layoutVars
  BY <1>1, <1>5 DEF layoutVars, LayoutInv, LoaderInv, Turns, PartitionInv
<1> QED
  BY <1>2, <1>3, <1>4, <1>5 DEF LayoutNext

(* The loop's invariant and the partitions' in every state.                *)
THEOREM LayoutInvariant == LayoutSpec => []LayoutInv
BY LayoutInitInv, LayoutStepInv, PTL DEF LayoutSpec

LEMMA BoundsFromInv == LayoutInv => WithinBounds
<1> SUFFICES ASSUME LayoutInv PROVE WithinBounds
  OBVIOUS
<1>1. LoaderInv /\ PartitionInv
  BY DEF LayoutInv
<1>2. SegmentInUserSpace
  <2>1. CASE phdr = NoHeader
    BY <1>1, <2>1 DEF LoaderInv, SegmentInUserSpace
  <2>2. CASE phdr # NoHeader
    <3>1. HeaderOK(phdr) /\ phdr \in ProgramHeader
      BY <1>1, <2>2 DEF LoaderInv
    <3>2. PICK k \in Nat : Turns(k)
      BY <1>1, <2>2 DEF LoaderInv
    <3>3. PICK q \in Nat, r \in Nat :
            PageOf(phdr.vaddr) = q * PageSize /\ Total(phdr) = r * PageSize /\ 1 <= q /\ q + r <= UserPages
      BY <3>1 DEF HeaderOK
    <3>4. PageSize \in Nat \ {0} /\ UserPages \in Nat
      BY LayoutAssumption
    <3>5. k <= r
      <4>1. ~(r * PageSize < k * PageSize)
        BY <3>2, <3>3, <3>4, MulAdd DEF Turns
      <4> QED
        BY <3>4, <4>1, MulLess
    <3>6. SUFFICES ASSUME NEW i \in 0 .. k - 1
                   PROVE  LET e == EntryAt(phdr, i)
                          IN  /\ \E j \in 1 .. UserPages - 1 : e.upage = j * PageSize
                              /\ e.read \in 0 .. PageSize /\ e.read + e.zero = PageSize
      BY <3>2 DEF Turns, SegmentInUserSpace
    <3>7. PageOf(phdr.vaddr) + i * PageSize = (q + i) * PageSize
      BY <3>3, <3>4, MulAdd
    <3>8. q + i \in 1 .. UserPages - 1
      BY <3>3, <3>4, <3>5
    <3>9. Left(phdr, i * PageSize) \in Nat
      <4>1. ReadBytes(phdr) \in Nat /\ i * PageSize \in Nat
        BY <3>1, <3>4, MulAdd DEF HeaderOK, ProgramHeader
      <4> QED
        BY <4>1 DEF Left
    <3>10. PageRead(Left(phdr, i * PageSize)) \in 0 .. PageSize
      BY <3>4, <3>9 DEF PageRead
    <3> QED
      BY <3>4, <3>7, <3>8, <3>10 DEF EntryAt
  <2> QED
    BY <2>1, <2>2
<1>3. PartitionInside
  <2> SUFFICES ASSUME NEW sector \in 0 .. partition.size - 1
               PROVE  /\ partition_sector(sector) < partition.device
                      /\ partition_sector(sector) = partition.start + sector
    BY DEF PartitionInside
  <2>1. /\ WORD \in Nat /\ partition.start + sector \in Nat
        /\ partition.start + sector < partition.device /\ partition.start + sector < WORD
    BY <1>1, LayoutAssumption DEF PartitionInv
  <2> QED
    BY <2>1, ModSmall DEF partition_sector
<1> QED
  BY <1>2, <1>3 DEF WithinBounds

(* Whatever a program header says, every page that load_segment enters for *)
(* it is a page of the user's space other than the first; and no sector of *)
(* a partition that found_partition registered leads out of its device.    *)
THEOREM NothingOutOfBounds == LayoutSpec => []WithinBounds
BY LayoutInvariant, BoundsFromInv, PTL

LEMMA ImageFromInv == LayoutInv => ImageExact
<1> SUFFICES ASSUME LayoutInv, phdr # NoHeader, loading.read_bytes = 0, loading.zero_bytes = 0
             PROVE  /\ \A a \in phdr.vaddr .. phdr.vaddr + phdr.memsz - 1 :
                         \E e \in table :
                           /\ e.upage <= a /\ a < e.upage + PageSize
                           /\ IF a < phdr.vaddr + phdr.filesz
                              THEN a < e.upage + e.read /\ a - e.upage + e.ofs = a - phdr.vaddr + phdr.offset
                              ELSE a >= e.upage + e.read
                    /\ \A e, f \in table : e.upage = f.upage => e = f
  BY DEF ImageExact
<1>1. HeaderOK(phdr) /\ phdr \in ProgramHeader
  BY DEF LayoutInv, LoaderInv
<1>2. PICK k \in Nat : Turns(k)
  BY DEF LayoutInv, LoaderInv
<1> DEFINE base == PageOf(phdr.vaddr)
           rb == ReadBytes(phdr)
<1>3. /\ base \in Nat /\ phdr.vaddr = base + Offset(phdr) /\ Offset(phdr) \in Nat
      /\ PageOf(phdr.offset) \in Nat /\ phdr.offset = PageOf(phdr.offset) + Offset(phdr)
      /\ phdr.filesz \in Nat /\ phdr.memsz \in Nat
      /\ rb = IF phdr.filesz > 0 THEN Offset(phdr) + phdr.filesz ELSE 0
      /\ Offset(phdr) + phdr.memsz <= Total(phdr) /\ Total(phdr) \in Nat
  BY <1>1 DEF HeaderOK, ProgramHeader, Offset
<1>4. PageSize \in Nat \ {0} /\ k * PageSize \in Nat
  BY LayoutAssumption, MulAdd
<1>5. Total(phdr) = k * PageSize
  <2>1. Left(phdr, k * PageSize) = 0 /\ Total(phdr) - k * PageSize - Left(phdr, k * PageSize) = 0
    BY <1>2 DEF Turns, LoadingAt
  <2> QED
    BY <1>3, <1>4, <2>1
<1> HIDE DEF base, rb
<1>6. ASSUME NEW a \in phdr.vaddr .. phdr.vaddr + phdr.memsz - 1
      PROVE  \E e \in table :
               /\ e.upage <= a /\ a < e.upage + PageSize
               /\ IF a < phdr.vaddr + phdr.filesz
                  THEN a < e.upage + e.read /\ a - e.upage + e.ofs = a - phdr.vaddr + phdr.offset
                  ELSE a >= e.upage + e.read
  <2> DEFINE x == a - base
             i == x \div PageSize
             d == i * PageSize
             e == EntryAt(phdr, i)
  <2>1. a \in Nat /\ a = base + x /\ x \in Nat /\ x < Total(phdr) /\ Offset(phdr) <= x
    BY <1>3
  <2> HIDE DEF x
  <2>2. i \in Nat /\ d <= x /\ x < d + PageSize /\ d \in Nat
    BY <1>4, <2>1, DivBounds, MulAdd
  <2> HIDE DEF i
  <2>3. i < k
    <3>1. d < k * PageSize
      BY <1>3, <1>4, <1>5, <2>1, <2>2
    <3> QED
      BY <1>4, <2>2, <3>1, MulLess
  <2>4. e \in table
    BY <1>2, <2>2, <2>3 DEF Turns
  <2>5. e = [upage |-> base + d, ofs |-> PageOf(phdr.offset) + Done(phdr, d),
             read |-> PageRead(Left(phdr, d)), zero |-> PageSize - PageRead(Left(phdr, d))]
    BY DEF EntryAt, base
  <2> HIDE DEF d, e
  <2>6. /\ d < rb => Left(phdr, d) = rb - d /\ Done(phdr, d) = d
        /\ ~(d < rb) => Left(phdr, d) = 0
    BY DEF Left, Done, rb
  <2>7. /\ e.upage = base + d /\ e.ofs = PageOf(phdr.offset) + Done(phdr, d)
        /\ e.read = PageRead(Left(phdr, d))
    BY <2>5
  <2>8. CASE a < phdr.vaddr + phdr.filesz
    <3>1. rb = Offset(phdr) + phdr.filesz /\ x < rb /\ d < rb /\ rb \in Nat
      BY <1>3, <2>1, <2>2, <2>8
    <3>2. x - d < e.read
      BY <1>4, <2>1, <2>2, <2>6, <2>7, <3>1 DEF PageRead
    <3>3. e.read \in Nat
      BY <1>4, <2>1, <2>2, <2>6, <2>7, <3>1 DEF PageRead
    <3>4. a < e.upage + e.read /\ a - e.upage + e.ofs = a - phdr.vaddr + phdr.offset
      BY <1>3, <2>1, <2>2, <2>6, <2>7, <3>1, <3>2, <3>3
    <3> QED
      BY <1>3, <1>4, <2>1, <2>2, <2>4, <2>7, <2>8, <3>4
  <2>9. CASE ~(a < phdr.vaddr + phdr.filesz)
    <3>1. rb \in Nat /\ rb <= x
      BY <1>3, <2>1, <2>9
    <3>2. e.read \in Nat /\ e.read <= x - d
      BY <1>4, <2>1, <2>2, <2>6, <2>7, <3>1 DEF PageRead
    <3>3. a >= e.upage + e.read
      BY <1>3, <2>1, <2>2, <2>7, <3>2
    <3> QED
      BY <1>3, <1>4, <2>1, <2>2, <2>4, <2>7, <2>9, <3>3
  <2> QED
    BY <2>8, <2>9
<1>7. ASSUME NEW e \in table, NEW f \in table, e.upage = f.upage
      PROVE  e = f
  <2>1. PICK i \in 0 .. k - 1 : e = EntryAt(phdr, i)
    BY <1>2 DEF Turns
  <2>2. PICK j \in 0 .. k - 1 : f = EntryAt(phdr, j)
    BY <1>2 DEF Turns
  <2>3. i * PageSize = j * PageSize
    <3>1. base + i * PageSize = base + j * PageSize
      BY <1>7, <2>1, <2>2 DEF EntryAt, base
    <3>2. i * PageSize \in Nat /\ j * PageSize \in Nat
      BY <1>2, <1>4, MulAdd
    <3> QED
      BY <1>3, <3>1, <3>2
  <2> QED
    BY <2>1, <2>2, <2>3 DEF EntryAt
<1> QED
  BY <1>6, <1>7

(* When load_segment has made its last turn, the pages it entered are the  *)
(* segment of the program header: every byte has its place in the file, or *)
(* is 0, and no page is entered twice.                                     *)
THEOREM SegmentIsLoaded == LayoutSpec => []ImageExact
BY LayoutInvariant, ImageFromInv, PTL
================================================================================
