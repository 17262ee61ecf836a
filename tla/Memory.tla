--------------------------------- MODULE Memory ---------------------------------
(***************************************************************************)
(* The block allocator of threads/malloc.c on the page allocator of        *)
(* threads/palloc.c (the files are the same in both kernels) and the       *)
(* bitmap of its pool, with several threads that allocate, resize and      *)
(* free.  The pages of a pool are numbered; the two pools are alike, and   *)
(* one is modelled.                                                        *)
(*                                                                         *)
(* What is done under a descriptor's lock to its list and arenas is one    *)
(* step.  The bitmap is not so protected: pages are looked for under the   *)
(* pool's lock and given back without it, bit by bit.                      *)
(***************************************************************************)
EXTENDS Integers, SequencesExt, FiniteSetsExt

CONSTANTS
  Thread,
  Pages,      \* the pages of the pool
  PGSIZE,
  Header,     \* sizeof (struct arena)
  Smallest,   \* the smallest block size, 16 in the code
  SizeWord,       \* a size_t holds 0 .. SizeWord - 1
  Requests,   \* the sizes that are asked for
  Holds,      \* how many blocks and groups of pages a thread has at most
  NULL

ASSUME MemoryAssumption ==
  /\ Pages \in Nat /\ SizeWord \in Nat /\ Holds \in Nat
  /\ PGSIZE \in Nat /\ Smallest \in Nat \ {0} /\ Header \in Nat
  /\ Header + Smallest <= PGSIZE /\ Header + Header <= PGSIZE /\ PGSIZE <= SizeWord
  /\ Requests \subseteq 1 .. SizeWord - 1
  /\ NULL \notin Thread \cup (0 .. Pages)
  /\ NULL \notin [kind : {"block", "pages"}, block : (0 .. Pages) \X Nat, size : Nat]
  /\ NULL \notin [desc : {NULL} \cup {<<d>> : d \in 0 .. PGSIZE}, free_cnt : Nat]
  /\ NULL \notin {<<d>> : d \in 0 .. PGSIZE}

VARIABLES
  pc,          \* of each thread: a frame
  used_map,    \* the pool's bitmap: the pages whose bit is set
  arena,       \* of each page: the arena at its start, or NULL
  free_list,   \* of each descriptor: blocks, a page and an index
  pool_lock,   \* the thread that holds the pool's lock, or NULL
  owner,       \* of each descriptor's lock: likewise
  held         \* of each thread: what it was given and has not given back

memoryVars == <<pc, used_map, arena, free_list, pool_lock, owner, held>>

Page == 0 .. Pages - 1

(* malloc_init: the descriptors, by block_size, with blocks_per_arena.     *)
Desc == {d \in {Smallest * k : k \in {1, 2, 4, 8, 16, 32, 64, 128, 256, 512}} : d < PGSIZE \div 2}
blocks_per_arena(d) == (PGSIZE - Header) \div d
Blocks(p, d) == [i \in 1 .. blocks_per_arena(d) |-> <<p, i - 1>>]

Small(size) == \E d \in Desc : d >= size
desc_of(size) == Min({d \in Desc : d >= size})
page_cnt(size) == ((((size + Header) % SizeWord) + PGSIZE - 1) % SizeWord) \div PGSIZE

(* A frame: where the thread is, what it asked for, what it resizes, the   *)
(* pages it looks for or gives back, and those used when the look began.   *)
Frame(at, size, old) ==
  [at |-> at, size |-> size, old |-> old, page |-> NULL, cnt |-> 0, i |-> 0, seen |-> {}]
User == Frame("user", 0, NULL)

(* A thing held: a block with the size asked for, or cnt pages.            *)
Block(b, size) == [kind |-> "block", block |-> b, size |-> size]
PageGroup(p, cnt) == [kind |-> "pages", block |-> <<p, 0>>, size |-> cnt]

MemoryInit ==
  /\ pc = [t \in Thread |-> User]
  /\ used_map = {}
  /\ arena = [p \in Page |-> NULL]
  /\ free_list = [d \in Desc |-> <<>>]
  /\ pool_lock = NULL
  /\ owner = [d \in Desc |-> NULL]
  /\ held = [t \in Thread |-> {}]

At(t, l) == pc[t].at = l
Goto(t, f) == pc' = [pc EXCEPT ![t] = f]
Acquire(t, d) == owner[d] = NULL /\ owner' = [owner EXCEPT ![d] = t]
Release(d) == owner' = [owner EXCEPT ![d] = NULL]
heap == <<arena, free_list>>

-----------------------------------------------------------------------------
(* malloc (size), for realloc (old, size) too.                             *)
Malloc(t) ==
  /\ At(t, "user")
  /\ \E size \in Requests, old \in {x \in held[t] : x.kind = "block"} \cup {NULL} :
       /\ old = NULL => Cardinality(held[t]) < Holds
       /\ Goto(t, IF Small(size) THEN Frame("desc", size, old)
                  ELSE [Frame("pool", size, old) EXCEPT !.cnt = page_cnt(size)])
  /\ UNCHANGED <<used_map, heap, pool_lock, owner, held>>

(* palloc_get_multiple, for another caller than malloc.                    *)
GetPages(t) ==
  /\ At(t, "user") /\ Cardinality(held[t]) < Holds
  /\ \E cnt \in 1 .. 2 : Goto(t, [Frame("pool", 0, NULL) EXCEPT !.cnt = cnt])
  /\ UNCHANGED <<used_map, heap, pool_lock, owner, held>>

(* A free list that is empty needs a page.                                 *)
LockDesc(t) ==
  LET d == desc_of(pc[t].size)
  IN /\ At(t, "desc")
     /\ Acquire(t, d)
     /\ Goto(t, IF free_list[d] = <<>> THEN [pc[t] EXCEPT !.at = "pool", !.cnt = 1]
                ELSE [pc[t] EXCEPT !.at = "pop"])
     /\ UNCHANGED <<used_map, heap, pool_lock, held>>

(* palloc_get_multiple up to bitmap_scan.                                  *)
LockPool(t) ==
  /\ At(t, "pool")
  /\ IF pc[t].cnt = 0 THEN Goto(t, [pc[t] EXCEPT !.at = "got"]) /\ UNCHANGED pool_lock
     ELSE /\ pool_lock = NULL /\ pool_lock' = t
          /\ Goto(t, [pc[t] EXCEPT !.at = "scan", !.seen = used_map])
  /\ UNCHANGED <<used_map, heap, owner, held>>

(* NullOnlyIfNone: the last group of pages is not tried                    *)
LastStart_F(cnt) == Pages - cnt - 1

LastStart(cnt) == Pages - cnt

(* bitmap_scan from pc.page + pc.i, a bit at a time, the marking of what   *)
(* it found, and lock_release.  Only this thread can set bits meanwhile.   *)
Scan(t) ==
  LET f == pc[t]
      first == IF f.page = NULL THEN 0 ELSE f.page
  IN /\ At(t, "scan")
     /\ \/ /\ first > LastStart(f.cnt)
           /\ Goto(t, [f EXCEPT !.at = "got", !.page = NULL])
           /\ pool_lock' = NULL
           /\ UNCHANGED used_map
        \/ /\ first <= LastStart(f.cnt)
           /\ first + f.i \in used_map
           /\ Goto(t, [f EXCEPT !.page = first + 1, !.i = 0])
           /\ UNCHANGED <<used_map, pool_lock>>
        \/ /\ first <= LastStart(f.cnt)
           /\ first + f.i \notin used_map
           /\ IF f.i + 1 < f.cnt
              THEN Goto(t, [f EXCEPT !.i = @ + 1]) /\ UNCHANGED <<used_map, pool_lock>>
              ELSE /\ Goto(t, [f EXCEPT !.at = "got", !.page = first, !.i = 0])
                   /\ used_map' = used_map \cup (first .. first + f.cnt - 1)
                   /\ pool_lock' = NULL
     /\ UNCHANGED <<heap, owner, held>>

-----------------------------------------------------------------------------
(* malloc returns b; realloc then copies, and frees the old block.         *)
Return(t, b) ==
  /\ held' = [held EXCEPT ![t] = (@ \ {pc[t].old}) \cup {Block(b, pc[t].size)}]
  /\ Goto(t, IF pc[t].old = NULL THEN User ELSE Frame("free", 0, pc[t].old))

Got(t) ==
  LET f == pc[t]
      d == desc_of(f.size)
  IN /\ At(t, "got")
     /\ \/ /\ f.page = NULL
           /\ Goto(t, User)
           /\ IF f.size > 0 /\ Small(f.size) THEN Release(d) ELSE UNCHANGED owner
           /\ UNCHANGED <<heap, held>>
        \/ /\ f.page # NULL /\ f.size = 0
           /\ held' = [held EXCEPT ![t] = @ \cup {PageGroup(f.page, f.cnt)}]
           /\ Goto(t, User)
           /\ UNCHANGED <<heap, owner>>
        \/ /\ f.page # NULL /\ f.size > 0 /\ ~Small(f.size)
           /\ arena' = [arena EXCEPT ![f.page] = [desc |-> NULL, free_cnt |-> f.cnt]]
           /\ Return(t, <<f.page, 0>>)
           /\ UNCHANGED <<free_list, owner>>
        \/ /\ f.page # NULL /\ f.size > 0 /\ Small(f.size)
           /\ arena' = [arena EXCEPT ![f.page] = [desc |-> <<d>>, free_cnt |-> blocks_per_arena(d)]]
           /\ free_list' = [free_list EXCEPT ![d] = @ \o Blocks(f.page, d)]
           /\ Goto(t, Frame("pop", f.size, f.old))
           /\ UNCHANGED <<owner, held>>
     /\ UNCHANGED <<used_map, pool_lock>>

Pop(t) ==
  LET d == desc_of(pc[t].size)
      b == Head(free_list[d])
  IN /\ At(t, "pop")
     /\ free_list' = [free_list EXCEPT ![d] = Tail(@)]
     /\ arena' = [arena EXCEPT ![b[1]].free_cnt = @ - 1]
     /\ Release(d)
     /\ Return(t, b)
     /\ UNCHANGED <<used_map, pool_lock>>

-----------------------------------------------------------------------------
Free(t) ==
  /\ At(t, "user")
  /\ \E x \in held[t] :
       /\ held' = [held EXCEPT ![t] = @ \ {x}]
       /\ Goto(t, IF x.kind = "block" THEN Frame("free", 0, x)
                  ELSE [Frame("clear", 0, NULL) EXCEPT !.page = x.block[1], !.cnt = x.size])
  /\ UNCHANGED <<used_map, heap, pool_lock, owner>>

(* HeapExact: the blocks of an arena that goes stay on the list            *)
Without_F(list, p) == list

(* list_remove of each: the others keep their order.                       *)
Without(list, p) ==
  LET kept == {i \in DOMAIN list : list[i][1] # p}
      place(i) == Cardinality({j \in kept : j <= i})
  IN [k \in 1 .. Cardinality(kept) |-> list[CHOOSE i \in kept : place(i) = k]]

(* free: the block goes to the front; an arena with no block in use gives  *)
(* its page back, with the descriptor's lock held.                         *)
FreeBlock(t) ==
  LET b == pc[t].old.block
      a == arena[b[1]]
      clear == [Frame("clear", 0, NULL) EXCEPT !.page = b[1]]
  IN /\ At(t, "free")
     /\ IF a.desc = NULL
        THEN /\ arena' = [arena EXCEPT ![b[1]] = NULL]
             /\ Goto(t, [clear EXCEPT !.cnt = a.free_cnt])
             /\ UNCHANGED <<free_list, owner>>
        ELSE LET d == a.desc[1]
                 list == <<b>> \o free_list[d]
                 unused == a.free_cnt + 1 >= blocks_per_arena(d)
             IN /\ owner[d] = NULL
                /\ free_list' = [free_list EXCEPT ![d] = IF unused THEN Without(list, b[1]) ELSE list]
                /\ arena' = [arena EXCEPT ![b[1]] =
                               IF unused THEN NULL ELSE [a EXCEPT !.free_cnt = @ + 1]]
                /\ IF unused THEN owner' = [owner EXCEPT ![d] = t]
                                  /\ Goto(t, [clear EXCEPT !.cnt = 1, !.size = d])
                   ELSE Goto(t, User) /\ UNCHANGED owner
     /\ UNCHANGED <<used_map, pool_lock, held>>

(* palloc_free_multiple: bitmap_set_multiple, a bit at a time.             *)
ClearBit(t) ==
  LET f == pc[t]
  IN /\ At(t, "clear")
     /\ used_map' = used_map \ {f.page}
     /\ IF f.cnt > 1 THEN Goto(t, [f EXCEPT !.page = @ + 1, !.cnt = @ - 1]) /\ UNCHANGED owner
        ELSE Goto(t, User) /\ IF f.size > 0 THEN Release(f.size) ELSE UNCHANGED owner
     /\ UNCHANGED <<heap, pool_lock, held>>

MemoryNext ==
  \E t \in Thread :
    \/ Malloc(t) \/ GetPages(t) \/ Free(t)
    \/ LockDesc(t) \/ LockPool(t) \/ Scan(t) \/ Got(t) \/ Pop(t)
    \/ FreeBlock(t) \/ ClearBit(t)

-----------------------------------------------------------------------------
(* block_size: the bytes a holder may use, and realloc copies.             *)
block_size(b) ==
  LET a == arena[b[1]]
  IN IF a.desc = NULL THEN PGSIZE * a.free_cnt - Header ELSE a.desc[1]

(* The blocks in use: held, resized or on their way to the free list.      *)
InUse(t) ==
  {x.block : x \in {y \in held[t] : y.kind = "block"}}
    \cup (IF At(t, "free") THEN {pc[t].old.block} ELSE {})

(* Who says that page p is his.                                            *)
Claims(p) ==
  {<<"arena", q>> : q \in {r \in Page : /\ arena[r] # NULL
                                        /\ IF arena[r].desc # NULL THEN p = r
                                           ELSE p \in r .. r + arena[r].free_cnt - 1}}
    \cup {<<"holder", t>> : t \in {u \in Thread : \E x \in held[u] :
            x.kind = "pages" /\ p \in x.block[1] .. x.block[1] + x.size - 1}}
    \cup {<<"frame", t>> : t \in {u \in Thread : /\ pc[u].at \in {"got", "clear"}
                                                 /\ pc[u].page # NULL
                                                 /\ p \in pc[u].page .. pc[u].page + pc[u].cnt - 1}}

(* A page's bit is set while just one has the page: an arena, a caller of  *)
(* palloc, or the thread that gets it or gives it back.  Every block of an *)
(* arena is on its descriptor's list once, or with just one holder;        *)
(* free_cnt counts the former, and there is one of the latter unless the   *)
(* lock is held.  A block has the bytes that were asked for.               *)
HeapExact ==
  /\ \A p \in Page : Cardinality(Claims(p)) = IF p \in used_map THEN 1 ELSE 0
  /\ \A t, u \in Thread : t # u => InUse(t) \cap InUse(u) = {}
  /\ \A d \in Desc : IsInjective(free_list[d])
                     /\ \A b \in ToSet(free_list[d]) : arena[b[1]] # NULL /\ arena[b[1]].desc = <<d>>
  /\ \A t \in Thread, x \in UNION {held[u] : u \in Thread} :
       x.kind = "block" => arena[x.block[1]] # NULL /\ block_size(x.block) >= x.size
  /\ \A p \in Page : arena[p] # NULL /\ arena[p].desc # NULL =>
       LET d == arena[p].desc[1]
           free == {b \in ToSet(free_list[d]) : b[1] = p}
           used == {b \in UNION {InUse(t) : t \in Thread} : b[1] = p}
       IN /\ free \cap used = {} /\ free \cup used = ToSet(Blocks(p, d))
          /\ Cardinality(free) = arena[p].free_cnt
          /\ owner[d] = NULL => used # {}

(* palloc_get_multiple comes back with nothing only if no group of so many *)
(* pages was free when it began to look, though others give pages back in  *)
(* the middle of it.                                                       *)
NullOnlyIfNone ==
  \A t \in Thread :
    At(t, "got") /\ pc[t].page = NULL /\ pc[t].cnt > 0 =>
      \A p \in 0 .. Pages - pc[t].cnt : (p .. p + pc[t].cnt - 1) \cap pc[t].seen # {}
==============================================================================
