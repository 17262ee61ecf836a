------------------------------- MODULE HashTable -------------------------------
(***************************************************************************)
(* The hash tables of lib/kernel/hash.c (the file is the same in both      *)
(* kernels), with an allocator that may have nothing for a resize.         *)
(***************************************************************************)
EXTENDS Integers, SequencesExt, FiniteSetsExt

CONSTANTS
  Key,       \* what h->less compares; the integer is also what h->hash gives
  Copies,    \* how many elements of each key there are
  FEWEST,    \* the smallest number of buckets, 4 in the code
  BEST_ELEMS_PER_BUCKET

ASSUME HashAssumption ==
  /\ Key \subseteq Nat /\ Copies \in Nat
  /\ FEWEST \in {2 ^ k : k \in 0 .. 4}
  /\ BEST_ELEMS_PER_BUCKET \in Nat \ {0}

VARIABLES
  buckets,    \* the buckets' elements; NULL before hash_init
  elem_cnt,
  found       \* what the last call returned: an element, or NULL

hashVars == <<buckets, elem_cnt, found>>

Item == Key \X (1 .. Copies)
Bucket == DOMAIN buckets
NoItem == <<>>

HashNone == buckets = <<>> /\ elem_cnt = 0 /\ found = NoItem

equal(e, f) == e[1] = f[1]
find_bucket(b, e) == 1 + (e[1] % Len(b))

(* The first element equal to e in its bucket.                             *)
find_elem(b, e) ==
  LET bucket == b[find_bucket(b, e)]
      i == SelectInSeq(bucket, LAMBDA f : equal(e, f))
  IN IF i = 0 THEN NoItem ELSE bucket[i]

insert_elem(b, e) == [b EXCEPT ![find_bucket(b, e)] = <<e>> \o @]
remove_elem(b, e) == [b EXCEPT ![find_bucket(b, e)] = SelectSeq(@, LAMBDA f : f # e)]

Empty(cnt) == [i \in 1 .. cnt |-> <<>>]

(* The largest power of 2 that BEST_ELEMS_PER_BUCKET per bucket can fill.  *)
Ideal(cnt) ==
  LET most == Max({FEWEST, cnt \div BEST_ELEMS_PER_BUCKET})
  IN Max({2 ^ k : k \in {j \in 0 .. most : 2 ^ j <= most}})

(* TableExact: an element keeps the index of its bucket                    *)
Move_F(b, cnt) ==
  [i \in 1 .. cnt |-> IF i \in DOMAIN b THEN Reverse(b[i]) ELSE <<>>]

(* The elements go over one by one, in order, each to the front.           *)
Move(b, cnt) == FoldLeft(insert_elem, Empty(cnt), FlattenSeq(b))

rehash(b, cnt) ==
  IF Ideal(cnt) = Len(b) THEN buckets' = b ELSE buckets' \in {b, Move(b, Ideal(cnt))}

-----------------------------------------------------------------------------
hash_init ==
  /\ buckets = <<>>
  /\ buckets' = Empty(FEWEST) /\ elem_cnt' = 0 /\ found' = NoItem

hash_clear ==
  /\ buckets # <<>>
  /\ buckets' = Empty(Len(buckets)) /\ elem_cnt' = 0 /\ found' = NoItem

InTable(e) == \E i \in Bucket : e \in ToSet(buckets[i])

(* Callers insert an element that is in no table.                          *)
hash_insert(e) ==
  LET old == find_elem(buckets, e)
      cnt == elem_cnt + (IF old = NoItem THEN 1 ELSE 0)
  IN /\ ~InTable(e)
     /\ found' = old
     /\ elem_cnt' = cnt
     /\ rehash(IF old = NoItem THEN insert_elem(buckets, e) ELSE buckets, cnt)

(* TableIsMap: the one replaced is looked for after the other is in        *)
hash_replace_F(e) ==
  LET new == insert_elem(buckets, e)
      old == find_elem(new, e)
  IN /\ ~InTable(e)
     /\ found' = old
     /\ elem_cnt' = elem_cnt
     /\ rehash(remove_elem(new, old), elem_cnt)

hash_replace(e) ==
  LET old == find_elem(buckets, e)
      cnt == elem_cnt + (IF old = NoItem THEN 1 ELSE 0)
      without == IF old = NoItem THEN buckets ELSE remove_elem(buckets, old)
  IN /\ ~InTable(e)
     /\ found' = old
     /\ elem_cnt' = cnt
     /\ rehash(insert_elem(without, e), cnt)

hash_find(e) == found' = find_elem(buckets, e) /\ UNCHANGED <<buckets, elem_cnt>>

hash_delete(e) ==
  LET old == find_elem(buckets, e)
  IN /\ found' = old
     /\ IF old = NoItem THEN UNCHANGED <<buckets, elem_cnt>>
        ELSE /\ elem_cnt' = elem_cnt - 1
             /\ rehash(remove_elem(buckets, old), elem_cnt - 1)

(* hash_first, and hash_next until it returns a null pointer: an iterator  *)
(* is the bucket it is in and the place in it, 0 for the list's head.      *)
RECURSIVE hash_next(_, _)
hash_next(bucket, place) ==
  IF place < Len(buckets[bucket])
  THEN <<buckets[bucket][place + 1]>> \o hash_next(bucket, place + 1)
  ELSE IF bucket = Len(buckets) THEN <<>> ELSE hash_next(bucket + 1, 0)

HashNext ==
  \/ hash_init
  \/ hash_clear
  \/ buckets # <<>> /\ \E e \in Item :
       hash_insert(e) \/ hash_replace(e) \/ hash_find(e) \/ hash_delete(e)

-----------------------------------------------------------------------------
(* However often the table was resized, or could not be: every element is  *)
(* in the bucket that its hash selects, there is one of a key, the count   *)
(* is right, the number of buckets is a power of 2 (find_bucket masks with *)
(* it), and an iteration meets every element once.                         *)
TableExact ==
  buckets # <<>> =>
    LET met == hash_next(1, 0)
    IN /\ \A i \in Bucket : \A e \in ToSet(buckets[i]) : find_bucket(buckets, e) = i
       /\ \A e, f \in ToSet(met) : equal(e, f) => e = f
       /\ IsInjective(met) /\ Len(met) = elem_cnt
       /\ ToSet(met) = {e \in Item : InTable(e)}
       /\ \E k \in 0 .. Len(buckets) : Len(buckets) = 2 ^ k
       /\ Len(buckets) >= FEWEST

Map == {e \in Item : InTable(e)}
Held(e) == {f \in Map : equal(e, f)}

(* The table is a map from keys to elements: each call changes the         *)
(* elements, and returns one, as the comment over it says, whatever the    *)
(* allocator does.                                                         *)
TableIsMap ==
  [][buckets # <<>> => \A e \in Item :
       LET call == hash_insert(e) \/ hash_replace(e) \/ hash_delete(e) \/ hash_find(e)
       IN /\ call => IF Held(e) = {} THEN found' = NoItem ELSE found' \in Held(e)
          /\ hash_insert(e) => Map' = IF Held(e) = {} THEN Map \cup {e} ELSE Map
          /\ hash_replace(e) => Map' = (Map \ Held(e)) \cup {e}
          /\ hash_delete(e) => Map' = Map \ Held(e)
          /\ hash_find(e) => Map' = Map]_hashVars
==============================================================================
