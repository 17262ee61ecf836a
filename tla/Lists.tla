--------------------------------- MODULE Lists ---------------------------------
(***************************************************************************)
(* The doubly linked lists of lib/kernel/list.c (the file is the same in   *)
(* both kernels), link by link, and the algorithms of that file on the     *)
(* sequences that the links stand for.  The other modules use sequences;   *)
(* this one shows that the links keep to them.                             *)
(***************************************************************************)
EXTENDS Integers, SequencesExt, FiniteSetsExt

CONSTANTS
  List,     \* the lists, numbers
  Keys,     \* the elements are numbered 1 to Keys
  Equal     \* elements number j and k are equal if j % Equal = k % Equal

ASSUME ListsAssumption == List \subseteq Nat /\ Keys \in Nat /\ Equal \in Nat \ {0}

VARIABLES next, prev   \* of every element, and of every list's head and tail

listVars == <<next, prev>>

NoLink == <<>>
Start(l) == <<l, "head">>
End(l) == <<l, "tail">>
Elem == {<<k, "elem">> : k \in 1 .. Keys}
Node == Elem \cup {Start(l) : l \in List} \cup {End(l) : l \in List}

ListsInit ==
  /\ next = [n \in Node |-> IF \E l \in List : n = Start(l) THEN End(n[1]) ELSE NoLink]
  /\ prev = [n \in Node |-> IF \E l \in List : n = End(l) THEN Start(n[1]) ELSE NoLink]

is_interior(n) == prev[n] # NoLink /\ next[n] # NoLink
is_tail(n) == prev[n] # NoLink /\ next[n] = NoLink

(* The elements from n up to the end of n's list, at most so many.         *)
RECURSIVE Reach(_, _, _)
Reach(link, n, most) ==
  IF n \notin Elem \/ most = 0 THEN <<>> ELSE <<n>> \o Reach(link, link[n], most - 1)
Sequence(link, l) == Reach(link, link[Start(l)], Keys)
Contents(l) == Sequence(next, l)

(* What a call makes of the links.                                         *)
Links(n, p) == [next |-> n, prev |-> p]
Become(links) == next' = links.next /\ prev' = links.prev

list_insert(before, e) ==
  Links([next EXCEPT ![e] = before, ![prev[before]] = e],
        [prev EXCEPT ![e] = prev[before], ![before] = e])

list_remove(e) ==
  Links([next EXCEPT ![prev[e]] = next[e]], [prev EXCEPT ![next[e]] = prev[e]])

(* SequencesKept: the list that is left is not closed                      *)
Cut_F(link, p, n) == link

(* p and n become neighbours: first in next, then in prev.                 *)
Cut(link, p, n) == [link EXCEPT ![p] = n]

list_splice(before, first, last) ==
  IF first = last THEN Links(next, prev)
  ELSE LET back == prev[last]
           next1 == Cut(next, prev[first], next[back])
           prev1 == Cut(prev, next[back], prev[first])
       IN Links([next1 EXCEPT ![back] = before, ![prev1[before]] = first],
                [prev1 EXCEPT ![first] = prev1[before], ![before] = back])

(* Every element's two links are exchanged, and then those of the list.    *)
list_reverse(l) ==
  IF next[Start(l)] = End(l) THEN Links(next, prev)
  ELSE LET mine == ToSet(Contents(l))
           next1 == [n \in Node |-> IF n \in mine THEN prev[n] ELSE next[n]]
           prev1 == [n \in Node |-> IF n \in mine THEN next[n] ELSE prev[n]]
           front == prev[End(l)]
           back == next[Start(l)]
       IN Links([next1 EXCEPT ![Start(l)] = front, ![back] = End(l)],
                [prev1 EXCEPT ![End(l)] = back, ![front] = Start(l)])

-----------------------------------------------------------------------------
less(e, f) == e[1] % Equal < f[1] % Equal

(* The exclusive end of the run that starts at i.                          *)
find_end_of_run(s, i) ==
  Min({j \in i + 1 .. Len(s) + 1 : j = Len(s) + 1 \/ less(s[j], s[j - 1])})

(* ListsExact: of two equal elements the later goes first                  *)
Later_F(a, b) == ~less(a, b)

Later(a, b) == less(b, a)

RECURSIVE inplace_merge(_, _)
inplace_merge(a, b) ==
  IF a = <<>> \/ b = <<>> THEN a \o b
  ELSE IF Later(Head(a), Head(b)) THEN <<Head(b)>> \o inplace_merge(a, Tail(b))
  ELSE <<Head(a)>> \o inplace_merge(Tail(a), b)

(* A pass of list_sort: the runs it puts out, and the list it leaves.      *)
RECURSIVE Pass(_)
Pass(s) ==
  IF s = <<>> THEN [runs |-> 0, list |-> s]
  ELSE LET j == find_end_of_run(s, 1)
       IN IF j > Len(s) THEN [runs |-> 1, list |-> s]
          ELSE LET k == find_end_of_run(s, j)
                   rest == Pass(SubSeq(s, k, Len(s)))
               IN [runs |-> rest.runs + 1,
                   list |-> inplace_merge(SubSeq(s, 1, j - 1), SubSeq(s, j, k - 1))
                              \o rest.list]

RECURSIVE list_sort(_)
list_sort(s) == LET p == Pass(s) IN IF p.runs > 1 THEN list_sort(p.list) ELSE p.list

list_insert_ordered(s, e) ==
  LET i == SelectInSeq(s, LAMBDA f : less(e, f))
  IN IF i = 0 THEN Append(s, e) ELSE InsertAt(s, i, e)

(* What is left of s and what goes to the duplicates.                      *)
list_unique(s) ==
  LET step(acc, e) ==
        IF acc[1] # <<>> /\ ~less(Last(acc[1]), e) /\ ~less(e, Last(acc[1]))
        THEN <<acc[1], Append(acc[2], e)>> ELSE <<Append(acc[1], e), acc[2]>>
  IN FoldLeft(step, <<<<>>, <<>>>>, s)

list_max(s) == FoldLeft(LAMBDA m, e : IF less(m, e) THEN e ELSE m, Head(s), Tail(s))
list_min(s) == FoldLeft(LAMBDA m, e : IF less(e, m) THEN e ELSE m, Head(s), Tail(s))

(* heapify and sort of lib/stdlib.c; indexes count from 1 there too.       *)
RECURSIVE heapify(_, _, _)
heapify(s, i, cnt) ==
  LET larger(m, c) == IF c <= cnt /\ less(s[m], s[c]) THEN c ELSE m
      max == larger(larger(i, 2 * i), 2 * i + 1)
  IN IF max = i THEN s
     ELSE heapify([s EXCEPT ![i] = s[max], ![max] = s[i]], max, cnt)

RECURSIVE build(_, _)
build(s, i) == IF i = 0 THEN s ELSE build(heapify(s, i, Len(s)), i - 1)

RECURSIVE unheap(_, _)
unheap(s, i) ==
  IF i <= 1 THEN s
  ELSE unheap(heapify([s EXCEPT ![1] = s[i], ![i] = s[1]], 1, i - 1), i - 1)

sort(s) == unheap(build(s, Len(s) \div 2), Len(s))

(* The index of a match among s[first + 1 .. last], or 0.                  *)
RECURSIVE binary_search(_, _, _, _)
binary_search(s, key, first, last) ==
  IF first >= last THEN 0
  ELSE LET middle == first + (last - first) \div 2
       IN IF less(key, s[middle + 1]) THEN binary_search(s, key, first, middle)
          ELSE IF less(s[middle + 1], key) THEN binary_search(s, key, middle + 1, last)
          ELSE middle + 1

-----------------------------------------------------------------------------
(* What callers do with the lists.  An element is inserted only when it is *)
(* on none, and a range that is spliced does not hold its destination.     *)
Listed == UNION {ToSet(Contents(l)) : l \in List}
Places == Listed \cup {End(l) : l \in List}

Insertion == [elem : Elem \ Listed, before : {n \in Places : is_interior(n) \/ is_tail(n)}]

(* The elements of s from the first up to the last, which stays.           *)
Ranges(s) == {r \in (1 .. Len(s) + 1) \X (1 .. Len(s) + 1) : r[1] <= r[2]}
Piece(s, r) == SubSeq(s, r[1], r[2] - 1)
Nth(l, i) == IF i > Len(Contents(l)) THEN End(l) ELSE Contents(l)[i]
Splice(n, l, r) == list_splice(n, Nth(l, r[1]), Nth(l, r[2]))

ListInsert == \E x \in Insertion : Become(list_insert(x.before, x.elem))
ListRemove == \E e \in Listed : Become(list_remove(e))
ListSplice == \E l \in List : \E r \in Ranges(Contents(l)) :
  \E n \in Places \ ToSet(Piece(Contents(l), r)) : Become(Splice(n, l, r))
ListReverse == \E l \in List : Become(list_reverse(l))

ListsNext == ListInsert \/ ListRemove \/ ListSplice \/ ListReverse

-----------------------------------------------------------------------------
(* From each list's head the links lead through elements to its tail, the *)
(* way back is the same, and no element is on two lists or twice on one.   *)
LinksExact ==
  \A l \in List :
    LET path == <<Start(l)>> \o Contents(l) \o <<End(l)>>
    IN /\ \A i \in 1 .. Len(path) - 1 :
            next[path[i]] = path[i + 1] /\ prev[path[i + 1]] = path[i]
       /\ prev[Start(l)] = NoLink /\ next[End(l)] = NoLink
       /\ IsInjective(path)
       /\ \A m \in List \ {l} : ToSet(Contents(l)) \cap ToSet(Contents(m)) = {}

(* What a call is to make of the sequence s of list l: t is put before n,  *)
(* if n is in l; the elements of t go.                                     *)
Put(l, s, n, t) ==
  IF n \notin ToSet(s) \cup {End(l)} THEN s
  ELSE LET i == IF n = End(l) THEN Len(s) + 1 ELSE SelectInSeq(s, LAMBDA m : m = n)
       IN  SubSeq(s, 1, i - 1) \o t \o SubSeq(s, i, Len(s))
Less(s, t) == SelectSeq(s, LAMBDA m : m \notin ToSet(t))

(* However the links are turned, each call does to the sequences what its  *)
(* comment says, with the elements, the place and the range it is given,   *)
(* and nothing to any other list.                                          *)
SequencesKept ==
  LET old == [l \in List |-> Contents(l)]
      Makes(links, s(_)) == \A l \in List : Sequence(links.next, l) = s(l)
  IN  /\ \A x \in Insertion :
           Makes(list_insert(x.before, x.elem), LAMBDA l : Put(l, old[l], x.before, <<x.elem>>))
      /\ \A e \in Listed : Makes(list_remove(e), LAMBDA l : Less(old[l], <<e>>))
      /\ \A k \in List : \A r \in Ranges(old[k]) :
           LET range == Piece(old[k], r)
           IN  \A n \in Places \ ToSet(range) :
                 Makes(Splice(n, k, r), LAMBDA l : Put(l, Less(old[l], range), n, range))
      /\ \A k \in List : Makes(list_reverse(k), LAMBDA l : IF l = k THEN Reverse(old[l]) ELSE old[l])

InOrder(s) == \A i, j \in DOMAIN s : i < j => ~less(s[j], s[i])
Among(s, t) == ToSet(s) = ToSet(t) /\ Len(s) = Len(t)

(* What the algorithms give for the elements of s, in that order: list_sort *)
(* is stable, list_insert_ordered puts an element behind its equals,       *)
(* list_max and list_min return the first of several, no key is missed.    *)
ListsSorted ==
  \A l \in List :
    LET s == Contents(l)
        sorted == list_sort(s)
        place(e) == CHOOSE i \in DOMAIN s : s[i] = e
        unique == list_unique(sorted)
    IN /\ Among(sorted, s) /\ InOrder(sorted)
       /\ \A i, j \in DOMAIN s :
            i < j /\ ~less(sorted[i], sorted[j]) => place(sorted[i]) < place(sorted[j])
       /\ FoldLeft(list_insert_ordered, <<>>, s) = sorted
       /\ Among(sort(s), s) /\ InOrder(sort(s))
       /\ \A i \in 1 .. Len(unique[1]) - 1 : less(unique[1][i], unique[1][i + 1])
       /\ Among(unique[1] \o unique[2], s)
       /\ \A e \in Elem : LET i == binary_search(sorted, e, 0, Len(sorted))
                          IN IF i = 0 THEN \A f \in ToSet(s) : less(e, f) \/ less(f, e)
                             ELSE ~less(sorted[i], e) /\ ~less(e, sorted[i])
       /\ s # <<>> => /\ list_min(s) = sorted[1]
                      /\ ~less(list_max(s), Last(sorted))
                      /\ \A e \in ToSet(s) :
                           ~less(e, list_max(s)) => place(list_max(s)) <= place(e)

(* The links are sound, and the algorithms find and order what they say.   *)
ListsExact == LinksExact /\ ListsSorted
==============================================================================
