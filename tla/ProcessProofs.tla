--------------------------- MODULE ProcessProofs ----------------------------
(***************************************************************************)
(* Theorems about Process: for any number of processes and any number of   *)
(* programs that main runs, each child is waited for once, wait reads the  *)
(* status of a child that has called exit, and the list of children is     *)
(* exact as long as no two processes change it at the same time.           *)
(***************************************************************************)
EXTENDS Process, TLAPS

-----------------------------------------------------------------------------
(* The invariant.                                                          *)

Alone == {"user", "load", "new", "parent", "unlink", "unlink_back", "forget", "tell", "await", "orphan"}
Making == {"insert", "link", "link_back", "adopt", "start"}
Begun == {"lookup", "loaded"} \cup Making
Reaping == {"down", "blocked", "up", "status"}
Naming == {"check", "free_child", "next_child"} \cup Begun \cup Reaping
Loop == {"disown", "free_child", "next_child"}
Leaving == {"unlink", "unlink_back", "forget", "tell", "await"}

FrameOK(f) ==
  \/ \E l \in Alone : f = At(l)
  \/ \E l \in Naming \cup {"disown"}, c \in Proc : f = On(l, c)
  \/ f = On("disown", End)

TypeInv ==
  /\ ProcTypeOK
  /\ pc = [p \in Proc |-> pc[p]] /\ \A p \in Proc : FrameOK(pc[p])
  /\ forker \in [Proc -> Proc \cup {NULL}]
  /\ waited \in [Proc -> SUBSET Proc]
  /\ torn \subseteq Proc

Is(f, places, c) == f.at \in places /\ f.child = c
Names(f, c) == f.at \notin Alone /\ f.child = c

(* What is true of a page that was not used.                               *)
Blank(c) ==
  /\ pc[c] = At("user") /\ forker[c] = NULL /\ waited[c] = {} /\ parent[c] = NULL
  /\ prev[Elem(c)] = NULL /\ load_sema[c] = 0 /\ wait_sema[c] = 0 /\ wait_on_parent[c] = 0

(* Pages are used from the first to the last, and each once.               *)
PagesInv ==
  /\ \A c, d \in Proc : d < c /\ mem[d] = "unused" => mem[c] = "unused"
  /\ \A c \in Proc : mem[c] = "unused" => Blank(c)
  /\ \A p, c \in Proc : Names(pc[p], c) => mem[c] # "unused"
  /\ \A p \in Proc : mem[p] = "freed" => pc[p].at = "disown" /\ pc[p].child = End
  /\ \A p, c \in Proc : forker[c] = p => p < c /\ mem[p] # "unused"
  /\ \A c \in Proc : mem[c] # "unused" /\ c # Main => forker[c] \in Proc

(* Links stay in the family: forward ones lead to the tail or to a child   *)
(* that was inserted later, backward ones to the head or to an earlier     *)
(* one.  A parent and the loop of an exit know inserted children only.     *)
Kin(p) == {c \in Proc : forker[c] = p /\ prev[Elem(c)] # NULL}
After(p, x) == {TailOf(p)} \cup {Elem(d) : d \in {k \in Kin(p) : x < k}}
Before(p, x) == {HeadOf(p)} \cup {Elem(d) : d \in {k \in Kin(p) : k < x}}
KinInv ==
  \A p \in Proc :
    /\ next[HeadOf(p)] \in After(p, p)
    /\ prev[TailOf(p)] \in Before(p, MaxProc + 1)
    /\ \A c \in Kin(p) : next[Elem(c)] \in After(p, c) /\ prev[Elem(c)] \in Before(p, c)
    /\ \A c \in Proc : parent[c] = p \/ Is(pc[p], Loop, c) => c \in Kin(p)
    /\ \A c \in Proc : pc[c].at \in {"unlink", "unlink_back"} /\ forker[c] = p => c \in Kin(p)
    /\ \A c \in Proc : Is(pc[p], {"link"}, c) => prev[TailOf(p)] \in Before(p, c)

(* main never exits, and adopts a process before it has a parent.  A child *)
(* of fork does not run before it is on the list.                          *)
MakeInv ==
  /\ pc[Main].at \in {"user", "check"} \cup Reaping \cup (Begun \ {"start"})
  /\ mem[Main] = "live" /\ forker[Main] = NULL
  /\ \A p, c \in Proc : Is(pc[p], Begun, c) =>
       /\ forker[c] = p /\ wait_sema[c] = 0 /\ c \notin waited[p]
       /\ \A x \in Proc : forker[x] = p => x <= c
       /\ p # Main => pc[p].at \in Making /\ pc[c].at = "new"
       /\ IF pc[p].at = "start" THEN parent[c] = p ELSE parent[c] = NULL /\ pc[c].at \notin Leaving
       /\ c \in Kin(p) <=> pc[p].at \in Making \ {"insert"}
  /\ \A c \in Proc : pc[c].at = "new" =>
       forker[c] \in Proc \ {Main} /\ Is(pc[forker[c]], Making, c) /\ mem[c] = "live"

(* A process tells its parent after it has forgotten it.                   *)
SemasInv ==
  /\ \A c \in Proc : pc[c].at = "load" => load_sema[c] = 0
  /\ \A c \in Proc : wait_sema[c] > 0 => Told(c)
  /\ \A c \in Proc : wait_sema[c] > 0 \/ pc[c].at \in {"tell", "await"} => parent[c] = NULL

(* A child whose wait was accepted has told before the wait goes on, or is *)
(* gone and the next step of its parent fails.                             *)
WaitsInv ==
  /\ \A p, c \in Proc : Is(pc[p], Reaping, c) => c \in waited[p]
  /\ \A p, c \in Proc : c \in waited[p] => forker[c] = p
  /\ \A p, c \in Proc : c \in waited[p] /\ ~Is(pc[p], {"down", "blocked"}, c) =>
       Told(c) /\ (parent[c] = NULL \/ (mem[c] = "freed" /\ Is(pc[p], {"up"}, c)))

(* The process p has done with its child c: it has waited for it and told  *)
(* it to go, or is exiting.                                                *)
Done(p, c) ==
  \/ c \in waited[p] /\ ~Is(pc[p], {"down", "blocked", "up"}, c)
  \/ pc[p].at \in Loop

ReleaseInv ==
  /\ \A c \in Proc : wait_on_parent[c] > 0 => forker[c] \in Proc /\ Done(forker[c], c)
  /\ \A c \in Proc : Forked(c) /\ pc[c].at \notin Leaving \cup {"new"} /\ parent[c] = NULL => Done(forker[c], c)
  /\ \A c \in Proc : Forked(c) /\ Told(c) => parent[c] = NULL

WInv == TypeInv /\ PagesInv /\ KinInv /\ MakeInv /\ SemasInv /\ WaitsInv /\ ReleaseInv

-----------------------------------------------------------------------------
(* The links of a list that is not torn: at most one process is changing   *)
(* it.  Forward and backward links agree but for the one that change is    *)
(* about to write; the children with a parent are joined, those that have  *)
(* left are not.                                                           *)
Chain(p) == {HeadOf(p)} \cup {Elem(c) : c \in {k \in Kin(p) : Joined(k)}}
Adding(p, c) == Is(pc[p], {"link_back"}, c)
Removing(p, x) == forker[x] = p /\ pc[x].at = "unlink_back"

Members(p) ==
  /\ \A c \in Proc : parent[c] = p /\ pc[c].at \notin {"unlink_back", "forget"} => Joined(c)
  /\ \A c \in Kin(p) : pc[c].at = "unlink" => Joined(c)
  /\ \A c \in Kin(p) : pc[c].at \in {"unlink_back", "forget"} => ~Joined(c)
  /\ \A c \in Kin(p) : Is(pc[p], {"link_back", "adopt"}, c) => Joined(c)
  /\ \A c \in Kin(p) : Joined(c) /\ parent[c] # p =>
       pc[p].at \in Loop \/ Is(pc[p], {"link_back", "adopt"}, c)

Forward(p) ==
  \A n \in Chain(p) :
    \/ prev[next[n]] = n
    \/ \E c \in Proc : Adding(p, c) /\ n = Elem(c)
    \/ \E x \in Proc : Removing(p, x) /\ n = prev[Elem(x)]

Backward(p) ==
  \A n \in {TailOf(p)} \cup (Chain(p) \ {HeadOf(p)}) :
    prev[n] \in Chain(p) \/ \E x \in Proc : Removing(p, x) /\ n = next[Elem(x)]

Rear(p) == next[prev[TailOf(p)]] = TailOf(p) \/ pc[p].at = "link_back"

Middle(p) ==
  /\ \A c \in Proc : Is(pc[p], {"link", "link_back"}, c) =>
       prev[Elem(c)] = prev[TailOf(p)] /\ next[Elem(c)] = TailOf(p)
  /\ \A x \in Proc : Removing(p, x) =>
       /\ prev[Elem(x)] \in Chain(p) /\ next[prev[Elem(x)]] = next[Elem(x)]
       /\ prev[next[Elem(x)]] = Elem(x)

Whole(p) ==
  /\ \A x, y \in Editing(p) : x = y
  /\ Members(p) /\ Forward(p) /\ Backward(p) /\ Rear(p) /\ Middle(p)

LinksInv == \A p \in Proc \ torn : Whole(p)

IInv == WInv /\ LinksInv

-----------------------------------------------------------------------------
(* Constants, nodes and types.                                             *)

LEMMA Constants ==
  /\ Main \in Proc /\ Proc \subseteq Nat /\ End \notin Proc
  /\ NULL \notin Proc /\ NULL # End /\ 0 \in 0 .. 1 /\ 1 \in 0 .. 1
  /\ \A p \in Proc : p < MaxProc + 1
BY ProcessAssumption DEF Main, Proc, End

LEMMA Nodes ==
  /\ \A c \in Proc : Elem(c) \in Node /\ HeadOf(c) \in Node /\ TailOf(c) \in Node
  /\ NULL \notin Node
  /\ \A c, d \in Proc : Elem(c) = Elem(d) \/ HeadOf(c) = HeadOf(d) \/ TailOf(c) = TailOf(d) => c = d
  /\ \A c, d \in Proc : Elem(c) # HeadOf(d) /\ Elem(c) # TailOf(d) /\ HeadOf(c) # TailOf(d)
  /\ \A c \in Proc : Entry(Elem(c)) = c /\ Entry(TailOf(c)) = End
  /\ \A c \in Proc : Page(Elem(c)) = c /\ Page(HeadOf(c)) = c /\ Page(TailOf(c)) = c
BY ProcessAssumption DEF Node, Elem, HeadOf, TailOf, Entry, Page, End

LEMMA Types ==
  ASSUME TypeInv
  PROVE  /\ mem \in [Proc -> {"unused", "live", "freed"}] /\ parent \in [Proc -> Proc \cup {NULL}]
         /\ next \in [Node -> Node \cup {NULL}] /\ prev \in [Node -> Node \cup {NULL}]
         /\ return_status \in [Proc -> ExitStatus \cup {-1}] /\ wait_sema \in [Proc -> 0 .. 1]
         /\ wait_on_parent \in [Proc -> Nat] /\ load_sema \in [Proc -> 0 .. 1]
         /\ forker \in [Proc -> Proc \cup {NULL}] /\ waited \in [Proc -> SUBSET Proc] /\ torn \subseteq Proc
BY DEF TypeInv, ProcTypeOK

(* The types after a step.                                                 *)
LEMMA Typed ==
  ASSUME mem' \in [Proc -> {"unused", "live", "freed"}], parent' \in [Proc -> Proc \cup {NULL}],
         next' \in [Node -> Node \cup {NULL}], prev' \in [Node -> Node \cup {NULL}],
         return_status' \in [Proc -> ExitStatus \cup {-1}], wait_sema' \in [Proc -> 0 .. 1],
         wait_on_parent' \in [Proc -> Nat], load_sema' \in [Proc -> 0 .. 1],
         forker' \in [Proc -> Proc \cup {NULL}], waited' \in [Proc -> SUBSET Proc], torn' \subseteq Proc,
         pc' = [p \in Proc |-> pc'[p]], \A p \in Proc : FrameOK(pc'[p])
  PROVE  TypeInv'
BY DEF TypeInv, ProcTypeOK

LEMMA Upped ==
  ASSUME NEW s \in [Proc -> 0 .. 1], NEW p \in Proc, ~(s[p] > 0), NEW t, t = [s EXCEPT ![p] = @ + 1]
  PROVE  t \in [Proc -> 0 .. 1] /\ s[p] = 0 /\ t[p] = 1 /\ \A c \in Proc : c # p => t[c] = s[c]
<1>1. s[p] \in 0 .. 1
  OBVIOUS
<1>2. s[p] = 0
  BY <1>1
<1> QED
  BY <1>2

LEMMA Downed ==
  ASSUME NEW s \in [Proc -> 0 .. 1], NEW p \in Proc, s[p] > 0, NEW t, t = [s EXCEPT ![p] = @ - 1]
  PROVE  t \in [Proc -> 0 .. 1] /\ t[p] = 0 /\ \A c \in Proc : c # p => t[c] = s[c]
<1>1. s[p] \in 0 .. 1
  OBVIOUS
<1>2. s[p] = 1
  BY <1>1
<1> QED
  BY <1>2

-----------------------------------------------------------------------------
(* Frames.                                                                 *)

LEMMA FrameIs ==
  ASSUME TypeInv, NEW p \in Proc
  PROVE  /\ pc[p].at \in Alone \cup Naming \cup {"disown"}
         /\ pc[p].at \in Naming => pc[p].child \in Proc
         /\ pc[p].at = "disown" => pc[p].child \in Proc \cup {End}
<1>1. FrameOK(pc[p])
  BY DEF TypeInv
<1>2. ASSUME NEW l \in Alone, pc[p] = At(l) PROVE pc[p].at \in Alone
  BY <1>2 DEF At
<1>3. ASSUME NEW l \in Naming \cup {"disown"}, NEW c, pc[p] = On(l, c) PROVE pc[p].at = l /\ pc[p].child = c
  BY <1>3 DEF On
<1>4. \/ pc[p].at \in Alone
      \/ pc[p].at \in Naming \cup {"disown"} /\ pc[p].child \in Proc
      \/ pc[p].at = "disown" /\ pc[p].child = End
  BY <1>1, <1>2, <1>3 DEF FrameOK
<1> QED
  BY <1>4 DEF Alone, Naming, Begun, Making, Reaping

(* Only p moves.                                                           *)
Only(p) == \A q \in Proc : q # p => pc'[q] = pc[q]

LEMMA Goes ==
  ASSUME TypeInv, NEW p \in Proc, NEW f, Goto(p, f), FrameOK(f)
  PROVE  /\ pc'[p] = f /\ Only(p)
         /\ pc' = [q \in Proc |-> pc'[q]] /\ \A q \in Proc : FrameOK(pc'[q])
<1>1. pc = [q \in Proc |-> pc[q]] /\ \A q \in Proc : FrameOK(pc[q])
  BY DEF TypeInv
<1>2. pc' = [pc EXCEPT ![p] = f]
  BY DEF Goto
<1>3. DOMAIN pc = Proc
  BY <1>1
<1>4. pc'[p] = f /\ (\A q \in Proc : q # p => pc'[q] = pc[q]) /\ pc' = [q \in Proc |-> pc'[q]]
  BY <1>2, <1>3
<1> QED
  BY <1>1, <1>4 DEF Only

LEMMA GoesAlone ==
  ASSUME TypeInv, NEW p \in Proc, NEW l \in Alone, Goto(p, At(l))
  PROVE  /\ pc'[p].at = l /\ pc'[p] = At(l) /\ Only(p)
         /\ pc' = [q \in Proc |-> pc'[q]] /\ \A q \in Proc : FrameOK(pc'[q])
<1>1. FrameOK(At(l))
  BY DEF FrameOK
<1> QED
  BY <1>1, Goes DEF At

LEMMA GoesOn ==
  ASSUME TypeInv, NEW p \in Proc, NEW l \in Naming \cup {"disown"}, NEW c,
         c \in Proc \/ (l = "disown" /\ c = End), Goto(p, On(l, c))
  PROVE  /\ pc'[p].at = l /\ pc'[p].child = c /\ Only(p)
         /\ pc' = [q \in Proc |-> pc'[q]] /\ \A q \in Proc : FrameOK(pc'[q])
<1>1. FrameOK(On(l, c))
  BY DEF FrameOK
<1>2. On(l, c).at = l /\ On(l, c).child = c
  BY DEF On
<1> QED
  BY <1>1, <1>2, Goes

-----------------------------------------------------------------------------
(* What a step leaves as it is.                                            *)

LEMMA ParentIs ==
  ASSUME TypeInv, KinInv, NEW c \in Proc, parent[c] # NULL
  PROVE  parent[c] \in Proc /\ forker[c] = parent[c] /\ c \in Kin(parent[c]) /\ prev[Elem(c)] # NULL
<1>1. parent[c] \in Proc
  BY Types
<1>2. c \in Kin(parent[c])
  BY <1>1 DEF KinInv
<1> QED
  BY <1>1, <1>2 DEF Kin

LEMMA KinIs ==
  ASSUME TypeInv, KinInv, NEW p \in Proc
  PROVE  /\ next[HeadOf(p)] \in After(p, p) /\ prev[TailOf(p)] \in Before(p, MaxProc + 1)
         /\ \A c \in Kin(p) : c \in Proc /\ next[Elem(c)] \in After(p, c) /\ prev[Elem(c)] \in Before(p, c)
BY DEF KinInv, Kin

(* A node of a list is a link's end, or a child's own.                     *)
LEMMA AfterIs ==
  ASSUME NEW p \in Proc, NEW x \in Nat, NEW n \in After(p, x)
  PROVE  n \in Node /\ (n = TailOf(p) \/ \E d \in Kin(p) : n = Elem(d) /\ d \in Proc /\ x < d)
<1>1. n = TailOf(p) \/ \E d \in Kin(p) : n = Elem(d) /\ d \in Proc /\ x < d
  BY DEF After, Kin
<1> QED
  BY <1>1, Nodes

LEMMA BeforeIs ==
  ASSUME NEW p \in Proc, NEW x \in Nat, NEW n \in Before(p, x)
  PROVE  n \in Node /\ (n = HeadOf(p) \/ \E d \in Kin(p) : n = Elem(d) /\ d \in Proc /\ d < x)
<1>1. n = HeadOf(p) \/ \E d \in Kin(p) : n = Elem(d) /\ d \in Proc /\ d < x
  BY DEF Before, Kin
<1> QED
  BY <1>1, Nodes

LEMMA KinKept ==
  ASSUME TypeInv, KinInv, next' = next, prev' = prev, forker' = forker,
         \A c \in Proc : parent'[c] \in {NULL, parent[c]},
         \A q, c \in Proc : Is(pc'[q], Loop, c) => Is(pc[q], Loop, c) \/ c \in Kin(q),
         \A c \in Proc : pc'[c].at \in {"unlink", "unlink_back"} =>
           pc[c].at \in {"unlink", "unlink_back"} \/ parent[c] # NULL,
         \A q \in Proc : pc'[q].at = "link" => pc'[q] = pc[q]
  PROVE  KinInv' /\ \A q \in Proc : Kin(q)' = Kin(q)
<1>1. \A q \in Proc : Kin(q)' = Kin(q) /\ \A x : After(q, x)' = After(q, x) /\ Before(q, x)' = Before(q, x)
  BY DEF Kin, After, Before
<1>2. ASSUME NEW q \in Proc, NEW c \in Proc, parent'[c] = q \/ Is(pc'[q], Loop, c) PROVE c \in Kin(q)
  <2>1. NULL \notin Proc
    BY Constants
  <2> QED
    BY <1>2, <2>1 DEF KinInv
<1>3. ASSUME NEW q \in Proc, NEW c \in Proc, pc'[c].at \in {"unlink", "unlink_back"}, forker[c] = q
      PROVE  c \in Kin(q)
  BY <1>3, ParentIs DEF KinInv
<1>4. \A q \in Proc : /\ next[HeadOf(q)] \in After(q, q) /\ prev[TailOf(q)] \in Before(q, MaxProc + 1)
                      /\ \A c \in Kin(q) : next[Elem(c)] \in After(q, c) /\ prev[Elem(c)] \in Before(q, c)
  BY KinIs
<1>5. ASSUME NEW q \in Proc
      PROVE  /\ next'[HeadOf(q)] \in After(q, q)' /\ prev'[TailOf(q)] \in Before(q, MaxProc + 1)'
             /\ \A c \in Kin(q)' : next'[Elem(c)] \in After(q, c)' /\ prev'[Elem(c)] \in Before(q, c)'
  BY <1>1, <1>4
<1>6. ASSUME NEW q \in Proc, NEW c \in Proc, Is(pc'[q], {"link"}, c) PROVE prev'[TailOf(q)] \in Before(q, c)'
  BY <1>1, <1>6 DEF KinInv, Is
<1> QED
  BY <1>1, <1>2, <1>3, <1>5, <1>6 DEF KinInv

LEMMA MakeKept ==
  ASSUME TypeInv, KinInv, MakeInv, forker' = forker, \A q \in Proc : Kin(q)' = Kin(q),
         \A q \in Proc : \/ pc'[q] = pc[q]
                         \/ pc'[q].at \notin Begun \cup {"new"} /\ pc[q].at \notin Making \cup {"new"},
         pc'[Main] = pc[Main] \/ pc'[Main].at \in {"user", "check"} \cup Reaping,
         \A c \in Proc : wait_sema'[c] = 0 \/ wait_sema'[c] = wait_sema[c] \/ pc[c].at \in Leaving,
         \A q, c \in Proc : c \in waited'[q] => c \in waited[q] \/ pc[q].at = "check",
         \A c \in Proc : \/ parent'[c] = parent[c]
                         \/ parent'[c] = NULL /\ (pc[c].at \in Leaving \/ pc[forker[c]].at \in Loop),
         \A c \in Proc : pc'[c].at \in Leaving => pc[c].at \in Leaving \/ parent[c] # NULL,
         mem'[Main] = "live", \A c \in Proc : mem[c] = "live" /\ pc[c].at = "new" => mem'[c] = "live"
  PROVE  MakeInv'
<1>1. pc'[Main].at \in {"user", "check"} \cup Reaping \cup (Begun \ {"start"}) /\ forker'[Main] = NULL
  BY DEF MakeInv
<1>2. ASSUME NEW q \in Proc, NEW c \in Proc, Is(pc'[q], Begun, c)
      PROVE  /\ pc'[q] = pc[q] /\ forker[c] = q /\ wait_sema'[c] = 0 /\ c \notin waited'[q]
             /\ \A x \in Proc : forker[x] = q => x <= c
             /\ q # Main => pc'[q].at \in Making /\ pc'[c].at = "new"
             /\ IF pc'[q].at = "start" THEN parent'[c] = q ELSE parent'[c] = NULL /\ pc'[c].at \notin Leaving
             /\ c \in Kin(q)' <=> pc'[q].at \in Making \ {"insert"}
  <2>1. pc'[q] = pc[q] /\ Is(pc[q], Begun, c)
    BY <1>2 DEF Is
  <2>2. /\ forker[c] = q /\ wait_sema[c] = 0 /\ c \notin waited[q]
        /\ \A x \in Proc : forker[x] = q => x <= c
        /\ q # Main => pc[q].at \in Making /\ pc[c].at = "new"
        /\ IF pc[q].at = "start" THEN parent[c] = q ELSE parent[c] = NULL /\ pc[c].at \notin Leaving
        /\ c \in Kin(q) <=> pc[q].at \in Making \ {"insert"}
    BY <2>1 DEF MakeInv
  <2>3. pc[q].at # "check" /\ pc[q].at \notin Loop
    BY <2>1 DEF Is, Begun, Making, Loop
  <2>4. pc[c].at \notin Leaving
    <3>1. pc[q].at = "start" => q # Main
      BY DEF MakeInv, Reaping
    <3> QED
      BY <2>2, <3>1 DEF Leaving
  <2>5. q # Main => pc'[c] = pc[c]
    BY <2>2 DEF Making
  <2> QED
    BY <2>1, <2>2, <2>3, <2>4, <2>5
<1>3. ASSUME NEW c \in Proc, pc'[c].at = "new"
      PROVE  forker[c] \in Proc \ {Main} /\ Is(pc'[forker[c]], Making, c) /\ mem'[c] = "live"
  <2>1. pc'[c] = pc[c] /\ pc[c].at = "new"
    BY <1>3
  <2>2. forker[c] \in Proc \ {Main} /\ Is(pc[forker[c]], Making, c) /\ mem[c] = "live"
    BY <2>1 DEF MakeInv
  <2>3. pc'[forker[c]] = pc[forker[c]]
    BY <2>2 DEF Is
  <2> QED
    BY <2>1, <2>2, <2>3
<1> QED
  BY <1>1, <1>2, <1>3 DEF MakeInv

LEMMA MakeOnly ==
  ASSUME TypeInv, KinInv, MakeInv, forker' = forker, \A q \in Proc : Kin(q)' = Kin(q),
         NEW p \in Proc, Only(p), pc[p].at \notin Making \cup {"new"}, pc'[p].at \notin Begun \cup {"new"},
         p # Main \/ pc'[p].at \in {"user", "check"} \cup Reaping,
         \A c \in Proc : wait_sema'[c] = 0 \/ wait_sema'[c] = wait_sema[c] \/ pc[c].at \in Leaving,
         \A q, c \in Proc : c \in waited'[q] => c \in waited[q] \/ pc[q].at = "check",
         \A c \in Proc : \/ parent'[c] = parent[c]
                         \/ parent'[c] = NULL /\ (pc[c].at \in Leaving \/ pc[forker[c]].at \in Loop),
         pc'[p].at \in Leaving => pc[p].at \in Leaving \/ parent[p] # NULL,
         \A c \in Proc : c # p => mem'[c] = mem[c], p # Main \/ mem' = mem
  PROVE  MakeInv'
<1>1. \A q \in Proc : \/ pc'[q] = pc[q]
                      \/ pc'[q].at \notin Begun \cup {"new"} /\ pc[q].at \notin Making \cup {"new"}
  BY DEF Only
<1>2. pc'[Main] = pc[Main] \/ pc'[Main].at \in {"user", "check"} \cup Reaping
  BY Constants DEF Only
<1>3. \A c \in Proc : pc'[c].at \in Leaving => pc[c].at \in Leaving \/ parent[c] # NULL
  BY DEF Only
<1>4. mem'[Main] = "live"
  BY Constants DEF MakeInv
<1>5. \A c \in Proc : mem[c] = "live" /\ pc[c].at = "new" => mem'[c] = "live"
  OBVIOUS
<1> QED
  BY <1>1, <1>2, <1>3, <1>4, <1>5, MakeKept

LEMMA NotMain ==
  ASSUME MakeInv, NEW p \in Proc, pc[p].at \in (Alone \ {"user"}) \cup Loop \cup {"start"}
  PROVE  p # Main
BY DEF MakeInv, Alone, Loop, Begun, Making, Reaping

LEMMA DoneKept ==
  ASSUME NEW p \in Proc, Only(p), \A q \in Proc : waited[q] \subseteq waited'[q],
         pc[p].at \in Loop => pc'[p].at \in Loop,
         \A c \in waited[p] : Is(pc'[p], {"down", "blocked", "up"}, c) => Is(pc[p], {"down", "blocked", "up"}, c)
  PROVE  \A q, c \in Proc : Done(q, c) => Done(q, c)'
<1> SUFFICES ASSUME NEW q \in Proc, NEW c \in Proc, Done(q, c) PROVE Done(q, c)'
  OBVIOUS
<1>1. CASE q = p
  BY <1>1 DEF Done
<1>2. CASE q # p
  BY <1>2 DEF Done, Only, Is
<1> QED
  BY <1>1, <1>2

LEMMA ReleaseKept ==
  ASSUME TypeInv, ReleaseInv, forker' = forker, \A q, c \in Proc : Done(q, c) => Done(q, c)',
         \A c \in Proc : wait_on_parent'[c] > 0 =>
           wait_on_parent[c] > 0 \/ (forker[c] \in Proc /\ Done(forker[c], c)'),
         \A c \in Proc : Forked(c) /\ pc'[c].at \notin Leaving \cup {"new"} /\ parent'[c] = NULL =>
           (pc[c].at \notin Leaving \cup {"new"} /\ parent[c] = NULL) \/ Done(forker[c], c)',
         \A c \in Proc : Forked(c) /\ Told(c)' => parent'[c] = NULL \/ (Told(c) /\ parent'[c] = parent[c])
  PROVE  ReleaseInv'
<1>1. \A c \in Proc : Forked(c)' <=> Forked(c)
  BY DEF Forked
<1>2. \A c \in Proc : Forked(c) => forker[c] \in Proc
  BY Types DEF Forked
<1>3. \A c \in Proc : wait_on_parent'[c] > 0 => forker[c] \in Proc /\ Done(forker[c], c)'
  BY DEF ReleaseInv
<1>4. \A c \in Proc : Forked(c) /\ pc'[c].at \notin Leaving \cup {"new"} /\ parent'[c] = NULL => Done(forker[c], c)'
  BY <1>2 DEF ReleaseInv
<1>5. \A c \in Proc : Forked(c) /\ Told(c)' => parent'[c] = NULL
  BY DEF ReleaseInv
<1> QED
  BY <1>1, <1>3, <1>4, <1>5 DEF ReleaseInv

-----------------------------------------------------------------------------
(* The exit of a process.                                                  *)

LEMMA ExitStep ==
  ASSUME WInv, NEW p \in Proc, Exit(p)
  PROVE  WInv'
<1> USE DEF WInv
<1>1. /\ mem[p] = "live" /\ pc[p].at = "user" /\ p # Main
      /\ UNCHANGED <<mem, parent, next, prev, wait_sema, wait_on_parent, load_sema, forker, waited, torn>>
  BY DEF Exit, In, Crash, links, semaVars, history
<1>2. /\ pc'[p].at = "parent" /\ Only(p)
      /\ pc' = [q \in Proc |-> pc'[q]] /\ \A q \in Proc : FrameOK(pc'[q])
  BY GoesAlone DEF Exit, Alone
<1>3. return_status' \in [Proc -> ExitStatus \cup {-1}]
  BY Types DEF Exit
<1>4. TypeInv'
  BY <1>1, <1>2, <1>3, Types, Typed
<1>5. PagesInv'
  BY <1>1, <1>2 DEF PagesInv, Blank, Names, Alone, At, Only
<1>6. KinInv' /\ \A q \in Proc : Kin(q)' = Kin(q)
  BY <1>1, <1>2, KinKept DEF Is, Loop, Only
<1>7. MakeInv'
  <2>1. p # Main
    BY <1>1, NotMain DEF Alone, Loop
  <2>2. /\ pc[p].at \notin Making \cup {"new"} /\ pc'[p].at \notin Begun \cup {"new"}
        /\ pc'[p].at \in Leaving => pc[p].at \in Leaving \/ parent[p] # NULL
    BY <1>1, <1>2 DEF Making, Begun, Leaving
  <2>3. \A x \in Proc : \/ parent'[x] = parent[x]
                        \/ parent'[x] = NULL /\ (pc[x].at \in Leaving \/ pc[forker[x]].at \in Loop)
    BY <1>1, <1>2 DEF Leaving, Loop
  <2>4. \A x \in Proc : wait_sema'[x] = 0 \/ wait_sema'[x] = wait_sema[x] \/ pc[x].at \in Leaving
    BY <1>1, <1>2 DEF Leaving
  <2> QED
    BY <1>1, <1>2, <1>6, <2>1, <2>2, <2>3, <2>4, MakeOnly
<1>8. SemasInv'
  BY <1>1, <1>2 DEF SemasInv, Told, Only
<1>9. WaitsInv'
  BY <1>1, <1>2 DEF WaitsInv, Is, Told, Reaping, Only
<1>10. ReleaseInv'
  <2>1. \A q, x \in Proc : Done(q, x) => Done(q, x)'
    BY <1>1, <1>2, DoneKept DEF Is, Loop
  <2> QED
    BY <1>1, <1>2, <2>1, ReleaseKept DEF Leaving, Told, Only
<1> QED
  BY <1>4, <1>5, <1>6, <1>7, <1>8, <1>9, <1>10

LEMMA ReadParentStep ==
  ASSUME WInv, NEW p \in Proc, ReadParent(p)
  PROVE  WInv'
<1> USE DEF WInv
<1>1. /\ mem[p] = "live" /\ pc[p].at = "parent"
      /\ UNCHANGED <<mem, parent, next, prev, return_status, wait_sema, wait_on_parent, load_sema, forker, waited, torn>>
  BY DEF ReadParent, In, Crash, links, semaVars, history
<1>3. PICK l \in {"unlink", "orphan"} : (l = "unlink" <=> parent[p] # NULL) /\ Goto(p, At(l))
  BY DEF ReadParent
<1>2. /\ pc'[p].at = l /\ Only(p)
      /\ pc' = [q \in Proc |-> pc'[q]] /\ \A q \in Proc : FrameOK(pc'[q])
  BY <1>3, GoesAlone DEF Alone
<1>4. TypeInv'
  BY <1>1, <1>2, Types, Typed
<1>5. PagesInv'
  BY <1>1, <1>2 DEF PagesInv, Blank, Names, Alone, At, Only
<1>6. KinInv' /\ \A q \in Proc : Kin(q)' = Kin(q)
  BY <1>1, <1>2, <1>3, KinKept DEF Is, Loop, Only
<1>7. MakeInv'
  <2>1. p # Main
    BY <1>1, NotMain DEF Alone, Loop
  <2>2. /\ pc[p].at \notin Making \cup {"new"} /\ pc'[p].at \notin Begun \cup {"new"}
        /\ pc'[p].at \in Leaving => pc[p].at \in Leaving \/ parent[p] # NULL
    BY <1>1, <1>2, <1>3 DEF Making, Begun, Leaving
  <2>3. \A x \in Proc : \/ parent'[x] = parent[x]
                        \/ parent'[x] = NULL /\ (pc[x].at \in Leaving \/ pc[forker[x]].at \in Loop)
    BY <1>1, <1>2, <1>3 DEF Leaving, Loop
  <2>4. \A x \in Proc : wait_sema'[x] = 0 \/ wait_sema'[x] = wait_sema[x] \/ pc[x].at \in Leaving
    BY <1>1, <1>2, <1>3 DEF Leaving
  <2> QED
    BY <1>1, <1>2, <1>3, <1>6, <2>1, <2>2, <2>3, <2>4, MakeOnly
<1>8. SemasInv'
  BY <1>1, <1>2 DEF SemasInv, Told, Only
<1>9. WaitsInv'
  BY <1>1, <1>2 DEF WaitsInv, Is, Told, Reaping, Only
<1>10. ReleaseInv'
  <2>1. \A q, c \in Proc : Done(q, c) => Done(q, c)'
    BY <1>1, <1>2, DoneKept DEF Is, Loop
  <2> QED
    BY <1>1, <1>2, <1>3, <2>1, ReleaseKept DEF Leaving, Told, Only
<1> QED
  BY <1>4, <1>5, <1>6, <1>7, <1>8, <1>9, <1>10

LEMMA ForgetStep ==
  ASSUME WInv, NEW p \in Proc, Forget(p)
  PROVE  WInv'
<1> USE DEF WInv
<1>1. /\ mem[p] = "live" /\ pc[p].at = "forget"
      /\ UNCHANGED <<mem, next, prev, return_status, wait_sema, wait_on_parent, load_sema, forker, waited, torn>>
  BY DEF Forget, In, Crash, links, semaVars, history
<1>2. /\ pc'[p].at = "tell" /\ Only(p)
      /\ pc' = [q \in Proc |-> pc'[q]] /\ \A q \in Proc : FrameOK(pc'[q])
  BY GoesAlone DEF Forget, Alone
<1>3. /\ parent' \in [Proc -> Proc \cup {NULL}] /\ parent'[p] = NULL
      /\ \A c \in Proc : c # p => parent'[c] = parent[c]
  BY Types DEF Forget
<1>4. TypeInv'
  BY <1>1, <1>2, <1>3, Types, Typed
<1>5. PagesInv'
  BY <1>1, <1>2, <1>3 DEF PagesInv, Blank, Names, Alone, At, Only
<1>6. KinInv' /\ \A q \in Proc : Kin(q)' = Kin(q)
  BY <1>1, <1>2, <1>3, KinKept DEF Is, Loop, Only
<1>7. MakeInv'
  <2>1. p # Main
    BY <1>1, NotMain DEF Alone, Loop
  <2>2. /\ pc[p].at \notin Making \cup {"new"} /\ pc'[p].at \notin Begun \cup {"new"}
        /\ pc'[p].at \in Leaving => pc[p].at \in Leaving \/ parent[p] # NULL
    BY <1>1, <1>2, <1>3 DEF Making, Begun, Leaving
  <2>3. \A x \in Proc : \/ parent'[x] = parent[x]
                        \/ parent'[x] = NULL /\ (pc[x].at \in Leaving \/ pc[forker[x]].at \in Loop)
    BY <1>1, <1>2, <1>3 DEF Leaving, Loop
  <2>4. \A x \in Proc : wait_sema'[x] = 0 \/ wait_sema'[x] = wait_sema[x] \/ pc[x].at \in Leaving
    BY <1>1, <1>2, <1>3 DEF Leaving
  <2> QED
    BY <1>1, <1>2, <1>3, <1>6, <2>1, <2>2, <2>3, <2>4, MakeOnly
<1>8. SemasInv'
  BY <1>1, <1>2, <1>3 DEF SemasInv, Told, Only
<1>9. WaitsInv'
  BY <1>1, <1>2, <1>3 DEF WaitsInv, Is, Told, Reaping, Only
<1>10. ReleaseInv'
  <2>1. \A q, c \in Proc : Done(q, c) => Done(q, c)'
    BY <1>1, <1>2, DoneKept DEF Is, Loop
  <2> QED
    BY <1>1, <1>2, <1>3, <2>1, ReleaseKept DEF Leaving, Told, Only
<1> QED
  BY <1>4, <1>5, <1>6, <1>7, <1>8, <1>9, <1>10

LEMMA TellStep ==
  ASSUME WInv, NEW p \in Proc, Tell(p)
  PROVE  WInv'
<1> USE DEF WInv
<1>1. /\ mem[p] = "live" /\ pc[p].at = "tell"
      /\ UNCHANGED <<mem, parent, next, prev, return_status, wait_on_parent, load_sema, forker, waited, torn>>
  BY DEF Tell, In, Crash, links, semaVars, history
<1>2. /\ pc'[p].at = "await" /\ Only(p)
      /\ pc' = [q \in Proc |-> pc'[q]] /\ \A q \in Proc : FrameOK(pc'[q])
  BY GoesAlone DEF Tell, Alone
<1>3. /\ wait_sema' \in [Proc -> 0 .. 1] /\ wait_sema'[p] = 1 /\ parent[p] = NULL
      /\ \A c \in Proc : c # p => wait_sema'[c] = wait_sema[c]
  <2>1. ~(wait_sema[p] > 0) /\ parent[p] = NULL
    BY <1>1 DEF SemasInv, Told
  <2> QED
    BY <2>1, Types, Upped DEF Tell
<1>4. TypeInv'
  BY <1>1, <1>2, <1>3, Types, Typed
<1>5. PagesInv'
  BY <1>1, <1>2, <1>3 DEF PagesInv, Blank, Names, Alone, At, Only
<1>6. KinInv' /\ \A q \in Proc : Kin(q)' = Kin(q)
  BY <1>1, <1>2, KinKept DEF Is, Loop, Only
<1>7. MakeInv'
  <2>1. p # Main
    BY <1>1, NotMain DEF Alone, Loop
  <2>2. /\ pc[p].at \notin Making \cup {"new"} /\ pc'[p].at \notin Begun \cup {"new"}
        /\ pc'[p].at \in Leaving => pc[p].at \in Leaving \/ parent[p] # NULL
    BY <1>1, <1>2, <1>3 DEF Making, Begun, Leaving
  <2>3. \A x \in Proc : \/ parent'[x] = parent[x]
                        \/ parent'[x] = NULL /\ (pc[x].at \in Leaving \/ pc[forker[x]].at \in Loop)
    BY <1>1, <1>2, <1>3 DEF Leaving, Loop
  <2>4. \A x \in Proc : wait_sema'[x] = 0 \/ wait_sema'[x] = wait_sema[x] \/ pc[x].at \in Leaving
    BY <1>1, <1>2, <1>3 DEF Leaving
  <2> QED
    BY <1>1, <1>2, <1>3, <1>6, <2>1, <2>2, <2>3, <2>4, MakeOnly
<1>8. SemasInv'
  BY <1>1, <1>2, <1>3 DEF SemasInv, Told, Only
<1>9. WaitsInv'
  BY <1>1, <1>2, <1>3 DEF WaitsInv, Is, Told, Reaping, Only
<1>10. ReleaseInv'
  <2>1. \A q, c \in Proc : Done(q, c) => Done(q, c)'
    BY <1>1, <1>2, DoneKept DEF Is, Loop
  <2> QED
    BY <1>1, <1>2, <1>3, <2>1, ReleaseKept DEF Leaving, Told, Only
<1> QED
  BY <1>4, <1>5, <1>6, <1>7, <1>8, <1>9, <1>10

LEMMA AwaitStep ==
  ASSUME WInv, NEW p \in Proc, Await(p)
  PROVE  WInv'
<1> USE DEF WInv
<1>1. /\ mem[p] = "live" /\ pc[p].at = "await"
      /\ UNCHANGED <<mem, parent, next, prev, return_status, wait_sema, load_sema, forker, waited, torn>>
  BY DEF Await, In, Crash, links, semaVars, history
<1>2. /\ pc'[p].at = "orphan" /\ Only(p)
      /\ pc' = [q \in Proc |-> pc'[q]] /\ \A q \in Proc : FrameOK(pc'[q])
  BY GoesAlone DEF Await, Alone
<1>3. /\ wait_on_parent' \in [Proc -> Nat] /\ wait_on_parent[p] > 0 /\ parent[p] = NULL
      /\ \A c \in Proc : wait_on_parent'[c] > 0 => wait_on_parent[c] > 0
      /\ \A c \in Proc : c # p => wait_on_parent'[c] = wait_on_parent[c]
  <2>1. parent[p] = NULL /\ wait_on_parent[p] > 0 /\ wait_on_parent[p] \in Nat
    BY <1>1, Types DEF SemasInv, Await
  <2> QED
    BY <2>1, Types DEF Await
<1>4. TypeInv'
  BY <1>1, <1>2, <1>3, Types, Typed
<1>5. PagesInv'
  BY <1>1, <1>2, <1>3 DEF PagesInv, Blank, Names, Alone, At, Only
<1>6. KinInv' /\ \A q \in Proc : Kin(q)' = Kin(q)
  BY <1>1, <1>2, KinKept DEF Is, Loop, Only
<1>7. MakeInv'
  <2>1. p # Main
    BY <1>1, NotMain DEF Alone, Loop
  <2>2. /\ pc[p].at \notin Making \cup {"new"} /\ pc'[p].at \notin Begun \cup {"new"}
        /\ pc'[p].at \in Leaving => pc[p].at \in Leaving \/ parent[p] # NULL
    BY <1>1, <1>2, <1>3 DEF Making, Begun, Leaving
  <2>3. \A x \in Proc : \/ parent'[x] = parent[x]
                        \/ parent'[x] = NULL /\ (pc[x].at \in Leaving \/ pc[forker[x]].at \in Loop)
    BY <1>1, <1>2, <1>3 DEF Leaving, Loop
  <2>4. \A x \in Proc : wait_sema'[x] = 0 \/ wait_sema'[x] = wait_sema[x] \/ pc[x].at \in Leaving
    BY <1>1, <1>2, <1>3 DEF Leaving
  <2> QED
    BY <1>1, <1>2, <1>3, <1>6, <2>1, <2>2, <2>3, <2>4, MakeOnly
<1>8. SemasInv'
  BY <1>1, <1>2 DEF SemasInv, Told, Only
<1>9. WaitsInv'
  BY <1>1, <1>2 DEF WaitsInv, Is, Told, Reaping, Only
<1>10. ReleaseInv'
  <2>1. \A q, c \in Proc : Done(q, c) => Done(q, c)'
    BY <1>1, <1>2, DoneKept DEF Is, Loop
  <2>2. forker[p] \in Proc /\ Done(forker[p], p)
    BY <1>3 DEF ReleaseInv
  <2> QED
    BY <1>1, <1>2, <1>3, <2>1, <2>2, ReleaseKept DEF Leaving, Told, Only
<1> QED
  BY <1>4, <1>5, <1>6, <1>7, <1>8, <1>9, <1>10

LEMMA NotBlank ==
  ASSUME PagesInv, NEW p \in Proc, NEW c \in Kin(p)
  PROVE  c \in Proc /\ mem[c] # "unused" /\ forker[c] = p /\ p < c
BY DEF PagesInv, Blank, Kin

LEMMA OrphanStep ==
  ASSUME WInv, NEW p \in Proc, Orphan(p)
  PROVE  WInv'
<1> USE DEF WInv
<1>1. /\ mem[p] = "live" /\ pc[p].at = "orphan"
      /\ UNCHANGED <<mem, parent, next, prev, return_status, wait_sema, wait_on_parent, load_sema, forker, waited, torn>>
  BY DEF Orphan, In, Crash, links, semaVars, history
<1>3. /\ pc'[p].at = "disown" /\ (pc'[p].child \in Kin(p) \/ pc'[p].child = End) /\ Only(p)
      /\ pc' = [q \in Proc |-> pc'[q]] /\ \A q \in Proc : FrameOK(pc'[q])
  <2>1. PICK n \in After(p, p) : Goto(p, On("disown", Entry(n)))
    BY KinIs DEF Orphan
  <2>2. Entry(n) = End \/ (Entry(n) \in Kin(p) /\ Entry(n) \in Proc)
    <3>1. n = TailOf(p) \/ \E d \in Kin(p) : n = Elem(d) /\ d \in Proc
      BY AfterIs, Constants
    <3> QED
      BY <3>1, Nodes
  <2> QED
    BY <2>1, <2>2, GoesOn
<1>2. pc'[p].at = "disown" /\ Only(p)
  BY <1>3
<1>4. TypeInv'
  BY <1>1, <1>2, <1>3, Types, Typed
<1>5. PagesInv'
  <2>1. \A c \in Proc : pc'[p].child = c => mem[c] # "unused"
    BY <1>3, NotBlank, Constants
  <2> QED
    BY <1>1, <1>2, <1>3, <2>1 DEF PagesInv, Blank, Names, Alone, At, Only
<1>6. KinInv' /\ \A q \in Proc : Kin(q)' = Kin(q)
  BY <1>1, <1>2, <1>3, KinKept, Constants DEF Is, Loop, Only
<1>7. MakeInv'
  <2>1. p # Main
    BY <1>1, NotMain DEF Alone, Loop
  <2>2. /\ pc[p].at \notin Making \cup {"new"} /\ pc'[p].at \notin Begun \cup {"new"}
        /\ pc'[p].at \in Leaving => pc[p].at \in Leaving \/ parent[p] # NULL
    BY <1>1, <1>2 DEF Making, Begun, Leaving
  <2>3. \A x \in Proc : \/ parent'[x] = parent[x]
                        \/ parent'[x] = NULL /\ (pc[x].at \in Leaving \/ pc[forker[x]].at \in Loop)
    BY <1>1, <1>2 DEF Leaving, Loop
  <2>4. \A x \in Proc : wait_sema'[x] = 0 \/ wait_sema'[x] = wait_sema[x] \/ pc[x].at \in Leaving
    BY <1>1, <1>2 DEF Leaving
  <2> QED
    BY <1>1, <1>2, <1>6, <2>1, <2>2, <2>3, <2>4, MakeOnly
<1>8. SemasInv'
  BY <1>1, <1>2 DEF SemasInv, Told, Only
<1>9. WaitsInv'
  BY <1>1, <1>2 DEF WaitsInv, Is, Told, Reaping, Only
<1>10. ReleaseInv'
  <2>1. \A q, x \in Proc : Done(q, x) => Done(q, x)'
    BY <1>1, <1>2, DoneKept DEF Is, Loop
  <2> QED
    BY <1>1, <1>2, <2>1, ReleaseKept DEF Leaving, Told, Only
<1> QED
  BY <1>4, <1>5, <1>6, <1>7, <1>8, <1>9, <1>10

LEMMA DisownStep ==
  ASSUME WInv, NEW p \in Proc, Disown(p), ~crashed'
  PROVE  WInv'
<1> USE DEF WInv
<1>1. /\ mem[p] = "live" /\ pc[p].at = "disown"
      /\ UNCHANGED <<mem, next, prev, return_status, wait_sema, wait_on_parent, load_sema, forker, waited, torn>>
  BY DEF Disown, In, Crash, links, semaVars, history
<1>c. pc[p].child \in Kin(p)
  BY FrameIs, <1>1 DEF KinInv, Is, Loop, Disown
<1>2. /\ pc'[p].at = "free_child" /\ pc'[p].child = pc[p].child /\ Only(p)
      /\ pc' = [q \in Proc |-> pc'[q]] /\ \A q \in Proc : FrameOK(pc'[q])
  BY <1>c, NotBlank, GoesOn DEF Disown, Naming, Crash
<1>d. forker[pc[p].child] = p /\ pc[p].child \in Proc /\ mem[pc[p].child] # "unused"
  BY <1>c, NotBlank
<1>3. /\ parent' \in [Proc -> Proc \cup {NULL}] /\ parent'[pc[p].child] = NULL
      /\ \A c \in Proc : c # pc[p].child => parent'[c] = parent[c]
  BY <1>d, Types DEF Disown, Crash
<1>4. TypeInv'
  BY <1>1, <1>2, <1>3, Types, Typed
<1>5. PagesInv'
  BY <1>1, <1>2, <1>3, <1>d DEF PagesInv, Blank, Names, Alone, At, Only
<1>6. KinInv' /\ \A q \in Proc : Kin(q)' = Kin(q)
  BY <1>1, <1>2, <1>3, <1>c, KinKept DEF Is, Loop, Only
<1>7. MakeInv'
  <2>1. p # Main
    BY <1>1, NotMain DEF Alone, Loop
  <2>2. /\ pc[p].at \notin Making \cup {"new"} /\ pc'[p].at \notin Begun \cup {"new"}
        /\ pc'[p].at \in Leaving => pc[p].at \in Leaving \/ parent[p] # NULL
    BY <1>1, <1>2, <1>3, <1>d DEF Making, Begun, Leaving
  <2>3. \A x \in Proc : \/ parent'[x] = parent[x]
                        \/ parent'[x] = NULL /\ (pc[x].at \in Leaving \/ pc[forker[x]].at \in Loop)
    BY <1>1, <1>2, <1>3, <1>d DEF Leaving, Loop
  <2>4. \A x \in Proc : wait_sema'[x] = 0 \/ wait_sema'[x] = wait_sema[x] \/ pc[x].at \in Leaving
    BY <1>1, <1>2, <1>3, <1>d DEF Leaving
  <2> QED
    BY <1>1, <1>2, <1>3, <1>d, <1>6, <2>1, <2>2, <2>3, <2>4, MakeOnly
<1>8. SemasInv'
  BY <1>1, <1>2, <1>3 DEF SemasInv, Told, Only
<1>9. WaitsInv'
  BY <1>1, <1>2, <1>3 DEF WaitsInv, Is, Told, Reaping, Only
<1>10. ReleaseInv'
  <2>1. \A q, c \in Proc : Done(q, c) => Done(q, c)'
    BY <1>1, <1>2, DoneKept DEF Is, Loop
  <2>2. Done(p, pc[p].child)'
    BY <1>2 DEF Done, Loop
  <2> QED
    BY <1>1, <1>2, <1>3, <1>d, <2>1, <2>2, ReleaseKept DEF Leaving, Told, Only
<1> QED
  BY <1>4, <1>5, <1>6, <1>7, <1>8, <1>9, <1>10

LEMMA FreeChildStep ==
  ASSUME WInv, NEW p \in Proc, FreeChild(p), ~crashed'
  PROVE  WInv'
<1> USE DEF WInv
<1>1. /\ mem[p] = "live" /\ pc[p].at = "free_child"
      /\ UNCHANGED <<mem, parent, next, prev, return_status, wait_sema, load_sema, forker, waited, torn>>
  BY DEF FreeChild, In, Crash, links, semaVars, history
<1>c. pc[p].child \in Kin(p)
  BY FrameIs, <1>1 DEF KinInv, Is, Loop, Naming
<1>2. /\ pc'[p].at = "next_child" /\ pc'[p].child = pc[p].child /\ Only(p)
      /\ pc' = [q \in Proc |-> pc'[q]] /\ \A q \in Proc : FrameOK(pc'[q])
  BY <1>c, NotBlank, GoesOn DEF FreeChild, Naming, Crash
<1>d. forker[pc[p].child] = p /\ pc[p].child \in Proc /\ mem[pc[p].child] # "unused"
  BY <1>c, NotBlank
<1>3. /\ wait_on_parent' \in [Proc -> Nat]
      /\ \A c \in Proc : c # pc[p].child => wait_on_parent'[c] = wait_on_parent[c]
  BY <1>d, Types DEF FreeChild, Crash
<1>4. TypeInv'
  BY <1>1, <1>2, <1>3, Types, Typed
<1>5. PagesInv'
  BY <1>1, <1>2, <1>3, <1>d DEF PagesInv, Blank, Names, Alone, At, Only
<1>6. KinInv' /\ \A q \in Proc : Kin(q)' = Kin(q)
  BY <1>1, <1>2, <1>3, <1>c, KinKept DEF Is, Loop, Only
<1>7. MakeInv'
  <2>1. p # Main
    BY <1>1, NotMain DEF Alone, Loop
  <2>2. /\ pc[p].at \notin Making \cup {"new"} /\ pc'[p].at \notin Begun \cup {"new"}
        /\ pc'[p].at \in Leaving => pc[p].at \in Leaving \/ parent[p] # NULL
    BY <1>1, <1>2, <1>3, <1>d DEF Making, Begun, Leaving
  <2>3. \A x \in Proc : \/ parent'[x] = parent[x]
                        \/ parent'[x] = NULL /\ (pc[x].at \in Leaving \/ pc[forker[x]].at \in Loop)
    BY <1>1, <1>2, <1>3, <1>d DEF Leaving, Loop
  <2>4. \A x \in Proc : wait_sema'[x] = 0 \/ wait_sema'[x] = wait_sema[x] \/ pc[x].at \in Leaving
    BY <1>1, <1>2, <1>3, <1>d DEF Leaving
  <2> QED
    BY <1>1, <1>2, <1>3, <1>d, <1>6, <2>1, <2>2, <2>3, <2>4, MakeOnly
<1>8. SemasInv'
  BY <1>1, <1>2 DEF SemasInv, Told, Only
<1>9. WaitsInv'
  BY <1>1, <1>2 DEF WaitsInv, Is, Told, Reaping, Only
<1>10. ReleaseInv'
  <2>1. \A q, c \in Proc : Done(q, c) => Done(q, c)'
    BY <1>1, <1>2, DoneKept DEF Is, Loop
  <2>2. Done(p, pc[p].child)'
    BY <1>2 DEF Done, Loop
  <2> QED
    BY <1>1, <1>2, <1>3, <1>d, <2>1, <2>2, ReleaseKept DEF Leaving, Told, Only
<1> QED
  BY <1>4, <1>5, <1>6, <1>7, <1>8, <1>9, <1>10

LEMMA NextChildStep ==
  ASSUME WInv, NEW p \in Proc, NextChild(p), ~crashed'
  PROVE  WInv'
<1> USE DEF WInv
<1>1. /\ mem[p] = "live" /\ pc[p].at = "next_child"
      /\ UNCHANGED <<mem, parent, next, prev, return_status, wait_sema, wait_on_parent, load_sema, forker, waited, torn>>
  BY DEF NextChild, In, Crash, links, semaVars, history
<1>3. /\ pc'[p].at = "disown" /\ (pc'[p].child \in Kin(p) \/ pc'[p].child = End) /\ Only(p)
      /\ pc' = [q \in Proc |-> pc'[q]] /\ \A q \in Proc : FrameOK(pc'[q])
  <2>0. pc[p].child \in Kin(p) /\ pc[p].child \in Nat
    BY FrameIs, <1>1, Constants DEF KinInv, Is, Loop, Naming
  <2>1. PICK n \in After(p, pc[p].child) : Goto(p, On("disown", Entry(n)))
    BY <2>0, KinIs DEF NextChild, Crash
  <2>2. Entry(n) = End \/ (Entry(n) \in Kin(p) /\ Entry(n) \in Proc)
    <3>1. n = TailOf(p) \/ \E d \in Kin(p) : n = Elem(d) /\ d \in Proc
      BY <2>0, AfterIs
    <3> QED
      BY <3>1, Nodes
  <2> QED
    BY <2>1, <2>2, GoesOn
<1>2. pc'[p].at = "disown" /\ Only(p)
  BY <1>3
<1>4. TypeInv'
  BY <1>1, <1>2, <1>3, Types, Typed
<1>5. PagesInv'
  <2>1. \A c \in Proc : pc'[p].child = c => mem[c] # "unused"
    BY <1>3, NotBlank, Constants
  <2> QED
    BY <1>1, <1>2, <1>3, <2>1 DEF PagesInv, Blank, Names, Alone, At, Only
<1>6. KinInv' /\ \A q \in Proc : Kin(q)' = Kin(q)
  BY <1>1, <1>2, <1>3, KinKept, Constants DEF Is, Loop, Only
<1>7. MakeInv'
  <2>1. p # Main
    BY <1>1, NotMain DEF Alone, Loop
  <2>2. /\ pc[p].at \notin Making \cup {"new"} /\ pc'[p].at \notin Begun \cup {"new"}
        /\ pc'[p].at \in Leaving => pc[p].at \in Leaving \/ parent[p] # NULL
    BY <1>1, <1>2 DEF Making, Begun, Leaving
  <2>3. \A x \in Proc : \/ parent'[x] = parent[x]
                        \/ parent'[x] = NULL /\ (pc[x].at \in Leaving \/ pc[forker[x]].at \in Loop)
    BY <1>1, <1>2 DEF Leaving, Loop
  <2>4. \A x \in Proc : wait_sema'[x] = 0 \/ wait_sema'[x] = wait_sema[x] \/ pc[x].at \in Leaving
    BY <1>1, <1>2 DEF Leaving
  <2> QED
    BY <1>1, <1>2, <1>6, <2>1, <2>2, <2>3, <2>4, MakeOnly
<1>8. SemasInv'
  BY <1>1, <1>2 DEF SemasInv, Told, Only
<1>9. WaitsInv'
  BY <1>1, <1>2 DEF WaitsInv, Is, Told, Reaping, Only
<1>10. ReleaseInv'
  <2>1. \A q, x \in Proc : Done(q, x) => Done(q, x)'
    BY <1>1, <1>2, DoneKept DEF Is, Loop
  <2> QED
    BY <1>1, <1>2, <2>1, ReleaseKept DEF Leaving, Told, Only
<1> QED
  BY <1>4, <1>5, <1>6, <1>7, <1>8, <1>9, <1>10

LEMMA DieStep ==
  ASSUME WInv, NEW p \in Proc, Die(p)
  PROVE  WInv'
<1> USE DEF WInv
<1>1. /\ mem[p] = "live" /\ pc[p].at = "disown"
      /\ UNCHANGED <<parent, next, prev, return_status, wait_sema, wait_on_parent, load_sema, forker, waited, torn>>
  BY DEF Die, In, Crash, links, semaVars, history
<1>2. pc' = pc /\ pc[p].child = End /\ Only(p) /\ pc'[p].at = "disown"
  BY <1>1 DEF Die, Only
<1>3. /\ mem' \in [Proc -> {"unused", "live", "freed"}] /\ mem'[p] = "freed"
      /\ \A c \in Proc : c # p => mem'[c] = mem[c]
  BY Types DEF Die
<1>4. TypeInv'
  BY <1>1, <1>2, <1>3, Types, Typed DEF TypeInv
<1>5. PagesInv'
  BY <1>1, <1>2, <1>3 DEF PagesInv, Blank, Names, Alone, At, Only
<1>6. KinInv' /\ \A q \in Proc : Kin(q)' = Kin(q)
  BY <1>1, <1>2, KinKept DEF Is, Loop, Only
<1>7. MakeInv'
  <2>1. p # Main
    BY <1>1, NotMain DEF Alone, Loop
  <2>2. /\ pc[p].at \notin Making \cup {"new"} /\ pc'[p].at \notin Begun \cup {"new"}
        /\ pc'[p].at \in Leaving => pc[p].at \in Leaving \/ parent[p] # NULL
    BY <1>1, <1>2, <1>3 DEF Making, Begun, Leaving
  <2>3. \A x \in Proc : \/ parent'[x] = parent[x]
                        \/ parent'[x] = NULL /\ (pc[x].at \in Leaving \/ pc[forker[x]].at \in Loop)
    BY <1>1, <1>2, <1>3 DEF Leaving, Loop
  <2>4. \A x \in Proc : wait_sema'[x] = 0 \/ wait_sema'[x] = wait_sema[x] \/ pc[x].at \in Leaving
    BY <1>1, <1>2, <1>3 DEF Leaving
  <2> QED
    BY <1>1, <1>2, <1>3, <1>6, <2>1, <2>2, <2>3, <2>4, MakeOnly
<1>8. SemasInv'
  BY <1>1, <1>2 DEF SemasInv, Told, Only
<1>9. WaitsInv'
  BY <1>1, <1>2, <1>3 DEF WaitsInv, Is, Told, Reaping, Only
<1>10. ReleaseInv'
  <2>1. \A q, x \in Proc : Done(q, x) => Done(q, x)'
    BY <1>1, <1>2, DoneKept DEF Is, Loop
  <2> QED
    BY <1>1, <1>2, <2>1, ReleaseKept DEF Leaving, Told, Only
<1> QED
  BY <1>4, <1>5, <1>6, <1>7, <1>8, <1>9, <1>10

-----------------------------------------------------------------------------
(* wait.                                                                   *)

LEMMA WaitStep ==
  ASSUME WInv, NEW p \in Proc, Wait(p)
  PROVE  WInv'
<1> USE DEF WInv
<1>1. /\ mem[p] = "live" /\ pc[p].at = "user"
      /\ UNCHANGED <<mem, parent, next, prev, return_status, wait_sema, wait_on_parent, load_sema, forker, waited, torn>>
  BY DEF Wait, In, Crash, links, semaVars, history
<1>3. PICK c \in Proc : Live(c) /\ Goto(p, On("check", c))
  <2>1. waited[Main] \subseteq Proc
    BY Types, Constants
  <2> QED
    BY <2>1 DEF Wait
<1>2. /\ pc'[p].at = "check" /\ pc'[p].child = c /\ Only(p)
      /\ pc' = [q \in Proc |-> pc'[q]] /\ \A q \in Proc : FrameOK(pc'[q])
  BY <1>3, GoesOn DEF Naming
<1>4. TypeInv'
  BY <1>1, <1>2, Types, Typed
<1>5. PagesInv'
  BY <1>1, <1>2, <1>3 DEF PagesInv, Blank, Names, Alone, At, Only, Live
<1>6. KinInv' /\ \A q \in Proc : Kin(q)' = Kin(q)
  BY <1>1, <1>2, KinKept DEF Is, Loop, Only
<1>7. MakeInv'
  <2>1. p # Main \/ pc'[p].at \in {"user", "check"} \cup Reaping
    BY <1>1, <1>2 DEF Reaping
  <2>2. /\ pc[p].at \notin Making \cup {"new"} /\ pc'[p].at \notin Begun \cup {"new"}
        /\ pc'[p].at \in Leaving => pc[p].at \in Leaving \/ parent[p] # NULL
    BY <1>1, <1>2 DEF Making, Begun, Leaving
  <2>3. \A x \in Proc : \/ parent'[x] = parent[x]
                        \/ parent'[x] = NULL /\ (pc[x].at \in Leaving \/ pc[forker[x]].at \in Loop)
    BY <1>1, <1>2 DEF Leaving, Loop
  <2>4. \A x \in Proc : wait_sema'[x] = 0 \/ wait_sema'[x] = wait_sema[x] \/ pc[x].at \in Leaving
    BY <1>1, <1>2 DEF Leaving
  <2> QED
    BY <1>1, <1>2, <1>6, <2>1, <2>2, <2>3, <2>4, MakeOnly
<1>8. SemasInv'
  BY <1>1, <1>2 DEF SemasInv, Told, Only
<1>9. WaitsInv'
  BY <1>1, <1>2 DEF WaitsInv, Is, Told, Reaping, Only
<1>10. ReleaseInv'
  <2>1. \A q, x \in Proc : Done(q, x) => Done(q, x)'
    BY <1>1, <1>2, DoneKept DEF Is, Loop
  <2> QED
    BY <1>1, <1>2, <2>1, ReleaseKept DEF Leaving, Told, Only
<1> QED
  BY <1>4, <1>5, <1>6, <1>7, <1>8, <1>9, <1>10

(* A child of p that p does not wait for was not waited for.               *)
LEMMA ChildIs ==
  ASSUME WInv, NEW p \in Proc, NEW c \in Proc, mem[c] = "live", parent[c] = p, pc[p].at = "check"
  PROVE  forker[c] = p /\ \A q \in Proc : c \notin waited[q]
<1>1. parent[c] # NULL
  BY Constants
<1>2. forker[c] = p
  BY <1>1, ParentIs DEF WInv
<1>3. ASSUME NEW q \in Proc, c \in waited[q] PROVE FALSE
  <2>1. q = p
    BY <1>2, <1>3 DEF WInv, WaitsInv
  <2>2. ~Is(pc[p], {"down", "blocked"}, c)
    BY DEF Is
  <2> QED
    BY <1>1, <1>3, <2>1, <2>2 DEF WInv, WaitsInv
<1> QED
  BY <1>2, <1>3

LEMMA CheckStep ==
  ASSUME WInv, NEW p \in Proc, Check(p)
  PROVE  WInv'
<1> USE DEF WInv
<1>1. /\ mem[p] = "live" /\ pc[p].at = "check"
      /\ UNCHANGED <<mem, parent, next, prev, return_status, wait_sema, wait_on_parent, load_sema, forker, torn>>
  BY DEF Check, In, Crash, links, semaVars, history
<1>c. PICK c \in Proc : pc[p].child = c
  BY <1>1, FrameIs DEF Naming
<1>3. \/ /\ mem[c] = "live" /\ parent[c] = p /\ Goto(p, On("down", c))
         /\ waited' = [waited EXCEPT ![p] = @ \cup {c}]
      \/ Goto(p, At("user")) /\ waited' = waited
  BY <1>c DEF Check, Live
<1>2. /\ \/ /\ pc'[p].at = "down" /\ pc'[p].child = c /\ parent[c] = p /\ mem[c] = "live"
            /\ waited'[p] = waited[p] \cup {c}
         \/ pc'[p] = At("user") /\ pc'[p].at = "user" /\ waited'[p] = waited[p]
      /\ Only(p) /\ \A q \in Proc : q # p => waited'[q] = waited[q]
      /\ pc' = [q \in Proc |-> pc'[q]] /\ \A q \in Proc : FrameOK(pc'[q])
      /\ waited' \in [Proc -> SUBSET Proc]
  <2>1. CASE Goto(p, On("down", c)) /\ waited' = [waited EXCEPT ![p] = @ \cup {c}] /\ mem[c] = "live" /\ parent[c] = p
    BY <2>1, Types, GoesOn DEF Naming, Reaping
  <2>2. CASE Goto(p, At("user")) /\ waited' = waited
    BY <2>2, Types, GoesAlone DEF Alone
  <2> QED
    BY <1>3, <2>1, <2>2
<1>a. mem[c] # "unused"
  BY <1>1, <1>c DEF PagesInv, Names, Alone
<1>b. pc'[p].at = "down" => forker[c] = p /\ \A q \in Proc : c \notin waited[q]
  <2>1. pc'[p].at = "down" => mem[c] = "live" /\ parent[c] = p
    BY <1>2
  <2> QED
    BY <1>1, <2>1, ChildIs
<1>4. TypeInv'
  BY <1>1, <1>2, Types, Typed
<1>5. PagesInv'
  BY <1>1, <1>2, <1>a DEF PagesInv, Blank, Names, Alone, At, Only
<1>6. KinInv' /\ \A q \in Proc : Kin(q)' = Kin(q)
  BY <1>1, <1>2, KinKept DEF Is, Loop, Only
<1>7. MakeInv'
  <2>1. p # Main \/ pc'[p].at \in {"user", "check"} \cup Reaping
    BY <1>1, <1>2 DEF Reaping
  <2>2. /\ pc[p].at \notin Making \cup {"new"} /\ pc'[p].at \notin Begun \cup {"new"}
        /\ pc'[p].at \in Leaving => pc[p].at \in Leaving \/ parent[p] # NULL
    BY <1>1, <1>2 DEF Making, Begun, Leaving
  <2>3. \A x \in Proc : \/ parent'[x] = parent[x]
                        \/ parent'[x] = NULL /\ (pc[x].at \in Leaving \/ pc[forker[x]].at \in Loop)
    BY <1>1, <1>2 DEF Leaving, Loop
  <2>4. \A x \in Proc : wait_sema'[x] = 0 \/ wait_sema'[x] = wait_sema[x] \/ pc[x].at \in Leaving
    BY <1>1, <1>2 DEF Leaving
  <2> QED
    BY <1>1, <1>2, <1>6, <2>1, <2>2, <2>3, <2>4, MakeOnly
<1>8. SemasInv'
  BY <1>1, <1>2 DEF SemasInv, Told, Only
<1>9. WaitsInv'
    <2>1. \A q, x \in Proc : Is(pc'[q], Reaping, x) => x \in waited'[q]
    BY <1>1, <1>2 DEF WaitsInv, Is, Reaping, Only
  <2>2. \A q, x \in Proc : x \in waited'[q] => x \in waited[q] \/ (q = p /\ x = c /\ pc'[p].at = "down")
    BY <1>2
  <2>3. ASSUME NEW q \in Proc, NEW x \in Proc, x \in waited'[q], ~Is(pc'[q], {"down", "blocked"}, x)
        PROVE  Told(x)' /\ (parent[x] = NULL \/ (mem[x] = "freed" /\ Is(pc'[q], {"up"}, x)))
    <3>1. x \in waited[q] /\ ~Is(pc[q], {"down", "blocked"}, x)
      BY <1>1, <1>2, <2>2, <2>3 DEF Is, Only
    <3>2. Told(x) /\ (parent[x] = NULL \/ (mem[x] = "freed" /\ Is(pc[q], {"up"}, x)))
      BY <3>1 DEF WaitsInv
    <3> QED
      BY <1>1, <1>2, <3>2 DEF Told, Is, Only
  <2> QED
    BY <1>1, <1>b, <2>1, <2>2, <2>3 DEF WaitsInv
<1>10. ReleaseInv'
  <2>0. \A x \in waited[p] : ~Is(pc'[p], {"down", "blocked", "up"}, x)
    BY <1>2, <1>b DEF Is
  <2>1. \A q, x \in Proc : Done(q, x) => Done(q, x)'
    <3>1. \A q \in Proc : waited[q] \subseteq waited'[q]
      BY <1>2
    <3>2. pc[p].at \notin Loop
      BY <1>1 DEF Loop
    <3> QED
      BY <1>2, <2>0, <3>1, <3>2, DoneKept
  <2> QED
    BY <1>1, <1>2, <2>1, ReleaseKept DEF Leaving, Told, Only
<1> QED
  BY <1>4, <1>5, <1>6, <1>7, <1>8, <1>9, <1>10

(* Who has upped wait_sema has forgotten its parent.                       *)
LEMMA DownStep ==
  ASSUME WInv, NEW p \in Proc, Down(p)
  PROVE  WInv'
<1> USE DEF WInv
<1>1. /\ mem[p] = "live" /\ pc[p].at = "down"
      /\ UNCHANGED <<mem, parent, next, prev, return_status, wait_on_parent, load_sema, forker, waited, torn>>
  BY DEF Down, In, Crash, links, semaVars, history
<1>c. PICK c \in Proc : pc[p].child = c
  BY <1>1, FrameIs DEF Naming, Reaping
<1>2. /\ \/ pc'[p].at = "blocked"
         \/ pc'[p].at = "up" /\ (wait_sema[c] > 0 \/ mem[c] = "freed")
      /\ pc'[p].child = c /\ Only(p)
      /\ pc' = [q \in Proc |-> pc'[q]] /\ \A q \in Proc : FrameOK(pc'[q])
      /\ wait_sema' \in [Proc -> 0 .. 1] /\ \A x \in Proc : wait_sema'[x] \in {0, wait_sema[x]}
  <2>0. mem[c] # "unused" /\ mem[c] \in {"unused", "live", "freed"} /\ wait_sema[c] \in 0 .. 1
    BY <1>1, <1>c, Types DEF PagesInv, Names, Alone
  <2>1. CASE Goto(p, On("blocked", c)) /\ wait_sema' = wait_sema
    BY <2>1, Types, GoesOn DEF Naming, Reaping
  <2>2. CASE Goto(p, On("up", c)) /\ wait_sema' = wait_sema /\ mem[c] # "live"
    BY <2>0, <2>2, Types, GoesOn DEF Naming, Reaping
  <2>3. CASE Goto(p, On("up", c)) /\ wait_sema' = [wait_sema EXCEPT ![c] = @ - 1] /\ wait_sema[c] # 0
    <3>1. wait_sema[c] > 0
      BY <2>0, <2>3
    <3>2. wait_sema' \in [Proc -> 0 .. 1] /\ wait_sema'[c] = 0 /\ \A x \in Proc : x # c => wait_sema'[x] = wait_sema[x]
      BY <2>3, <3>1, Types, Downed
    <3> QED
      BY <2>3, <3>1, <3>2, GoesOn DEF Naming, Reaping
  <2> QED
    BY <1>c, <2>1, <2>2, <2>3 DEF Down, Live
<1>a. mem[c] # "unused" /\ c \in waited[p]
  BY <1>1, <1>c DEF PagesInv, Names, Alone, WaitsInv, Is, Reaping
<1>b. pc'[p].at = "up" => Told(c) /\ (parent[c] = NULL \/ mem[c] = "freed")
  <2>1. wait_sema[c] > 0 => Told(c) /\ parent[c] = NULL
    BY DEF SemasInv
  <2>2. mem[c] = "freed" => Told(c)
    BY DEF PagesInv, Told
  <2> QED
    BY <1>2, <2>1, <2>2
<1>4. TypeInv'
  BY <1>1, <1>2, Types, Typed
<1>5. PagesInv'
  BY <1>1, <1>2, <1>a DEF PagesInv, Blank, Names, Alone, At, Only
<1>6. KinInv' /\ \A q \in Proc : Kin(q)' = Kin(q)
  BY <1>1, <1>2, KinKept DEF Is, Loop, Only
<1>7. MakeInv'
  <2>1. p # Main \/ pc'[p].at \in {"user", "check"} \cup Reaping
    BY <1>1, <1>2 DEF Reaping
  <2>2. /\ pc[p].at \notin Making \cup {"new"} /\ pc'[p].at \notin Begun \cup {"new"}
        /\ pc'[p].at \in Leaving => pc[p].at \in Leaving \/ parent[p] # NULL
    BY <1>1, <1>2 DEF Making, Begun, Leaving
  <2>3. \A x \in Proc : \/ parent'[x] = parent[x]
                        \/ parent'[x] = NULL /\ (pc[x].at \in Leaving \/ pc[forker[x]].at \in Loop)
    BY <1>1, <1>2 DEF Leaving, Loop
  <2>4. \A x \in Proc : wait_sema'[x] = 0 \/ wait_sema'[x] = wait_sema[x] \/ pc[x].at \in Leaving
    BY <1>1, <1>2 DEF Leaving
  <2> QED
    BY <1>1, <1>2, <1>6, <2>1, <2>2, <2>3, <2>4, MakeOnly
<1>8. SemasInv'
  BY <1>1, <1>2 DEF SemasInv, Told, Only
<1>9. WaitsInv'
    <2>1. \A q, x \in Proc : Is(pc'[q], Reaping, x) => x \in waited[q]
    BY <1>1, <1>2, <1>a DEF WaitsInv, Is, Reaping, Only
  <2>2. ASSUME NEW q \in Proc, NEW x \in Proc, x \in waited[q], ~Is(pc'[q], {"down", "blocked"}, x)
        PROVE  Told(x)' /\ (parent[x] = NULL \/ (mem[x] = "freed" /\ Is(pc'[q], {"up"}, x)))
    <3>1. CASE q = p /\ x = c
      BY <1>1, <1>2, <1>b, <2>2, <3>1 DEF Is, Told, Only
    <3>2. CASE ~(q = p /\ x = c)
      <4>1. ~Is(pc[q], {"down", "blocked"}, x) /\ ~(q = p /\ Is(pc[q], {"up"}, x))
        BY <1>1, <1>2, <1>c, <2>2, <3>2 DEF Is, Only
      <4>2. Told(x) /\ (parent[x] = NULL \/ (mem[x] = "freed" /\ Is(pc[q], {"up"}, x)))
        BY <2>2, <4>1 DEF WaitsInv
      <4> QED
        BY <1>1, <1>2, <4>1, <4>2 DEF Is, Told, Only
    <3> QED
      BY <3>1, <3>2
  <2> QED
    BY <1>1, <2>1, <2>2 DEF WaitsInv
<1>10. ReleaseInv'
  <2>1. \A q, x \in Proc : Done(q, x) => Done(q, x)'
    <3>1. \A x \in Proc : Is(pc'[p], {"down", "blocked", "up"}, x) => Is(pc[p], {"down", "blocked", "up"}, x)
      BY <1>1, <1>2, <1>c DEF Is
    <3>2. pc[p].at \notin Loop
      BY <1>1 DEF Loop
    <3> QED
      BY <1>1, <1>2, <3>1, <3>2, Types, DoneKept
  <2> QED
    BY <1>1, <1>2, <2>1, ReleaseKept DEF Leaving, Told, Only
<1> QED
  BY <1>4, <1>5, <1>6, <1>7, <1>8, <1>9, <1>10

LEMMA WakeStep ==
  ASSUME WInv, NEW p \in Proc, Wake(p)
  PROVE  WInv'
<1> USE DEF WInv
<1>1. /\ mem[p] = "live" /\ pc[p].at = "blocked"
      /\ UNCHANGED <<mem, parent, next, prev, return_status, wait_on_parent, load_sema, forker, waited, torn>>
  BY DEF Wake, In, Crash, links, semaVars, history
<1>c. PICK c \in Proc : pc[p].child = c
  BY <1>1, FrameIs DEF Naming, Reaping
<1>2. /\ \/ pc'[p].at = "blocked"
         \/ pc'[p].at = "up" /\ (wait_sema[c] > 0 \/ mem[c] = "freed")
      /\ pc'[p].child = c /\ Only(p)
      /\ pc' = [q \in Proc |-> pc'[q]] /\ \A q \in Proc : FrameOK(pc'[q])
      /\ wait_sema' \in [Proc -> 0 .. 1] /\ \A x \in Proc : wait_sema'[x] \in {0, wait_sema[x]}
  <2>1. wait_sema[c] > 0 /\ wait_sema' = [wait_sema EXCEPT ![c] = @ - 1] /\ Goto(p, On("up", c))
    BY <1>c DEF Wake
  <2>2. wait_sema' \in [Proc -> 0 .. 1] /\ wait_sema'[c] = 0 /\ \A x \in Proc : x # c => wait_sema'[x] = wait_sema[x]
    BY <2>1, Types, Downed
  <2> QED
    BY <2>1, <2>2, GoesOn DEF Naming, Reaping
<1>a. mem[c] # "unused" /\ c \in waited[p]
  BY <1>1, <1>c DEF PagesInv, Names, Alone, WaitsInv, Is, Reaping
<1>b. pc'[p].at = "up" => Told(c) /\ (parent[c] = NULL \/ mem[c] = "freed")
  <2>1. wait_sema[c] > 0 => Told(c) /\ parent[c] = NULL
    BY DEF SemasInv
  <2>2. mem[c] = "freed" => Told(c)
    BY DEF PagesInv, Told
  <2> QED
    BY <1>2, <2>1, <2>2
<1>4. TypeInv'
  BY <1>1, <1>2, Types, Typed
<1>5. PagesInv'
  BY <1>1, <1>2, <1>a DEF PagesInv, Blank, Names, Alone, At, Only
<1>6. KinInv' /\ \A q \in Proc : Kin(q)' = Kin(q)
  BY <1>1, <1>2, KinKept DEF Is, Loop, Only
<1>7. MakeInv'
  <2>1. p # Main \/ pc'[p].at \in {"user", "check"} \cup Reaping
    BY <1>1, <1>2 DEF Reaping
  <2>2. /\ pc[p].at \notin Making \cup {"new"} /\ pc'[p].at \notin Begun \cup {"new"}
        /\ pc'[p].at \in Leaving => pc[p].at \in Leaving \/ parent[p] # NULL
    BY <1>1, <1>2 DEF Making, Begun, Leaving
  <2>3. \A x \in Proc : \/ parent'[x] = parent[x]
                        \/ parent'[x] = NULL /\ (pc[x].at \in Leaving \/ pc[forker[x]].at \in Loop)
    BY <1>1, <1>2 DEF Leaving, Loop
  <2>4. \A x \in Proc : wait_sema'[x] = 0 \/ wait_sema'[x] = wait_sema[x] \/ pc[x].at \in Leaving
    BY <1>1, <1>2 DEF Leaving
  <2> QED
    BY <1>1, <1>2, <1>6, <2>1, <2>2, <2>3, <2>4, MakeOnly
<1>8. SemasInv'
  BY <1>1, <1>2 DEF SemasInv, Told, Only
<1>9. WaitsInv'
    <2>1. \A q, x \in Proc : Is(pc'[q], Reaping, x) => x \in waited[q]
    BY <1>1, <1>2, <1>a DEF WaitsInv, Is, Reaping, Only
  <2>2. ASSUME NEW q \in Proc, NEW x \in Proc, x \in waited[q], ~Is(pc'[q], {"down", "blocked"}, x)
        PROVE  Told(x)' /\ (parent[x] = NULL \/ (mem[x] = "freed" /\ Is(pc'[q], {"up"}, x)))
    <3>1. CASE q = p /\ x = c
      BY <1>1, <1>2, <1>b, <2>2, <3>1 DEF Is, Told, Only
    <3>2. CASE ~(q = p /\ x = c)
      <4>1. ~Is(pc[q], {"down", "blocked"}, x) /\ ~(q = p /\ Is(pc[q], {"up"}, x))
        BY <1>1, <1>2, <1>c, <2>2, <3>2 DEF Is, Only
      <4>2. Told(x) /\ (parent[x] = NULL \/ (mem[x] = "freed" /\ Is(pc[q], {"up"}, x)))
        BY <2>2, <4>1 DEF WaitsInv
      <4> QED
        BY <1>1, <1>2, <4>1, <4>2 DEF Is, Told, Only
    <3> QED
      BY <3>1, <3>2
  <2> QED
    BY <1>1, <2>1, <2>2 DEF WaitsInv
<1>10. ReleaseInv'
  <2>1. \A q, x \in Proc : Done(q, x) => Done(q, x)'
    <3>1. \A x \in Proc : Is(pc'[p], {"down", "blocked", "up"}, x) => Is(pc[p], {"down", "blocked", "up"}, x)
      BY <1>1, <1>2, <1>c DEF Is
    <3>2. pc[p].at \notin Loop
      BY <1>1 DEF Loop
    <3> QED
      BY <1>1, <1>2, <3>1, <3>2, Types, DoneKept
  <2> QED
    BY <1>1, <1>2, <2>1, ReleaseKept DEF Leaving, Told, Only
<1> QED
  BY <1>4, <1>5, <1>6, <1>7, <1>8, <1>9, <1>10

LEMMA UpStep ==
  ASSUME WInv, NEW p \in Proc, Up(p), ~crashed'
  PROVE  WInv'
<1> USE DEF WInv
<1>1. /\ mem[p] = "live" /\ pc[p].at = "up"
      /\ UNCHANGED <<mem, parent, next, prev, return_status, wait_sema, load_sema, forker, waited, torn>>
  BY DEF Up, In, Crash, links, semaVars, history
<1>c. PICK c \in Proc : pc[p].child = c
  BY <1>1, FrameIs DEF Naming, Reaping
<1>3. mem[c] = "live" /\ wait_on_parent' = [wait_on_parent EXCEPT ![c] = @ + 1] /\ Goto(p, On("status", c))
  BY <1>c DEF Up, Live, Crash
<1>2. /\ pc'[p].at = "status" /\ pc'[p].child = c /\ Only(p)
      /\ pc' = [q \in Proc |-> pc'[q]] /\ \A q \in Proc : FrameOK(pc'[q])
      /\ wait_on_parent' \in [Proc -> Nat] /\ \A x \in Proc : x # c => wait_on_parent'[x] = wait_on_parent[x]
  <2>1. /\ pc'[p].at = "status" /\ pc'[p].child = c /\ Only(p)
        /\ pc' = [q \in Proc |-> pc'[q]] /\ \A q \in Proc : FrameOK(pc'[q])
    BY <1>3, GoesOn DEF Naming, Reaping
  <2> QED
    BY <1>3, <2>1, Types
<1>a. c \in waited[p] /\ forker[c] = p
  BY <1>1, <1>c DEF WaitsInv, Is, Reaping
<1>4. TypeInv'
  BY <1>1, <1>2, Types, Typed
<1>5. PagesInv'
  BY <1>1, <1>2, <1>3 DEF PagesInv, Blank, Names, Alone, At, Only
<1>6. KinInv' /\ \A q \in Proc : Kin(q)' = Kin(q)
  BY <1>1, <1>2, KinKept DEF Is, Loop, Only
<1>7. MakeInv'
  <2>1. p # Main \/ pc'[p].at \in {"user", "check"} \cup Reaping
    BY <1>1, <1>2 DEF Reaping
  <2>2. /\ pc[p].at \notin Making \cup {"new"} /\ pc'[p].at \notin Begun \cup {"new"}
        /\ pc'[p].at \in Leaving => pc[p].at \in Leaving \/ parent[p] # NULL
    BY <1>1, <1>2 DEF Making, Begun, Leaving
  <2>3. \A x \in Proc : \/ parent'[x] = parent[x]
                        \/ parent'[x] = NULL /\ (pc[x].at \in Leaving \/ pc[forker[x]].at \in Loop)
    BY <1>1, <1>2 DEF Leaving, Loop
  <2>4. \A x \in Proc : wait_sema'[x] = 0 \/ wait_sema'[x] = wait_sema[x] \/ pc[x].at \in Leaving
    BY <1>1, <1>2 DEF Leaving
  <2> QED
    BY <1>1, <1>2, <1>6, <2>1, <2>2, <2>3, <2>4, MakeOnly
<1>8. SemasInv'
  BY <1>1, <1>2 DEF SemasInv, Told, Only
<1>9. WaitsInv'
    <2>1. \A q, x \in Proc : Is(pc'[q], Reaping, x) => x \in waited[q]
    BY <1>1, <1>2, <1>a DEF WaitsInv, Is, Reaping, Only
  <2>2. ASSUME NEW q \in Proc, NEW x \in Proc, x \in waited[q], ~Is(pc'[q], {"down", "blocked"}, x)
        PROVE  Told(x)' /\ (parent[x] = NULL \/ (mem[x] = "freed" /\ Is(pc'[q], {"up"}, x)))
    <3>1. ~Is(pc[q], {"down", "blocked"}, x)
      BY <1>1, <1>2, <2>2 DEF Is, Only
    <3>2. Told(x) /\ (parent[x] = NULL \/ (mem[x] = "freed" /\ Is(pc[q], {"up"}, x)))
      BY <2>2, <3>1 DEF WaitsInv
    <3>3. q = p /\ Is(pc[q], {"up"}, x) => x = c
      BY <1>c DEF Is
    <3> QED
      BY <1>1, <1>2, <1>3, <3>2, <3>3 DEF Is, Told, Only
  <2> QED
    BY <1>1, <2>1, <2>2 DEF WaitsInv
<1>10. ReleaseInv'
  <2>1. \A q, x \in Proc : Done(q, x) => Done(q, x)'
    <3>1. \A x \in Proc : ~Is(pc'[p], {"down", "blocked", "up"}, x)
      BY <1>2 DEF Is
    <3>2. pc[p].at \notin Loop
      BY <1>1 DEF Loop
    <3> QED
      BY <1>1, <1>2, <3>1, <3>2, Types, DoneKept
  <2>2. Done(p, c)'
    BY <1>1, <1>2, <1>a DEF Done, Is
  <2> QED
    BY <1>1, <1>2, <1>a, <2>1, <2>2, ReleaseKept DEF Leaving, Told, Only
<1> QED
  BY <1>4, <1>5, <1>6, <1>7, <1>8, <1>9, <1>10

LEMMA ReturnStep ==
  ASSUME WInv, NEW p \in Proc, Return(p)
  PROVE  WInv'
<1> USE DEF WInv
<1>1. /\ mem[p] = "live" /\ pc[p].at = "status"
      /\ UNCHANGED <<mem, parent, next, prev, return_status, wait_sema, wait_on_parent, load_sema, forker, waited, torn>>
  BY DEF Return, In, Crash, links, semaVars, history
<1>2. /\ pc'[p].at = "user" /\ Only(p)
      /\ pc' = [q \in Proc |-> pc'[q]] /\ \A q \in Proc : FrameOK(pc'[q])
  BY GoesAlone DEF Return, Alone
<1>4. TypeInv'
  BY <1>1, <1>2, Types, Typed
<1>5. PagesInv'
  BY <1>1, <1>2 DEF PagesInv, Blank, Names, Alone, At, Only
<1>6. KinInv' /\ \A q \in Proc : Kin(q)' = Kin(q)
  BY <1>1, <1>2, KinKept DEF Is, Loop, Only
<1>7. MakeInv'
  <2>1. p # Main \/ pc'[p].at \in {"user", "check"} \cup Reaping
    BY <1>1, <1>2 DEF Reaping
  <2>2. /\ pc[p].at \notin Making \cup {"new"} /\ pc'[p].at \notin Begun \cup {"new"}
        /\ pc'[p].at \in Leaving => pc[p].at \in Leaving \/ parent[p] # NULL
    BY <1>1, <1>2 DEF Making, Begun, Leaving
  <2>3. \A x \in Proc : \/ parent'[x] = parent[x]
                        \/ parent'[x] = NULL /\ (pc[x].at \in Leaving \/ pc[forker[x]].at \in Loop)
    BY <1>1, <1>2 DEF Leaving, Loop
  <2>4. \A x \in Proc : wait_sema'[x] = 0 \/ wait_sema'[x] = wait_sema[x] \/ pc[x].at \in Leaving
    BY <1>1, <1>2 DEF Leaving
  <2> QED
    BY <1>1, <1>2, <1>6, <2>1, <2>2, <2>3, <2>4, MakeOnly
<1>8. SemasInv'
  BY <1>1, <1>2 DEF SemasInv, Told, Only
<1>9. WaitsInv'
  BY <1>1, <1>2 DEF WaitsInv, Is, Told, Reaping, Only
<1>10. ReleaseInv'
  <2>1. \A q, x \in Proc : Done(q, x) => Done(q, x)'
    BY <1>1, <1>2, DoneKept DEF Is, Loop
  <2> QED
    BY <1>1, <1>2, <2>1, ReleaseKept DEF Leaving, Told, Only
<1> QED
  BY <1>4, <1>5, <1>6, <1>7, <1>8, <1>9, <1>10

-----------------------------------------------------------------------------
(* The start of a process.                                                 *)

LEMMA LoadStep ==
  ASSUME WInv, NEW p \in Proc, Load(p)
  PROVE  WInv'
<1> USE DEF WInv
<1>1. /\ mem[p] = "live" /\ pc[p].at = "load"
      /\ UNCHANGED <<mem, parent, next, prev, return_status, wait_sema, wait_on_parent, forker, waited, torn>>
  BY DEF Load, In, Crash, links, semaVars, history
<1>3. load_sema' = [load_sema EXCEPT ![p] = @ + 1] /\ \E l \in {"user", "parent"} : Goto(p, At(l))
  BY DEF Load
<1>2. /\ pc'[p].at \in {"user", "parent"} /\ Only(p)
      /\ pc' = [q \in Proc |-> pc'[q]] /\ \A q \in Proc : FrameOK(pc'[q])
      /\ load_sema' \in [Proc -> 0 .. 1] /\ \A x \in Proc : x # p => load_sema'[x] = load_sema[x]
  <2>1. ~(load_sema[p] > 0)
    BY <1>1 DEF SemasInv
  <2> QED
    BY <1>3, <2>1, Types, Upped, GoesAlone DEF Alone
<1>4. TypeInv'
  BY <1>1, <1>2, Types, Typed
<1>5. PagesInv'
  BY <1>1, <1>2 DEF PagesInv, Blank, Names, Alone, At, Only
<1>6. KinInv' /\ \A q \in Proc : Kin(q)' = Kin(q)
  BY <1>1, <1>2, KinKept DEF Is, Loop, Only
<1>7. MakeInv'
  <2>1. p # Main
    BY <1>1, NotMain DEF Alone, Loop
  <2>2. /\ pc[p].at \notin Making \cup {"new"} /\ pc'[p].at \notin Begun \cup {"new"}
        /\ pc'[p].at \in Leaving => pc[p].at \in Leaving \/ parent[p] # NULL
    BY <1>1, <1>2 DEF Making, Begun, Leaving
  <2>3. \A x \in Proc : \/ parent'[x] = parent[x]
                        \/ parent'[x] = NULL /\ (pc[x].at \in Leaving \/ pc[forker[x]].at \in Loop)
    BY <1>1, <1>2 DEF Leaving, Loop
  <2>4. \A x \in Proc : wait_sema'[x] = 0 \/ wait_sema'[x] = wait_sema[x] \/ pc[x].at \in Leaving
    BY <1>1, <1>2 DEF Leaving
  <2> QED
    BY <1>1, <1>2, <1>6, <2>1, <2>2, <2>3, <2>4, MakeOnly
<1>8. SemasInv'
  BY <1>1, <1>2 DEF SemasInv, Told, Only
<1>9. WaitsInv'
  BY <1>1, <1>2 DEF WaitsInv, Is, Told, Reaping, Only
<1>10. ReleaseInv'
  <2>1. \A q, x \in Proc : Done(q, x) => Done(q, x)'
    BY <1>1, <1>2, DoneKept DEF Is, Loop
  <2> QED
    BY <1>1, <1>2, <2>1, ReleaseKept DEF Leaving, Told, Only
<1> QED
  BY <1>4, <1>5, <1>6, <1>7, <1>8, <1>9, <1>10
-----------------------------------------------------------------------------
(* A child is made and put on the list.                                    *)

(* What the maker of c knows of it.                                        *)
LEMMA BegunIs ==
  ASSUME WInv, NEW p \in Proc, pc[p].at \in Begun
  PROVE  \E c \in Proc :
           /\ pc[p].child = c /\ c # p /\ forker[c] = p /\ wait_sema[c] = 0 /\ c \notin waited[p]
           /\ mem[c] # "unused" /\ mem[p] # "unused"
           /\ \A x \in Proc : forker[x] = p => x <= c
           /\ p # Main => pc[p].at \in Making /\ pc[c].at = "new" /\ mem[c] = "live"
           /\ IF pc[p].at = "start" THEN parent[c] = p ELSE parent[c] = NULL /\ pc[c].at \notin Leaving
           /\ c \in Kin(p) <=> pc[p].at \in Making \ {"insert"}
<1>1. PICK c \in Proc : pc[p].child = c
  BY FrameIs DEF WInv, Naming
<1>2. Is(pc[p], Begun, c) /\ Names(pc[p], c)
  BY <1>1 DEF Is, Names, Begun, Making, Alone
<1>3. /\ forker[c] = p /\ wait_sema[c] = 0 /\ c \notin waited[p]
      /\ \A x \in Proc : forker[x] = p => x <= c
      /\ p # Main => pc[p].at \in Making /\ pc[c].at = "new"
      /\ IF pc[p].at = "start" THEN parent[c] = p ELSE parent[c] = NULL /\ pc[c].at \notin Leaving
      /\ c \in Kin(p) <=> pc[p].at \in Making \ {"insert"}
  BY <1>2 DEF WInv, MakeInv
<1>4. mem[c] # "unused" /\ mem[p] # "unused" /\ p < c
  BY <1>2, <1>3 DEF WInv, PagesInv
<1>5. pc[c].at = "new" => mem[c] = "live"
  BY DEF WInv, MakeInv
<1>6. c # p
  BY <1>4, Constants
<1> QED
  BY <1>1, <1>3, <1>4, <1>5, <1>6

(* Main, or a process that forks, takes the next step with its child.      *)
LEMMA MakeMoves ==
  ASSUME MakeInv, NEW p \in Proc, NEW c \in Proc, Is(pc[p], Begun, c), pc[p].at # "start",
         Only(p), Is(pc'[p], Begun, c), c # p, mem' = mem, forker' = forker, wait_sema' = wait_sema, waited' = waited,
         pc'[p].at = "start" => p # Main, p # Main => pc'[p].at \in Making,
         c \in Kin(p)' <=> pc'[p].at \in Making \ {"insert"}, \A q \in Proc : q # p => Kin(q)' = Kin(q),
         \A x \in Proc : x # c => parent'[x] = parent[x],
         IF pc'[p].at = "start" THEN parent'[c] = p ELSE parent'[c] = NULL
  PROVE  MakeInv'
<1>1. /\ pc'[Main].at \in {"user", "check"} \cup Reaping \cup (Begun \ {"start"})
      /\ mem'[Main] = "live" /\ forker'[Main] = NULL
  BY Constants DEF MakeInv, Only, Is
<1>2. ASSUME NEW q \in Proc, NEW x \in Proc, Is(pc'[q], Begun, x)
      PROVE  /\ forker[x] = q /\ wait_sema[x] = 0 /\ x \notin waited[q]
             /\ \A y \in Proc : forker[y] = q => y <= x
             /\ q # Main => pc'[q].at \in Making /\ pc'[x].at = "new"
             /\ IF pc'[q].at = "start" THEN parent'[x] = q ELSE parent'[x] = NULL /\ pc'[x].at \notin Leaving
             /\ x \in Kin(q)' <=> pc'[q].at \in Making \ {"insert"}
  <2>1. /\ forker[c] = p /\ wait_sema[c] = 0 /\ c \notin waited[p]
        /\ \A y \in Proc : forker[y] = p => y <= c
        /\ p # Main => pc[c].at = "new"
        /\ parent[c] = NULL /\ pc[c].at \notin Leaving
    BY DEF MakeInv
  <2>2. CASE q = p
    <3>1. x = c
      BY <1>2, <2>2 DEF Is
    <3> QED
      BY <2>1, <2>2, <3>1 DEF Only
  <2>3. CASE q # p
    <3>1. pc'[q] = pc[q] /\ Is(pc[q], Begun, x)
      BY <1>2, <2>3 DEF Only
    <3>2. /\ forker[x] = q /\ wait_sema[x] = 0 /\ x \notin waited[q]
          /\ \A y \in Proc : forker[y] = q => y <= x
          /\ q # Main => pc[q].at \in Making /\ pc[x].at = "new"
          /\ IF pc[q].at = "start" THEN parent[x] = q ELSE parent[x] = NULL /\ pc[x].at \notin Leaving
          /\ x \in Kin(q) <=> pc[q].at \in Making \ {"insert"}
      BY <3>1 DEF MakeInv
    <3>3. x # c
      BY <2>1, <2>3, <3>2
    <3>4. pc'[x] = pc[x] \/ (x = p /\ pc'[x].at \notin Leaving /\ pc[x].at # "new")
      BY DEF Only, Is, Begun, Making, Leaving
    <3> QED
      BY <2>3, <3>1, <3>2, <3>3, <3>4
  <2> QED
    BY <2>2, <2>3
<1>3. ASSUME NEW x \in Proc, pc'[x].at = "new"
      PROVE  forker[x] \in Proc \ {Main} /\ Is(pc'[forker[x]], Making, x) /\ mem[x] = "live"
  <2>1. x # p
    BY <1>3 DEF Is, Begun, Making
  <2>2. forker[x] \in Proc \ {Main} /\ Is(pc[forker[x]], Making, x) /\ mem[x] = "live"
    BY <1>3, <2>1 DEF MakeInv, Only
  <2>3. CASE forker[x] = p
    BY <2>2, <2>3 DEF Is
  <2>4. CASE forker[x] # p
    BY <2>2, <2>4 DEF Only
  <2> QED
    BY <2>2, <2>3, <2>4
<1> QED
  BY <1>1, <1>2, <1>3 DEF MakeInv

LEMMA Nested ==
  ASSUME NEW p \in Proc, NEW x \in Nat, NEW y \in Nat, x <= y
  PROVE  Before(p, x) \subseteq Before(p, y) /\ After(p, y) \subseteq After(p, x)
<1>1. \A k \in Kin(p) : k \in Nat
  BY Constants DEF Kin
<1>2. \A k \in Kin(p) : (k < x => k < y) /\ (y < k => x < k)
  BY <1>1
<1> QED
  BY <1>2 DEF Before, After

LEMMA LookupStep ==
  ASSUME WInv, NEW p, p = Main, Lookup, ~crashed'
  PROVE  WInv'
<1> USE DEF WInv
<1>0. p \in Proc
  BY Constants
<1>1. /\ mem[p] = "live" /\ pc[p].at = "lookup"
      /\ UNCHANGED <<mem, parent, next, prev, return_status, wait_sema, wait_on_parent, load_sema, forker, waited, torn>>
  BY DEF Lookup, In, Crash, links, semaVars, history
<1>c. PICK c \in Proc :
        /\ pc[p].child = c /\ c # p /\ forker[c] = p /\ wait_sema[c] = 0 /\ c \notin waited[p]
        /\ mem[c] # "unused" /\ mem[p] # "unused"
        /\ \A x \in Proc : forker[x] = p => x <= c
        /\ p # Main => pc[p].at \in Making /\ pc[c].at = "new" /\ mem[c] = "live"
        /\ IF pc[p].at = "start" THEN parent[c] = p ELSE parent[c] = NULL /\ pc[c].at \notin Leaving
        /\ c \in Kin(p) <=> pc[p].at \in Making \ {"insert"}
  BY <1>0, <1>1, Constants, BegunIs DEF Begun, Making
<1>2. /\ pc'[p].at = "loaded" /\ pc'[p].child = c /\ Only(p)
      /\ pc' = [q \in Proc |-> pc'[q]] /\ \A q \in Proc : FrameOK(pc'[q])
  <2>1. Goto(p, On("loaded", c))
    BY <1>0, <1>1, <1>c DEF Lookup, Crash
  <2> QED
    BY <1>0, <1>1, <1>c, <2>1, GoesOn DEF Naming, Begun, Making, Reaping
<1>3. /\ p = Main /\ parent[c] = NULL /\ c \notin Kin(p)
      /\ load_sema' \in [Proc -> 0 .. 1] /\ \A x \in Proc : load_sema'[x] \in {0, load_sema[x]}
  BY <1>0, <1>1, <1>c, Types DEF Making
<1>4. TypeInv'
  BY <1>0, <1>1, <1>2, <1>3, Types, Typed
<1>5. PagesInv'
  BY <1>0, <1>1, <1>2, <1>3, <1>c DEF PagesInv, Blank, Names, Alone, At, Only
<1>6. KinInv' /\ \A q \in Proc : Kin(q)' = Kin(q)
  BY <1>0, <1>1, <1>2, KinKept DEF Is, Loop, Only
<1>7. MakeInv'
  BY <1>0, <1>1, <1>2, <1>3, <1>6, <1>c, MakeMoves DEF Is, Begun, Making
<1>8. SemasInv'
  BY <1>0, <1>1, <1>2, <1>3 DEF SemasInv, Told, Only
<1>9. WaitsInv'
  BY <1>0, <1>1, <1>2 DEF WaitsInv, Is, Told, Reaping, Only
<1>10. ReleaseInv'
  <2>1. \A q, x \in Proc : Done(q, x) => Done(q, x)'
    BY <1>0, <1>1, <1>2, DoneKept DEF Is, Loop
  <2> QED
    BY <1>0, <1>1, <1>2, <2>1, ReleaseKept DEF Leaving, Told, Only
<1> QED
  BY <1>4, <1>5, <1>6, <1>7, <1>8, <1>9, <1>10

LEMMA LoadedStep ==
  ASSUME WInv, NEW p, p = Main, Loaded, ~crashed'
  PROVE  WInv'
<1> USE DEF WInv
<1>0. p \in Proc
  BY Constants
<1>1. /\ mem[p] = "live" /\ pc[p].at = "loaded"
      /\ UNCHANGED <<mem, parent, next, prev, return_status, wait_sema, wait_on_parent, forker, waited, torn>>
  BY DEF Loaded, In, Crash, links, semaVars, history
<1>c. PICK c \in Proc :
        /\ pc[p].child = c /\ c # p /\ forker[c] = p /\ wait_sema[c] = 0 /\ c \notin waited[p]
        /\ mem[c] # "unused" /\ mem[p] # "unused"
        /\ \A x \in Proc : forker[x] = p => x <= c
        /\ p # Main => pc[p].at \in Making /\ pc[c].at = "new" /\ mem[c] = "live"
        /\ IF pc[p].at = "start" THEN parent[c] = p ELSE parent[c] = NULL /\ pc[c].at \notin Leaving
        /\ c \in Kin(p) <=> pc[p].at \in Making \ {"insert"}
  BY <1>0, <1>1, Constants, BegunIs DEF Begun, Making
<1>2. /\ pc'[p].at = "insert" /\ pc'[p].child = c /\ Only(p)
      /\ pc' = [q \in Proc |-> pc'[q]] /\ \A q \in Proc : FrameOK(pc'[q])
  <2>1. Goto(p, On("insert", c))
    BY <1>0, <1>1, <1>c DEF Loaded, Crash
  <2> QED
    BY <1>0, <1>1, <1>c, <2>1, GoesOn DEF Naming, Begun, Making, Reaping
<1>3. /\ p = Main /\ parent[c] = NULL /\ c \notin Kin(p)
      /\ load_sema' \in [Proc -> 0 .. 1] /\ \A x \in Proc : load_sema'[x] \in {0, load_sema[x]}
  <2>1. load_sema[c] > 0 /\ load_sema' = [load_sema EXCEPT ![c] = @ - 1]
    BY <1>0, <1>c DEF Loaded, Crash
  <2>2. load_sema' \in [Proc -> 0 .. 1] /\ load_sema'[c] = 0 /\ \A x \in Proc : x # c => load_sema'[x] = load_sema[x]
    BY <2>1, Types, Downed
  <2> QED
    BY <1>0, <1>1, <1>c, <2>2 DEF Making
<1>4. TypeInv'
  BY <1>0, <1>1, <1>2, <1>3, Types, Typed
<1>5. PagesInv'
  BY <1>0, <1>1, <1>2, <1>3, <1>c DEF PagesInv, Blank, Names, Alone, At, Only
<1>6. KinInv' /\ \A q \in Proc : Kin(q)' = Kin(q)
  BY <1>0, <1>1, <1>2, KinKept DEF Is, Loop, Only
<1>7. MakeInv'
  BY <1>0, <1>1, <1>2, <1>3, <1>6, <1>c, MakeMoves DEF Is, Begun, Making
<1>8. SemasInv'
  BY <1>0, <1>1, <1>2, <1>3 DEF SemasInv, Told, Only
<1>9. WaitsInv'
  BY <1>0, <1>1, <1>2 DEF WaitsInv, Is, Told, Reaping, Only
<1>10. ReleaseInv'
  <2>1. \A q, x \in Proc : Done(q, x) => Done(q, x)'
    BY <1>0, <1>1, <1>2, DoneKept DEF Is, Loop
  <2> QED
    BY <1>0, <1>1, <1>2, <2>1, ReleaseKept DEF Leaving, Told, Only
<1> QED
  BY <1>4, <1>5, <1>6, <1>7, <1>8, <1>9, <1>10

LEMMA InsertStep ==
  ASSUME WInv, NEW p \in Proc, Insert(p), ~crashed'
  PROVE  WInv'
<1> USE DEF WInv
<1>1. /\ mem[p] = "live" /\ pc[p].at = "insert"
      /\ UNCHANGED <<mem, parent, return_status, wait_sema, wait_on_parent, load_sema, forker, waited>>
  BY DEF Insert, In, Crash, links, semaVars, history
<1>c. PICK c \in Proc :
        /\ pc[p].child = c /\ c # p /\ forker[c] = p /\ wait_sema[c] = 0 /\ c \notin waited[p]
        /\ mem[c] # "unused" /\ mem[p] # "unused"
        /\ \A x \in Proc : forker[x] = p => x <= c
        /\ p # Main => pc[p].at \in Making /\ pc[c].at = "new" /\ mem[c] = "live"
        /\ IF pc[p].at = "start" THEN parent[c] = p ELSE parent[c] = NULL /\ pc[c].at \notin Leaving
        /\ c \in Kin(p) <=> pc[p].at \in Making \ {"insert"}
  BY <1>1, BegunIs DEF Begun, Making
<1>2. /\ pc'[p].at = "link" /\ pc'[p].child = c /\ Only(p)
      /\ pc' = [q \in Proc |-> pc'[q]] /\ \A q \in Proc : FrameOK(pc'[q])
  <2>1. Goto(p, On("link", c))
    BY <1>c DEF Insert, Crash
  <2> QED
    BY <1>c, <2>1, GoesOn DEF Naming, Begun, Making, Reaping
<1>a. prev[TailOf(p)] \in Before(p, MaxProc + 1) /\ prev[TailOf(p)] \in Node
  <2>1. MaxProc + 1 \in Nat
    BY ProcessAssumption
  <2> QED
    BY <2>1, KinIs, BeforeIs
<1>3. /\ next' \in [Node -> Node \cup {NULL}] /\ next'[Elem(c)] = TailOf(p)
      /\ \A n \in Node : n # Elem(c) => next'[n] = next[n]
      /\ prev' \in [Node -> Node \cup {NULL}] /\ prev'[Elem(c)] = prev[TailOf(p)]
      /\ \A n \in Node : n # Elem(c) => prev'[n] = prev[n]
      /\ torn' \subseteq Proc
  BY <1>c, <1>a, Types, Nodes DEF Insert, Crash, Begin
<1>b. c \notin Kin(p) /\ parent[c] = NULL /\ pc[c].at \notin {"unlink", "unlink_back"}
  BY <1>1, <1>c DEF Making, Leaving
<1>4. TypeInv'
  BY <1>1, <1>2, <1>3, Types, Typed
<1>5. PagesInv'
  BY <1>1, <1>2, <1>3, <1>c, Nodes DEF PagesInv, Blank, Names, Alone, At, Only
<1>6. KinInv' /\ \A q \in Proc : Kin(q)' = IF q = p THEN Kin(p) \cup {c} ELSE Kin(q)
  <2>1. \A q \in Proc : Kin(q)' = IF q = p THEN Kin(p) \cup {c} ELSE Kin(q)
    <3>1. \A x \in Proc : x # c => prev'[Elem(x)] = prev[Elem(x)]
      BY <1>3, <1>c, Nodes
    <3>2. prev'[Elem(c)] # NULL /\ \A q \in Proc : c \notin Kin(q) /\ (forker[c] = q <=> q = p)
      BY <1>3, <1>a, <1>b, <1>c, Nodes DEF Kin
    <3>3. ASSUME NEW q \in Proc PROVE Kin(q)' = IF q = p THEN Kin(p) \cup {c} ELSE Kin(q)
      BY <1>1, <1>c, <3>1, <3>2 DEF Kin
    <3> QED
      BY <3>3
  <2>2. \A q \in Proc : \A x : After(q, x) \subseteq After(q, x)' /\ Before(q, x) \subseteq Before(q, x)'
    BY <2>1 DEF After, Before
  <2>3. Before(p, MaxProc + 1) \subseteq Before(p, c)
    <3>1. \A k \in Kin(p) : k \in Nat /\ k <= c /\ k # c
      BY <1>b, <1>c, Constants DEF Kin
    <3>2. \A k \in Kin(p) : k < c
      BY <1>c, <3>1, Constants
    <3> QED
      BY <3>2 DEF Before
  <2>4. ASSUME NEW q \in Proc
        PROVE  next'[HeadOf(q)] \in After(q, q)' /\ prev'[TailOf(q)] \in Before(q, MaxProc + 1)'
    BY <1>3, <1>c, <2>2, KinIs, Nodes
  <2>5. ASSUME NEW q \in Proc, NEW x \in Kin(q)'
        PROVE  next'[Elem(x)] \in After(q, x)' /\ prev'[Elem(x)] \in Before(q, x)'
    <3>1. CASE q = p /\ x = c
      <4>1. TailOf(p) \in After(p, c)'
        BY DEF After
      <4> QED
        BY <1>3, <1>a, <2>2, <2>3, <3>1, <4>1
    <3>2. CASE x \in Kin(q)
      <4>1. x # c /\ x \in Proc
        BY <1>b, <1>c, <3>2 DEF Kin
      <4> QED
        BY <1>3, <1>c, <2>2, <3>2, <4>1, KinIs, Nodes
    <3> QED
      BY <2>1, <2>5, <3>1, <3>2
  <2>6. ASSUME NEW q \in Proc, NEW x \in Proc, parent'[x] = q \/ Is(pc'[q], Loop, x) PROVE x \in Kin(q)'
    BY <1>1, <1>2, <2>1, <2>6 DEF KinInv, Is, Loop, Only
  <2>7. ASSUME NEW q \in Proc, NEW x \in Proc, pc'[x].at \in {"unlink", "unlink_back"}, forker'[x] = q
        PROVE  x \in Kin(q)'
    BY <1>1, <1>2, <2>1, <2>7 DEF KinInv, Only
  <2>8. ASSUME NEW q \in Proc, NEW x \in Proc, Is(pc'[q], {"link"}, x) PROVE prev'[TailOf(q)] \in Before(q, x)'
    <3>1. prev'[TailOf(q)] = prev[TailOf(q)]
      BY <1>3, <1>c, Nodes
    <3>2. CASE q = p
      BY <1>2, <1>a, <2>2, <2>3, <2>8, <3>1, <3>2 DEF Is
    <3>3. CASE q # p
      BY <1>2, <2>2, <2>8, <3>1, <3>3 DEF KinInv, Only
    <3> QED
      BY <3>2, <3>3
  <2>9. KinInv'
    BY <2>4, <2>5, <2>6, <2>7, <2>8 DEF KinInv
  <2> QED
    BY <2>1, <2>9
<1>7. MakeInv'
  BY <1>1, <1>2, <1>6, <1>c, MakeMoves DEF Is, Begun, Making
<1>8. SemasInv'
  BY <1>1, <1>2, <1>3 DEF SemasInv, Told, Only
<1>9. WaitsInv'
  BY <1>1, <1>2 DEF WaitsInv, Is, Told, Reaping, Only
<1>10. ReleaseInv'
  <2>1. \A q, x \in Proc : Done(q, x) => Done(q, x)'
    BY <1>1, <1>2, <1>3, <1>c, DoneKept DEF Is, Loop
  <2> QED
    BY <1>1, <1>2, <1>3, <1>c, <2>1, ReleaseKept DEF Leaving, Told, Only
<1> QED
  BY <1>4, <1>5, <1>6, <1>7, <1>8, <1>9, <1>10

(* A forward link of a list is set to a later child's, a backward link to  *)
(* an earlier one's.                                                       *)
LEMMA Linked ==
  ASSUME TypeInv, KinInv, forker' = forker, parent' = parent, NEW q \in Proc, NEW x \in Nat, NEW m \in Node, NEW n \in Node,
         m \in Before(q, x), n \in After(q, x) \/ (x \in Kin(q) /\ n = Elem(x)), q <= x, x \in Kin(q) => q < x,
         next' = [next EXCEPT ![m] = n], prev' = prev
  PROVE  /\ \A p \in Proc : Kin(p)' = Kin(p) /\ next'[HeadOf(p)] \in After(p, p)'
         /\ \A p \in Proc : \A c \in Kin(p)' : next'[Elem(c)] \in After(p, c)'
         /\ next' \in [Node -> Node \cup {NULL}] /\ next'[m] = n /\ \A k \in Node : k # m => next'[k] = next[k]
<1>1. \A p \in Proc : Kin(p)' = Kin(p) /\ \A y : After(p, y)' = After(p, y)
  BY DEF Kin, After
<1>2. next' \in [Node -> Node \cup {NULL}] /\ next'[m] = n /\ \A k \in Node : k # m => next'[k] = next[k]
  BY Types
<1>3. ASSUME NEW y \in Nat, y <= x, y = x => x \notin Kin(q) \/ n \in After(q, x) PROVE n \in After(q, y)
  <2>1. CASE n \in After(q, x)
    BY <1>3, <2>1, Nested
  <2>2. CASE x \in Kin(q) /\ n = Elem(x) /\ y < x
    BY <2>2 DEF After
  <2>3. y = x \/ y < x
    BY <1>3
  <2> QED
    BY <1>3, <2>1, <2>2, <2>3
<1>4. m = HeadOf(q) \/ \E d \in Kin(q) : m = Elem(d) /\ d \in Proc /\ d < x
  BY BeforeIs
<1>5. x \in Kin(q) => forker[x] = q
  BY DEF Kin
<1>6. ASSUME NEW p \in Proc PROVE next'[HeadOf(p)] \in After(p, p)
  <2>1. CASE m = HeadOf(p)
    <3>1. p = q
      BY <1>4, <2>1, Nodes
    <3>2. n \in After(q, q)
      <4>1. q \in Nat /\ (q = x => x \notin Kin(q))
        BY Constants
      <4> QED
        BY <1>3, <4>1
    <3> QED
      BY <1>2, <2>1, <3>1, <3>2
  <2>2. CASE m # HeadOf(p)
    BY <1>2, <2>2, KinIs, Nodes
  <2> QED
    BY <2>1, <2>2
<1>7. ASSUME NEW p \in Proc, NEW c \in Kin(p) PROVE next'[Elem(c)] \in After(p, c)
  <2>0. c \in Proc /\ forker[c] = p
    BY DEF Kin
  <2>1. CASE m = Elem(c)
    <3>1. c \in Kin(q) /\ c < x
      BY <1>4, <2>0, <2>1, Nodes
    <3>2. p = q
      BY <2>0, <3>1 DEF Kin
    <3>3. n \in After(q, c)
      BY <1>3, <2>0, <3>1, Constants
    <3> QED
      BY <1>2, <2>1, <3>2, <3>3
  <2>2. CASE m # Elem(c)
    BY <1>2, <2>0, <2>2, KinIs, Nodes
  <2> QED
    BY <2>1, <2>2
<1> QED
  BY <1>1, <1>2, <1>6, <1>7
LEMMA LinkedBack ==
  ASSUME TypeInv, KinInv, forker' = forker, NEW q \in Proc, NEW x \in Proc, NEW m \in Node, NEW n \in Node,
         m \in After(q, x), n \in Before(q, x) \/ (x \in Kin(q) /\ n = Elem(x)),
         prev' = [prev EXCEPT ![m] = n]
  PROVE  /\ \A p \in Proc : Kin(p)' = Kin(p) /\ prev'[TailOf(p)] \in Before(p, MaxProc + 1)
         /\ \A p \in Proc : \A c \in Kin(p) : prev'[Elem(c)] \in Before(p, c)
         /\ prev' \in [Node -> Node \cup {NULL}] /\ prev'[m] = n /\ \A k \in Node : k # m => prev'[k] = prev[k]
<1>2. prev' \in [Node -> Node \cup {NULL}] /\ prev'[m] = n /\ \A k \in Node : k # m => prev'[k] = prev[k]
  BY Types
<1>0. x \in Nat
  BY Constants
<1>3. ASSUME NEW y \in Nat, x < y PROVE n \in Before(q, y)
  <2>1. CASE n \in Before(q, x)
    BY <1>0, <1>3, <2>1, Nested
  <2>2. CASE x \in Kin(q) /\ n = Elem(x)
    BY <1>3, <2>2 DEF Before
  <2> QED
    BY <2>1, <2>2
<1>4. m = TailOf(q) \/ \E d \in Kin(q) : m = Elem(d) /\ d \in Proc /\ x < d
  BY <1>0, AfterIs
<1>1. \A p \in Proc : Kin(p)' = Kin(p)
  <2>1. \A c \in Proc : prev'[Elem(c)] = NULL <=> prev[Elem(c)] = NULL
    <3> SUFFICES ASSUME NEW c \in Proc PROVE prev'[Elem(c)] = NULL <=> prev[Elem(c)] = NULL
      OBVIOUS
    <3>1. CASE m = Elem(c)
      <4>1. c \in Kin(q)
        BY <1>4, <3>1, Nodes
      <4> QED
        BY <1>2, <3>1, <4>1, Nodes DEF Kin
    <3>2. CASE m # Elem(c)
      BY <1>2, <3>2, Nodes
    <3> QED
      BY <3>1, <3>2
  <2> QED
    BY <2>1 DEF Kin
<1>6. ASSUME NEW p \in Proc PROVE prev'[TailOf(p)] \in Before(p, MaxProc + 1)
  <2>1. CASE m = TailOf(p)
    <3>1. p = q
      BY <1>4, <2>1, Nodes
    <3>2. x < MaxProc + 1 /\ MaxProc + 1 \in Nat
      BY Constants, ProcessAssumption
    <3> QED
      BY <1>2, <1>3, <2>1, <3>1, <3>2
  <2>2. CASE m # TailOf(p)
    BY <1>2, <2>2, KinIs, Nodes
  <2> QED
    BY <2>1, <2>2
<1>7. ASSUME NEW p \in Proc, NEW c \in Kin(p) PROVE prev'[Elem(c)] \in Before(p, c)
  <2>0. c \in Proc /\ forker[c] = p
    BY DEF Kin
  <2>1. CASE m = Elem(c)
    <3>1. c \in Kin(q) /\ x < c
      BY <1>4, <2>0, <2>1, Nodes
    <3>2. p = q
      BY <2>0, <3>1 DEF Kin
    <3>3. n \in Before(q, c)
      BY <1>3, <2>0, <3>1, Constants
    <3> QED
      BY <1>2, <2>1, <3>2, <3>3
  <2>2. CASE m # Elem(c)
    BY <1>2, <2>0, <2>2, KinIs, Nodes
  <2> QED
    BY <2>1, <2>2
<1> QED
  BY <1>1, <1>2, <1>6, <1>7

LEMMA LinkStep ==
  ASSUME WInv, NEW p \in Proc, Link(p), ~crashed'
  PROVE  WInv'
<1> USE DEF WInv
<1>1. /\ mem[p] = "live" /\ pc[p].at = "link"
      /\ UNCHANGED <<mem, parent, prev, return_status, wait_sema, wait_on_parent, load_sema, forker, waited, torn>>
  BY DEF Link, In, Crash, links, semaVars, history
<1>c. PICK c \in Proc :
        /\ pc[p].child = c /\ c # p /\ forker[c] = p /\ wait_sema[c] = 0 /\ c \notin waited[p]
        /\ mem[c] # "unused" /\ mem[p] # "unused"
        /\ \A x \in Proc : forker[x] = p => x <= c
        /\ p # Main => pc[p].at \in Making /\ pc[c].at = "new" /\ mem[c] = "live"
        /\ IF pc[p].at = "start" THEN parent[c] = p ELSE parent[c] = NULL /\ pc[c].at \notin Leaving
        /\ c \in Kin(p) <=> pc[p].at \in Making \ {"insert"}
  BY <1>1, BegunIs DEF Begun, Making
<1>2. /\ pc'[p].at = "link_back" /\ pc'[p].child = c /\ Only(p)
      /\ pc' = [q \in Proc |-> pc'[q]] /\ \A q \in Proc : FrameOK(pc'[q])
  <2>1. Goto(p, On("link_back", c))
    BY <1>c DEF Link, Crash
  <2> QED
    BY <1>c, <2>1, GoesOn DEF Naming, Begun, Making, Reaping
<1>a. p < c /\ c \in Kin(p) /\ prev[TailOf(p)] \in Before(p, c) /\ prev[TailOf(p)] \in Node
  <2>1. p < c /\ c \in Kin(p) /\ prev[TailOf(p)] \in Before(p, c)
    BY <1>1, <1>c DEF PagesInv, KinInv, Making, Is
  <2> QED
    BY <2>1, BeforeIs, Constants
<1>3. /\ \A q \in Proc : Kin(q)' = Kin(q) /\ next'[HeadOf(q)] \in After(q, q)'
      /\ \A q \in Proc : \A x \in Kin(q)' : next'[Elem(x)] \in After(q, x)'
      /\ next' \in [Node -> Node \cup {NULL}] /\ next'[prev[TailOf(p)]] = Elem(c)
      /\ \A k \in Node : k # prev[TailOf(p)] => next'[k] = next[k]
  <2>1. next' = [next EXCEPT ![prev[TailOf(p)]] = Elem(c)]
    BY <1>c DEF Link, Crash
  <2>2. c \in Nat /\ p \in Nat /\ p <= c /\ Elem(c) \in Node
    BY <1>a, Constants, Nodes
  <2> QED
    BY <1>1, <1>a, <2>1, <2>2, Linked
<1>4. TypeInv'
  BY <1>1, <1>2, <1>3, Types, Typed
<1>5. PagesInv'
  BY <1>1, <1>2, <1>3, <1>c DEF PagesInv, Blank, Names, Alone, At, Only
<1>6. KinInv' /\ \A q \in Proc : Kin(q)' = Kin(q)
  <2>1. \A q \in Proc : Kin(q)' = Kin(q)
    BY <1>3
  <2>2. \A q \in Proc : \A y : After(q, y)' = After(q, y) /\ Before(q, y)' = Before(q, y)
    BY <2>1 DEF After, Before
  <2>3. ASSUME NEW q \in Proc
        PROVE  /\ next'[HeadOf(q)] \in After(q, q)' /\ prev[TailOf(q)] \in Before(q, MaxProc + 1)'
               /\ \A x \in Kin(q)' : next'[Elem(x)] \in After(q, x)' /\ prev[Elem(x)] \in Before(q, x)'
    BY <1>3, <2>1, <2>2, KinIs
  <2>6. ASSUME NEW q \in Proc, NEW x \in Proc, parent'[x] = q \/ Is(pc'[q], Loop, x) PROVE x \in Kin(q)'
    BY <1>1, <1>2, <2>1, <2>6 DEF KinInv, Is, Loop, Only
  <2>7. ASSUME NEW q \in Proc, NEW x \in Proc, pc'[x].at \in {"unlink", "unlink_back"}, forker'[x] = q
        PROVE  x \in Kin(q)'
    BY <1>1, <1>2, <2>1, <2>7 DEF KinInv, Only
  <2>8. ASSUME NEW q \in Proc, NEW x \in Proc, Is(pc'[q], {"link"}, x) PROVE prev'[TailOf(q)] \in Before(q, x)'
    BY <1>1, <1>2, <2>2, <2>8 DEF KinInv, Is, Only
  <2> QED
    BY <1>1, <2>1, <2>2, <2>3, <2>6, <2>7, <2>8 DEF KinInv
<1>7. MakeInv'
  BY <1>1, <1>2, <1>3, <1>6, <1>c, MakeMoves DEF Is, Begun, Making
<1>8. SemasInv'
  BY <1>1, <1>2, <1>3 DEF SemasInv, Told, Only
<1>9. WaitsInv'
  BY <1>1, <1>2 DEF WaitsInv, Is, Told, Reaping, Only
<1>10. ReleaseInv'
  <2>1. \A q, x \in Proc : Done(q, x) => Done(q, x)'
    BY <1>1, <1>2, <1>3, <1>c, DoneKept DEF Is, Loop
  <2> QED
    BY <1>1, <1>2, <1>3, <1>c, <2>1, ReleaseKept DEF Leaving, Told, Only
<1> QED
  BY <1>4, <1>5, <1>6, <1>7, <1>8, <1>9, <1>10

LEMMA LinkBackStep ==
  ASSUME WInv, NEW p \in Proc, LinkBack(p)
  PROVE  WInv'
<1> USE DEF WInv
<1>1. /\ mem[p] = "live" /\ pc[p].at = "link_back"
      /\ UNCHANGED <<mem, parent, next, return_status, wait_sema, wait_on_parent, load_sema, forker, waited, torn>>
  BY DEF LinkBack, In, Crash, links, semaVars, history
<1>c. PICK c \in Proc :
        /\ pc[p].child = c /\ c # p /\ forker[c] = p /\ wait_sema[c] = 0 /\ c \notin waited[p]
        /\ mem[c] # "unused" /\ mem[p] # "unused"
        /\ \A x \in Proc : forker[x] = p => x <= c
        /\ p # Main => pc[p].at \in Making /\ pc[c].at = "new" /\ mem[c] = "live"
        /\ IF pc[p].at = "start" THEN parent[c] = p ELSE parent[c] = NULL /\ pc[c].at \notin Leaving
        /\ c \in Kin(p) <=> pc[p].at \in Making \ {"insert"}
  BY <1>1, BegunIs DEF Begun, Making
<1>2. /\ pc'[p].at = "adopt" /\ pc'[p].child = c /\ Only(p)
      /\ pc' = [q \in Proc |-> pc'[q]] /\ \A q \in Proc : FrameOK(pc'[q])
  <2>1. Goto(p, On("adopt", c))
    BY <1>c DEF LinkBack, Crash
  <2> QED
    BY <1>c, <2>1, GoesOn DEF Naming, Begun, Making, Reaping
<1>a. p < c /\ c \in Kin(p) /\ TailOf(p) \in After(p, c) /\ TailOf(p) \in Node
  BY <1>1, <1>c, Nodes DEF PagesInv, Making, After
<1>3. /\ \A q \in Proc : Kin(q)' = Kin(q) /\ prev'[TailOf(q)] \in Before(q, MaxProc + 1)
      /\ \A q \in Proc : \A x \in Kin(q) : prev'[Elem(x)] \in Before(q, x)
      /\ prev' \in [Node -> Node \cup {NULL}] /\ prev'[TailOf(p)] = Elem(c)
      /\ \A k \in Node : k # TailOf(p) => prev'[k] = prev[k]
  <2>1. prev' = [prev EXCEPT ![TailOf(p)] = Elem(c)]
    BY <1>c DEF LinkBack
  <2> QED
    BY <1>1, <1>a, <2>1, LinkedBack, Nodes
<1>4. TypeInv'
  BY <1>1, <1>2, <1>3, Types, Typed
<1>5. PagesInv'
  <2>1. \A x \in Proc : prev'[Elem(x)] = prev[Elem(x)]
    BY <1>3, Nodes
  <2> QED
    BY <1>1, <1>2, <1>c, <2>1 DEF PagesInv, Blank, Names, Alone, At, Only
<1>6. KinInv' /\ \A q \in Proc : Kin(q)' = Kin(q)
  <2>1. \A q \in Proc : Kin(q)' = Kin(q)
    BY <1>3
  <2>2. \A q \in Proc : \A y : After(q, y)' = After(q, y) /\ Before(q, y)' = Before(q, y)
    BY <2>1 DEF After, Before
  <2>3. ASSUME NEW q \in Proc
        PROVE  /\ next[HeadOf(q)] \in After(q, q)' /\ prev'[TailOf(q)] \in Before(q, MaxProc + 1)'
               /\ \A x \in Kin(q)' : next[Elem(x)] \in After(q, x)' /\ prev'[Elem(x)] \in Before(q, x)'
    BY <1>3, <2>1, <2>2, KinIs
  <2>6. ASSUME NEW q \in Proc, NEW x \in Proc, parent'[x] = q \/ Is(pc'[q], Loop, x) PROVE x \in Kin(q)'
    BY <1>1, <1>2, <2>1, <2>6 DEF KinInv, Is, Loop, Only
  <2>7. ASSUME NEW q \in Proc, NEW x \in Proc, pc'[x].at \in {"unlink", "unlink_back"}, forker'[x] = q
        PROVE  x \in Kin(q)'
    BY <1>1, <1>2, <2>1, <2>7 DEF KinInv, Only
  <2>8. ASSUME NEW q \in Proc, NEW x \in Proc, Is(pc'[q], {"link"}, x) PROVE prev'[TailOf(q)] \in Before(q, x)'
    <3>1. q # p /\ Is(pc[q], {"link"}, x)
      BY <1>2, <2>8 DEF Is, Only
    <3>2. prev'[TailOf(q)] = prev[TailOf(q)]
      BY <1>3, <3>1, Nodes
    <3> QED
      BY <2>2, <3>1, <3>2 DEF KinInv
  <2> QED
    BY <1>1, <2>1, <2>2, <2>3, <2>6, <2>7, <2>8 DEF KinInv
<1>7. MakeInv'
  BY <1>1, <1>2, <1>3, <1>6, <1>c, MakeMoves DEF Is, Begun, Making
<1>8. SemasInv'
  BY <1>1, <1>2, <1>3 DEF SemasInv, Told, Only
<1>9. WaitsInv'
  BY <1>1, <1>2 DEF WaitsInv, Is, Told, Reaping, Only
<1>10. ReleaseInv'
  <2>1. \A q, x \in Proc : Done(q, x) => Done(q, x)'
    BY <1>1, <1>2, <1>3, <1>c, DoneKept DEF Is, Loop
  <2> QED
    BY <1>1, <1>2, <1>3, <1>c, <2>1, ReleaseKept DEF Leaving, Told, Only
<1> QED
  BY <1>4, <1>5, <1>6, <1>7, <1>8, <1>9, <1>10

LEMMA AdoptStep ==
  ASSUME WInv, NEW p \in Proc, Adopt(p), ~crashed'
  PROVE  WInv'
<1> USE DEF WInv
<1>1. /\ mem[p] = "live" /\ pc[p].at = "adopt"
      /\ UNCHANGED <<mem, next, prev, return_status, wait_sema, wait_on_parent, load_sema, forker, waited, torn>>
  BY DEF Adopt, In, Crash, links, semaVars, history
<1>c. PICK c \in Proc :
        /\ pc[p].child = c /\ c # p /\ forker[c] = p /\ wait_sema[c] = 0 /\ c \notin waited[p]
        /\ mem[c] # "unused" /\ mem[p] # "unused"
        /\ \A x \in Proc : forker[x] = p => x <= c
        /\ p # Main => pc[p].at \in Making /\ pc[c].at = "new" /\ mem[c] = "live"
        /\ IF pc[p].at = "start" THEN parent[c] = p ELSE parent[c] = NULL /\ pc[c].at \notin Leaving
        /\ c \in Kin(p) <=> pc[p].at \in Making \ {"insert"}
  BY <1>1, BegunIs DEF Begun, Making
<1>2. /\ pc'[p].at = (IF p = Main THEN "check" ELSE "start") /\ pc'[p].child = c /\ Only(p)
      /\ pc' = [q \in Proc |-> pc'[q]] /\ \A q \in Proc : FrameOK(pc'[q])
  <2>1. Goto(p, On(IF p = Main THEN "check" ELSE "start", c))
    BY <1>c DEF Adopt, Crash
  <2>2. CASE p = Main
    BY <1>c, <2>1, <2>2, GoesOn DEF Naming
  <2>3. CASE p # Main
    <3>1. Goto(p, On("start", c))
      BY <2>1, <2>3
    <3>2. /\ pc'[p].at = "start" /\ pc'[p].child = c /\ Only(p)
          /\ pc' = [q \in Proc |-> pc'[q]] /\ \A q \in Proc : FrameOK(pc'[q])
      <4>1. "start" \in Naming \cup {"disown"}
        BY DEF Naming, Begun, Making
      <4> QED
        BY <1>c, <3>1, <4>1, GoesOn
    <3> QED
      BY <2>3, <3>2
  <2> QED
    BY <2>2, <2>3
<1>a. c \in Kin(p) /\ parent[c] = NULL /\ pc[c].at \notin Leaving
  BY <1>1, <1>c DEF Making
<1>3. /\ parent' \in [Proc -> Proc \cup {NULL}] /\ parent'[c] = p
      /\ \A x \in Proc : x # c => parent'[x] = parent[x]
  BY <1>c, Types DEF Adopt, Crash
<1>4. TypeInv'
  BY <1>1, <1>2, <1>3, Types, Typed
<1>5. PagesInv'
  BY <1>1, <1>2, <1>3, <1>c DEF PagesInv, Blank, Names, Alone, At, Only
<1>6. KinInv' /\ \A q \in Proc : Kin(q)' = Kin(q)
  <2>1. \A q \in Proc : Kin(q)' = Kin(q)
    BY <1>1 DEF Kin
  <2>2. \A q \in Proc : \A y : After(q, y)' = After(q, y) /\ Before(q, y)' = Before(q, y)
    BY <2>1 DEF After, Before
  <2>3. ASSUME NEW q \in Proc
        PROVE  /\ next[HeadOf(q)] \in After(q, q)' /\ prev[TailOf(q)] \in Before(q, MaxProc + 1)'
               /\ \A x \in Kin(q)' : next[Elem(x)] \in After(q, x)' /\ prev[Elem(x)] \in Before(q, x)'
    BY <2>1, <2>2, KinIs
  <2>6. ASSUME NEW q \in Proc, NEW x \in Proc, parent'[x] = q \/ Is(pc'[q], Loop, x) PROVE x \in Kin(q)'
    BY <1>1, <1>2, <1>3, <1>a, <2>1, <2>6 DEF KinInv, Is, Loop, Only
  <2>7. ASSUME NEW q \in Proc, NEW x \in Proc, pc'[x].at \in {"unlink", "unlink_back"}, forker'[x] = q
        PROVE  x \in Kin(q)'
    BY <1>1, <1>2, <2>1, <2>7 DEF KinInv, Only
  <2>8. ASSUME NEW q \in Proc, NEW x \in Proc, Is(pc'[q], {"link"}, x) PROVE prev'[TailOf(q)] \in Before(q, x)'
    BY <1>1, <1>2, <2>2, <2>8 DEF KinInv, Is, Only
  <2> QED
    BY <1>1, <2>1, <2>2, <2>3, <2>6, <2>7, <2>8 DEF KinInv
<1>7. MakeInv'
  <2>1. CASE p # Main
    BY <1>1, <1>2, <1>3, <1>6, <1>a, <1>c, <2>1, MakeMoves DEF Is, Begun, Making
  <2>2. CASE p = Main
    <3>1. pc'[Main].at = "check" /\ mem'[Main] = "live" /\ forker'[Main] = NULL
      BY <1>1, <1>2, <2>2 DEF MakeInv
    <3>2. ASSUME NEW q \in Proc, NEW x \in Proc, Is(pc'[q], Begun, x)
          PROVE  /\ pc'[q] = pc[q] /\ q # Main /\ pc'[x] = pc[x] /\ parent'[x] = parent[x]
      <4>1. q # Main /\ pc'[q] = pc[q]
        BY <1>2, <2>2, <3>2 DEF Is, Begun, Making, Only
      <4>2. forker[x] = q /\ pc[x].at = "new"
        BY <3>2, <4>1 DEF MakeInv
      <4> QED
        BY <1>1, <1>2, <1>3, <1>c, <2>2, <4>1, <4>2 DEF Only
    <3>3. ASSUME NEW x \in Proc, pc'[x].at = "new" PROVE forker[x] \in Proc \ {Main} /\ Is(pc'[forker[x]], Making, x) /\ mem[x] = "live"
      BY <1>2, <2>2, <3>3 DEF MakeInv, Only
    <3> QED
      BY <1>1, <1>6, <3>1, <3>2, <3>3 DEF MakeInv
  <2> QED
    BY <2>1, <2>2
<1>8. SemasInv'
  BY <1>1, <1>2, <1>3, <1>a, <1>c DEF SemasInv, Told, Leaving, Only
<1>9. WaitsInv'
    <2>1. \A q, x \in Proc : x \in waited[q] => x # c
    BY <1>c DEF WaitsInv
  <2>2. \A q, x \in Proc : Is(pc'[q], Reaping, x) => Is(pc[q], Reaping, x)
    BY <1>2 DEF Is, Reaping, Only
  <2>3. ASSUME NEW q \in Proc, NEW x \in Proc, x \in waited[q], ~Is(pc'[q], {"down", "blocked"}, x)
        PROVE  Told(x)' /\ (parent'[x] = NULL \/ (mem[x] = "freed" /\ Is(pc'[q], {"up"}, x)))
    <3>1. ~Is(pc[q], {"down", "blocked"}, x) /\ ~(q = p /\ Is(pc[q], {"up"}, x))
      BY <1>1, <1>2, <2>3 DEF Is, Only
    <3>2. Told(x) /\ (parent[x] = NULL \/ (mem[x] = "freed" /\ Is(pc[q], {"up"}, x)))
      BY <2>3, <3>1 DEF WaitsInv
    <3> QED
      BY <1>1, <1>2, <1>3, <2>1, <2>3, <3>1, <3>2 DEF Told, Only
  <2> QED
    BY <1>1, <2>2, <2>3 DEF WaitsInv
<1>10. ReleaseInv'
  <2>1. \A q, x \in Proc : Done(q, x) => Done(q, x)'
    <3>1. \A x \in Proc : ~Is(pc'[p], {"down", "blocked", "up"}, x)
      BY <1>2 DEF Is
    <3>2. pc[p].at \notin Loop
      BY <1>1 DEF Loop
    <3> QED
      BY <1>1, <1>2, <3>1, <3>2, Types, DoneKept
  <2>2. Forked(c) => pc[c].at = "new" /\ ~Told(c)'
    <3>1. Forked(c) => p # Main
      BY <1>c DEF Forked
    <3> QED
      BY <1>c, <1>2, <3>1 DEF Told, Only
  <2>4. ASSUME NEW x \in Proc, Forked(x), Told(x)' PROVE Told(x) /\ parent'[x] = parent[x]
    BY <1>1, <1>2, <1>3, <2>2, <2>4 DEF Told, Only
  <2>5. ASSUME NEW x \in Proc, Forked(x), pc'[x].at \notin Leaving \cup {"new"}, parent'[x] = NULL
        PROVE  pc[x].at \notin Leaving \cup {"new"} /\ parent[x] = NULL
    BY <1>1, <1>2, <1>3, <2>5, Constants DEF Leaving, Only
  <2> QED
    BY <1>1, <2>1, <2>4, <2>5, ReleaseKept
<1> QED
  BY <1>4, <1>5, <1>6, <1>7, <1>8, <1>9, <1>10
LEMMA StartStep ==
  ASSUME WInv, NEW p \in Proc, Start(p)
  PROVE  WInv'
<1> USE DEF WInv
<1>1. /\ mem[p] = "live" /\ pc[p].at = "start"
      /\ UNCHANGED <<mem, parent, next, prev, return_status, wait_sema, wait_on_parent, load_sema, forker, waited, torn>>
  BY DEF Start, In, Crash, links, semaVars, history
<1>c. PICK c \in Proc :
        /\ pc[p].child = c /\ c # p /\ forker[c] = p /\ wait_sema[c] = 0 /\ c \notin waited[p]
        /\ mem[c] # "unused" /\ mem[p] # "unused"
        /\ \A x \in Proc : forker[x] = p => x <= c
        /\ p # Main => pc[p].at \in Making /\ pc[c].at = "new" /\ mem[c] = "live"
        /\ IF pc[p].at = "start" THEN parent[c] = p ELSE parent[c] = NULL /\ pc[c].at \notin Leaving
        /\ c \in Kin(p) <=> pc[p].at \in Making \ {"insert"}
  BY <1>1, BegunIs DEF Begun, Making
<1>a. p # Main /\ pc[c].at = "new" /\ mem[c] = "live" /\ parent[c] = p /\ c # Main /\ Forked(c)
  <2>1. p # Main
    BY <1>1, NotMain
  <2>2. c # Main
    BY <1>c, Constants DEF MakeInv
  <2> QED
    BY <1>1, <1>c, <2>1, <2>2, Constants DEF Forked, Begun, Making
<1>2. /\ pc'[p] = At("user") /\ pc'[c] = At("user") /\ pc'[p].at = "user" /\ pc'[c].at = "user"
      /\ \A q \in Proc : q # p /\ q # c => pc'[q] = pc[q]
      /\ pc' = [q \in Proc |-> pc'[q]] /\ \A q \in Proc : FrameOK(pc'[q])
  <2>1. pc' = [pc EXCEPT ![c] = At("user"), ![p] = At("user")]
    BY <1>c DEF Start
  <2>2. pc = [q \in Proc |-> pc[q]] /\ \A q \in Proc : FrameOK(pc[q])
    BY DEF TypeInv
  <2>3. FrameOK(At("user")) /\ At("user").at = "user"
    BY DEF FrameOK, Alone, At
  <2>4. DOMAIN pc = Proc
    BY <2>2
  <2>5. /\ pc'[p] = At("user") /\ pc'[c] = At("user")
        /\ \A q \in Proc : q # p /\ q # c => pc'[q] = pc[q]
        /\ pc' = [q \in Proc |-> pc'[q]]
    BY <1>c, <2>1, <2>4
  <2> QED
    BY <2>2, <2>3, <2>5
<1>4. TypeInv'
  BY <1>1, <1>2, Types, Typed
<1>5. PagesInv'
  <2>1. \A x \in Proc : mem[x] = "unused" => x # p /\ x # c /\ pc'[x] = pc[x]
    BY <1>2, <1>a, <1>1
  <2>2. \A q, x \in Proc : Names(pc'[q], x) => Names(pc[q], x)
    BY <1>2 DEF Names, Alone
  <2>3. \A q \in Proc : mem[q] = "freed" => pc'[q] = pc[q]
    BY <1>1, <1>2, <1>a
  <2>4. \A x \in Proc : mem[x] = "unused" => Blank(x)'
    BY <1>1, <2>1 DEF PagesInv, Blank
  <2> QED
    BY <1>1, <2>2, <2>3, <2>4 DEF PagesInv
<1>6. KinInv' /\ \A q \in Proc : Kin(q)' = Kin(q)
  BY <1>1, <1>2, <1>c, KinKept DEF Is, Loop
<1>7. MakeInv'
  <2>1. /\ pc'[Main].at \in {"user", "check"} \cup Reaping \cup (Begun \ {"start"})
        /\ mem'[Main] = "live" /\ forker'[Main] = NULL
    BY <1>1, <1>2, <1>a, Constants DEF MakeInv
  <2>2. ASSUME NEW q \in Proc, NEW x \in Proc, Is(pc'[q], Begun, x)
        PROVE  pc'[q] = pc[q] /\ q # p /\ q # c /\ Is(pc[q], Begun, x)
    BY <1>2, <2>2 DEF Is, Begun, Making
  <2>3. ASSUME NEW q \in Proc, NEW x \in Proc, Is(pc'[q], Begun, x)
        PROVE  (q # Main => pc'[x].at = "new") /\ (pc'[x] = pc[x] \/ pc'[x].at \notin Leaving)
    <3>1. q # Main => pc[x].at = "new" /\ forker[x] = q
      BY <2>2, <2>3 DEF MakeInv
    <3>2. q # Main => x # p /\ x # c
      BY <1>1, <1>c, <2>2, <2>3, <3>1
    <3> QED
      BY <1>2, <3>1, <3>2 DEF Leaving
  <2>4. ASSUME NEW x \in Proc, pc'[x].at = "new" PROVE forker[x] \in Proc \ {Main} /\ Is(pc'[forker[x]], Making, x) /\ mem[x] = "live"
    <3>1. pc[x].at = "new" /\ x # c
      BY <1>2, <2>4
    <3>2. forker[x] \in Proc \ {Main} /\ Is(pc[forker[x]], Making, x) /\ mem[x] = "live"
      BY <3>1 DEF MakeInv
    <3>3. forker[x] # p /\ forker[x] # c
      BY <1>a, <1>c, <3>1, <3>2 DEF Is, Making
    <3> QED
      BY <1>2, <3>2, <3>3
  <2>5. ASSUME NEW q \in Proc, NEW x \in Proc, Is(pc'[q], Begun, x)
        PROVE  /\ forker[x] = q /\ wait_sema[x] = 0 /\ x \notin waited[q]
               /\ \A y \in Proc : forker[y] = q => y <= x
               /\ q # Main => pc'[q].at \in Making /\ pc'[x].at = "new"
               /\ IF pc'[q].at = "start" THEN parent[x] = q ELSE parent[x] = NULL /\ pc'[x].at \notin Leaving
               /\ x \in Kin(q) <=> pc'[q].at \in Making \ {"insert"}
    <3>1. /\ forker[x] = q /\ wait_sema[x] = 0 /\ x \notin waited[q]
          /\ \A y \in Proc : forker[y] = q => y <= x
          /\ q # Main => pc[q].at \in Making /\ pc[x].at = "new"
          /\ IF pc[q].at = "start" THEN parent[x] = q ELSE parent[x] = NULL /\ pc[x].at \notin Leaving
          /\ x \in Kin(q) <=> pc[q].at \in Making \ {"insert"}
      BY <2>2, <2>5 DEF MakeInv
    <3> QED
      BY <2>2, <2>3, <2>5, <3>1
  <2> QED
    BY <1>1, <1>6, <2>1, <2>4, <2>5 DEF MakeInv
<1>8. SemasInv'
  BY <1>1, <1>2, <1>a DEF SemasInv, Told
<1>9. WaitsInv'
    <2>1. \A q, x \in Proc : Is(pc'[q], Reaping, x) => Is(pc[q], Reaping, x)
    BY <1>2 DEF Is, Reaping
  <2>2. \A q, x \in Proc : Is(pc[q], {"down", "blocked", "up"}, x) => Is(pc'[q], {"down", "blocked", "up"}, x) /\ pc'[q] = pc[q]
    BY <1>1, <1>2, <1>a DEF Is
  <2>3. \A x \in Proc : Told(x) => Told(x)'
    BY <1>1, <1>2, <1>a DEF Told
  <2>4. ASSUME NEW q \in Proc, NEW x \in Proc, x \in waited[q], ~Is(pc'[q], {"down", "blocked"}, x)
        PROVE  Told(x)' /\ (parent[x] = NULL \/ (mem[x] = "freed" /\ Is(pc'[q], {"up"}, x)))
    <3>1. ~Is(pc[q], {"down", "blocked"}, x)
      BY <1>1, <1>2, <1>a, <2>4 DEF Is
    <3>2. Told(x) /\ (parent[x] = NULL \/ (mem[x] = "freed" /\ Is(pc[q], {"up"}, x)))
      BY <2>4, <3>1 DEF WaitsInv
    <3>3. Is(pc[q], {"up"}, x) => Is(pc'[q], {"up"}, x)
      BY <1>1, <1>2, <1>a DEF Is
    <3> QED
      BY <2>3, <3>2, <3>3
  <2> QED
    BY <1>1, <2>1, <2>4 DEF WaitsInv
<1>10. ReleaseInv'
  <2>1. \A q, x \in Proc : Done(q, x) => Done(q, x)'
    BY <1>1, <1>2, <1>a DEF Done, Is, Loop
  <2>2. parent[c] # NULL /\ pc'[p].at = "user" /\ pc[p].at \notin Leaving \cup {"new"}
    BY <1>1, <1>a, Constants, <1>2 DEF Leaving
  <2> QED
    BY <1>1, <1>2, <1>c, <2>1, <2>2, ReleaseKept DEF Leaving, Told
<1> QED
  BY <1>4, <1>5, <1>6, <1>7, <1>8, <1>9, <1>10

-----------------------------------------------------------------------------
(* A child leaves the list.                                                *)

LEMMA LeaverIs ==
  ASSUME WInv, NEW p \in Proc, mem[p] = "live", pc[p].at \in {"unlink", "unlink_back"}
  PROVE  \E q \in Proc :
           /\ forker[p] = q /\ p \in Kin(q) /\ q < p /\ p \in Nat /\ q \in Nat /\ Elem(p) \in Node
           /\ next[Elem(p)] \in After(q, p) /\ prev[Elem(p)] \in Before(q, p)
           /\ next[Elem(p)] \in Node /\ prev[Elem(p)] \in Node
<1>1. p # Main
  BY NotMain DEF WInv, Alone
<1>2. PICK q \in Proc : forker[p] = q
  BY <1>1 DEF WInv, PagesInv
<1>3. p \in Kin(q) /\ q < p /\ p \in Nat /\ q \in Nat
  BY <1>2, Constants DEF WInv, KinInv, PagesInv
<1>4. next[Elem(p)] \in After(q, p) /\ prev[Elem(p)] \in Before(q, p)
  BY <1>3, KinIs DEF WInv
<1> QED
  BY <1>2, <1>3, <1>4, AfterIs, BeforeIs, Nodes

LEMMA UnlinkStep ==
  ASSUME WInv, NEW p \in Proc, Unlink(p), ~crashed'
  PROVE  WInv'
<1> USE DEF WInv
<1>1. /\ mem[p] = "live" /\ pc[p].at = "unlink"
      /\ UNCHANGED <<mem, parent, prev, return_status, wait_sema, wait_on_parent, load_sema, forker, waited>>
  BY DEF Unlink, In, Crash, links, semaVars, history
<1>c. PICK q \in Proc :
        /\ forker[p] = q /\ p \in Kin(q) /\ q < p /\ p \in Nat /\ q \in Nat /\ Elem(p) \in Node
        /\ next[Elem(p)] \in After(q, p) /\ prev[Elem(p)] \in Before(q, p)
        /\ next[Elem(p)] \in Node /\ prev[Elem(p)] \in Node
  BY <1>1, LeaverIs
<1>2. /\ pc'[p].at = "unlink_back" /\ pc'[p] = At("unlink_back") /\ Only(p)
      /\ pc' = [r \in Proc |-> pc'[r]] /\ \A r \in Proc : FrameOK(pc'[r])
  <2>1. Goto(p, At("unlink_back"))
    BY DEF Unlink, Crash
  <2> QED
    BY <2>1, GoesAlone DEF Alone
<1>3. /\ \A r \in Proc : Kin(r)' = Kin(r) /\ next'[HeadOf(r)] \in After(r, r)'
      /\ \A r \in Proc : \A x \in Kin(r)' : next'[Elem(x)] \in After(r, x)'
      /\ next' \in [Node -> Node \cup {NULL}] /\ next'[prev[Elem(p)]] = next[Elem(p)]
      /\ \A k \in Node : k # prev[Elem(p)] => next'[k] = next[k]
  <2>1. next' = [next EXCEPT ![prev[Elem(p)]] = next[Elem(p)]]
    BY DEF Unlink, Crash
  <2>2. q <= p
    BY <1>c
  <2> QED
    BY <1>1, <1>c, <2>1, <2>2, Linked
<1>a. torn' \subseteq Proc
  BY <1>c, Types DEF Unlink, Crash, Begin
<1>4. TypeInv'
  BY <1>1, <1>2, <1>3, <1>a, Types, Typed
<1>5. PagesInv'
  BY <1>1, <1>2, <1>3 DEF PagesInv, Blank, Names, Alone, At, Only
<1>6. KinInv' /\ \A r \in Proc : Kin(r)' = Kin(r)
  <2>1. \A r \in Proc : Kin(r)' = Kin(r)
    BY <1>3
  <2>2. \A r \in Proc : \A y : After(r, y)' = After(r, y) /\ Before(r, y)' = Before(r, y)
    BY <2>1 DEF After, Before
  <2>3. ASSUME NEW r \in Proc
        PROVE  /\ next'[HeadOf(r)] \in After(r, r)' /\ prev[TailOf(r)] \in Before(r, MaxProc + 1)'
               /\ \A x \in Kin(r)' : next'[Elem(x)] \in After(r, x)' /\ prev[Elem(x)] \in Before(r, x)'
    BY <1>3, <2>1, <2>2, KinIs
  <2>6. ASSUME NEW r \in Proc, NEW x \in Proc, parent'[x] = r \/ Is(pc'[r], Loop, x) PROVE x \in Kin(r)'
    BY <1>1, <1>2, <2>1, <2>6 DEF KinInv, Is, Loop, Only
  <2>7. ASSUME NEW r \in Proc, NEW x \in Proc, pc'[x].at \in {"unlink", "unlink_back"}, forker'[x] = r
        PROVE  x \in Kin(r)'
    BY <1>1, <1>2, <2>1, <2>7 DEF KinInv, Only
  <2>8. ASSUME NEW r \in Proc, NEW x \in Proc, Is(pc'[r], {"link"}, x) PROVE prev'[TailOf(r)] \in Before(r, x)'
    BY <1>1, <1>2, <2>2, <2>8 DEF KinInv, Is, Only
  <2> QED
    BY <1>1, <2>1, <2>2, <2>3, <2>6, <2>7, <2>8 DEF KinInv
<1>7. MakeInv'
  <2>1. p # Main
    BY <1>1, NotMain DEF Alone, Loop
  <2>2. /\ pc[p].at \notin Making \cup {"new"} /\ pc'[p].at \notin Begun \cup {"new"}
        /\ pc'[p].at \in Leaving => pc[p].at \in Leaving \/ parent[p] # NULL
    BY <1>1, <1>2 DEF Making, Begun, Leaving
  <2>3. \A x \in Proc : \/ parent'[x] = parent[x]
                        \/ parent'[x] = NULL /\ (pc[x].at \in Leaving \/ pc[forker[x]].at \in Loop)
    BY <1>1, <1>2 DEF Leaving, Loop
  <2>4. \A x \in Proc : wait_sema'[x] = 0 \/ wait_sema'[x] = wait_sema[x] \/ pc[x].at \in Leaving
    BY <1>1, <1>2 DEF Leaving
  <2> QED
    BY <1>1, <1>2, <1>6, <2>1, <2>2, <2>3, <2>4, MakeOnly
<1>8. SemasInv'
  BY <1>1, <1>2 DEF SemasInv, Told, Only
<1>9. WaitsInv'
  BY <1>1, <1>2 DEF WaitsInv, Is, Told, Reaping, Only
<1>10. ReleaseInv'
  <2>1. \A r, x \in Proc : Done(r, x) => Done(r, x)'
    BY <1>1, <1>2, DoneKept DEF Is, Loop
  <2> QED
    BY <1>1, <1>2, <2>1, ReleaseKept DEF Leaving, Told, Only
<1> QED
  BY <1>4, <1>5, <1>6, <1>7, <1>8, <1>9, <1>10

LEMMA UnlinkBackStep ==
  ASSUME WInv, NEW p \in Proc, UnlinkBack(p), ~crashed'
  PROVE  WInv'
<1> USE DEF WInv
<1>1. /\ mem[p] = "live" /\ pc[p].at = "unlink_back"
      /\ UNCHANGED <<mem, parent, next, return_status, wait_sema, wait_on_parent, load_sema, forker, waited, torn>>
  BY DEF UnlinkBack, In, Crash, links, semaVars, history
<1>c. PICK q \in Proc :
        /\ forker[p] = q /\ p \in Kin(q) /\ q < p /\ p \in Nat /\ q \in Nat /\ Elem(p) \in Node
        /\ next[Elem(p)] \in After(q, p) /\ prev[Elem(p)] \in Before(q, p)
        /\ next[Elem(p)] \in Node /\ prev[Elem(p)] \in Node
  BY <1>1, LeaverIs
<1>2. /\ pc'[p].at = "forget" /\ pc'[p] = At("forget") /\ Only(p)
      /\ pc' = [r \in Proc |-> pc'[r]] /\ \A r \in Proc : FrameOK(pc'[r])
  <2>1. Goto(p, At("forget"))
    BY DEF UnlinkBack, Crash
  <2> QED
    BY <2>1, GoesAlone DEF Alone
<1>3. /\ \A r \in Proc : Kin(r)' = Kin(r) /\ prev'[TailOf(r)] \in Before(r, MaxProc + 1)
      /\ \A r \in Proc : \A x \in Kin(r) : prev'[Elem(x)] \in Before(r, x)
      /\ prev' \in [Node -> Node \cup {NULL}] /\ prev'[next[Elem(p)]] = prev[Elem(p)]
      /\ \A k \in Node : k # next[Elem(p)] => prev'[k] = prev[k]
  <2>1. prev' = [prev EXCEPT ![next[Elem(p)]] = prev[Elem(p)]]
    BY DEF UnlinkBack, Crash
  <2> QED
    BY <1>1, <1>c, <2>1, LinkedBack
<1>4. TypeInv'
  BY <1>1, <1>2, <1>3, Types, Typed
<1>5. PagesInv'
  <2>1. \A x \in Proc : prev[Elem(x)] = NULL => prev'[Elem(x)] = NULL
    <3> SUFFICES ASSUME NEW x \in Proc, prev[Elem(x)] = NULL PROVE prev'[Elem(x)] = NULL
      OBVIOUS
    <3>1. next[Elem(p)] # Elem(x)
      <4>1. next[Elem(p)] = TailOf(q) \/ \E d \in Kin(q) : next[Elem(p)] = Elem(d) /\ d \in Proc
        BY <1>c, AfterIs
      <4> QED
        BY <4>1, Nodes DEF Kin
    <3> QED
      BY <1>3, <3>1, Nodes
  <2> QED
    BY <1>1, <1>2, <2>1 DEF PagesInv, Blank, Names, Alone, At, Only
<1>6. KinInv' /\ \A r \in Proc : Kin(r)' = Kin(r)
  <2>1. \A r \in Proc : Kin(r)' = Kin(r)
    BY <1>3
  <2>2. \A r \in Proc : \A y : After(r, y)' = After(r, y) /\ Before(r, y)' = Before(r, y)
    BY <2>1 DEF After, Before
  <2>3. ASSUME NEW r \in Proc
        PROVE  /\ next[HeadOf(r)] \in After(r, r)' /\ prev'[TailOf(r)] \in Before(r, MaxProc + 1)'
               /\ \A x \in Kin(r)' : next[Elem(x)] \in After(r, x)' /\ prev'[Elem(x)] \in Before(r, x)'
    BY <1>3, <2>1, <2>2, KinIs
  <2>6. ASSUME NEW r \in Proc, NEW x \in Proc, parent'[x] = r \/ Is(pc'[r], Loop, x) PROVE x \in Kin(r)'
    BY <1>1, <1>2, <2>1, <2>6 DEF KinInv, Is, Loop, Only
  <2>7. ASSUME NEW r \in Proc, NEW x \in Proc, pc'[x].at \in {"unlink", "unlink_back"}, forker'[x] = r
        PROVE  x \in Kin(r)'
    BY <1>1, <1>2, <2>1, <2>7 DEF KinInv, Only
  <2>8. ASSUME NEW r \in Proc, NEW x \in Proc, Is(pc'[r], {"link"}, x) PROVE prev'[TailOf(r)] \in Before(r, x)'
    <3>0. Is(pc[r], {"link"}, x) /\ pc'[r] = pc[r]
      BY <1>2, <2>8 DEF Is, Only
    <3>1. prev[TailOf(r)] \in Before(r, x)
      BY <3>0 DEF KinInv
    <3>2. CASE next[Elem(p)] = TailOf(r)
      <4>1. r = q
        <5>1. next[Elem(p)] = TailOf(q) \/ \E d \in Kin(q) : next[Elem(p)] = Elem(d) /\ d \in Proc
          BY <1>c, AfterIs
        <5> QED
          BY <3>2, <5>1, Nodes
      <4>2. p <= x /\ x \in Nat
        BY <1>c, <3>0, <4>1, Constants DEF MakeInv, Is, Begun, Making
      <4>3. prev[Elem(p)] \in Before(r, x)
        BY <1>c, <4>1, <4>2, Nested
      <4> QED
        BY <1>3, <2>2, <3>2, <4>3
    <3>3. CASE next[Elem(p)] # TailOf(r)
      BY <1>3, <2>2, <3>1, <3>3, Nodes
    <3> QED
      BY <3>2, <3>3
  <2> QED
    BY <1>1, <2>1, <2>2, <2>3, <2>6, <2>7, <2>8 DEF KinInv
<1>7. MakeInv'
  <2>1. p # Main
    BY <1>1, NotMain DEF Alone, Loop
  <2>2. /\ pc[p].at \notin Making \cup {"new"} /\ pc'[p].at \notin Begun \cup {"new"}
        /\ pc'[p].at \in Leaving => pc[p].at \in Leaving \/ parent[p] # NULL
    BY <1>1, <1>2 DEF Making, Begun, Leaving
  <2>3. \A x \in Proc : \/ parent'[x] = parent[x]
                        \/ parent'[x] = NULL /\ (pc[x].at \in Leaving \/ pc[forker[x]].at \in Loop)
    BY <1>1, <1>2 DEF Leaving, Loop
  <2>4. \A x \in Proc : wait_sema'[x] = 0 \/ wait_sema'[x] = wait_sema[x] \/ pc[x].at \in Leaving
    BY <1>1, <1>2 DEF Leaving
  <2> QED
    BY <1>1, <1>2, <1>6, <2>1, <2>2, <2>3, <2>4, MakeOnly
<1>8. SemasInv'
  BY <1>1, <1>2 DEF SemasInv, Told, Only
<1>9. WaitsInv'
  BY <1>1, <1>2 DEF WaitsInv, Is, Told, Reaping, Only
<1>10. ReleaseInv'
  <2>1. \A r, x \in Proc : Done(r, x) => Done(r, x)'
    BY <1>1, <1>2, DoneKept DEF Is, Loop
  <2> QED
    BY <1>1, <1>2, <2>1, ReleaseKept DEF Leaving, Told, Only
<1> QED
  BY <1>4, <1>5, <1>6, <1>7, <1>8, <1>9, <1>10

-----------------------------------------------------------------------------
(* New processes.                                                          *)

(* A page that was not used is nobody's, and comes after those that were.  *)
LEMMA NewIs ==
  ASSUME WInv, NEW c \in NewThread
  PROVE  /\ c \in Proc /\ mem[c] = "unused" /\ pc[c] = At("user") /\ pc[c].at = "user"
         /\ forker[c] = NULL /\ parent[c] = NULL /\ waited[c] = {} /\ prev[Elem(c)] = NULL
         /\ wait_sema[c] = 0 /\ wait_on_parent[c] = 0 /\ load_sema[c] = 0
         /\ \A x \in Proc : mem[x] # "unused" => x < c
         /\ \A x \in Proc : mem[x] = "unused" => x = c \/ c < x
         /\ \A q \in Proc : c \notin Kin(q) /\ c \notin waited[q] /\ ~Names(pc[q], c) /\ parent[q] # c /\ forker[q] # c
         /\ c # Main
<1> USE DEF WInv
<1>1. c \in Proc /\ mem[c] = "unused" /\ \A d \in 0 .. c - 1 : mem[d] # "unused"
  BY DEF NewThread
<1>2. Blank(c)
  BY <1>1 DEF PagesInv
<1>3. ASSUME NEW x \in Proc, mem[x] # "unused" PROVE x < c
  <2>1. x # c /\ ~(c < x)
    BY <1>1, <1>3 DEF PagesInv
  <2> QED
    BY <1>1, <2>1, Constants
<1>4. ASSUME NEW x \in Proc, mem[x] = "unused" PROVE x = c \/ c < x
  <2>1. x \notin 0 .. c - 1
    BY <1>1, <1>4
  <2> QED
    BY <1>1, <2>1, Constants
<1>5. c # Main
  BY <1>1 DEF MakeInv
<1>6. \A q \in Proc : forker[q] # c
  BY <1>1 DEF PagesInv
<1>7. \A q \in Proc : parent[q] # c
  BY <1>1, <1>6 DEF KinInv, Kin
<1>8. \A q \in Proc : c \notin Kin(q) /\ c \notin waited[q] /\ ~Names(pc[q], c)
  BY <1>1, <1>2, Constants DEF Blank, Kin, WaitsInv, PagesInv
<1> QED
  BY <1>1, <1>2, <1>3, <1>4, <1>5, <1>6, <1>7, <1>8 DEF Blank, At

(* p makes the thread of c, and goes on with it.                           *)
Makes(p, c) ==
  /\ mem[p] = "live" /\ pc[p].at = "user" /\ c \in NewThread
  /\ mem' = [mem EXCEPT ![c] = "live"]
  /\ pc' = [pc EXCEPT ![c] = At(IF p = Main THEN "load" ELSE "new"),
                      ![p] = On(IF p = Main THEN "lookup" ELSE "insert", c)]
  /\ forker' = [forker EXCEPT ![c] = p]
  /\ UNCHANGED <<parent, next, prev, return_status, wait_sema, wait_on_parent, load_sema, waited, torn>>

(* The types and the frames after that.                                    *)
LEMMA MakesIs ==
  ASSUME WInv, NEW p \in Proc, NEW c, Makes(p, c)
  PROVE  /\ p # c /\ TypeInv' /\ mem'[c] = "live" /\ \A x \in Proc : x # c => mem'[x] = mem[x]
         /\ forker'[c] = p /\ \A x \in Proc : x # c => forker'[x] = forker[x]
         /\ pc'[p].at = (IF p = Main THEN "lookup" ELSE "insert") /\ pc'[p].child = c
         /\ pc'[c].at = (IF p = Main THEN "load" ELSE "new")
         /\ \A q \in Proc : q # p /\ q # c => pc'[q] = pc[q]
<1> USE DEF WInv
<1>a. c \in Proc /\ mem[c] = "unused"
  BY NewIs DEF Makes
<1>0. p # c
  BY <1>a DEF Makes
<1>1. /\ mem' \in [Proc -> {"unused", "live", "freed"}]
      /\ mem'[c] = "live" /\ \A x \in Proc : x # c => mem'[x] = mem[x]
  BY <1>a, Types DEF Makes
<1>2. /\ forker' \in [Proc -> Proc \cup {NULL}]
      /\ forker'[c] = p /\ \A x \in Proc : x # c => forker'[x] = forker[x]
  BY <1>a, Types DEF Makes
<1>3. PICK f \in {"load", "new"} : f = IF p = Main THEN "load" ELSE "new"
  OBVIOUS
<1>4. PICK g \in {"lookup", "insert"} : g = IF p = Main THEN "lookup" ELSE "insert"
  OBVIOUS
<1>5. pc = [q \in Proc |-> pc[q]] /\ \A q \in Proc : FrameOK(pc[q])
  BY DEF TypeInv
<1>6. pc' = [pc EXCEPT ![c] = At(f), ![p] = On(g, c)]
  BY <1>3, <1>4 DEF Makes
<1>7. DOMAIN pc = Proc
  BY <1>5
<1>8. /\ pc'[c] = At(f) /\ pc'[p] = On(g, c) /\ \A q \in Proc : q # p /\ q # c => pc'[q] = pc[q]
      /\ pc' = [q \in Proc |-> pc'[q]]
  BY <1>a, <1>0, <1>6, <1>7
<1>9. FrameOK(At(f)) /\ FrameOK(On(g, c))
  BY <1>a DEF FrameOK, Alone, Naming, Begun, Making
<1>10. At(f).at = f /\ On(g, c).at = g /\ On(g, c).child = c
  BY DEF At, On
<1>11. \A q \in Proc : FrameOK(pc'[q])
  BY <1>5, <1>8, <1>9
<1>12. TypeInv'
  BY <1>1, <1>2, <1>8, <1>11, Types, Typed DEF Makes
<1> QED
  BY <1>0, <1>1, <1>2, <1>3, <1>4, <1>8, <1>10, <1>12

LEMMA MakesStep ==
  ASSUME WInv, NEW p \in Proc, NEW c, Makes(p, c)
  PROVE  WInv'
<1> USE DEF WInv
<1>1. /\ mem[p] = "live" /\ pc[p].at = "user"
      /\ UNCHANGED <<parent, next, prev, return_status, wait_sema, wait_on_parent, load_sema, waited, torn>>
  BY DEF Makes
<1>a. /\ c \in Proc /\ mem[c] = "unused" /\ pc[c] = At("user") /\ pc[c].at = "user"
      /\ forker[c] = NULL /\ parent[c] = NULL /\ waited[c] = {} /\ prev[Elem(c)] = NULL
      /\ wait_sema[c] = 0 /\ wait_on_parent[c] = 0 /\ load_sema[c] = 0
      /\ \A x \in Proc : mem[x] # "unused" => x < c
      /\ \A x \in Proc : mem[x] = "unused" => x = c \/ c < x
      /\ \A q \in Proc : c \notin Kin(q) /\ c \notin waited[q] /\ ~Names(pc[q], c) /\ parent[q] # c /\ forker[q] # c
      /\ c # Main
  BY NewIs DEF Makes
<1>2. /\ p # c /\ TypeInv' /\ mem'[c] = "live" /\ \A x \in Proc : x # c => mem'[x] = mem[x]
      /\ forker'[c] = p /\ \A x \in Proc : x # c => forker'[x] = forker[x]
  BY MakesIs
<1>3. /\ pc'[p].at = (IF p = Main THEN "lookup" ELSE "insert") /\ pc'[p].child = c
      /\ pc'[c].at = (IF p = Main THEN "load" ELSE "new")
      /\ \A q \in Proc : q # p /\ q # c => pc'[q] = pc[q]
  BY MakesIs
<1>4. \A q \in Proc : Kin(q)' = Kin(q) /\ \A x : After(q, x)' = After(q, x) /\ Before(q, x)' = Before(q, x)
  <2>1. \A q \in Proc : Kin(q)' = Kin(q)
    <3> SUFFICES ASSUME NEW q \in Proc, NEW x \in Proc
                 PROVE  (forker'[x] = q /\ prev[Elem(x)] # NULL) <=> (forker[x] = q /\ prev[Elem(x)] # NULL)
      BY <1>1 DEF Kin
    <3> QED
      BY <1>a, <1>2
  <2> QED
    BY <2>1 DEF After, Before
<1>5. PagesInv'
  <2>1. \A x \in Proc : mem'[x] = "unused" => mem[x] = "unused" /\ x # c /\ x # p
    BY <1>1, <1>2
  <2>2. \A x, d \in Proc : d < x /\ mem'[d] = "unused" => mem'[x] = "unused"
    <3> SUFFICES ASSUME NEW x \in Proc, NEW d \in Proc, d < x, mem'[d] = "unused" PROVE mem'[x] = "unused"
      OBVIOUS
    <3>1. mem[d] = "unused" /\ c < d
      BY <1>a, <2>1
    <3>2. mem[x] = "unused" /\ x # c
      BY <1>a, <3>1, Constants DEF PagesInv
    <3> QED
      BY <1>2, <3>2
  <2>3. \A q, x \in Proc : Names(pc'[q], x) => mem'[x] # "unused"
    <3>1. \A q, x \in Proc : Names(pc'[q], x) => x = c \/ Names(pc[q], x)
      BY <1>3 DEF Names, Alone
    <3> QED
      BY <1>2, <2>1, <3>1 DEF PagesInv
  <2>4. \A q \in Proc : mem'[q] = "freed" => mem[q] = "freed" /\ pc'[q] = pc[q]
    BY <1>1, <1>2, <1>3
  <2>5. \A x \in Proc : mem'[x] = "unused" => Blank(x)'
    <3> SUFFICES ASSUME NEW x \in Proc, mem'[x] = "unused" PROVE Blank(x)'
      OBVIOUS
    <3>1. Blank(x) /\ forker'[x] = forker[x] /\ pc'[x] = pc[x]
      BY <1>2, <1>3, <2>1 DEF PagesInv
    <3> QED
      BY <1>1, <3>1 DEF Blank
  <2>6. ASSUME NEW q \in Proc, NEW x \in Proc, forker'[x] = q PROVE q < x /\ mem'[q] # "unused"
    <3>1. CASE x = c
      BY <1>1, <1>2, <1>a, <2>6, <3>1
    <3>2. CASE x # c
      BY <1>2, <2>1, <2>6, <3>2 DEF PagesInv
    <3> QED
      BY <3>1, <3>2
  <2>7. \A x \in Proc : mem'[x] # "unused" /\ x # Main => forker'[x] \in Proc
    BY <1>2 DEF PagesInv
  <2> QED
    BY <2>2, <2>3, <2>4, <2>5, <2>6, <2>7 DEF PagesInv
<1>6. KinInv'
  <2>1. ASSUME NEW q \in Proc
        PROVE  /\ next[HeadOf(q)] \in After(q, q)' /\ prev[TailOf(q)] \in Before(q, MaxProc + 1)'
               /\ \A x \in Kin(q)' : next[Elem(x)] \in After(q, x)' /\ prev[Elem(x)] \in Before(q, x)'
    BY <1>4, KinIs
  <2>2. ASSUME NEW q \in Proc, NEW x \in Proc, parent[x] = q \/ Is(pc'[q], Loop, x) PROVE x \in Kin(q)'
    <3>1. parent[x] = q \/ Is(pc[q], Loop, x)
      BY <1>3, <2>2 DEF Is, Loop
    <3> QED
      BY <1>4, <3>1 DEF KinInv
  <2>3. ASSUME NEW q \in Proc, NEW x \in Proc, pc'[x].at \in {"unlink", "unlink_back"}, forker'[x] = q
        PROVE  x \in Kin(q)'
    <3>1. pc[x].at \in {"unlink", "unlink_back"} /\ x # c
      BY <1>3, <2>3
    <3> QED
      BY <1>2, <1>4, <2>3, <3>1 DEF KinInv
  <2>4. ASSUME NEW q \in Proc, NEW x \in Proc, Is(pc'[q], {"link"}, x) PROVE prev[TailOf(q)] \in Before(q, x)'
    <3>1. Is(pc[q], {"link"}, x)
      BY <1>3, <2>4 DEF Is
    <3> QED
      BY <1>4, <3>1 DEF KinInv
  <2> QED
    BY <1>1, <2>1, <2>2, <2>3, <2>4 DEF KinInv
<1>7. MakeInv'
  <2>1. /\ pc'[Main].at \in {"user", "check"} \cup Reaping \cup (Begun \ {"start"})
        /\ mem'[Main] = "live" /\ forker'[Main] = NULL
    <3>1. pc'[Main] = pc[Main] \/ pc'[Main].at = "lookup"
      BY <1>3, <1>a, Constants
    <3> QED
      BY <1>2, <1>a, <3>1, Constants DEF MakeInv, Begun
  <2>2. ASSUME NEW q \in Proc, NEW x \in Proc, Is(pc'[q], Begun, x)
        PROVE  /\ forker'[x] = q /\ wait_sema[x] = 0 /\ x \notin waited[q]
               /\ \A y \in Proc : forker'[y] = q => y <= x
               /\ q # Main => pc'[q].at \in Making /\ pc'[x].at = "new"
               /\ IF pc'[q].at = "start" THEN parent[x] = q ELSE parent[x] = NULL /\ pc'[x].at \notin Leaving
               /\ x \in Kin(q)' <=> pc'[q].at \in Making \ {"insert"}
    <3>1. CASE q = p
      <4>1. x = c
        BY <1>3, <2>2, <3>1 DEF Is
      <4>2. \A y \in Proc : forker'[y] = q => y <= c
        <5> SUFFICES ASSUME NEW y \in Proc, forker'[y] = q, y # c PROVE y <= c
          BY <1>a, Constants
        <5>1. mem[y] # "unused"
          BY <1>2, <3>1, Constants DEF PagesInv, Blank
        <5>2. y < c /\ y \in Nat /\ c \in Nat
          BY <1>a, <5>1, Constants
        <5> QED
          BY <5>2
      <4> QED
        BY <1>2, <1>3, <1>4, <1>a, <3>1, <4>1, <4>2 DEF Making, Leaving
    <3>2. CASE q # p
      <4>1. q # c /\ pc'[q] = pc[q] /\ Is(pc[q], Begun, x)
        BY <1>3, <2>2, <3>2 DEF Is, Begun, Making
      <4>2. /\ forker[x] = q /\ wait_sema[x] = 0 /\ x \notin waited[q]
            /\ \A y \in Proc : forker[y] = q => y <= x
            /\ q # Main => pc[q].at \in Making /\ pc[x].at = "new"
            /\ IF pc[q].at = "start" THEN parent[x] = q ELSE parent[x] = NULL /\ pc[x].at \notin Leaving
            /\ x \in Kin(q) <=> pc[q].at \in Making \ {"insert"}
        BY <4>1 DEF MakeInv
      <4>3. x # c
        BY <1>a, <4>2, Constants
      <4>4. \A y \in Proc : forker'[y] = q => forker[y] = q
        BY <1>2, <3>2
      <4>5. pc'[x] = pc[x] \/ (x = p /\ pc'[x].at \notin Leaving /\ pc[x].at # "new")
        BY <1>1, <1>3, <4>3 DEF Leaving
      <4> QED
        BY <1>2, <1>4, <4>1, <4>2, <4>3, <4>4, <4>5
    <3> QED
      BY <3>1, <3>2
  <2>3. ASSUME NEW x \in Proc, pc'[x].at = "new"
        PROVE  forker'[x] \in Proc \ {Main} /\ Is(pc'[forker'[x]], Making, x) /\ mem'[x] = "live"
    <3>1. CASE x = c
      BY <1>2, <1>3, <2>3, <3>1 DEF Is, Making
    <3>2. CASE x # c
      <4>1. pc[x].at = "new"
        BY <1>3, <2>3, <3>2
      <4>2. forker[x] \in Proc \ {Main} /\ Is(pc[forker[x]], Making, x) /\ mem[x] = "live"
        BY <4>1 DEF MakeInv
      <4>3. forker[x] # p /\ forker[x] # c
        BY <1>1, <1>a, <4>2 DEF Is, Making
      <4> QED
        BY <1>2, <1>3, <3>2, <4>2, <4>3
    <3> QED
      BY <3>1, <3>2
  <2> QED
    BY <1>1, <2>1, <2>2, <2>3 DEF MakeInv
<1>8. \A x \in Proc : (Told(x)' => Told(x)) /\ (Told(x) => Told(x)')
  BY <1>1, <1>3, <1>a DEF Told
<1>9. SemasInv'
  <2>1. \A x \in Proc : pc'[x].at = "load" => load_sema[x] = 0
    BY <1>3, <1>a DEF SemasInv
  <2>2. \A x \in Proc : pc'[x].at \in {"tell", "await"} => pc[x].at \in {"tell", "await"}
    BY <1>3
  <2> QED
    BY <1>1, <1>8, <2>1, <2>2 DEF SemasInv
<1>10. WaitsInv'
  <2>1. \A q, x \in Proc : Is(pc'[q], Reaping, x) => Is(pc[q], Reaping, x)
    BY <1>3 DEF Is, Reaping
  <2>2. \A q, x \in Proc : Is(pc[q], {"down", "blocked", "up"}, x) => pc'[q] = pc[q]
    BY <1>1, <1>3, <1>a DEF Is
  <2>3. \A q, x \in Proc : x \in waited[q] => x # c /\ forker'[x] = q
    BY <1>2, <1>a DEF WaitsInv
  <2>4. ASSUME NEW q \in Proc, NEW x \in Proc, x \in waited[q], ~Is(pc'[q], {"down", "blocked"}, x)
        PROVE  Told(x)' /\ (parent[x] = NULL \/ (mem'[x] = "freed" /\ Is(pc'[q], {"up"}, x)))
    <3>1. ~Is(pc[q], {"down", "blocked"}, x)
      BY <2>2, <2>4 DEF Is
    <3>2. Told(x) /\ (parent[x] = NULL \/ (mem[x] = "freed" /\ Is(pc[q], {"up"}, x)))
      BY <2>4, <3>1 DEF WaitsInv
    <3>3. Is(pc[q], {"up"}, x) => Is(pc'[q], {"up"}, x)
      BY <2>2 DEF Is
    <3> QED
      BY <1>2, <1>8, <2>3, <2>4, <3>2, <3>3
  <2> QED
    BY <1>1, <2>1, <2>3, <2>4 DEF WaitsInv
<1>11. ReleaseInv'
  <2>1. ASSUME NEW q \in Proc, NEW x \in Proc, Done(q, x) PROVE Done(q, x)'
    <3>1. pc[q].at \in Loop => pc'[q] = pc[q]
      BY <1>1, <1>3, <1>a DEF Loop
    <3>2. ~Is(pc[q], {"down", "blocked", "up"}, x) => ~Is(pc'[q], {"down", "blocked", "up"}, x)
      BY <1>3 DEF Is
    <3> QED
      BY <1>1, <2>1, <3>1, <3>2 DEF Done
  <2>2. \A x \in Proc : Forked(x)' => (Forked(x) /\ x # c) \/ (x = c /\ p # Main)
    BY <1>2 DEF Forked
  <2>3. \A x \in Proc : wait_on_parent[x] > 0 => forker'[x] = forker[x] /\ forker[x] \in Proc /\ Done(forker[x], x)'
    BY <1>2, <1>a, <2>1 DEF ReleaseInv
  <2>4. ASSUME NEW x \in Proc, Forked(x)', pc'[x].at \notin Leaving \cup {"new"}, parent[x] = NULL
        PROVE  forker'[x] = forker[x] /\ Done(forker[x], x)'
    <3>1. Forked(x) /\ x # c
      BY <1>3, <2>2, <2>4
    <3>2. pc[x].at \notin Leaving \cup {"new"} /\ forker[x] \in Proc
      BY <1>1, <1>3, <2>4, <3>1, Types DEF Leaving, Forked
    <3> QED
      BY <1>2, <2>1, <2>4, <3>1, <3>2 DEF ReleaseInv
  <2>5. \A x \in Proc : Forked(x)' /\ Told(x)' => parent[x] = NULL
    BY <1>8, <1>a, <2>2 DEF ReleaseInv
  <2> QED
    BY <1>1, <2>3, <2>4, <2>5 DEF ReleaseInv
<1> QED
  BY <1>2, <1>5, <1>6, <1>7, <1>9, <1>10, <1>11

LEMMA ForkMakes ==
  ASSUME NEW p, Fork(p)
  PROVE  \E c : Makes(p, c)
BY DEF Fork, Makes, In, links, semaVars

LEMMA ExecuteMakes ==
  ASSUME Execute
  PROVE  \E c : Makes(Main, c)
BY DEF Execute, Makes, In, links, semaVars

-----------------------------------------------------------------------------
(* Links and lists that a step does not touch.                             *)

(* A chain's nodes, and where their links lead.                            *)
LEMMA ChainIs ==
  ASSUME TypeInv, KinInv, NEW p \in Proc, NEW n \in Chain(p)
  PROVE  /\ n \in Node /\ n # TailOf(p)
         /\ n = HeadOf(p) \/ \E k \in Kin(p) : n = Elem(k) /\ Joined(k)
         /\ next[n] \in Node
         /\ next[n] = TailOf(p) \/ \E d \in Kin(p) : next[n] = Elem(d)
<1>1. CASE n = HeadOf(p)
  BY <1>1, KinIs, Nodes, Constants DEF After, Kin
<1>2. ASSUME NEW k \in Kin(p), n = Elem(k), Joined(k)
      PROVE  /\ n \in Node /\ n # TailOf(p) /\ next[n] \in Node
             /\ next[n] = TailOf(p) \/ \E d \in Kin(p) : next[n] = Elem(d)
  BY <1>2, KinIs, Nodes, Constants DEF After, Kin
<1> QED
  BY <1>1, <1>2, Nodes DEF Chain

LEMMA KinPrev ==
  ASSUME TypeInv, KinInv, NEW p \in Proc, NEW c \in Kin(p)
  PROVE  /\ c \in Proc /\ forker[c] = p /\ prev[Elem(c)] # NULL /\ prev[Elem(c)] \in Node
         /\ prev[Elem(c)] # Elem(c) /\ next[Elem(c)] # Elem(c)
         /\ prev[Elem(c)] = HeadOf(p) \/ \E d \in Kin(p) : prev[Elem(c)] = Elem(d)
         /\ next[Elem(c)] \in Node
         /\ next[Elem(c)] = TailOf(p) \/ \E d \in Kin(p) : next[Elem(c)] = Elem(d)
         /\ Joined(c) <=> next[prev[Elem(c)]] = Elem(c)
<1>1. c \in Proc /\ c \in Nat /\ forker[c] = p /\ prev[Elem(c)] # NULL
  BY Constants DEF Kin
<1>2. next[Elem(c)] \in After(p, c) /\ prev[Elem(c)] \in Before(p, c)
  BY KinIs
<1>3. prev[Elem(c)] \in Node /\ (prev[Elem(c)] = HeadOf(p) \/ \E d \in Kin(p) : prev[Elem(c)] = Elem(d) /\ d \in Proc /\ d < c)
  BY <1>1, <1>2, BeforeIs
<1>4. next[Elem(c)] \in Node /\ (next[Elem(c)] = TailOf(p) \/ \E d \in Kin(p) : next[Elem(c)] = Elem(d) /\ d \in Proc /\ c < d)
  BY <1>1, <1>2, AfterIs
<1>5. \A d \in Proc : d < c \/ c < d => Elem(d) # Elem(c)
  BY <1>1, Nodes, Constants
<1> QED
  BY <1>1, <1>3, <1>4, <1>5, Nodes DEF Joined

(* The nodes of the list of p and of its children have the same links.     *)
SameLinks(p) ==
  /\ Kin(p)' = Kin(p)
  /\ next'[HeadOf(p)] = next[HeadOf(p)] /\ prev'[TailOf(p)] = prev[TailOf(p)]
  /\ \A c \in Kin(p) : next'[Elem(c)] = next[Elem(c)] /\ prev'[Elem(c)] = prev[Elem(c)]

LEMMA LinksSame ==
  ASSUME TypeInv, KinInv, NEW p \in Proc, SameLinks(p)
  PROVE  /\ \A c \in Kin(p) : Joined(c)' <=> Joined(c)
         /\ Chain(p)' = Chain(p)
         /\ \A n \in Chain(p) : next'[n] = next[n] /\ prev'[next[n]] = prev[next[n]]
         /\ next'[prev[TailOf(p)]] = next[prev[TailOf(p)]]
<1>1. ASSUME NEW c \in Kin(p) PROVE Joined(c)' <=> Joined(c)
  <2>1. next'[prev[Elem(c)]] = next[prev[Elem(c)]]
    BY KinPrev DEF SameLinks
  <2> QED
    BY <2>1 DEF SameLinks, Joined
<1>2. Chain(p)' = Chain(p)
  BY <1>1 DEF SameLinks, Chain
<1>3. ASSUME NEW n \in Chain(p) PROVE next'[n] = next[n] /\ prev'[next[n]] = prev[next[n]]
  BY ChainIs DEF SameLinks
<1>4. prev[TailOf(p)] = HeadOf(p) \/ \E d \in Kin(p) : prev[TailOf(p)] = Elem(d)
  BY KinIs DEF Before
<1> QED
  BY <1>1, <1>2, <1>3, <1>4 DEF SameLinks

(* If those who change it are at the same place, it is as well linked as   *)
(* it was.                                                                 *)
SamePlaces(p) ==
  /\ pc'[p] = pc[p] \/ (pc[p].at \notin {"link", "link_back"} /\ pc'[p].at \notin {"link", "link_back"})
  /\ \A c \in Kin(p) : pc'[c].at = "unlink_back" <=> pc[c].at = "unlink_back"

Linkage(p) ==
  /\ \A x, y \in Editing(p) : x = y
  /\ Forward(p) /\ Backward(p) /\ Rear(p) /\ Middle(p)

LEMMA LinkageKept ==
  ASSUME WInv, WInv', NEW p \in Proc, SameLinks(p), SamePlaces(p), Linkage(p)
  PROVE  Linkage(p)'
<1> USE DEF WInv
<1>1. /\ \A c \in Kin(p) : Joined(c)' <=> Joined(c)
      /\ Chain(p)' = Chain(p)
      /\ \A n \in Chain(p) : next'[n] = next[n] /\ prev'[next[n]] = prev[next[n]]
      /\ next'[prev[TailOf(p)]] = next[prev[TailOf(p)]]
  BY LinksSame
<1>2. /\ \A c \in Proc : Removing(p, c)' <=> Removing(p, c)
      /\ \A c \in Proc : Removing(p, c) => c \in Kin(p)
  <2>1. \A c \in Proc : Removing(p, c) => c \in Kin(p)
    BY DEF Removing, KinInv
  <2>2. \A c \in Proc : Removing(p, c)' => c \in Kin(p)'
    BY DEF Removing, KinInv
  <2>3. \A c \in Kin(p) : forker[c] = p /\ forker'[c] = p
    BY DEF SameLinks, Kin
  <2> QED
    BY <2>1, <2>2, <2>3 DEF Removing, SameLinks, SamePlaces
<1>3. \A c \in Proc : (Adding(p, c)' <=> Adding(p, c)) /\ (Is(pc'[p], {"link", "link_back"}, c) <=> Is(pc[p], {"link", "link_back"}, c))
  BY DEF Adding, Is, SamePlaces
<1>4. pc'[p].at = "link_back" <=> pc[p].at = "link_back"
  BY DEF SamePlaces
<1>5. Editing(p)' = Editing(p)
  <2>1. pc'[p].at \in {"link", "link_back"} <=> pc[p].at \in {"link", "link_back"}
    BY DEF SamePlaces
  <2> QED
    BY <1>2, <2>1 DEF Editing, Removing
<1>6. \A c \in Kin(p) : c \in Proc /\ prev'[Elem(c)] = prev[Elem(c)] /\ next'[Elem(c)] = next[Elem(c)]
  BY DEF SameLinks, Kin
<1>7. Forward(p)'
  <2> SUFFICES ASSUME NEW n \in Chain(p)
               PROVE  \/ prev'[next'[n]] = n
                      \/ \E c \in Proc : Adding(p, c)' /\ n = Elem(c)
                      \/ \E x \in Proc : Removing(p, x)' /\ n = prev'[Elem(x)]
    BY <1>1 DEF Forward
  <2>1. \/ prev[next[n]] = n
        \/ \E c \in Proc : Adding(p, c) /\ n = Elem(c)
        \/ \E x \in Proc : Removing(p, x) /\ n = prev[Elem(x)]
    BY DEF Linkage, Forward
  <2> QED
    BY <1>1, <1>2, <1>3, <1>6, <2>1
<1>8. Backward(p)'
  <2> SUFFICES ASSUME NEW n \in {TailOf(p)} \cup (Chain(p) \ {HeadOf(p)})
               PROVE  prev'[n] \in Chain(p) \/ \E x \in Proc : Removing(p, x)' /\ n = next'[Elem(x)]
    BY <1>1 DEF Backward
  <2>1. prev[n] \in Chain(p) \/ \E x \in Proc : Removing(p, x) /\ n = next[Elem(x)]
    BY DEF Linkage, Backward
  <2>2. prev'[n] = prev[n]
    BY <1>6, ChainIs DEF SameLinks
  <2> QED
    BY <1>2, <1>6, <2>1, <2>2
<1>9. Rear(p)'
  BY <1>1, <1>4 DEF Linkage, Rear, SameLinks
<1>10. Middle(p)'
  <2>1. ASSUME NEW c \in Proc, Is(pc'[p], {"link", "link_back"}, c)
        PROVE  prev'[Elem(c)] = prev'[TailOf(p)] /\ next'[Elem(c)] = TailOf(p)
    <3>1. Is(pc[p], {"link", "link_back"}, c)
      BY <1>3, <2>1
    <3>2. c \in Kin(p)
      BY <3>1 DEF MakeInv, Is, Begun, Making
    <3> QED
      BY <1>6, <3>1, <3>2 DEF Linkage, Middle, SameLinks
  <2>2. ASSUME NEW x \in Proc, Removing(p, x)'
        PROVE  /\ prev'[Elem(x)] \in Chain(p)' /\ next'[prev'[Elem(x)]] = next'[Elem(x)]
               /\ prev'[next'[Elem(x)]] = Elem(x)
    <3>1. Removing(p, x) /\ x \in Kin(p)
      BY <1>2, <2>2
    <3>2. prev[Elem(x)] \in Chain(p) /\ next[prev[Elem(x)]] = next[Elem(x)] /\ prev[next[Elem(x)]] = Elem(x)
      BY <3>1 DEF Linkage, Middle
    <3>3. prev'[next[Elem(x)]] = prev[next[Elem(x)]]
      BY <3>1, KinPrev DEF SameLinks
    <3> QED
      BY <1>1, <1>6, <3>1, <3>2, <3>3
  <2> QED
    BY <2>1, <2>2 DEF Middle
<1> QED
  BY <1>5, <1>7, <1>8, <1>9, <1>10 DEF Linkage, Whole

LEMMA WholeIs ==
  ASSUME NEW p
  PROVE  Whole(p) <=> Members(p) /\ Linkage(p)
BY DEF Whole, Linkage

Untouched(p) ==
  /\ SameLinks(p)
  /\ \A c \in Kin(p) : parent'[c] = parent[c]
  /\ \/ pc'[p] = pc[p]
     \/ pc[p].at \notin {"link", "link_back", "adopt"} /\ pc'[p].at \notin {"link", "link_back", "adopt"}
  /\ pc[p].at \in Loop => pc'[p].at \in Loop
  /\ \A c \in Kin(p) :
       \/ pc'[c].at = pc[c].at
       \/ pc[c].at \notin {"unlink", "unlink_back", "forget"} /\ pc'[c].at \notin {"unlink", "unlink_back", "forget"}

LEMMA UntouchedWhole ==
  ASSUME WInv, WInv', NEW p \in Proc, Untouched(p), Whole(p)
  PROVE  Whole(p)'
<1> USE DEF WInv
<1>0. SameLinks(p) /\ SamePlaces(p)
  BY DEF Untouched, SamePlaces
<1>1. Linkage(p)'
  BY <1>0, LinkageKept, WholeIs
<1>2. \A c \in Kin(p) : Joined(c)' <=> Joined(c)
  BY <1>0, LinksSame
<1>3. Kin(p)' = Kin(p) /\ Members(p)
  BY <1>0, WholeIs DEF SameLinks
<1>4. ASSUME NEW c \in Proc, parent'[c] = p, pc'[c].at \notin {"unlink_back", "forget"} PROVE Joined(c)'
  <2>1. c \in Kin(p)
    BY <1>3, <1>4 DEF KinInv
  <2>2. parent[c] = p /\ pc[c].at \notin {"unlink_back", "forget"}
    BY <1>4, <2>1 DEF Untouched
  <2> QED
    BY <1>2, <1>3, <2>1, <2>2 DEF Members
<1>5. ASSUME NEW c \in Kin(p)
      PROVE  /\ pc'[c].at = "unlink" => Joined(c)'
             /\ pc'[c].at \in {"unlink_back", "forget"} => ~Joined(c)'
             /\ Is(pc'[p], {"link_back", "adopt"}, c) => Joined(c)'
             /\ Joined(c)' /\ parent'[c] # p => pc'[p].at \in Loop \/ Is(pc'[p], {"link_back", "adopt"}, c)
  <2>1. /\ pc[c].at = "unlink" => Joined(c)
        /\ pc[c].at \in {"unlink_back", "forget"} => ~Joined(c)
        /\ Is(pc[p], {"link_back", "adopt"}, c) => Joined(c)
        /\ Joined(c) /\ parent[c] # p => pc[p].at \in Loop \/ Is(pc[p], {"link_back", "adopt"}, c)
    BY <1>3 DEF Members
  <2>2. (pc'[c].at = "unlink" <=> pc[c].at = "unlink") /\ (pc'[c].at \in {"unlink_back", "forget"} <=> pc[c].at \in {"unlink_back", "forget"})
    BY DEF Untouched
  <2>3. Is(pc'[p], {"link_back", "adopt"}, c) <=> Is(pc[p], {"link_back", "adopt"}, c)
    BY DEF Untouched, Is
  <2> QED
    BY <1>2, <2>1, <2>2, <2>3 DEF Untouched
<1>6. Members(p)'
  BY <1>3, <1>4, <1>5 DEF Members
<1> QED
  BY <1>1, <1>6 DEF Whole, Linkage

Edits == {"link", "link_back", "adopt", "unlink", "unlink_back", "forget"}

(* A step that has nothing to do with lists.                               *)
LEMMA QuietLinks ==
  ASSUME WInv, WInv', LinksInv, next' = next, prev' = prev, parent' = parent, torn' = torn,
         \A q \in Proc : pc'[q] = pc[q] \/ (pc[q].at \notin Edits /\ pc'[q].at \notin Edits),
         \A q \in Proc : pc[q].at \in Loop => pc'[q].at \in Loop,
         \A x \in Proc : forker'[x] = forker[x] \/ prev[Elem(x)] = NULL
  PROVE  LinksInv'
<1> SUFFICES ASSUME NEW p \in Proc, p \notin torn PROVE Whole(p)'
  BY DEF LinksInv
<1>1. Kin(p)' = Kin(p)
  BY DEF Kin
<1>2. Untouched(p)
  BY <1>1 DEF Untouched, SameLinks, Edits, Kin
<1> QED
  BY <1>2, UntouchedWhole DEF LinksInv

(* A step of p that changes the list of q only.                            *)
LEMMA OthersWhole ==
  ASSUME WInv, WInv', LinksInv, NEW p \in Proc, NEW q \in Proc, Only(p), torn \subseteq torn', forker' = forker,
         \A r \in Proc : r # q => Kin(r)' = Kin(r),
         \A r \in Proc : r # q => next'[HeadOf(r)] = next[HeadOf(r)] /\ prev'[TailOf(r)] = prev[TailOf(r)],
         \A c \in Proc : forker[c] # q /\ prev[Elem(c)] # NULL =>
           next'[Elem(c)] = next[Elem(c)] /\ prev'[Elem(c)] = prev[Elem(c)] /\ parent'[c] = parent[c],
         \/ p = q /\ pc[p].at \notin {"unlink", "unlink_back", "forget"} /\ pc'[p].at \notin {"unlink", "unlink_back", "forget"}
         \/ /\ forker[p] = q /\ pc[p].at \notin Loop
            /\ pc[p].at \notin {"link", "link_back", "adopt"} /\ pc'[p].at \notin {"link", "link_back", "adopt"},
         q \notin torn' => Whole(q)'
  PROVE  LinksInv'
<1> SUFFICES ASSUME NEW r \in Proc, r \notin torn', r # q PROVE Whole(r)'
  BY DEF LinksInv
<1>1. SameLinks(r) /\ \A c \in Kin(r) : parent'[c] = parent[c]
  BY DEF SameLinks, Kin
<1>2. /\ \/ pc'[r] = pc[r]
         \/ pc[r].at \notin {"link", "link_back", "adopt"} /\ pc'[r].at \notin {"link", "link_back", "adopt"}
      /\ pc[r].at \in Loop => pc'[r].at \in Loop
  BY DEF Only
<1>3. \A c \in Kin(r) :
       \/ pc'[c].at = pc[c].at
       \/ pc[c].at \notin {"unlink", "unlink_back", "forget"} /\ pc'[c].at \notin {"unlink", "unlink_back", "forget"}
  BY DEF Only, Kin
<1>4. Untouched(r)
  BY <1>1, <1>2, <1>3 DEF Untouched
<1> QED
  BY <1>4, UntouchedWhole DEF LinksInv

-----------------------------------------------------------------------------
(* The lists while a child is put on one.                                  *)

LEMMA InsertLinks ==
  ASSUME WInv, WInv', LinksInv, NEW p \in Proc, Insert(p), ~crashed'
  PROVE  LinksInv'
<1> USE DEF WInv
<1>1. /\ mem[p] = "live" /\ pc[p].at = "insert"
      /\ UNCHANGED <<mem, parent, return_status, wait_sema, wait_on_parent, load_sema, forker, waited>>
  BY DEF Insert, In, Crash, links, semaVars, history
<1>c. PICK c \in Proc :
        /\ pc[p].child = c /\ c # p /\ forker[c] = p /\ wait_sema[c] = 0 /\ c \notin waited[p]
        /\ mem[c] # "unused" /\ mem[p] # "unused"
        /\ \A x \in Proc : forker[x] = p => x <= c
        /\ p # Main => pc[p].at \in Making /\ pc[c].at = "new" /\ mem[c] = "live"
        /\ IF pc[p].at = "start" THEN parent[c] = p ELSE parent[c] = NULL /\ pc[c].at \notin Leaving
        /\ c \in Kin(p) <=> pc[p].at \in Making \ {"insert"}
  BY <1>1, BegunIs DEF Begun, Making
<1>2. pc'[p].at = "link" /\ pc'[p].child = c /\ Only(p)
  <2>1. Goto(p, On("link", c))
    BY <1>c DEF Insert, Crash
  <2> QED
    BY <1>c, <2>1, GoesOn DEF Naming, Begun, Making, Reaping
<1>l. /\ prev[TailOf(p)] \in Node /\ prev[TailOf(p)] # NULL
      /\ prev[TailOf(p)] = HeadOf(p) \/ \E d \in Kin(p) : prev[TailOf(p)] = Elem(d)
  BY KinIs, Nodes DEF Before, Kin
<1>3. /\ next'[Elem(c)] = TailOf(p) /\ \A n \in Node : n # Elem(c) => next'[n] = next[n]
      /\ prev'[Elem(c)] = prev[TailOf(p)] /\ \A n \in Node : n # Elem(c) => prev'[n] = prev[n]
      /\ torn' = (IF Editing(p) = {} THEN torn ELSE torn \cup {p})
  BY <1>c, <1>l, Types, Nodes DEF Insert, Crash, Begin
<1>b. c \notin Kin(p) /\ parent[c] = NULL /\ pc[c].at \notin Leaving /\ prev[Elem(c)] = NULL
  BY <1>1, <1>c DEF Making, Kin
<1>k. \A q \in Proc : Kin(q)' = IF q = p THEN Kin(p) \cup {c} ELSE Kin(q)
  <2>1. \A x \in Proc : x # c => prev'[Elem(x)] = prev[Elem(x)]
    BY <1>3, Nodes
  <2>2. prev'[Elem(c)] # NULL
    BY <1>3, <1>l
  <2> SUFFICES ASSUME NEW q \in Proc PROVE Kin(q)' = IF q = p THEN Kin(p) \cup {c} ELSE Kin(q)
    OBVIOUS
  <2> QED
    BY <1>1, <1>c, <1>b, <2>1, <2>2 DEF Kin
<1>w. ASSUME p \notin torn' PROVE Whole(p)'
  <2>0. Editing(p) = {} /\ Whole(p)
    BY <1>w, <1>3 DEF LinksInv
  <2>1. \A x \in Proc : ~Removing(p, x) /\ ~Adding(p, x) /\ (Removing(p, x)' => FALSE) /\ ~Adding(p, x)'
    BY <1>1, <1>2, <2>0 DEF Removing, Adding, Editing, Is, Only
  <2>2. next[prev[TailOf(p)]] = TailOf(p)
    BY <1>1, <2>0 DEF Whole, Rear
  <2>3. \A k \in Kin(p) : k # c /\ k \in Proc /\ next'[Elem(k)] = next[Elem(k)] /\ prev'[Elem(k)] = prev[Elem(k)]
    BY <1>3, <1>b, Nodes DEF Kin
  <2>4. \A n \in Chain(p) : n # Elem(c) /\ next[n] # Elem(c) /\ next'[n] = next[n] /\ prev'[next[n]] = prev[next[n]]
    BY <1>3, <1>b, ChainIs, Nodes DEF Kin
  <2>5. \A k \in Kin(p) : Joined(k)' <=> Joined(k)
    <3> SUFFICES ASSUME NEW k \in Kin(p) PROVE Joined(k)' <=> Joined(k)
      OBVIOUS
    <3>1. prev[Elem(k)] \in Node /\ prev[Elem(k)] # Elem(c)
      BY <1>b, KinPrev, Nodes DEF Kin
    <3> QED
      BY <1>3, <2>3, <3>1 DEF Joined
  <2>6. ~Joined(c)'
    <3>1. prev[TailOf(p)] # Elem(c)
      BY <1>l, <1>b, Nodes DEF Kin
    <3> QED
      BY <1>3, <1>l, <2>2, <3>1, Nodes DEF Joined
  <2>7. Chain(p)' = Chain(p)
    BY <1>k, <2>5, <2>6 DEF Chain
  <2>8. Members(p)'
    <3>1. \A k \in Proc : pc'[k].at \in {"unlink", "unlink_back", "forget"} => k # c /\ pc'[k] = pc[k]
      BY <1>2, <1>b, <1>c DEF Leaving, Only
    <3>2. \A k \in Proc : parent[k] = p => k \in Kin(p)
      BY DEF KinInv
    <3>3. pc[p].at \notin Loop /\ \A k : ~Is(pc[p], {"link_back", "adopt"}, k) /\ ~Is(pc'[p], {"link_back", "adopt"}, k)
      BY <1>1, <1>2 DEF Loop, Is
    <3>4. \A k \in Proc : parent[k] = p /\ pc'[k].at \notin {"unlink_back", "forget"} => Joined(k)'
      BY <1>1, <1>2, <2>0, <2>5, <3>2 DEF Whole, Members, Only
    <3>5. ASSUME NEW k \in Kin(p)'
          PROVE  /\ pc'[k].at = "unlink" => Joined(k)'
                 /\ pc'[k].at \in {"unlink_back", "forget"} => ~Joined(k)'
                 /\ Is(pc'[p], {"link_back", "adopt"}, k) => Joined(k)'
                 /\ Joined(k)' /\ parent'[k] # p => pc'[p].at \in Loop \/ Is(pc'[p], {"link_back", "adopt"}, k)
      <4>1. CASE k = c
        BY <1>c, <2>6, <3>1, <3>3, <4>1
      <4>2. CASE k # c
        <5>1. k \in Kin(p) /\ k \in Proc
          BY <1>k, <2>3, <3>5, <4>2
        <5> QED
          BY <1>1, <2>0, <2>5, <3>1, <3>3, <5>1 DEF Whole, Members
      <4> QED
        BY <4>1, <4>2
    <3> QED
      BY <1>1, <3>4, <3>5 DEF Members
  <2>9. Forward(p)' /\ Backward(p)'
    <3>1. \A n \in Chain(p) : prev'[next'[n]] = n
      BY <2>0, <2>1, <2>4 DEF Whole, Forward
    <3>2. \A n \in {TailOf(p)} \cup (Chain(p) \ {HeadOf(p)}) : prev'[n] \in Chain(p)
      <4>1. \A n \in {TailOf(p)} \cup (Chain(p) \ {HeadOf(p)}) : prev[n] \in Chain(p)
        BY <2>0, <2>1 DEF Whole, Backward
      <4>2. \A n \in {TailOf(p)} \cup Chain(p) : prev'[n] = prev[n]
        BY <1>3, <2>4, ChainIs, Nodes
      <4> QED
        BY <4>1, <4>2
    <3> QED
      BY <2>7, <3>1, <3>2 DEF Forward, Backward
  <2>10. Rear(p)' /\ Middle(p)'
    <3>1. prev'[TailOf(p)] = prev[TailOf(p)] /\ prev[TailOf(p)] # Elem(c)
      BY <1>3, <1>l, <1>b, Nodes DEF Kin
    <3>2. next'[prev[TailOf(p)]] = TailOf(p)
      BY <1>3, <1>l, <2>2, <3>1
    <3> QED
      BY <1>2, <1>3, <2>1, <3>1, <3>2 DEF Rear, Middle, Is
  <2>11. \A x, y \in Editing(p)' : x = y
    BY <2>1 DEF Editing, Removing
  <2> QED
    BY <2>8, <2>9, <2>10, <2>11 DEF Whole
<1>4. \A r \in Proc : r # p => /\ Kin(r)' = Kin(r)
                               /\ next'[HeadOf(r)] = next[HeadOf(r)] /\ prev'[TailOf(r)] = prev[TailOf(r)]
  BY <1>3, <1>k, <1>c, Nodes
<1>5. \A x \in Proc : forker[x] # p /\ prev[Elem(x)] # NULL =>
           next'[Elem(x)] = next[Elem(x)] /\ prev'[Elem(x)] = prev[Elem(x)] /\ parent'[x] = parent[x]
  BY <1>1, <1>3, <1>c, Nodes
<1>6. torn \subseteq torn' /\ pc[p].at \notin {"unlink", "unlink_back", "forget"} /\ pc'[p].at \notin {"unlink", "unlink_back", "forget"}
  BY <1>1, <1>2, <1>3
<1> QED
  BY <1>1, <1>2, <1>4, <1>5, <1>6, <1>w, OthersWhole

LEMMA LinkLinks ==
  ASSUME WInv, WInv', LinksInv, NEW p \in Proc, Link(p), ~crashed'
  PROVE  LinksInv'
<1> USE DEF WInv
<1>1. /\ mem[p] = "live" /\ pc[p].at = "link"
      /\ UNCHANGED <<mem, parent, prev, return_status, wait_sema, wait_on_parent, load_sema, forker, waited, torn>>
  BY DEF Link, In, Crash, links, semaVars, history
<1>c. PICK c \in Proc :
        /\ pc[p].child = c /\ c # p /\ forker[c] = p /\ wait_sema[c] = 0 /\ c \notin waited[p]
        /\ mem[c] # "unused" /\ mem[p] # "unused"
        /\ \A x \in Proc : forker[x] = p => x <= c
        /\ p # Main => pc[p].at \in Making /\ pc[c].at = "new" /\ mem[c] = "live"
        /\ IF pc[p].at = "start" THEN parent[c] = p ELSE parent[c] = NULL /\ pc[c].at \notin Leaving
        /\ c \in Kin(p) <=> pc[p].at \in Making \ {"insert"}
  BY <1>1, BegunIs DEF Begun, Making
<1>2. pc'[p].at = "link_back" /\ pc'[p].child = c /\ Only(p)
  <2>1. Goto(p, On("link_back", c))
    BY <1>c DEF Link, Crash
  <2> QED
    BY <1>c, <2>1, GoesOn DEF Naming, Begun, Making, Reaping
<1>b. /\ c \in Kin(p) /\ parent[c] = NULL /\ pc[c].at \notin Leaving
      /\ prev[TailOf(p)] \in Node /\ prev[TailOf(p)] # NULL /\ prev[TailOf(p)] # Elem(c)
      /\ prev[TailOf(p)] = HeadOf(p) \/ \E d \in Kin(p) : d \in Proc /\ prev[TailOf(p)] = Elem(d)
  <2>1. c \in Kin(p) /\ prev[TailOf(p)] \in Before(p, c)
    BY <1>1, <1>c DEF KinInv, Making, Is
  <2>2. \A d \in Proc : d < c => Elem(d) # Elem(c)
    BY <1>c, Nodes, Constants
  <2>3. /\ prev[TailOf(p)] \in Node
        /\ prev[TailOf(p)] = HeadOf(p) \/ \E d \in Kin(p) : prev[TailOf(p)] = Elem(d) /\ d \in Proc /\ d < c
    BY <2>1, BeforeIs, Constants
  <2> QED
    BY <1>1, <1>c, <2>1, <2>2, <2>3, Nodes
<1>3. next'[prev[TailOf(p)]] = Elem(c) /\ \A n \in Node : n # prev[TailOf(p)] => next'[n] = next[n]
  BY <1>c, <1>b, Types DEF Link, Crash
<1>k. \A q \in Proc : Kin(q)' = Kin(q)
  BY <1>1 DEF Kin
<1>w. ASSUME p \notin torn' PROVE Whole(p)'
  <2>0. Whole(p) /\ p \in Editing(p)
    BY <1>1, <1>w DEF LinksInv, Editing
  <2>1. \A x \in Proc : ~Removing(p, x) /\ ~Adding(p, x) /\ (Removing(p, x)' => FALSE)
    BY <1>1, <1>2, <2>0 DEF Whole, Removing, Adding, Editing, Is, Only
  <2>2. /\ next[prev[TailOf(p)]] = TailOf(p) /\ prev[Elem(c)] = prev[TailOf(p)] /\ next[Elem(c)] = TailOf(p)
        /\ prev[TailOf(p)] \in Chain(p)
    BY <1>1, <1>c, <2>0, <2>1 DEF Whole, Rear, Middle, Backward, Is
  <2>3. Joined(c)' /\ ~Joined(c)
    BY <1>1, <1>3, <1>b, <1>c, <2>2, Nodes DEF Joined
  <2>4. \A k \in Kin(p) : k # c => (Joined(k)' <=> Joined(k))
    <3> SUFFICES ASSUME NEW k \in Kin(p), k # c PROVE Joined(k)' <=> Joined(k)
      OBVIOUS
    <3>1. k \in Proc /\ prev[Elem(k)] \in Node
      BY KinPrev
    <3>2. Elem(k) # Elem(c) /\ Elem(k) # TailOf(p)
      BY <3>1, <1>c, Nodes
    <3> QED
      BY <1>1, <1>3, <2>2, <3>1, <3>2 DEF Joined
  <2>5. Chain(p)' = Chain(p) \cup {Elem(c)}
    BY <1>k, <1>b, <2>3, <2>4 DEF Chain
  <2>8. Members(p)'
    <3>1. \A k \in Proc : pc'[k].at \in {"unlink", "unlink_back", "forget"} => k # c /\ pc'[k] = pc[k]
      BY <1>2, <1>b, <1>c DEF Leaving, Only
    <3>2. \A k \in Proc : parent[k] = p => k \in Kin(p)
      BY DEF KinInv
    <3>3. pc[p].at \notin Loop /\ (\A k : ~Is(pc[p], {"link_back", "adopt"}, k)) /\ Is(pc'[p], {"link_back"}, c)
      BY <1>1, <1>2 DEF Loop, Is
    <3>4. \A k \in Proc : parent[k] = p /\ pc'[k].at \notin {"unlink_back", "forget"} => Joined(k)'
      BY <1>1, <1>2, <2>0, <2>3, <2>4, <3>2 DEF Whole, Members, Only
    <3>5. ASSUME NEW k \in Kin(p)
          PROVE  /\ pc'[k].at = "unlink" => Joined(k)'
                 /\ pc'[k].at \in {"unlink_back", "forget"} => ~Joined(k)'
                 /\ Is(pc'[p], {"link_back", "adopt"}, k) => Joined(k)'
                 /\ Joined(k)' /\ parent'[k] # p => pc'[p].at \in Loop \/ Is(pc'[p], {"link_back", "adopt"}, k)
      <4>0. k \in Proc
        BY DEF Kin
      <4>1. CASE k = c
        BY <1>c, <2>3, <3>1, <3>3, <4>1 DEF Is
      <4>2. CASE k # c
        BY <1>1, <1>2, <2>0, <2>4, <3>1, <3>3, <4>0, <4>2 DEF Whole, Members, Is
      <4> QED
        BY <4>1, <4>2
    <3> QED
      BY <1>1, <1>k, <3>4, <3>5 DEF Members
  <2>9. Forward(p)'
    <3>1. \A n \in Chain(p) : prev[next[n]] = n /\ n \in Node
      BY <2>0, <2>1, ChainIs DEF Whole, Forward
    <3>2. \A n \in Chain(p) : prev[next'[n]] = n
      BY <1>3, <2>2, <3>1
    <3>3. Adding(p, c)'
      BY <1>2 DEF Adding, Is
    <3> QED
      BY <1>1, <2>5, <3>2, <3>3 DEF Forward
  <2>10. Backward(p)'
    <3>1. \A n \in {TailOf(p)} \cup (Chain(p) \ {HeadOf(p)}) : prev[n] \in Chain(p)
      BY <2>0, <2>1 DEF Whole, Backward
    <3> QED
      BY <1>1, <2>2, <2>5, <3>1 DEF Backward
  <2>11. Rear(p)' /\ Middle(p)'
    <3>1. next'[Elem(c)] = TailOf(p)
      BY <1>3, <1>b, <1>c, <2>2, Nodes
    <3> QED
      BY <1>1, <1>2, <2>1, <2>2, <3>1 DEF Rear, Middle, Is
  <2>12. \A x, y \in Editing(p)' : x = y
    BY <2>1 DEF Editing, Removing
  <2> QED
    BY <2>8, <2>9, <2>10, <2>11, <2>12 DEF Whole
<1>4. \A r \in Proc : r # p => /\ Kin(r)' = Kin(r)
                               /\ next'[HeadOf(r)] = next[HeadOf(r)] /\ prev'[TailOf(r)] = prev[TailOf(r)]
  BY <1>1, <1>3, <1>k, <1>b, Nodes DEF Kin
<1>5. \A x \in Proc : forker[x] # p /\ prev[Elem(x)] # NULL =>
           next'[Elem(x)] = next[Elem(x)] /\ prev'[Elem(x)] = prev[Elem(x)] /\ parent'[x] = parent[x]
  BY <1>1, <1>3, <1>c, <1>b, Nodes DEF Kin
<1>6. torn \subseteq torn' /\ pc[p].at \notin {"unlink", "unlink_back", "forget"} /\ pc'[p].at \notin {"unlink", "unlink_back", "forget"}
  BY <1>1, <1>2
<1> QED
  BY <1>1, <1>2, <1>4, <1>5, <1>6, <1>k, <1>w, OthersWhole

LEMMA LinkBackLinks ==
  ASSUME WInv, WInv', LinksInv, NEW p \in Proc, LinkBack(p)
  PROVE  LinksInv'
<1> USE DEF WInv
<1>1. /\ mem[p] = "live" /\ pc[p].at = "link_back"
      /\ UNCHANGED <<mem, parent, next, return_status, wait_sema, wait_on_parent, load_sema, forker, waited, torn>>
  BY DEF LinkBack, In, Crash, links, semaVars, history
<1>c. PICK c \in Proc :
        /\ pc[p].child = c /\ c # p /\ forker[c] = p /\ wait_sema[c] = 0 /\ c \notin waited[p]
        /\ mem[c] # "unused" /\ mem[p] # "unused"
        /\ \A x \in Proc : forker[x] = p => x <= c
        /\ p # Main => pc[p].at \in Making /\ pc[c].at = "new" /\ mem[c] = "live"
        /\ IF pc[p].at = "start" THEN parent[c] = p ELSE parent[c] = NULL /\ pc[c].at \notin Leaving
        /\ c \in Kin(p) <=> pc[p].at \in Making \ {"insert"}
  BY <1>1, BegunIs DEF Begun, Making
<1>2. pc'[p].at = "adopt" /\ pc'[p].child = c /\ Only(p)
  <2>1. Goto(p, On("adopt", c))
    BY <1>c DEF LinkBack, Crash
  <2> QED
    BY <1>c, <2>1, GoesOn DEF Naming, Begun, Making, Reaping
<1>b. c \in Kin(p) /\ pc[c].at \notin Leaving
  BY <1>1, <1>c DEF Making
<1>3. prev'[TailOf(p)] = Elem(c) /\ \A n \in Node : n # TailOf(p) => prev'[n] = prev[n]
  BY <1>c, Types, Nodes DEF LinkBack
<1>k. \A q \in Proc : Kin(q)' = Kin(q)
  BY <1>1, <1>3, Nodes DEF Kin
<1>w. ASSUME p \notin torn' PROVE Whole(p)'
  <2>0. Whole(p) /\ p \in Editing(p)
    BY <1>1, <1>w DEF LinksInv, Editing
  <2>1. \A x \in Proc : ~Removing(p, x) /\ (Removing(p, x)' => FALSE) /\ ~Adding(p, x)' /\ (Adding(p, x) => x = c)
    BY <1>1, <1>2, <1>c, <2>0 DEF Whole, Removing, Adding, Editing, Is, Only
  <2>2. prev[Elem(c)] = prev[TailOf(p)] /\ next[Elem(c)] = TailOf(p)
    BY <1>1, <1>c, <2>0 DEF Whole, Middle, Is
  <2>3. Joined(c) /\ Elem(c) \in Chain(p)
    BY <1>1, <1>b, <1>c, <2>0 DEF Whole, Members, Is, Chain
  <2>4. \A k \in Kin(p) : k \in Proc /\ Elem(k) # TailOf(p) /\ (Joined(k)' <=> Joined(k))
    BY <1>1, <1>3, Nodes DEF Joined, Kin
  <2>5. Chain(p)' = Chain(p)
    BY <1>k, <2>4 DEF Chain
  <2>8. Members(p)'
    <3>1. \A k \in Proc : pc'[k].at \in {"unlink", "unlink_back", "forget"} => pc'[k] = pc[k]
      BY <1>2 DEF Only
    <3>2. \A k \in Proc : parent[k] = p => k \in Kin(p)
      BY DEF KinInv
    <3>3. pc[p].at \notin Loop /\ \A k : Is(pc[p], {"link_back", "adopt"}, k) <=> Is(pc'[p], {"link_back", "adopt"}, k)
      BY <1>1, <1>2, <1>c DEF Loop, Is
    <3>4. \A k \in Proc : parent[k] = p /\ pc'[k].at \notin {"unlink_back", "forget"} => Joined(k)'
      BY <1>1, <1>2, <2>0, <2>4, <3>2 DEF Whole, Members, Only
    <3>5. ASSUME NEW k \in Kin(p)
          PROVE  /\ pc'[k].at = "unlink" => Joined(k)'
                 /\ pc'[k].at \in {"unlink_back", "forget"} => ~Joined(k)'
                 /\ Is(pc'[p], {"link_back", "adopt"}, k) => Joined(k)'
                 /\ Joined(k)' /\ parent'[k] # p => pc'[p].at \in Loop \/ Is(pc'[p], {"link_back", "adopt"}, k)
      BY <1>1, <2>0, <2>4, <3>1, <3>3 DEF Whole, Members
    <3> QED
      BY <1>1, <1>k, <3>4, <3>5 DEF Members
  <2>9. Forward(p)'
    <3> SUFFICES ASSUME NEW n \in Chain(p) PROVE prev'[next[n]] = n
      BY <1>1, <2>5 DEF Forward
    <3>1. CASE n = Elem(c)
      BY <1>3, <2>2, <3>1
    <3>2. CASE n # Elem(c)
      <4>1. prev[next[n]] = n
        BY <2>0, <2>1, <3>2 DEF Whole, Forward
      <4>2. next[n] # TailOf(p)
        BY <1>c, <2>2, <2>3, <4>1, Nodes DEF Joined
      <4> QED
        BY <1>3, <4>1, <4>2, ChainIs
    <3> QED
      BY <3>1, <3>2
  <2>10. Backward(p)'
    <3>1. \A n \in Chain(p) \ {HeadOf(p)} : prev[n] \in Chain(p) /\ n \in Node /\ n # TailOf(p)
      BY <2>0, <2>1, ChainIs DEF Whole, Backward
    <3> QED
      BY <1>3, <2>3, <2>5, <3>1 DEF Backward
  <2>11. Rear(p)' /\ Middle(p)'
    BY <1>1, <1>2, <1>3, <2>1, <2>2 DEF Rear, Middle, Is
  <2>12. \A x, y \in Editing(p)' : x = y
    BY <1>2, <2>1 DEF Editing, Removing
  <2> QED
    BY <2>8, <2>9, <2>10, <2>11, <2>12 DEF Whole
<1>4. \A r \in Proc : r # p => /\ Kin(r)' = Kin(r)
                               /\ next'[HeadOf(r)] = next[HeadOf(r)] /\ prev'[TailOf(r)] = prev[TailOf(r)]
  BY <1>1, <1>3, <1>k, <1>b, Nodes DEF Kin
<1>5. \A x \in Proc : forker[x] # p /\ prev[Elem(x)] # NULL =>
           next'[Elem(x)] = next[Elem(x)] /\ prev'[Elem(x)] = prev[Elem(x)] /\ parent'[x] = parent[x]
  BY <1>1, <1>3, <1>c, <1>b, Nodes DEF Kin
<1>6. torn \subseteq torn' /\ pc[p].at \notin {"unlink", "unlink_back", "forget"} /\ pc'[p].at \notin {"unlink", "unlink_back", "forget"}
  BY <1>1, <1>2
<1> QED
  BY <1>1, <1>2, <1>4, <1>5, <1>6, <1>k, <1>w, OthersWhole

LEMMA AdoptLinks ==
  ASSUME WInv, WInv', LinksInv, NEW p \in Proc, Adopt(p), ~crashed'
  PROVE  LinksInv'
<1> USE DEF WInv
<1>1. /\ mem[p] = "live" /\ pc[p].at = "adopt"
      /\ UNCHANGED <<mem, next, prev, return_status, wait_sema, wait_on_parent, load_sema, forker, waited, torn>>
  BY DEF Adopt, In, Crash, links, semaVars, history
<1>c. PICK c \in Proc :
        /\ pc[p].child = c /\ c # p /\ forker[c] = p /\ wait_sema[c] = 0 /\ c \notin waited[p]
        /\ mem[c] # "unused" /\ mem[p] # "unused"
        /\ \A x \in Proc : forker[x] = p => x <= c
        /\ p # Main => pc[p].at \in Making /\ pc[c].at = "new" /\ mem[c] = "live"
        /\ IF pc[p].at = "start" THEN parent[c] = p ELSE parent[c] = NULL /\ pc[c].at \notin Leaving
        /\ c \in Kin(p) <=> pc[p].at \in Making \ {"insert"}
  BY <1>1, BegunIs DEF Begun, Making
<1>2. pc'[p].at \in {"check", "start"} /\ Only(p)
  <2>1. PICK l \in {"check", "start"} : Goto(p, On(l, c))
    BY <1>c DEF Adopt, Crash
  <2> QED
    BY <1>c, <2>1, GoesOn DEF Naming, Begun, Making
<1>b. c \in Kin(p) /\ pc[c].at \notin Leaving
  BY <1>1, <1>c DEF Making
<1>3. parent'[c] = p /\ \A x \in Proc : x # c => parent'[x] = parent[x]
  BY <1>c, Types DEF Adopt, Crash
<1>k. \A q \in Proc : Kin(q)' = Kin(q)
  BY <1>1 DEF Kin
<1>w. ASSUME p \notin torn' PROVE Whole(p)'
  <2>0. Whole(p)
    BY <1>1, <1>w DEF LinksInv
  <2>1. SameLinks(p) /\ SamePlaces(p)
    BY <1>1, <1>2, <1>k DEF SameLinks, SamePlaces, Only, Kin
  <2>2. Linkage(p)'
    BY <2>0, <2>1, LinkageKept DEF Whole, Linkage
  <2>3. \A k \in Kin(p) : k \in Proc /\ (Joined(k)' <=> Joined(k))
    BY <2>1, LinksSame DEF Kin
  <2>4. Joined(c)
    BY <1>1, <1>b, <1>c, <2>0 DEF Whole, Members, Is
  <2>5. \A k \in Proc : pc'[k].at \in {"unlink", "unlink_back", "forget"} <=> pc[k].at \in {"unlink", "unlink_back", "forget"}
    BY <1>1, <1>2 DEF Only
  <2>6. \A k \in Proc : pc'[k].at = "unlink" <=> pc[k].at = "unlink"
    BY <1>1, <1>2 DEF Only
  <2>7. pc[p].at \notin Loop /\ \A k : (Is(pc[p], {"link_back", "adopt"}, k) => k = c) /\ ~Is(pc'[p], {"link_back", "adopt"}, k)
    BY <1>1, <1>2, <1>c DEF Loop, Is
  <2>8. \A k \in Proc : parent'[k] = p /\ pc'[k].at \notin {"unlink_back", "forget"} => Joined(k)'
    <3>1. \A k \in Proc : parent[k] = p => k \in Kin(p)
      BY DEF KinInv
    <3>2. \A k \in Proc : parent[k] = p /\ pc'[k].at \notin {"unlink_back", "forget"} => pc[k].at \notin {"unlink_back", "forget"}
      BY <2>5, <2>6
    <3> QED
      BY <1>b, <1>3, <2>0, <2>3, <2>4, <3>1, <3>2 DEF Whole, Members
  <2>9. ASSUME NEW k \in Kin(p)
        PROVE  /\ pc'[k].at = "unlink" => Joined(k)'
               /\ pc'[k].at \in {"unlink_back", "forget"} => ~Joined(k)'
               /\ Joined(k)' /\ parent'[k] # p => pc'[p].at \in Loop
    BY <1>3, <2>0, <2>3, <2>5, <2>6, <2>7 DEF Whole, Members
  <2>10. Members(p)'
    BY <1>k, <2>7, <2>8, <2>9 DEF Members
  <2> QED
    BY <2>2, <2>10 DEF Whole, Linkage
<1>4. \A r \in Proc : r # p => /\ Kin(r)' = Kin(r)
                               /\ next'[HeadOf(r)] = next[HeadOf(r)] /\ prev'[TailOf(r)] = prev[TailOf(r)]
  BY <1>1, <1>3, <1>k, <1>b, Nodes DEF Kin
<1>5. \A x \in Proc : forker[x] # p /\ prev[Elem(x)] # NULL =>
           next'[Elem(x)] = next[Elem(x)] /\ prev'[Elem(x)] = prev[Elem(x)] /\ parent'[x] = parent[x]
  BY <1>1, <1>3, <1>c, <1>b, Nodes DEF Kin
<1>6. torn \subseteq torn' /\ pc[p].at \notin {"unlink", "unlink_back", "forget"} /\ pc'[p].at \notin {"unlink", "unlink_back", "forget"}
  BY <1>1, <1>2
<1> QED
  BY <1>1, <1>2, <1>4, <1>5, <1>6, <1>k, <1>w, OthersWhole

-----------------------------------------------------------------------------
(* The lists while a child leaves one.                                     *)

LEMMA ReadParentLinks ==
  ASSUME WInv, WInv', LinksInv, NEW p \in Proc, ReadParent(p)
  PROVE  LinksInv'
<1> USE DEF WInv
<1>1. /\ mem[p] = "live" /\ pc[p].at = "parent"
      /\ UNCHANGED <<mem, parent, next, prev, return_status, wait_sema, wait_on_parent, load_sema, forker, waited, torn>>
  BY DEF ReadParent, In, links, semaVars, history
<1>0. CASE parent[p] = NULL
  <2>1. pc'[p].at = "orphan" /\ Only(p)
    <3>1. Goto(p, At("orphan"))
      BY <1>0 DEF ReadParent
    <3> QED
      BY <3>1, GoesAlone DEF Alone
  <2> QED
    BY <1>1, <2>1, QuietLinks DEF Edits, Loop, Only
<1>n. CASE parent[p] # NULL
  <2>c. PICK q \in Proc : parent[p] = q /\ forker[p] = q /\ p \in Kin(q)
    BY <1>n, ParentIs
  <2>2. pc'[p].at = "unlink" /\ Only(p)
    <3>1. Goto(p, At("unlink"))
      BY <1>n DEF ReadParent
    <3> QED
      BY <3>1, GoesAlone DEF Alone
  <2>k. \A r \in Proc : Kin(r)' = Kin(r)
    BY <1>1 DEF Kin
  <2>w. ASSUME q \notin torn' PROVE Whole(q)'
    <3>0. Whole(q)
      BY <1>1, <2>w DEF LinksInv
    <3>1. SameLinks(q) /\ SamePlaces(q)
      BY <1>1, <2>2, <2>k DEF SameLinks, SamePlaces, Only, Kin
    <3>2. Linkage(q)'
      BY <3>0, <3>1, LinkageKept DEF Whole, Linkage
    <3>3. \A k \in Kin(q) : k \in Proc /\ (Joined(k)' <=> Joined(k))
      BY <3>1, LinksSame DEF Kin
    <3>4. Joined(p)
      BY <1>1, <2>c, <3>0 DEF Whole, Members
    <3>5. \A k \in Proc : k # p => pc'[k] = pc[k]
      BY <2>2 DEF Only
    <3>6. \A k \in Proc : parent[k] = q => k \in Kin(q)
      BY DEF KinInv
    <3>7. /\ \A k : Is(pc'[q], {"link_back", "adopt"}, k) <=> Is(pc[q], {"link_back", "adopt"}, k)
          /\ pc[q].at \in Loop <=> pc'[q].at \in Loop
      BY <1>1, <2>2, <3>5 DEF Is, Loop
    <3>8. \A k \in Proc : parent'[k] = q /\ pc'[k].at \notin {"unlink_back", "forget"} => Joined(k)'
      BY <1>1, <2>2, <3>0, <3>3, <3>4, <3>5, <3>6 DEF Whole, Members
    <3>9. ASSUME NEW k \in Kin(q)
          PROVE  /\ pc'[k].at = "unlink" => Joined(k)'
                 /\ pc'[k].at \in {"unlink_back", "forget"} => ~Joined(k)'
                 /\ Is(pc'[q], {"link_back", "adopt"}, k) => Joined(k)'
                 /\ Joined(k)' /\ parent'[k] # q => pc'[q].at \in Loop \/ Is(pc'[q], {"link_back", "adopt"}, k)
      <4>1. CASE k = p
        BY <1>1, <2>2, <3>0, <3>3, <3>4, <3>7, <4>1 DEF Whole, Members
      <4>2. CASE k # p
        BY <1>1, <3>0, <3>3, <3>5, <3>7, <4>2 DEF Whole, Members
      <4> QED
        BY <4>1, <4>2
    <3>10. Members(q)'
      BY <2>k, <3>8, <3>9 DEF Members
    <3> QED
      BY <3>2, <3>10 DEF Whole, Linkage
  <2>4. torn \subseteq torn' /\ pc[p].at \notin Loop \cup {"link", "link_back", "adopt"} /\ pc'[p].at \notin {"link", "link_back", "adopt"}
    BY <1>1, <2>2 DEF Loop
  <2> QED
    BY <1>1, <2>2, <2>c, <2>4, <2>k, <2>w, OthersWhole
<1> QED
  BY <1>0, <1>n

LEMMA UnlinkLinks ==
  ASSUME WInv, WInv', LinksInv, NEW p \in Proc, Unlink(p), ~crashed'
  PROVE  LinksInv'
<1> USE DEF WInv
<1>1. /\ mem[p] = "live" /\ pc[p].at = "unlink"
      /\ UNCHANGED <<mem, parent, prev, return_status, wait_sema, wait_on_parent, load_sema, forker, waited>>
  BY DEF Unlink, In, Crash, links, semaVars, history
<1>c. PICK q \in Proc :
        /\ forker[p] = q /\ p \in Kin(q) /\ q < p /\ p \in Nat /\ q \in Nat /\ Elem(p) \in Node
        /\ next[Elem(p)] \in After(q, p) /\ prev[Elem(p)] \in Before(q, p)
        /\ next[Elem(p)] \in Node /\ prev[Elem(p)] \in Node
  BY <1>1, LeaverIs
<1>2. pc'[p].at = "unlink_back" /\ Only(p)
  <2>1. Goto(p, At("unlink_back"))
    BY DEF Unlink, Crash
  <2> QED
    BY <2>1, GoesAlone DEF Alone
<1>3. /\ next'[prev[Elem(p)]] = next[Elem(p)] /\ \A n \in Node : n # prev[Elem(p)] => next'[n] = next[n]
      /\ torn' = (IF Editing(q) = {} THEN torn ELSE torn \cup {q})
  BY <1>c, Types DEF Unlink, Crash, Begin
<1>b. /\ prev[Elem(p)] # Elem(p) /\ next[Elem(p)] # Elem(p)
      /\ prev[Elem(p)] = HeadOf(q) \/ \E d \in Kin(q) : d \in Proc /\ prev[Elem(p)] = Elem(d)
      /\ next[Elem(p)] = TailOf(q) \/ \E d \in Kin(q) : d \in Proc /\ next[Elem(p)] = Elem(d)
  <2>1. \A d \in Kin(q) : d \in Proc
    BY DEF Kin
  <2>2. prev[Elem(p)] # Elem(p) /\ next[Elem(p)] # Elem(p) /\ prev[Elem(p)] # NULL
    BY <1>c, KinPrev
  <2>3. prev[Elem(p)] = HeadOf(q) \/ \E d \in Kin(q) : prev[Elem(p)] = Elem(d)
    BY <1>c, KinPrev
  <2>4. next[Elem(p)] = TailOf(q) \/ \E d \in Kin(q) : next[Elem(p)] = Elem(d)
    BY <1>c, KinPrev
  <2> QED
    BY <2>1, <2>2, <2>3, <2>4
<1>k. \A r \in Proc : Kin(r)' = Kin(r)
  BY <1>1 DEF Kin
<1>w. ASSUME q \notin torn' PROVE Whole(q)'
  <2>0. Whole(q) /\ Editing(q) = {}
    BY <1>3, <1>w DEF LinksInv
  <2>1. /\ \A x \in Proc : ~Removing(q, x) /\ ~Adding(q, x)
        /\ \A x \in Proc : (Removing(q, x)' <=> x = p) /\ ~Adding(q, x)'
        /\ q # p /\ pc'[q] = pc[q] /\ pc[q].at \notin {"link", "link_back"}
    BY <1>1, <1>2, <1>c, <2>0 DEF Removing, Adding, Editing, Is, Only
  <2>2. Joined(p) /\ Elem(p) \in Chain(q) /\ next[prev[Elem(p)]] = Elem(p)
    BY <1>1, <1>c, <2>0 DEF Whole, Members, Joined, Chain
  <2>5. prev[next[Elem(p)]] = Elem(p) /\ prev[Elem(p)] \in Chain(q)
    BY <1>c, <2>0, <2>1, <2>2, Nodes DEF Whole, Forward, Backward
  <2>3. ~Joined(p)'
    BY <1>1, <1>3, <1>b DEF Joined
  <2>4. \A k \in Kin(q) : k # p => (Joined(k)' <=> Joined(k))
    <3> SUFFICES ASSUME NEW k \in Kin(q), k # p PROVE Joined(k)' <=> Joined(k)
      OBVIOUS
    <3>1. k \in Proc /\ prev[Elem(k)] \in Node /\ Elem(k) # Elem(p)
      BY KinPrev, Nodes
    <3>2. CASE prev[Elem(k)] = prev[Elem(p)]
      <4>1. next[Elem(p)] # Elem(k)
        BY <1>b, <2>5, <3>2
      <4> QED
        BY <1>1, <1>3, <2>2, <3>1, <3>2, <4>1 DEF Joined
    <3>3. CASE prev[Elem(k)] # prev[Elem(p)]
      BY <1>1, <1>3, <3>1, <3>3 DEF Joined
    <3> QED
      BY <3>2, <3>3
  <2>6. Chain(q)' = Chain(q) \ {Elem(p)}
    <3>1. \A k \in Kin(q) : k # p => Elem(k) # Elem(p)
      BY Nodes DEF Kin
    <3>2. HeadOf(q) # Elem(p)
      BY Nodes
    <3> QED
      BY <1>k, <2>3, <2>4, <3>1, <3>2 DEF Chain
  <2>8. Members(q)'
    <3>1. \A k \in Proc : parent[k] = q => k \in Kin(q)
      BY DEF KinInv
    <3>2. ~Is(pc[q], {"link_back", "adopt"}, p)
      BY <1>1 DEF MakeInv, Is, Begun, Making, Leaving
    <3>4. \A k \in Proc : parent[k] = q /\ pc'[k].at \notin {"unlink_back", "forget"} => Joined(k)'
      BY <1>1, <1>2, <2>0, <2>4, <3>1 DEF Whole, Members, Only
    <3>5. ASSUME NEW k \in Kin(q)
          PROVE  /\ pc'[k].at = "unlink" => Joined(k)'
                 /\ pc'[k].at \in {"unlink_back", "forget"} => ~Joined(k)'
                 /\ Is(pc'[q], {"link_back", "adopt"}, k) => Joined(k)'
                 /\ Joined(k)' /\ parent'[k] # q => pc'[q].at \in Loop \/ Is(pc'[q], {"link_back", "adopt"}, k)
      <4>0. k \in Proc
        BY DEF Kin
      <4>1. CASE k = p
        BY <1>2, <2>1, <2>3, <3>2, <4>1
      <4>2. CASE k # p
        <5>1. pc'[k] = pc[k] /\ parent'[k] = parent[k] /\ (Joined(k)' <=> Joined(k)) /\ pc'[q] = pc[q]
          BY <1>1, <1>2, <2>1, <2>4, <4>0, <4>2 DEF Only
        <5> QED
          BY <2>0, <5>1 DEF Whole, Members
      <4> QED
        BY <4>1, <4>2
    <3> QED
      BY <1>1, <1>k, <3>4, <3>5 DEF Members
  <2>9. Forward(q)'
    <3> SUFFICES ASSUME NEW n \in Chain(q), n # Elem(p), n # prev[Elem(p)] PROVE prev[next'[n]] = n
      BY <1>1, <2>1, <2>6 DEF Forward
    <3> QED
      BY <1>3, <2>0, <2>1, ChainIs DEF Whole, Forward
  <2>10. Backward(q)'
    <3> SUFFICES ASSUME NEW n \in {TailOf(q)} \cup (Chain(q) \ {HeadOf(q)}), prev[n] = Elem(p), n # Elem(p)
                 PROVE  n = next'[Elem(p)]
      <4>1. \A n \in {TailOf(q)} \cup (Chain(q) \ {HeadOf(q)}) : prev[n] \in Chain(q)
        BY <2>0, <2>1 DEF Whole, Backward
      <4> QED
        BY <1>1, <2>1, <2>6, <4>1, Nodes DEF Backward
    <3>1. next'[Elem(p)] = next[Elem(p)]
      BY <1>3, <1>b, <1>c
    <3>2. CASE n = TailOf(q)
      BY <2>0, <2>1, <3>1, <3>2 DEF Whole, Rear
    <3>3. CASE n # TailOf(q)
      <4>1. PICK k \in Kin(q) : n = Elem(k) /\ Joined(k)
        BY <3>3, ChainIs
      <4> QED
        BY <3>1, <4>1 DEF Joined
    <3> QED
      BY <3>2, <3>3
  <2>11. Rear(q)' /\ Middle(q)'
    <3>1. prev[TailOf(q)] # prev[Elem(p)] /\ prev[TailOf(q)] \in Node /\ next[prev[TailOf(q)]] = TailOf(q)
      <4>1. next[prev[TailOf(q)]] = TailOf(q) /\ TailOf(q) # Elem(p)
        BY <2>0, <2>1, Nodes DEF Whole, Rear
      <4>2. prev[TailOf(q)] \in Node
        BY KinIs, Nodes DEF Before, Kin
      <4> QED
        BY <2>2, <4>1, <4>2
    <3>2. Rear(q)'
      BY <1>1, <1>3, <3>1 DEF Rear
    <3>3. next'[prev[Elem(p)]] = next'[Elem(p)]
      BY <1>3, <1>b, <1>c
    <3>4. next'[Elem(p)] = next[Elem(p)]
      BY <1>3, <1>b, <1>c
    <3>5. Middle(q)'
      BY <1>1, <1>b, <2>1, <2>5, <2>6, <3>3, <3>4 DEF Middle, Is
    <3> QED
      BY <3>2, <3>5
  <2>12. \A x, y \in Editing(q)' : x = y
    BY <2>1 DEF Editing, Removing
  <2> QED
    BY <2>8, <2>9, <2>10, <2>11, <2>12 DEF Whole
<1>4. \A r \in Proc : r # q => /\ Kin(r)' = Kin(r)
                               /\ next'[HeadOf(r)] = next[HeadOf(r)] /\ prev'[TailOf(r)] = prev[TailOf(r)]
  BY <1>1, <1>3, <1>k, <1>b, Nodes DEF Kin
<1>5. \A x \in Proc : forker[x] # q /\ prev[Elem(x)] # NULL =>
           next'[Elem(x)] = next[Elem(x)] /\ prev'[Elem(x)] = prev[Elem(x)] /\ parent'[x] = parent[x]
  BY <1>1, <1>3, <1>c, <1>b, Nodes DEF Kin
<1>6. /\ torn \subseteq torn' /\ pc[p].at \notin Loop
      /\ pc[p].at \notin {"link", "link_back", "adopt"} /\ pc'[p].at \notin {"link", "link_back", "adopt"}
  BY <1>1, <1>2, <1>3 DEF Loop
<1> QED
  BY <1>1, <1>2, <1>c, <1>4, <1>5, <1>6, <1>k, <1>w, OthersWhole

LEMMA UnlinkBackLinks ==
  ASSUME WInv, WInv', LinksInv, NEW p \in Proc, UnlinkBack(p), ~crashed'
  PROVE  LinksInv'
<1> USE DEF WInv
<1>1. /\ mem[p] = "live" /\ pc[p].at = "unlink_back"
      /\ UNCHANGED <<mem, parent, next, return_status, wait_sema, wait_on_parent, load_sema, forker, waited, torn>>
  BY DEF UnlinkBack, In, Crash, links, semaVars, history
<1>c. PICK q \in Proc :
        /\ forker[p] = q /\ p \in Kin(q) /\ q < p /\ p \in Nat /\ q \in Nat /\ Elem(p) \in Node
        /\ next[Elem(p)] \in After(q, p) /\ prev[Elem(p)] \in Before(q, p)
        /\ next[Elem(p)] \in Node /\ prev[Elem(p)] \in Node
  BY <1>1, LeaverIs
<1>2. pc'[p].at = "forget" /\ Only(p)
  <2>1. Goto(p, At("forget"))
    BY DEF UnlinkBack, Crash
  <2> QED
    BY <2>1, GoesAlone DEF Alone
<1>3. prev'[next[Elem(p)]] = prev[Elem(p)] /\ \A n \in Node : n # next[Elem(p)] => prev'[n] = prev[n]
  BY <1>c, Types DEF UnlinkBack, Crash
<1>b. /\ prev[Elem(p)] # Elem(p) /\ next[Elem(p)] # Elem(p) /\ prev[Elem(p)] # NULL
      /\ next[Elem(p)] = TailOf(q) \/ \E d \in Kin(q) : d \in Proc /\ next[Elem(p)] = Elem(d)
  <2>1. \A d \in Kin(q) : d \in Proc
    BY DEF Kin
  <2>2. prev[Elem(p)] # Elem(p) /\ next[Elem(p)] # Elem(p) /\ prev[Elem(p)] # NULL
    BY <1>c, KinPrev
  <2>3. prev[Elem(p)] = HeadOf(q) \/ \E d \in Kin(q) : prev[Elem(p)] = Elem(d)
    BY <1>c, KinPrev
  <2>4. next[Elem(p)] = TailOf(q) \/ \E d \in Kin(q) : next[Elem(p)] = Elem(d)
    BY <1>c, KinPrev
  <2> QED
    BY <2>1, <2>2, <2>3, <2>4
<1>k. \A r \in Proc : Kin(r)' = Kin(r)
  <2>1. \A x \in Proc : prev'[Elem(x)] = NULL <=> prev[Elem(x)] = NULL
    BY <1>3, <1>b, Nodes DEF Kin
  <2> QED
    BY <1>1, <2>1 DEF Kin
<1>w. ASSUME q \notin torn' PROVE Whole(q)'
  <2>0. Whole(q) /\ p \in Editing(q)
    BY <1>1, <1>c, <1>w DEF LinksInv, Editing
  <2>1. /\ \A x \in Proc : (Removing(q, x) <=> x = p) /\ ~Removing(q, x)' /\ ~Adding(q, x)
        /\ q # p /\ pc'[q] = pc[q] /\ pc[q].at \notin {"link", "link_back"}
    <3>1. \A x \in Editing(q) : x = p
      BY <2>0 DEF Whole
    <3>2. q # p
      BY <1>c
    <3>3. pc[q].at \notin {"link", "link_back"}
      BY <3>1, <3>2 DEF Editing
    <3> QED
      BY <1>1, <1>2, <1>c, <3>1, <3>2, <3>3 DEF Removing, Adding, Editing, Is, Only
  <2>2. /\ prev[Elem(p)] \in Chain(q) /\ next[prev[Elem(p)]] = next[Elem(p)]
        /\ prev[next[Elem(p)]] = Elem(p)
    BY <2>0, <2>1 DEF Whole, Middle
  <2>3. ~Joined(p) /\ Elem(p) \notin Chain(q)
    <3>1. ~Joined(p)
      BY <1>1, <1>c, <2>0 DEF Whole, Members
    <3> QED
      BY <3>1, Nodes DEF Chain, Kin
  <2>4. \A k \in Kin(q) : Joined(k)' <=> Joined(k)
    <3> SUFFICES ASSUME NEW k \in Kin(q) PROVE Joined(k)' <=> Joined(k)
      OBVIOUS
    <3>1. k \in Proc /\ Elem(k) \in Node
      BY Nodes DEF Kin
    <3>2. CASE Elem(k) = next[Elem(p)]
      BY <1>1, <1>3, <1>b, <1>c, <2>2, <3>2, Nodes DEF Joined
    <3>3. CASE Elem(k) # next[Elem(p)]
      BY <1>1, <1>3, <3>1, <3>3 DEF Joined
    <3> QED
      BY <3>2, <3>3
  <2>6. Chain(q)' = Chain(q)
    BY <1>k, <2>4 DEF Chain
  <2>8. Members(q)'
    <3>1. \A k \in Proc : parent'[k] = q => k \in Kin(q) /\ parent[k] = q
      BY <1>1, <1>3, Constants DEF KinInv
    <3>2. q # p /\ pc'[q] = pc[q]
      BY <1>2, <1>c DEF Only
    <3>4. \A k \in Proc : parent'[k] = q /\ pc'[k].at \notin {"unlink_back", "forget"} => Joined(k)'
      BY <1>1, <1>2, <1>3, <2>0, <2>4, <3>1, Constants DEF Whole, Members, Only
    <3>5. ASSUME NEW k \in Kin(q)
          PROVE  /\ pc'[k].at = "unlink" => Joined(k)'
                 /\ pc'[k].at \in {"unlink_back", "forget"} => ~Joined(k)'
                 /\ Is(pc'[q], {"link_back", "adopt"}, k) => Joined(k)'
                 /\ Joined(k)' /\ parent'[k] # q => pc'[q].at \in Loop \/ Is(pc'[q], {"link_back", "adopt"}, k)
      <4>0. k \in Proc
        BY DEF Kin
      <4>1. CASE k = p
        BY <1>1, <1>2, <1>3, <2>0, <2>3, <2>4, <3>2, <4>1 DEF Whole, Members
      <4>2. CASE k # p
        BY <1>1, <1>2, <1>3, <2>0, <2>4, <3>2, <4>0, <4>2 DEF Whole, Members, Only
      <4> QED
        BY <4>1, <4>2
    <3> QED
      BY <1>k, <3>4, <3>5 DEF Members
  <2>9. Forward(q)'
    <3> SUFFICES ASSUME NEW n \in Chain(q) PROVE prev'[next[n]] = n
      BY <1>1, <2>6 DEF Forward
    <3>1. CASE n = prev[Elem(p)]
      BY <1>3, <2>2, <3>1
    <3>2. CASE n # prev[Elem(p)]
      <4>1. prev[next[n]] = n
        BY <2>0, <2>1, <3>2 DEF Whole, Forward
      <4>2. next[n] # next[Elem(p)]
        BY <2>2, <2>3, <4>1
      <4> QED
        BY <1>3, <4>1, <4>2, ChainIs
    <3> QED
      BY <3>1, <3>2
  <2>10. Backward(q)'
    <3> SUFFICES ASSUME NEW n \in {TailOf(q)} \cup (Chain(q) \ {HeadOf(q)}) PROVE prev'[n] \in Chain(q)
      BY <2>6 DEF Backward
    <3>1. CASE n = next[Elem(p)]
      BY <1>3, <2>2, <3>1
    <3>2. CASE n # next[Elem(p)]
      <4>1. prev[n] \in Chain(q)
        BY <2>0, <2>1, <3>2 DEF Whole, Backward
      <4> QED
        BY <1>3, <3>2, <4>1, ChainIs, Nodes
    <3> QED
      BY <3>1, <3>2
  <2>11. Rear(q)' /\ Middle(q)'
    <3>1. CASE TailOf(q) = next[Elem(p)]
      BY <1>1, <1>3, <2>1, <2>2, <3>1 DEF Rear, Middle, Is
    <3>2. CASE TailOf(q) # next[Elem(p)]
      <4>1. prev'[TailOf(q)] = prev[TailOf(q)]
        BY <1>3, <3>2, Nodes
      <4> QED
        BY <1>1, <2>0, <2>1, <4>1 DEF Whole, Rear, Middle, Is
    <3> QED
      BY <3>1, <3>2
  <2>12. \A x, y \in Editing(q)' : x = y
    BY <2>1 DEF Editing, Removing
  <2> QED
    BY <2>8, <2>9, <2>10, <2>11, <2>12 DEF Whole
<1>4. \A r \in Proc : r # q => /\ Kin(r)' = Kin(r)
                               /\ next'[HeadOf(r)] = next[HeadOf(r)] /\ prev'[TailOf(r)] = prev[TailOf(r)]
  BY <1>1, <1>3, <1>k, <1>b, Nodes DEF Kin
<1>5. \A x \in Proc : forker[x] # q /\ prev[Elem(x)] # NULL =>
           next'[Elem(x)] = next[Elem(x)] /\ prev'[Elem(x)] = prev[Elem(x)] /\ parent'[x] = parent[x]
  BY <1>1, <1>3, <1>c, <1>b, Nodes DEF Kin
<1>6. /\ torn \subseteq torn' /\ pc[p].at \notin Loop
      /\ pc[p].at \notin {"link", "link_back", "adopt"} /\ pc'[p].at \notin {"link", "link_back", "adopt"}
  BY <1>1, <1>2, <1>3 DEF Loop
<1> QED
  BY <1>1, <1>2, <1>c, <1>4, <1>5, <1>6, <1>k, <1>w, OthersWhole

LEMMA ForgetLinks ==
  ASSUME WInv, WInv', LinksInv, NEW p \in Proc, Forget(p)
  PROVE  LinksInv'
<1> USE DEF WInv
<1>1. /\ mem[p] = "live" /\ pc[p].at = "forget"
      /\ UNCHANGED <<mem, next, prev, return_status, wait_sema, wait_on_parent, load_sema, forker, waited, torn>>
  BY DEF Forget, In, Crash, links, semaVars, history
<1>c. PICK q \in Proc : forker[p] = q /\ q # p
  <2>1. p # Main
    BY <1>1, NotMain DEF Alone
  <2>2. forker[p] \in Proc
    BY <1>1, <2>1 DEF PagesInv
  <2>3. forker[p] < p /\ forker[p] \in Nat
    BY <2>2, Constants DEF PagesInv
  <2> QED
    BY <2>2, <2>3
<1>2. pc'[p].at = "tell" /\ Only(p)
  <2>1. Goto(p, At("tell"))
    BY DEF Forget, Crash
  <2> QED
    BY <2>1, GoesAlone DEF Alone
<1>3. parent'[p] = NULL /\ \A x \in Proc : x # p => parent'[x] = parent[x]
  BY Types DEF Forget
<1>b. TRUE
  OBVIOUS
<1>k. \A r \in Proc : Kin(r)' = Kin(r)
  BY <1>1 DEF Kin
<1>w. ASSUME q \notin torn' PROVE Whole(q)'
  <2>0. Whole(q)
    BY <1>1, <1>w DEF LinksInv
  <2>1. SameLinks(q) /\ SamePlaces(q)
    BY <1>1, <1>2, <1>k DEF SameLinks, SamePlaces, Only, Kin
  <2>2. Linkage(q)'
    BY <2>0, <2>1, LinkageKept DEF Whole, Linkage
  <2>4. \A k \in Kin(q) : Joined(k)' <=> Joined(k)
    BY <2>1, LinksSame DEF Kin
  <2>3. p \in Kin(q) => ~Joined(p)
    BY <1>1, <2>0 DEF Whole, Members
  <2>8. Members(q)'
    <3>1. \A k \in Proc : parent'[k] = q => k \in Kin(q) /\ parent[k] = q
      BY <1>1, <1>3, Constants DEF KinInv
    <3>2. q # p /\ pc'[q] = pc[q]
      BY <1>2, <1>c DEF Only
    <3>4. \A k \in Proc : parent'[k] = q /\ pc'[k].at \notin {"unlink_back", "forget"} => Joined(k)'
      BY <1>1, <1>2, <1>3, <2>0, <2>4, <3>1, Constants DEF Whole, Members, Only
    <3>5. ASSUME NEW k \in Kin(q)
          PROVE  /\ pc'[k].at = "unlink" => Joined(k)'
                 /\ pc'[k].at \in {"unlink_back", "forget"} => ~Joined(k)'
                 /\ Is(pc'[q], {"link_back", "adopt"}, k) => Joined(k)'
                 /\ Joined(k)' /\ parent'[k] # q => pc'[q].at \in Loop \/ Is(pc'[q], {"link_back", "adopt"}, k)
      <4>0. k \in Proc
        BY DEF Kin
      <4>1. CASE k = p
        BY <1>1, <1>2, <2>0, <2>3, <2>4, <3>2, <4>1 DEF Whole, Members
      <4>2. CASE k # p
        BY <1>1, <1>2, <1>3, <2>0, <2>4, <3>2, <4>0, <4>2 DEF Whole, Members, Only
      <4> QED
        BY <4>1, <4>2
    <3> QED
      BY <1>k, <3>4, <3>5 DEF Members
  <2> QED
    BY <2>2, <2>8 DEF Whole, Linkage
<1>4. \A r \in Proc : r # q => /\ Kin(r)' = Kin(r)
                               /\ next'[HeadOf(r)] = next[HeadOf(r)] /\ prev'[TailOf(r)] = prev[TailOf(r)]
  BY <1>1, <1>3, <1>k, <1>b, Nodes DEF Kin
<1>5. \A x \in Proc : forker[x] # q /\ prev[Elem(x)] # NULL =>
           next'[Elem(x)] = next[Elem(x)] /\ prev'[Elem(x)] = prev[Elem(x)] /\ parent'[x] = parent[x]
  BY <1>1, <1>3, <1>c, <1>b, Nodes DEF Kin
<1>6. /\ torn \subseteq torn' /\ pc[p].at \notin Loop
      /\ pc[p].at \notin {"link", "link_back", "adopt"} /\ pc'[p].at \notin {"link", "link_back", "adopt"}
  BY <1>1, <1>2, <1>3 DEF Loop
<1> QED
  BY <1>1, <1>2, <1>c, <1>4, <1>5, <1>6, <1>k, <1>w, OthersWhole

(* The loop of an exit takes a child's parent away.                        *)
LEMMA DisownLinks ==
  ASSUME WInv, WInv', LinksInv, NEW p \in Proc, Disown(p), ~crashed'
  PROVE  LinksInv'
<1> USE DEF WInv
<1>1. /\ mem[p] = "live" /\ pc[p].at = "disown"
      /\ UNCHANGED <<mem, next, prev, return_status, wait_sema, wait_on_parent, load_sema, forker, waited, torn>>
  BY DEF Disown, In, Crash, links, semaVars, history
<1>c. PICK c \in Proc : pc[p].child = c
  BY <1>1, FrameIs DEF Disown
<1>b. c \in Kin(p) /\ forker[c] = p
  BY <1>1, <1>c DEF KinInv, Is, Loop, Kin
<1>2. pc'[p].at = "free_child" /\ Only(p)
  <2>1. Goto(p, On("free_child", c))
    BY <1>c DEF Disown, Crash
  <2> QED
    BY <1>c, <2>1, GoesOn DEF Naming
<1>3. parent'[c] = NULL /\ \A x \in Proc : x # c => parent'[x] = parent[x]
  BY <1>c, Types DEF Disown, Crash
<1>k. \A r \in Proc : Kin(r)' = Kin(r)
  BY <1>1 DEF Kin
<1>w. ASSUME p \notin torn' PROVE Whole(p)'
  <2>0. Whole(p)
    BY <1>1, <1>w DEF LinksInv
  <2>1. SameLinks(p) /\ SamePlaces(p)
    BY <1>1, <1>2, <1>k DEF SameLinks, SamePlaces, Only, Kin
  <2>2. Linkage(p)'
    BY <2>0, <2>1, LinkageKept DEF Whole, Linkage
  <2>4. \A k \in Kin(p) : k \in Proc /\ (Joined(k)' <=> Joined(k))
    BY <2>1, LinksSame DEF Kin
  <2>5. \A k \in Proc : \A l \in {"unlink", "unlink_back", "forget"} : pc'[k].at = l <=> pc[k].at = l
    BY <1>1, <1>2 DEF Only
  <2>6. \A k \in Proc : parent'[k] = p => k \in Kin(p) /\ parent[k] = p
    BY <1>3, Constants DEF KinInv
  <2>7. pc'[p].at \in Loop /\ \A k : ~Is(pc'[p], {"link_back", "adopt"}, k)
    BY <1>2 DEF Loop, Is
  <2>8. Members(p)'
    BY <1>k, <2>0, <2>4, <2>5, <2>6, <2>7 DEF Whole, Members
  <2> QED
    BY <2>2, <2>8 DEF Whole, Linkage
<1>5. \A x \in Proc : forker[x] # p => parent'[x] = parent[x]
  BY <1>3, <1>b
<1>6. torn \subseteq torn' /\ pc[p].at \notin {"unlink", "unlink_back", "forget"} /\ pc'[p].at \notin {"unlink", "unlink_back", "forget"}
  BY <1>1, <1>2
<1> QED
  BY <1>1, <1>2, <1>5, <1>6, <1>k, <1>w, OthersWhole

-----------------------------------------------------------------------------
(* The steps that have nothing to do with lists.                           *)

LEMMA QuietMove ==
  ASSUME WInv, WInv', LinksInv, NEW p \in Proc, NEW l, l \notin Edits,
         Goto(p, At(l)) \/ \E c : Goto(p, On(l, c)),
         pc[p].at \notin Edits, pc[p].at \in Loop => l \in Loop,
         UNCHANGED <<parent, next, prev, forker, torn>>
  PROVE  LinksInv'
<1>1. pc'[p].at = l /\ Only(p)
  <2>1. PICK f : pc' = [pc EXCEPT ![p] = f] /\ f.at = l
    <3>1. At(l).at = l /\ \A c : On(l, c).at = l
      BY DEF At, On
    <3> QED
      BY <3>1 DEF Goto
  <2>2. pc = [q \in Proc |-> pc[q]]
    BY DEF WInv, TypeInv
  <2>3. DOMAIN pc = Proc
    BY <2>2
  <2> QED
    BY <2>1, <2>3 DEF Only
<1> QED
  BY <1>1, QuietLinks DEF Only

LEMMA QuietSteps ==
  ASSUME WInv, WInv', LinksInv, NEW p \in Proc,
         \/ Exit(p) \/ Wait(p) \/ Tell(p) \/ Await(p) \/ Orphan(p)
         \/ Check(p) \/ Down(p) \/ Wake(p) \/ Return(p) \/ Load(p)
  PROVE  LinksInv'
<1>1. UNCHANGED <<parent, next, prev, forker, torn>>
  BY DEF Exit, Wait, Tell, Await, Orphan, Check, Down, Wake, Return, Load, links, history
<1>2. PICK l \in {"parent", "check", "await", "orphan", "disown", "user", "down", "blocked", "up"} :
        Goto(p, At(l)) \/ \E c : Goto(p, On(l, c))
  <2>1. CASE Exit(p) \/ Wait(p) \/ Tell(p) \/ Await(p) \/ Orphan(p)
    BY <2>1 DEF Exit, Wait, Tell, Await, Orphan
  <2>2. CASE Check(p) \/ Down(p) \/ Wake(p)
    BY <2>2 DEF Check, Down, Wake
  <2>3. CASE Return(p) \/ Load(p)
    BY <2>3 DEF Return, Load
  <2> QED
    BY <2>1, <2>2, <2>3
<1>3. pc[p].at \notin Edits \cup Loop
  BY DEF Exit, Wait, Tell, Await, Orphan, Check, Down, Wake, Return, Load, In, Edits, Loop
<1> QED
  BY <1>1, <1>2, <1>3, QuietMove DEF Edits

LEMMA QuietFaulty ==
  ASSUME WInv, WInv', LinksInv, NEW p \in Proc, ~crashed',
         FreeChild(p) \/ NextChild(p) \/ Up(p) \/ (p = Main /\ (Lookup \/ Loaded))
  PROVE  LinksInv'
<1>1. UNCHANGED <<parent, next, prev, forker, torn>>
  BY DEF FreeChild, NextChild, Up, Lookup, Loaded, Crash, links, history
<1>2. PICK l \in {"next_child", "disown", "status", "loaded", "insert"} :
        (\E c : Goto(p, On(l, c))) /\ (pc[p].at \in Loop => l \in Loop)
  <2>1. CASE FreeChild(p) \/ NextChild(p)
    BY <2>1 DEF FreeChild, NextChild, Crash, Loop
  <2>2. CASE Up(p)
    BY <2>2 DEF Up, Crash, In, Loop
  <2>3. CASE p = Main /\ (Lookup \/ Loaded)
    BY <2>3 DEF Lookup, Loaded, Crash, In, Loop
  <2> QED
    BY <2>1, <2>2, <2>3
<1>3. pc[p].at \notin Edits
  BY DEF FreeChild, NextChild, Up, Lookup, Loaded, In, Edits
<1> QED
  BY <1>1, <1>2, <1>3, QuietMove DEF Edits

LEMMA DieLinks ==
  ASSUME WInv, WInv', LinksInv, NEW p \in Proc, Die(p)
  PROVE  LinksInv'
<1>1. UNCHANGED <<pc, parent, next, prev, forker, torn>>
  BY DEF Die, links, history
<1> QED
  BY <1>1, QuietLinks

LEMMA StartLinks ==
  ASSUME WInv, WInv', LinksInv, NEW p \in Proc, Start(p)
  PROVE  LinksInv'
<1>1. UNCHANGED <<parent, next, prev, forker, torn>> /\ pc[p].at = "start"
  BY DEF Start, In, links, history
<1>2. p # Main
  BY <1>1, NotMain DEF WInv
<1>3. PICK c \in Proc : pc[p].child = c /\ pc[c].at = "new" /\ c # p
  BY <1>1, <1>2, BegunIs DEF Begun, Making
<1>4. pc = [q \in Proc |-> pc[q]]
  BY DEF WInv, TypeInv
<1>5. DOMAIN pc = Proc /\ At("user").at = "user"
  BY <1>4 DEF At
<1>6. \A q \in Proc : pc'[q] = pc[q] \/ (q \in {p, c} /\ pc'[q].at = "user")
  BY <1>3, <1>5 DEF Start
<1>7. \A q \in Proc : pc'[q] = pc[q] \/ (pc[q].at \notin Edits \cup Loop /\ pc'[q].at \notin Edits)
  BY <1>1, <1>3, <1>6 DEF Edits, Loop
<1>8. \A q \in Proc : pc[q].at \in Loop => pc'[q].at \in Loop
  BY <1>7
<1> QED
  BY <1>1, <1>7, <1>8, QuietLinks

LEMMA MakesLinks ==
  ASSUME WInv, WInv', LinksInv, NEW p \in Proc, NEW c, Makes(p, c)
  PROVE  LinksInv'
<1>1. UNCHANGED <<parent, next, prev, torn>> /\ pc[p].at = "user"
  BY DEF Makes
<1>2. c \in Proc /\ pc[c].at = "user" /\ prev[Elem(c)] = NULL
  BY NewIs DEF Makes
<1>3. /\ \A x \in Proc : x # c => forker'[x] = forker[x]
      /\ pc'[p].at \in {"lookup", "insert"} /\ pc'[c].at \in {"load", "new"}
      /\ \A q \in Proc : q # p /\ q # c => pc'[q] = pc[q]
  BY MakesIs
<1>4. \A q \in Proc : pc'[q] = pc[q] \/ (pc[q].at \notin Edits \cup Loop /\ pc'[q].at \notin Edits)
  BY <1>1, <1>2, <1>3 DEF Edits, Loop
<1>5. \A q \in Proc : pc[q].at \in Loop => pc'[q].at \in Loop
  BY <1>4
<1> QED
  BY <1>1, <1>2, <1>3, <1>4, <1>5, QuietLinks

-----------------------------------------------------------------------------
(* The invariant is inductive.                                             *)

LEMMA Stays ==
  ASSUME IInv, UNCHANGED <<mem, pc, parent, links, return_status, semaVars, history>>
  PROVE  IInv'
<1> USE DEF IInv, WInv, links, semaVars, history
<1>1. TypeInv'
  BY DEF TypeInv, ProcTypeOK
<1>2. PagesInv'
  BY DEF PagesInv, Names, Blank
<1>3. KinInv' /\ \A q \in Proc : Kin(q)' = Kin(q)
  BY KinKept
<1>4. MakeInv'
  BY <1>3 DEF MakeInv, Is
<1>5. SemasInv'
  BY DEF SemasInv, Told
<1>6. WaitsInv'
  BY DEF WaitsInv, Is, Told
<1>7. ReleaseInv'
  BY DEF ReleaseInv, Done, Is, Forked, Told
<1>8. WInv'
  BY <1>1, <1>2, <1>3, <1>4, <1>5, <1>6, <1>7
<1> QED
  BY <1>8, QuietLinks

LEMMA InitOK ==
  ASSUME Init
  PROVE  IInv
<1> USE DEF IInv, WInv, Init
<1>1. \A p \in Proc : pc[p] = At("user") /\ pc[p].at = "user"
  BY DEF At
<1>2. /\ \A p \in Proc : next[HeadOf(p)] = TailOf(p) /\ prev[TailOf(p)] = HeadOf(p)
      /\ \A c \in Proc : prev[Elem(c)] = NULL
  BY Nodes DEF HeadOf, TailOf, Elem
<1>3. TypeInv
  <2>1. \A p \in Proc : FrameOK(pc[p])
    BY <1>1 DEF FrameOK, Alone
  <2>2. \A n \in Node : TailOf(n[1]) \in Node /\ HeadOf(n[1]) \in Node
    BY DEF Node, TailOf, HeadOf
  <2>3. ProcTypeOK
    BY <2>2, Constants DEF ProcTypeOK
  <2> QED
    BY <2>1, <2>3 DEF TypeInv
<1>4. PagesInv
  <2>1. \A c, d \in Proc : d < c => c # Main
    BY DEF Proc, Main
  <2> QED
    BY <1>1, <1>2, <2>1, Constants DEF PagesInv, Names, Alone, Blank
<1>5. KinInv /\ \A p \in Proc : Kin(p) = {}
  <2>1. \A p \in Proc : Kin(p) = {}
    BY Constants DEF Kin
  <2> QED
    BY <1>1, <1>2, <2>1, Constants DEF KinInv, After, Before, Is, Loop
<1>6. MakeInv
  BY <1>1, Constants DEF MakeInv, Is, Begun, Making
<1>7. SemasInv
  BY <1>1 DEF SemasInv
<1>8. WaitsInv
  BY <1>1 DEF WaitsInv, Is, Reaping
<1>9. ReleaseInv
  BY <1>1 DEF ReleaseInv, Forked, Told
<1>10. LinksInv
  <2> SUFFICES ASSUME NEW p \in Proc PROVE Whole(p)
    BY DEF LinksInv
  <2>1. Editing(p) = {} /\ \A x \in Proc : ~Removing(p, x)
    BY <1>1 DEF Editing, Removing
  <2>2. Chain(p) = {HeadOf(p)}
    BY <1>5 DEF Chain
  <2>3. Members(p)
    BY <1>5, Constants DEF Members
  <2>4. Forward(p) /\ Backward(p) /\ Rear(p)
    BY <1>2, <2>2 DEF Forward, Backward, Rear
  <2>5. Middle(p)
    BY <1>1, <2>1 DEF Middle, Is
  <2> QED
    BY <2>1, <2>3, <2>4, <2>5 DEF Whole
<1> QED
  BY <1>3, <1>4, <1>5, <1>6, <1>7, <1>8, <1>9, <1>10

LEMMA StepOK ==
  ASSUME IInv, [Next]_vars
  PROVE  IInv'
<1> USE DEF IInv
<1>1. CASE Crash
  BY <1>1, Stays DEF Crash
<1>2. CASE UNCHANGED vars
  BY <1>2, Stays DEF vars
<1>3. ASSUME NEW p \in Proc, NEW c, Makes(p, c) PROVE IInv'
  BY <1>3, MakesStep, MakesLinks
<1>4. CASE Execute
  BY <1>3, <1>4, ExecuteMakes, Constants
<1>5. ASSUME NEW p \in Proc, Fork(p) \/ Exit(p) \/ Wait(p) PROVE IInv'
  <2>1. CASE Fork(p)
    BY <1>3, <2>1, ForkMakes
  <2>2. CASE Exit(p) \/ Wait(p)
    BY <2>2, ExitStep, WaitStep, QuietSteps
  <2> QED
    BY <1>5, <2>1, <2>2
<1>6. ASSUME NEW p \in Proc, KernelStep(p) PROVE IInv'
  <2>1. CASE Insert(p) \/ Link(p) \/ Adopt(p)
    <3>1. Crash \/ ~crashed'
      BY <2>1 DEF Insert, Link, Adopt, In
    <3> QED
      BY <1>1, <2>1, <3>1, InsertStep, LinkStep, AdoptStep, InsertLinks, LinkLinks, AdoptLinks
  <2>2. CASE LinkBack(p) \/ Start(p) \/ ReadParent(p) \/ Forget(p) \/ Die(p)
    BY <2>2, LinkBackStep, StartStep, ReadParentStep, ForgetStep, DieStep,
       LinkBackLinks, StartLinks, ReadParentLinks, ForgetLinks, DieLinks
  <2>3. CASE Unlink(p) \/ UnlinkBack(p) \/ Disown(p)
    <3>1. Crash \/ ~crashed'
      BY <2>3 DEF Unlink, UnlinkBack, Disown, In
    <3> QED
      BY <1>1, <2>3, <3>1, UnlinkStep, UnlinkBackStep, DisownStep, UnlinkLinks, UnlinkBackLinks, DisownLinks
  <2>4. CASE Tell(p) \/ Await(p) \/ Orphan(p)
    BY <2>4, TellStep, AwaitStep, OrphanStep, QuietSteps
  <2>5. CASE Check(p) \/ Down(p) \/ Wake(p) \/ Return(p) \/ Load(p)
    BY <2>5, CheckStep, DownStep, WakeStep, ReturnStep, LoadStep, QuietSteps
  <2>6. CASE FreeChild(p) \/ NextChild(p) \/ Up(p) \/ (p = Main /\ (Lookup \/ Loaded))
    <3>1. Crash \/ ~crashed'
      BY <2>6 DEF FreeChild, NextChild, Up, Lookup, Loaded, In
    <3> QED
      BY <1>1, <2>6, <3>1, FreeChildStep, NextChildStep, UpStep, LookupStep, LoadedStep, QuietFaulty
  <2> QED
    BY <1>6, <2>1, <2>2, <2>3, <2>4, <2>5, <2>6 DEF KernelStep
<1> QED
  BY <1>2, <1>4, <1>5, <1>6 DEF Next

LEMMA Invariance == Spec => []IInv
<1>1. Init => IInv
  BY InitOK
<1>2. IInv /\ [Next]_vars => IInv'
  BY StepOK
<1> QED
  BY <1>1, <1>2, PTL DEF Spec

-----------------------------------------------------------------------------
(* The theorems.                                                           *)

(* The list of children is exact: who has p for a parent is on the list of *)
(* p, who is on it has p for a parent, and forward and backward links      *)
(* agree all along it, before, between and after the writes of fork,       *)
(* process_execute and exit, as long as no two processes were between the  *)
(* writes to the same list at the same time.                               *)
THEOREM FamiliesExact == Spec => []FamilyExact
<1>1. IInv => FamilyExact
  <2> SUFFICES ASSUME IInv, NEW p \in Proc, p \notin torn PROVE ProcTypeOK /\ Family(p)
    BY DEF FamilyExact, IInv, WInv, TypeInv
  <2>1. TypeInv /\ KinInv /\ Whole(p)
    BY DEF IInv, WInv, LinksInv
  <2>2. Children(p) = {c \in Kin(p) : Joined(c)}
    BY DEF Children, Kin, Joined
  <2>3. ASSUME NEW c \in Proc, parent[c] = p
        PROVE  forker[c] = p /\ (pc[c].at \in {"unlink_back", "forget"} \/ Joined(c))
    BY <2>1, <2>3 DEF KinInv, Kin, Whole, Members
  <2>4. ASSUME NEW c \in Children(p), parent[c] # p
        PROVE  \/ pc[p].at \in {"disown", "free_child", "next_child"}
               \/ pc[p].at \in {"link_back", "adopt"} /\ pc[p].child = c
    BY <2>1, <2>2, <2>4 DEF Whole, Members, Loop, Is
  <2>5. ASSUME Editing(p) = {}, NEW n \in {HeadOf(p)} \cup {Elem(c) : c \in Children(p)}
        PROVE  next[n] \in {TailOf(p)} \cup {Elem(c) : c \in Children(p)} /\ prev[next[n]] = n
    <3>1. n \in Chain(p)
      BY <2>2, <2>5 DEF Chain
    <3>2. \A x \in Proc : ~Adding(p, x) /\ ~Removing(p, x)
      BY <2>5 DEF Editing, Adding, Removing, Is
    <3>3. prev[next[n]] = n
      BY <2>1, <3>1, <3>2 DEF Whole, Forward
    <3>4. next[n] = TailOf(p) \/ \E d \in Kin(p) : next[n] = Elem(d)
      BY <2>1, <3>1, ChainIs
    <3>5. \A d \in Kin(p) : next[n] = Elem(d) => Joined(d)
      BY <3>3 DEF Joined, Kin
    <3> QED
      BY <2>2, <3>3, <3>4, <3>5
  <2>6. Family(p)
    BY <2>3, <2>4, <2>5 DEF Family
  <2> QED
    BY <2>1, <2>6 DEF TypeInv
<1> QED
  BY <1>1, Invariance, PTL

(* Where wait waits, its child is there, for p has not done with it; the   *)
(* status it reads is that of a child that has told p that it exits.       *)
THEOREM ReapedOnlyAfterExit == Spec => []ReapedAfterExit
<1>1. IInv => ReapedAfterExit
  <2> SUFFICES ASSUME IInv, NEW p \in Proc, NEW c \in Proc, Waiting(p, c), Forked(c)
               PROVE  /\ pc[p].at \in {"up", "status"} => Told(c)
                      /\ pc[p].at \in {"down", "up"} => mem[c] = "live"
    BY DEF ReapedAfterExit
  <2> USE DEF IInv, WInv
  <2>1. c \in waited[p] /\ forker[c] = p
    BY DEF WaitsInv, Waiting, Is, Reaping
  <2>2. ASSUME pc[p].at \in {"up", "status"} PROVE Told(c)
    BY <2>1, <2>2 DEF WaitsInv, Is
  <2>3. ASSUME pc[p].at \in {"down", "up"}, mem[c] # "live" PROVE FALSE
    <3>1. mem[c] # "unused"
      BY <2>3 DEF PagesInv, Names, Alone, Waiting
    <3>2. mem[c] = "freed"
      BY <2>3, <3>1, Types
    <3>3. pc[c].at = "disown"
      BY <3>2 DEF PagesInv
    <3>4. Done(p, c)
      BY <2>1, <3>3 DEF ReleaseInv, Told, Leaving
    <3>5. ~Done(p, c)
      BY <2>3 DEF Done, Is, Waiting, Loop
    <3> QED
      BY <3>4, <3>5
  <2> QED
    BY <2>2, <2>3
<1> QED
  BY <1>1, Invariance, PTL

(* Who comes to wait by the step of q is q.                                *)
LEMMA WaitsAfter ==
  ASSUME TypeInv, NEW q \in Proc, NEW f, Goto(q, f), mem' = mem,
         NEW p \in Proc, NEW c \in Proc, ~Waiting(p, c), Waiting(p, c)'
  PROVE  p = q /\ pc'[p] = f /\ f.at \in Reaping /\ f.child = c
<1>1. pc'[q] = f /\ \A x \in Proc : x # q => pc'[x] = pc[x]
  <2>1. pc' = [pc EXCEPT ![q] = f] /\ pc = [x \in Proc |-> pc[x]]
    BY DEF Goto, TypeInv
  <2>2. DOMAIN pc = Proc
    BY <2>1
  <2> QED
    BY <2>1, <2>2
<1> QED
  BY <1>1 DEF Waiting, Live, Reaping

(* No two calls of wait get past the test for the same child: who gets     *)
(* past it has made the child, and no wait for the child was accepted.     *)
THEOREM NoneWaitedTwice == Spec => WaitedOnce
<1> DEFINE A == \A p, c \in Proc : ~Waiting(p, c) /\ Waiting(p, c)' =>
                  /\ forker[c] = p
                  /\ \A q \in Proc : ~Waiting(q, c) /\ c \notin waited[q]
<1>1. ASSUME IInv, Next PROVE A
  <2> SUFFICES ASSUME NEW p \in Proc, NEW c \in Proc, ~Waiting(p, c), Waiting(p, c)'
               PROVE  forker[c] = p /\ \A q \in Proc : ~Waiting(q, c) /\ c \notin waited[q]
    OBVIOUS
  <2>0. TypeInv
    BY <1>1 DEF IInv, WInv
  <2>1. Check(p) /\ pc[p].child = c /\ mem[c] = "live" /\ parent[c] = p
    <3>1. ASSUME mem' = mem, pc' = pc PROVE FALSE
      BY <3>1 DEF Waiting, Live
    <3>2. ASSUME NEW q \in Proc, NEW d, Makes(q, d) PROVE FALSE
      <4>1. /\ \A x \in Proc : x # d => mem'[x] = mem[x]
            /\ pc'[q].at \notin Reaping /\ pc'[d].at \notin Reaping
            /\ \A x \in Proc : x # q /\ x # d => pc'[x] = pc[x]
        BY <1>1, <3>2, MakesIs DEF IInv, Reaping
      <4> QED
        BY <4>1 DEF Waiting, Live, Reaping
    <3>3. ASSUME NEW q \in Proc, Start(q) PROVE FALSE
      <4>1. mem' = mem /\ pc' = [pc EXCEPT ![pc[q].child] = At("user"), ![q] = At("user")]
        BY <3>3 DEF Start
      <4>2. pc = [x \in Proc |-> pc[x]]
        BY <2>0 DEF TypeInv
      <4>3. DOMAIN pc = Proc /\ At("user").at = "user"
        BY <4>2 DEF At
      <4>4. pc'[p] = pc[p] \/ pc'[p] = At("user")
        BY <4>1, <4>3
      <4> QED
        BY <4>1, <4>3, <4>4 DEF Waiting, Live
    <3>4. ASSUME NEW q \in Proc, Die(q) PROVE FALSE
      <4>1. mem' = [mem EXCEPT ![q] = "freed"] /\ pc' = pc
        BY <3>4 DEF Die
      <4>2. mem'[p] = "live" => mem[p] = "live"
        BY <2>0, <4>1, Types
      <4> QED
        BY <4>1, <4>2 DEF Waiting, Live
    <3>5. ASSUME NEW q \in Proc, NEW l, l \notin Reaping, mem' = mem,
                 Goto(q, At(l)) \/ \E d : Goto(q, On(l, d))
          PROVE  FALSE
      <4>1. At(l).at = l /\ \A d : On(l, d).at = l
        BY DEF At, On
      <4> QED
        BY <2>0, <3>5, <4>1, WaitsAfter
    <3>6. ASSUME NEW q \in Proc, Exit(q) \/ Wait(q) \/ Load(q) \/ Return(q) PROVE FALSE
      <4>1. mem' = mem /\ \E l \in {"user", "parent", "check"} : Goto(q, At(l)) \/ \E d : Goto(q, On(l, d))
        BY <3>6 DEF Exit, Wait, Load, Return
      <4> QED
        BY <3>5, <4>1 DEF Reaping
    <3>7. ASSUME NEW q \in Proc, Insert(q) \/ Link(q) \/ LinkBack(q) \/ Adopt(q) PROVE FALSE
      <4>1. \/ mem' = mem /\ pc' = pc
            \/ mem' = mem /\ \E l \in {"link", "link_back", "adopt", "check", "start"} : \E d : Goto(q, On(l, d))
        <5>1. CASE Insert(q) \/ Link(q)
          BY <5>1 DEF Insert, Link, Crash
        <5>2. CASE LinkBack(q)
          BY <5>2 DEF LinkBack
        <5>3. CASE Adopt(q)
          BY <5>3 DEF Adopt, Crash
        <5> QED
          BY <3>7, <5>1, <5>2, <5>3
      <4> QED
        BY <3>1, <3>5, <4>1 DEF Reaping
    <3>8. ASSUME NEW q \in Proc, ReadParent(q) \/ Unlink(q) \/ UnlinkBack(q) \/ Forget(q) \/ Tell(q) \/ Await(q)
          PROVE  FALSE
      <4>1. \/ mem' = mem /\ pc' = pc
            \/ mem' = mem /\ \E l \in {"unlink", "unlink_back", "forget", "tell", "await", "orphan"} : Goto(q, At(l))
        BY <3>8 DEF ReadParent, Unlink, UnlinkBack, Forget, Tell, Await, Crash
      <4> QED
        BY <3>1, <3>5, <4>1 DEF Reaping
    <3>9. ASSUME NEW q \in Proc, Orphan(q) \/ Disown(q) \/ FreeChild(q) \/ NextChild(q) PROVE FALSE
      <4>1. \/ mem' = mem /\ pc' = pc
            \/ mem' = mem /\ \E l \in {"disown", "free_child", "next_child"} : \E d : Goto(q, On(l, d))
        <5>1. CASE Orphan(q)
          BY <5>1 DEF Orphan
        <5>2. CASE Disown(q)
          BY <5>2 DEF Disown, Crash
        <5>3. CASE FreeChild(q)
          BY <5>3 DEF FreeChild, Crash
        <5>4. CASE NextChild(q)
          BY <5>4 DEF NextChild, Crash
        <5> QED
          BY <3>9, <5>1, <5>2, <5>3, <5>4
      <4> QED
        BY <3>1, <3>5, <4>1 DEF Reaping
    <3>10. ASSUME Lookup \/ Loaded PROVE FALSE
      <4>1. \/ mem' = mem /\ pc' = pc
            \/ mem' = mem /\ \E l \in {"loaded", "insert"} : \E d : Goto(Main, On(l, d))
        BY <3>10 DEF Lookup, Loaded, Crash
      <4> QED
        BY <3>1, <3>5, <4>1, Constants DEF Reaping
    <3>11. ASSUME NEW q \in Proc, Down(q) \/ Wake(q) \/ Up(q) PROVE FALSE
      <4>1. \/ mem' = mem /\ pc' = pc
            \/ \E l \in Reaping : /\ mem' = mem /\ Goto(q, On(l, pc[q].child))
                                  /\ mem[q] = "live" /\ pc[q].at \in {"down", "blocked", "up"}
        BY <3>11 DEF Down, Wake, Up, In, Crash, Reaping
      <4>2. PICK l \in Reaping : /\ mem' = mem /\ Goto(q, On(l, pc[q].child))
                                 /\ mem[q] = "live" /\ pc[q].at \in {"down", "blocked", "up"}
        BY <3>1, <4>1
      <4>3. On(l, pc[q].child).child = pc[q].child
        BY DEF On
      <4>4. p = q /\ pc[q].child = c
        BY <2>0, <4>2, <4>3, WaitsAfter
      <4> QED
        BY <4>2, <4>4 DEF Waiting, Live
    <3>12. ASSUME NEW q \in Proc, Check(q)
           PROVE  Check(p) /\ pc[p].child = c /\ mem[c] = "live" /\ parent[c] = p
      <4>1. /\ mem' = mem
            /\ \/ Goto(q, At("user"))
               \/ /\ Goto(q, On("down", pc[q].child))
                  /\ mem[pc[q].child] = "live" /\ parent[pc[q].child] = q
        BY <3>12 DEF Check, Live
      <4>2. Goto(q, On("down", pc[q].child)) /\ mem[pc[q].child] = "live" /\ parent[pc[q].child] = q
        BY <3>5, <4>1 DEF Reaping
      <4>3. On("down", pc[q].child).child = pc[q].child
        BY DEF On
      <4>4. p = q /\ pc[q].child = c
        BY <2>0, <4>1, <4>2, <4>3, WaitsAfter
      <4> QED
        BY <3>12, <4>2, <4>4
    <3>13. ASSUME Execute \/ \E q \in Proc : Fork(q) PROVE FALSE
      BY <3>2, <3>13, ForkMakes, ExecuteMakes, Constants
    <3> QED
      BY <1>1, <3>3, <3>4, <3>6, <3>7, <3>8, <3>9, <3>10, <3>11, <3>12, <3>13 DEF Next, KernelStep
  <2>2. pc[p].at = "check"
    BY <2>1 DEF Check, In
  <2>3. forker[c] = p /\ \A q \in Proc : c \notin waited[q]
    BY <1>1, <2>1, <2>2, ChildIs DEF IInv
  <2>4. \A q \in Proc : ~Waiting(q, c)
    BY <1>1, <2>3 DEF IInv, WInv, WaitsInv, Waiting, Is, Reaping
  <2> QED
    BY <2>3, <2>4
<1>2. IInv /\ [Next]_vars => [A]_vars
  BY <1>1
<1> HIDE DEF A
<1>3. Spec => [][A]_vars
  BY <1>2, Invariance, PTL DEF Spec
<1> QED
  BY <1>3 DEF WaitedOnce, A
==============================================================================
