--------------------------- MODULE FileTableProofs ---------------------------
(***************************************************************************)
(* Proofs about FileTable, for any number of processes, descriptors, files *)
(* and names: no struct file has two owners, none is used after it is      *)
(* freed, nor is an inode, and the counts of an inode are exact; and       *)
(* nobody writes to a program that runs.                                   *)
(***************************************************************************)
EXTENDS FileTable, SequenceTheorems, FiniteSetTheorems, WellFoundedInduction, TLAPS

(* The calls that hold filesys_lock from first to last.                    *)
Locking == {"open", "close", "write", "tell"}

(* The steps.                                                              *)
Dos == {"lock", "unlock", "place", "find", "take", "reopen", "file_open", "drop", "free", "install",
        "clear", "check", "store", "tell", "dup_deny", "point", "copy", "inherit", "start", "deny",
        "map", "exit", "shut", "clear_program", "gone"}

(* The steps that a call may take.                                         *)
StepOf(k, do) ==
  \/ k = "open" /\ do \in {"lock", "place", "find", "take", "file_open", "install", "unlock"}
  \/ k = "close" /\ do \in {"lock", "clear", "drop", "free", "unlock"}
  \/ k = "write" /\ do \in {"lock", "check", "store", "unlock"}
  \/ k = "tell" /\ do \in {"lock", "tell", "unlock"}
  \/ k = "dup2" /\ do \in {"reopen", "file_open", "dup_deny", "point"}
  \/ k = "fork" /\ do \in {"copy", "reopen", "file_open", "inherit", "start"}
  \/ k = "exec" /\ do \in {"find", "take", "file_open", "deny", "map", "drop", "free", "exit"}
  \/ k = "exit" /\ do \in {"shut", "clear", "clear_program", "drop", "free", "gone"}

(* Which step may be the last one that is known yet.                       *)
LastOf(k, do) ==
  \/ k \in Locking /\ do = "unlock"
  \/ k = "open" /\ do = "place"
  \/ k = "dup2" /\ do = "point"
  \/ k = "fork" /\ do \in {"copy", "start"}
  \/ k = "exec" /\ do \in {"free", "exit"}
  \/ k = "exit" /\ do \in {"shut", "gone"}

(* Which step may follow which.                                            *)
Follows(a, b) ==
  \/ a.do = "lock" /\ b.do \in {"place", "clear", "check", "tell"}
  \/ a.do = "find" /\ b.do = "take" /\ a.arg = b.arg
  \/ a.do \in {"take", "reopen"} /\ b.do = "file_open"
  \/ a.do = "file_open" /\ b.do \in {"install", "dup_deny", "inherit", "deny", "map", "drop"}
  \/ a.do \in {"clear", "clear_program", "map"} /\ b.do = "drop"
  \/ a.do = "drop" /\ b.do = "free"
  \/ a.do = "free" /\ b.do \in {"unlock", "shut", "gone", "exit"}
  \/ a.do = "check" /\ b.do = "store"
  \/ a.do \in {"install", "store", "tell"} /\ b.do = "unlock"
  \/ a.do = "dup_deny" /\ b.do = "point"
  \/ a.do = "inherit" /\ b.do = "copy"
  \/ a.do = "deny" /\ b.do = "find"

(* What the argument of a step is.                                         *)
Typed(s) ==
  /\ s.do \in {"place", "find", "take", "map"} => s.arg \in Name
  /\ s.do \in {"clear", "reopen", "check", "dup_deny", "point", "install"} => s.arg \in Fd
  /\ s.do = "inherit" => s.arg \in [child : Proc, fd : Fd]
  /\ s.do = "copy" => s.arg \in [child : Proc, fd : 1 .. Fds + 1]
  /\ s.do = "shut" => s.arg \in 1 .. Fds + 1

Args == {NULL} \cup Name \cup Proc \cup Nat \cup [child : Proc, fd : Nat]
Steps == [do : Dos, arg : Args]

(* A part of a call: steps that it may take, each after one that it may    *)
(* follow.                                                                 *)
Piece(k, s) ==
  /\ s \in Seq(Steps) /\ s # <<>>
  /\ \A i \in 1 .. Len(s) : StepOf(k, s[i].do) /\ Typed(s[i])
  /\ \A i \in 1 .. Len(s) - 1 : Follows(s[i], s[i + 1])

(* The rest of a call.                                                     *)
Script(k, s) == Piece(k, s) /\ LastOf(k, s[Len(s)].do)

(* The descriptors and the program that the rest of a call uses are open.  *)
UsesStep(f, prog, x) ==
  /\ x.do \in {"reopen", "clear", "check", "dup_deny"} => f[x.arg] # NULL
  /\ x.do = "inherit" => f[x.arg.fd] # NULL
  /\ x.do = "clear_program" => prog # NULL
Uses(f, prog, s) == \A i \in 1 .. Len(s) : UsesStep(f, prog, s[i])

-----------------------------------------------------------------------------
(* The invariant.                                                          *)
Regs == [found : Ino \cup {NULL}, inode : Ino \cup {NULL}, file : FileObj \cup {NULL}, last : BOOLEAN]

TypeInv ==
  /\ fds \in [Proc -> [Fd -> FileObj \cup {NULL}]]
  /\ program \in [Proc \cup {Main} -> FileObj \cup {NULL}]
  /\ pages \in [Proc -> FileObj \cup {NULL}]
  /\ files \in [FileObj -> File \cup {NULL}]
  /\ inodes \in [Ino -> Inode \cup {NULL}]
  /\ reg \in [Proc -> Regs]
  /\ call \in [Proc -> Kind \cup {NULL}]
  /\ DOMAIN todo = Proc

CallInv ==
  \A p \in Proc :
    \/ call[p] = NULL /\ todo[p] = <<>>
    \/ call[p] \in Kind /\ Script(call[p], todo[p])

UseInv == \A p \in Proc : Uses(fds[p], program[p], todo[p])

(* exec and exit are kept apart from the calls that use the list of inodes.*)
AloneInv == \A p, q \in Proc : call[p] \in {"exec", "exit"} /\ call[q] \in UsesList => p = q

LockInv == \A p \in Proc : filesys_lock = p <=> call[p] \in Locking /\ Doing(p) # "lock"

(* What the locals are at each step.                                       *)
Holding == {"install", "dup_deny", "point", "inherit", "deny", "map", "drop", "free"}

LocalOK(p) ==
  /\ reg[p].inode # NULL <=> Doing(p) = "file_open"
  /\ reg[p].inode # NULL => inodes[reg[p].inode] # NULL
  /\ reg[p].file # NULL <=> Doing(p) \in Holding
  /\ Doing(p) = "take" =>
       IF reg[p].found = NULL THEN \A i \in open_inodes : inodes[i].name # Arg(p)
       ELSE inodes[reg[p].found] # NULL
  /\ Doing(p) = "free" => (reg[p].last <=> inodes[files[reg[p].file].inode].open_cnt = 0)
LocalInv == \A p \in Proc : LocalOK(p)

(* FilesExact in parts: the pointers, the links and the counts.            *)
PointerInv ==
  \A x, y \in Pointers :
    FileAt(x) # NULL => files[FileAt(x)] # NULL /\ (FileAt(x) = FileAt(y) => x = y)

LinkInv ==
  /\ \A f \in FileObj : files[f] # NULL => inodes[files[f].inode] # NULL
  /\ open_inodes = {i \in Ino : inodes[i] # NULL}
  /\ \A i, j \in open_inodes : inodes[i].name = inodes[j].name => i = j

FilesOf(i) == {f \in FileObj : Counted(f) /\ files[f].inode = i}
DeniedOf(i) == {f \in FilesOf(i) : files[f].deny_write}

CountInv ==
  \A i \in open_inodes :
    /\ inodes[i].open_cnt = Cardinality(FilesOf(i)) + Cardinality(Holders(i))
    /\ inodes[i].deny_write_cnt = Cardinality(DeniedOf(i))

ControlInv == CallInv /\ AloneInv /\ LockInv
HeapInv == PointerInv /\ LinkInv /\ CountInv
IInv == TypeInv /\ ControlInv /\ UseInv /\ LocalInv /\ HeapInv

LEMMA Exact == HeapInv <=> FilesExact
BY DEF HeapInv, FilesExact, PointerInv, LinkInv, CountInv, FilesOf, DeniedOf

-----------------------------------------------------------------------------
(* Scripts.                                                                *)
LEMMA OneStep ==
  ASSUME NEW k, NEW f, NEW g, NEW do, NEW x \in Args,
         LET a == [do |-> do, arg |-> x] IN StepOf(k, do) /\ Typed(a) /\ UsesStep(f, g, a)
  PROVE  LET s == Step(do, x)
         IN  /\ Piece(k, s) /\ Uses(f, g, s)
             /\ Len(s) = 1 /\ s[1] = [do |-> do, arg |-> x]
<1> DEFINE a == [do |-> do, arg |-> x]
           s == <<a>>
<1>1. a \in Steps /\ a.do = do
  <2>1. do \in Dos
    BY DEF StepOf, Dos
  <2> QED
    BY <2>1 DEF Steps
<1>2. StepOf(k, a.do) /\ Typed(a) /\ UsesStep(f, g, a)
  OBVIOUS
<1>3. Step(do, x) = s
  BY DEF Step
<1> HIDE DEF a
<1>4. s \in Seq(Steps) /\ Len(s) = 1 /\ s[1] = a /\ s # <<>>
  BY <1>1
<1> HIDE DEF s
<1>5. Piece(k, s)
  BY <1>2, <1>4 DEF Piece
<1>6. Uses(f, g, s)
  BY <1>2, <1>4 DEF Uses
<1> QED
  BY <1>3, <1>4, <1>5, <1>6 DEF a

(* What is left of a script when its first step is taken.                  *)
LEMMA ScriptTail ==
  ASSUME NEW k, NEW s, Script(k, s)
  PROVE  /\ Head(s) = s[1] /\ StepOf(k, s[1].do) /\ Typed(s[1])
         /\ Len(s) \in Nat \ {0} /\ s[1] \in Steps
         /\ \/ Tail(s) = <<>> /\ LastOf(k, s[1].do)
            \/ Tail(s) # <<>> /\ Script(k, Tail(s)) /\ Follows(s[1], Head(Tail(s)))
         /\ \A f, g : Uses(f, g, s) => UsesStep(f, g, s[1]) /\ Uses(f, g, Tail(s))
<1> DEFINE t == Tail(s)
<1>1. s \in Seq(Steps) /\ s # <<>> /\ Len(s) \in Nat \ {0} /\ Head(s) = s[1] /\ s[1] \in Steps
  BY EmptySeq DEF Script, Piece
<1>2. t \in Seq(Steps) /\ Len(t) = Len(s) - 1 /\ \A i \in 1 .. Len(t) : t[i] = s[i + 1]
  BY <1>1, HeadTailProperties
<1> HIDE DEF t
<1>3. StepOf(k, s[1].do) /\ Typed(s[1])
  BY <1>1 DEF Script, Piece
<1>4. ASSUME NEW f, NEW g, Uses(f, g, s)
      PROVE  UsesStep(f, g, s[1]) /\ Uses(f, g, t)
  BY <1>1, <1>2, <1>4 DEF Uses
<1>5. CASE t = <<>>
  <2>1. Len(s) = 1
    BY <1>1, <1>2, <1>5, EmptySeq
  <2> QED
    BY <1>1, <1>3, <1>4, <1>5, <2>1 DEF Script, t
<1>6. CASE t # <<>>
  <2>1. Len(t) \in Nat \ {0} /\ Head(t) = t[1]
    BY <1>2, <1>6, EmptySeq
  <2>2. t[1] = s[2] /\ t[Len(t)] = s[Len(s)] /\ 1 \in 1 .. Len(s) - 1
    BY <1>1, <1>2, <2>1
  <2>3. Follows(s[1], t[1])
    BY <2>2 DEF Script, Piece
  <2>4. \A i \in 1 .. Len(t) : StepOf(k, t[i].do) /\ Typed(t[i])
    BY <1>1, <1>2, <2>1 DEF Script, Piece
  <2>5. ASSUME NEW i \in 1 .. Len(t) - 1
        PROVE  Follows(t[i], t[i + 1])
    <3>1. i + 1 \in 1 .. Len(s) - 1 /\ t[i] = s[i + 1] /\ t[i + 1] = s[(i + 1) + 1]
      BY <1>1, <1>2, <2>1
    <3> QED
      BY <3>1 DEF Script, Piece
  <2>6. Script(k, t)
    BY <1>2, <1>6, <2>2, <2>4, <2>5 DEF Script, Piece
  <2> QED
    BY <1>1, <1>3, <1>4, <1>6, <2>1, <2>3, <2>6 DEF t
<1> QED
  BY <1>5, <1>6

(* A piece with its first and its last step.                               *)
At1(do, x) == [do |-> do, arg |-> x]
Part(k, f, g, s, a, b) == Piece(k, s) /\ Uses(f, g, s) /\ s[1] = a /\ s[Len(s)] = b

LEMMA OnePart ==
  ASSUME NEW k, NEW f, NEW g, NEW do, NEW x \in Args,
         StepOf(k, do), Typed(At1(do, x)), UsesStep(f, g, At1(do, x))
  PROVE  Part(k, f, g, Step(do, x), At1(do, x), At1(do, x))
BY OneStep DEF At1, Part

LEMMA TwoParts ==
  ASSUME NEW k, NEW f, NEW g, NEW s, NEW t, NEW a, NEW b, NEW c, NEW d,
         Part(k, f, g, s, a, b), Part(k, f, g, t, c, d), Follows(b, c)
  PROVE  Part(k, f, g, s \o t, a, d)
<1> DEFINE u == s \o t
<1>0. /\ Piece(k, s) /\ Piece(k, t) /\ Uses(f, g, s) /\ Uses(f, g, t)
      /\ Follows(s[Len(s)], t[1]) /\ s[1] = a /\ t[Len(t)] = d
  BY DEF Part
<1>1. /\ s \in Seq(Steps) /\ s # <<>> /\ t \in Seq(Steps) /\ t # <<>>
  BY <1>0 DEF Piece
<1>2. /\ Len(s) \in Nat \ {0} /\ Len(t) \in Nat \ {0}
  BY <1>1, EmptySeq
<1>3. /\ u \in Seq(Steps) /\ Len(u) = Len(s) + Len(t)
      /\ \A i \in 1 .. Len(s) + Len(t) : u[i] = IF i <= Len(s) THEN s[i] ELSE t[i - Len(s)]
  BY <1>1, ConcatProperties
<1> HIDE DEF u
<1>4. u # <<>>
  BY <1>2, <1>3, EmptySeq
<1>5. ASSUME NEW i \in 1 .. Len(u)
      PROVE  StepOf(k, u[i].do) /\ Typed(u[i]) /\ UsesStep(f, g, u[i])
  <2>1. CASE i <= Len(s)
    BY <1>0, <1>2, <1>3, <2>1 DEF Piece, Uses
  <2>2. CASE ~(i <= Len(s))
    <3>1. i - Len(s) \in 1 .. Len(t) /\ u[i] = t[i - Len(s)]
      BY <1>2, <1>3, <2>2
    <3> QED
      BY <1>0, <3>1 DEF Piece, Uses
  <2> QED
    BY <2>1, <2>2
<1>6. ASSUME NEW i \in 1 .. Len(u) - 1
      PROVE  Follows(u[i], u[i + 1])
  <2>1. CASE i < Len(s)
    <3>1. i \in 1 .. Len(s) - 1 /\ u[i] = s[i] /\ u[i + 1] = s[i + 1]
      BY <1>2, <1>3, <2>1
    <3> QED
      BY <1>0, <3>1 DEF Piece
  <2>2. CASE i = Len(s)
    <3>1. u[i] = s[Len(s)] /\ u[i + 1] = t[1]
      BY <1>2, <1>3, <2>2
    <3> QED
      BY <1>0, <3>1
  <2>3. CASE i > Len(s)
    <3>1. /\ i - Len(s) \in 1 .. Len(t) - 1
          /\ u[i] = t[i - Len(s)] /\ u[i + 1] = t[(i - Len(s)) + 1]
      BY <1>2, <1>3, <2>3
    <3> QED
      BY <1>0, <3>1 DEF Piece
  <2> QED
    BY <1>2, <2>1, <2>2, <2>3
<1>7. u[1] = s[1] /\ u[Len(u)] = t[Len(t)]
  BY <1>2, <1>3
<1>8. Piece(k, u) /\ Uses(f, g, u)
  BY <1>3, <1>4, <1>5, <1>6 DEF Piece, Uses
<1>9. Part(k, f, g, u, a, d)
  BY <1>0, <1>7, <1>8 DEF Part
<1> QED
  BY <1>9 DEF u

LEMMA PartScript ==
  ASSUME NEW k, NEW f, NEW g, NEW s, NEW a, NEW b, Part(k, f, g, s, a, b), LastOf(k, b.do)
  PROVE  /\ s # <<>> /\ Script(k, s) /\ Uses(f, g, s) /\ Head(s) = a
<1>1. s # <<>> /\ s \in Seq(Steps)
  BY DEF Part, Piece
<1>2. Head(s) = s[1]
  BY <1>1
<1> QED
  BY <1>1, <1>2 DEF Part, Script

LEMMA ClosePart ==
  ASSUME NEW k \in {"close", "exec", "exit"}, NEW f, NEW g
  PROVE  Part(k, f, g, file_close, At1("drop", NULL), At1("free", NULL))
<1>1. NULL \in Args
  BY DEF Args
<1>2. \A do \in {"drop", "free"} : StepOf(k, do) /\ Typed(At1(do, NULL)) /\ UsesStep(f, g, At1(do, NULL))
  BY DEF StepOf, Typed, UsesStep, At1
<1>3. Part(k, f, g, Step("drop", NULL), At1("drop", NULL), At1("drop", NULL))
  BY <1>1, <1>2, OnePart
<1>4. Part(k, f, g, Step("free", NULL), At1("free", NULL), At1("free", NULL))
  BY <1>1, <1>2, OnePart
<1>5. Follows(At1("drop", NULL), At1("free", NULL))
  BY DEF Follows, At1
<1> QED
  BY <1>3, <1>4, <1>5, TwoParts DEF file_close

LEMMA OpenPart ==
  ASSUME NEW k \in {"open", "exec"}, NEW f, NEW g, NEW n \in Name
  PROVE  Part(k, f, g, filesys_open(n), At1("find", n), At1("file_open", NULL))
<1>1. NULL \in Args /\ n \in Args
  BY DEF Args
<1>2. /\ \A do \in {"find", "take"} : StepOf(k, do) /\ Typed(At1(do, n)) /\ UsesStep(f, g, At1(do, n))
      /\ StepOf(k, "file_open") /\ Typed(At1("file_open", NULL)) /\ UsesStep(f, g, At1("file_open", NULL))
  BY DEF StepOf, Typed, UsesStep, At1
<1>3. Part(k, f, g, Step("find", n), At1("find", n), At1("find", n))
  BY <1>1, <1>2, OnePart
<1>4. Part(k, f, g, Step("take", n), At1("take", n), At1("take", n))
  BY <1>1, <1>2, OnePart
<1>5. Part(k, f, g, Step("file_open", NULL), At1("file_open", NULL), At1("file_open", NULL))
  BY <1>1, <1>2, OnePart
<1>6. Follows(At1("find", n), At1("take", n)) /\ Follows(At1("take", n), At1("file_open", NULL))
  BY DEF Follows, At1
<1>7. Part(k, f, g, inode_open(n), At1("find", n), At1("take", n))
  BY <1>3, <1>4, <1>6, TwoParts DEF inode_open
<1> QED
  BY <1>5, <1>6, <1>7, TwoParts DEF filesys_open

LEMMA ReopenPart ==
  ASSUME FileTableAssumption, NEW k \in {"dup2", "fork"}, NEW f, NEW g, NEW d \in Fd, f[d] # NULL
  PROVE  Part(k, f, g, file_reopen(d), At1("reopen", d), At1("file_open", NULL))
<1>1. NULL \in Args /\ d \in Args
  BY DEF Args, Fd, FileTableAssumption
<1>2. /\ StepOf(k, "reopen") /\ Typed(At1("reopen", d)) /\ UsesStep(f, g, At1("reopen", d))
      /\ StepOf(k, "file_open") /\ Typed(At1("file_open", NULL)) /\ UsesStep(f, g, At1("file_open", NULL))
  BY DEF StepOf, Typed, UsesStep, At1
<1>3. Part(k, f, g, Step("reopen", d), At1("reopen", d), At1("reopen", d))
  BY <1>1, <1>2, OnePart
<1>4. Part(k, f, g, Step("file_open", NULL), At1("file_open", NULL), At1("file_open", NULL))
  BY <1>1, <1>2, OnePart
<1>5. Follows(At1("reopen", d), At1("file_open", NULL))
  BY DEF Follows, At1
<1> QED
  BY <1>3, <1>4, <1>5, TwoParts DEF file_reopen

(* The calls that a process may begin.                                     *)
LEMMA OpenScript ==
  ASSUME NEW f, NEW g, NEW n \in Name
  PROVE  LET s == open(n) IN s # <<>> /\ Script("open", s) /\ Uses(f, g, s) /\ Head(s) = At1("lock", NULL)
<1>1. NULL \in Args /\ n \in Args
  BY DEF Args
<1>2. /\ StepOf("open", "lock") /\ Typed(At1("lock", NULL)) /\ UsesStep(f, g, At1("lock", NULL))
      /\ StepOf("open", "place") /\ Typed(At1("place", n)) /\ UsesStep(f, g, At1("place", n))
  BY DEF StepOf, Typed, UsesStep, At1
<1>3. Part("open", f, g, Step("lock", NULL), At1("lock", NULL), At1("lock", NULL))
  BY <1>1, <1>2, OnePart
<1>4. Part("open", f, g, Step("place", n), At1("place", n), At1("place", n))
  BY <1>1, <1>2, OnePart
<1>5. Follows(At1("lock", NULL), At1("place", n)) /\ LastOf("open", At1("place", n).do)
  BY DEF Follows, At1, LastOf
<1>6. Part("open", f, g, open(n), At1("lock", NULL), At1("place", n))
  BY <1>3, <1>4, <1>5, TwoParts DEF open
<1> QED
  BY <1>5, <1>6, PartScript

LEMMA LockedScript ==
  ASSUME NEW k \in Locking, NEW f, NEW g, NEW s, NEW a, NEW b, Part(k, f, g, s, a, b),
         a.do \in {"place", "clear", "check", "tell"}, b.do \in {"free", "install", "store", "tell"}
  PROVE  LET t == Locked(s) IN t # <<>> /\ Script(k, t) /\ Uses(f, g, t) /\ Head(t) = At1("lock", NULL)
<1>1. NULL \in Args
  BY DEF Args
<1>2. \A do \in {"lock", "unlock"} : StepOf(k, do) /\ Typed(At1(do, NULL)) /\ UsesStep(f, g, At1(do, NULL))
  BY DEF StepOf, Typed, UsesStep, At1, Locking
<1>3. Part(k, f, g, Step("lock", NULL), At1("lock", NULL), At1("lock", NULL))
  BY <1>1, <1>2, OnePart
<1>4. Part(k, f, g, Step("unlock", NULL), At1("unlock", NULL), At1("unlock", NULL))
  BY <1>1, <1>2, OnePart
<1>5. /\ Follows(At1("lock", NULL), a) /\ Follows(b, At1("unlock", NULL))
      /\ LastOf(k, At1("unlock", NULL).do)
  BY DEF Follows, At1, LastOf
<1>6. Part(k, f, g, Step("lock", NULL) \o s, At1("lock", NULL), b)
  BY <1>3, <1>5, TwoParts
<1>7. Part(k, f, g, Locked(s), At1("lock", NULL), At1("unlock", NULL))
  BY <1>4, <1>5, <1>6, TwoParts DEF Locked
<1> QED
  BY <1>5, <1>7, PartScript


LEMMA CloseScript ==
  ASSUME FileTableAssumption, NEW f, NEW g, NEW d \in Fd, f[d] # NULL
  PROVE  LET s == close(d) IN s # <<>> /\ Script("close", s) /\ Uses(f, g, s) /\ Head(s) = At1("lock", NULL)
<1>1. d \in Args
  BY DEF Args, Fd, FileTableAssumption
<1>2. StepOf("close", "clear") /\ Typed(At1("clear", d)) /\ UsesStep(f, g, At1("clear", d))
  BY DEF StepOf, Typed, UsesStep, At1
<1>3. Part("close", f, g, Step("clear", d), At1("clear", d), At1("clear", d))
  BY <1>1, <1>2, OnePart
<1>4. Part("close", f, g, file_close, At1("drop", NULL), At1("free", NULL))
  BY ClosePart
<1>5. Follows(At1("clear", d), At1("drop", NULL))
  BY DEF Follows, At1
<1>6. Part("close", f, g, Step("clear", d) \o file_close, At1("clear", d), At1("free", NULL))
  BY <1>3, <1>4, <1>5, TwoParts
<1>7. /\ "close" \in Locking
      /\ At1("clear", d).do \in {"place", "clear", "check", "tell"}
      /\ At1("free", NULL).do \in {"free", "install", "store", "tell"}
  BY DEF Locking, At1
<1> QED
  BY <1>6, <1>7, LockedScript DEF close

LEMMA WriteScript ==
  ASSUME FileTableAssumption, NEW f, NEW g, NEW d \in Fd, f[d] # NULL
  PROVE  LET s == write(d) IN s # <<>> /\ Script("write", s) /\ Uses(f, g, s) /\ Head(s) = At1("lock", NULL)
<1>1. d \in Args
  BY DEF Args, Fd, FileTableAssumption
<1>2. \A do \in {"check", "store"} : StepOf("write", do) /\ Typed(At1(do, d)) /\ UsesStep(f, g, At1(do, d))
  BY DEF StepOf, Typed, UsesStep, At1
<1>3. Part("write", f, g, Step("check", d), At1("check", d), At1("check", d))
  BY <1>1, <1>2, OnePart
<1>4. Part("write", f, g, Step("store", d), At1("store", d), At1("store", d))
  BY <1>1, <1>2, OnePart
<1>5. Follows(At1("check", d), At1("store", d))
  BY DEF Follows, At1
<1>6. Part("write", f, g, Step("check", d) \o Step("store", d), At1("check", d), At1("store", d))
  BY <1>3, <1>4, <1>5, TwoParts
<1>7. /\ "write" \in Locking
      /\ At1("check", d).do \in {"place", "clear", "check", "tell"}
      /\ At1("store", d).do \in {"free", "install", "store", "tell"}
  BY DEF Locking, At1
<1> QED
  BY <1>6, <1>7, LockedScript DEF write

LEMMA TellScript ==
  ASSUME FileTableAssumption, NEW f, NEW g, NEW d \in Fd
  PROVE  LET s == tell(d) IN s # <<>> /\ Script("tell", s) /\ Uses(f, g, s) /\ Head(s) = At1("lock", NULL)
<1>1. d \in Args
  BY DEF Args, Fd, FileTableAssumption
<1>2. StepOf("tell", "tell") /\ Typed(At1("tell", d)) /\ UsesStep(f, g, At1("tell", d))
  BY DEF StepOf, Typed, UsesStep, At1
<1>3. Part("tell", f, g, Step("tell", d), At1("tell", d), At1("tell", d))
  BY <1>1, <1>2, OnePart
<1>7. /\ "tell" \in Locking
      /\ At1("tell", d).do \in {"place", "clear", "check", "tell"}
      /\ At1("tell", d).do \in {"free", "install", "store", "tell"}
  BY DEF Locking, At1
<1> QED
  BY <1>3, <1>7, LockedScript DEF tell

LEMMA Dup2Script ==
  ASSUME FileTableAssumption, NEW f, NEW g, NEW old \in Fd, NEW new \in Fd, f[old] # NULL
  PROVE  LET s == dup2(old, new) IN s # <<>> /\ Script("dup2", s) /\ Uses(f, g, s) /\ Head(s) = At1("reopen", old)
<1>1. old \in Args /\ new \in Args
  BY DEF Args, Fd, FileTableAssumption
<1>2. /\ StepOf("dup2", "dup_deny") /\ Typed(At1("dup_deny", old)) /\ UsesStep(f, g, At1("dup_deny", old))
      /\ StepOf("dup2", "point") /\ Typed(At1("point", new)) /\ UsesStep(f, g, At1("point", new))
  BY DEF StepOf, Typed, UsesStep, At1
<1>3. Part("dup2", f, g, Step("dup_deny", old), At1("dup_deny", old), At1("dup_deny", old))
  BY <1>1, <1>2, OnePart
<1>4. Part("dup2", f, g, Step("point", new), At1("point", new), At1("point", new))
  BY <1>1, <1>2, OnePart
<1>5. Part("dup2", f, g, file_reopen(old), At1("reopen", old), At1("file_open", NULL))
  BY ReopenPart
<1>6. /\ Follows(At1("file_open", NULL), At1("dup_deny", old)) /\ Follows(At1("dup_deny", old), At1("point", new))
      /\ LastOf("dup2", At1("point", new).do)
  BY DEF Follows, At1, LastOf
<1>7. Part("dup2", f, g, file_reopen(old) \o Step("dup_deny", old), At1("reopen", old), At1("dup_deny", old))
  BY <1>3, <1>5, <1>6, TwoParts
<1>8. Part("dup2", f, g, dup2(old, new), At1("reopen", old), At1("point", new))
  BY <1>4, <1>6, <1>7, TwoParts DEF dup2
<1> QED
  BY <1>6, <1>8, PartScript

LEMMA ForkScript ==
  ASSUME FileTableAssumption, NEW f, NEW g, NEW q \in Proc
  PROVE  LET s == fork(q)
         IN  s # <<>> /\ Script("fork", s) /\ Uses(f, g, s) /\ Head(s) = At1("copy", [child |-> q, fd |-> 1])
<1> DEFINE x == [child |-> q, fd |-> 1]
<1>1. x \in Args /\ x \in [child : Proc, fd : 1 .. Fds + 1]
  BY DEF Args, FileTableAssumption
<1> HIDE DEF x
<1>2. /\ StepOf("fork", "copy") /\ Typed(At1("copy", x)) /\ UsesStep(f, g, At1("copy", x))
      /\ LastOf("fork", At1("copy", x).do)
  BY <1>1 DEF StepOf, Typed, UsesStep, At1, LastOf
<1>3. Part("fork", f, g, Step("copy", x), At1("copy", x), At1("copy", x))
  BY <1>1, <1>2, OnePart
<1> QED
  BY <1>2, <1>3, PartScript DEF fork, x

LEMMA ExitScript ==
  ASSUME FileTableAssumption, NEW f, NEW g
  PROVE  LET s == exit IN s # <<>> /\ Script("exit", s) /\ Uses(f, g, s) /\ Head(s) = At1("shut", 1)
<1>1. 1 \in Args /\ 1 \in 1 .. Fds + 1
  BY DEF Args, FileTableAssumption
<1>2. /\ StepOf("exit", "shut") /\ Typed(At1("shut", 1)) /\ UsesStep(f, g, At1("shut", 1))
      /\ LastOf("exit", At1("shut", 1).do)
  BY <1>1 DEF StepOf, Typed, UsesStep, At1, LastOf
<1>3. Part("exit", f, g, Step("shut", 1), At1("shut", 1), At1("shut", 1))
  BY <1>1, <1>2, OnePart
<1> QED
  BY <1>2, <1>3, PartScript DEF exit


LEMMA ExecScript ==
  ASSUME NEW f, NEW g, NEW n \in Name, NEW loads \in BOOLEAN
  PROVE  LET s == exec(n, loads)
         IN  s # <<>> /\ Script("exec", s) /\ Uses(f, g, s) /\ Head(s) = At1("find", n)
<1>1. NULL \in Args /\ n \in Args
  BY DEF Args
<1>2. /\ StepOf("exec", "deny") /\ Typed(At1("deny", NULL)) /\ UsesStep(f, g, At1("deny", NULL))
      /\ StepOf("exec", "map") /\ Typed(At1("map", n)) /\ UsesStep(f, g, At1("map", n))
      /\ StepOf("exec", "exit") /\ Typed(At1("exit", NULL)) /\ UsesStep(f, g, At1("exit", NULL))
  BY DEF StepOf, Typed, UsesStep, At1
<1>3. /\ Follows(At1("file_open", NULL), At1("deny", NULL)) /\ Follows(At1("deny", NULL), At1("find", n))
      /\ Follows(At1("file_open", NULL), At1("map", n)) /\ Follows(At1("map", n), At1("drop", NULL))
      /\ Follows(At1("file_open", NULL), At1("drop", NULL)) /\ Follows(At1("free", NULL), At1("exit", NULL))
      /\ LastOf("exec", At1("free", NULL).do) /\ LastOf("exec", At1("exit", NULL).do)
  BY DEF Follows, At1, LastOf
<1>4. Part("exec", f, g, Step("deny", NULL), At1("deny", NULL), At1("deny", NULL))
  BY <1>1, <1>2, OnePart
<1>5. Part("exec", f, g, Step("map", n), At1("map", n), At1("map", n))
  BY <1>1, <1>2, OnePart
<1>6. Part("exec", f, g, Step("exit", NULL), At1("exit", NULL), At1("exit", NULL))
  BY <1>1, <1>2, OnePart
<1>7. Part("exec", f, g, filesys_open(n), At1("find", n), At1("file_open", NULL))
  BY OpenPart
<1>8. Part("exec", f, g, file_close, At1("drop", NULL), At1("free", NULL))
  BY ClosePart
<1> DEFINE open2 == filesys_open(n) \o Step("deny", NULL) \o filesys_open(n)
<1>9. Part("exec", f, g, filesys_open(n) \o Step("deny", NULL), At1("find", n), At1("deny", NULL))
  BY <1>3, <1>4, <1>7, TwoParts
<1>10. Part("exec", f, g, open2, At1("find", n), At1("file_open", NULL))
  BY <1>3, <1>7, <1>9, TwoParts
<1> HIDE DEF open2
<1>11. CASE loads
  <2>1. Part("exec", f, g, Step("map", n) \o file_close, At1("map", n), At1("free", NULL))
    BY <1>3, <1>5, <1>8, TwoParts
  <2>2. Part("exec", f, g, open2 \o (Step("map", n) \o file_close), At1("find", n), At1("free", NULL))
    BY <1>3, <1>10, <2>1, TwoParts
  <2>3. exec(n, loads) = open2 \o (Step("map", n) \o file_close)
    BY <1>11 DEF exec, open2
  <2> QED
    BY <1>3, <2>2, <2>3, PartScript
<1>12. CASE ~loads
  <2>1. Part("exec", f, g, file_close \o Step("exit", NULL), At1("drop", NULL), At1("exit", NULL))
    BY <1>3, <1>6, <1>8, TwoParts
  <2>2. Part("exec", f, g, open2 \o (file_close \o Step("exit", NULL)), At1("find", n), At1("exit", NULL))
    BY <1>3, <1>10, <2>1, TwoParts
  <2>3. exec(n, loads) = open2 \o (file_close \o Step("exit", NULL))
    BY <1>12 DEF exec, open2
  <2> QED
    BY <1>3, <2>2, <2>3, PartScript
<1> QED
  BY <1>11, <1>12

(* How the scripts go on that look at the descriptors first.               *)
LEMMA UnlockScript ==
  ASSUME NEW k \in Locking, NEW f, NEW g
  PROVE  LET s == Step("unlock", NULL)
         IN  s # <<>> /\ Script(k, s) /\ Uses(f, g, s) /\ Head(s) = At1("unlock", NULL)
<1>1. NULL \in Args
  BY DEF Args
<1>2. /\ StepOf(k, "unlock") /\ Typed(At1("unlock", NULL)) /\ UsesStep(f, g, At1("unlock", NULL))
      /\ LastOf(k, At1("unlock", NULL).do)
  BY DEF StepOf, Typed, UsesStep, At1, LastOf, Locking
<1>3. Part(k, f, g, Step("unlock", NULL), At1("unlock", NULL), At1("unlock", NULL))
  BY <1>1, <1>2, OnePart
<1> QED
  BY <1>2, <1>3, PartScript

LEMMA PlaceScript ==
  ASSUME FileTableAssumption, NEW f, NEW g, NEW n \in Name, NEW d \in Fd
  PROVE  LET s == filesys_open(n) \o Step("install", d) \o Step("unlock", NULL)
         IN  s # <<>> /\ Script("open", s) /\ Uses(f, g, s) /\ Head(s) = At1("find", n)
<1>1. NULL \in Args /\ d \in Args
  BY DEF Args, Fd, FileTableAssumption
<1>2. /\ StepOf("open", "install") /\ Typed(At1("install", d)) /\ UsesStep(f, g, At1("install", d))
      /\ StepOf("open", "unlock") /\ Typed(At1("unlock", NULL)) /\ UsesStep(f, g, At1("unlock", NULL))
  BY DEF StepOf, Typed, UsesStep, At1
<1>3. /\ Follows(At1("file_open", NULL), At1("install", d)) /\ Follows(At1("install", d), At1("unlock", NULL))
      /\ LastOf("open", At1("unlock", NULL).do)
  BY DEF Follows, At1, LastOf, Locking
<1>4. Part("open", f, g, Step("install", d), At1("install", d), At1("install", d))
  BY <1>1, <1>2, OnePart
<1>5. Part("open", f, g, Step("unlock", NULL), At1("unlock", NULL), At1("unlock", NULL))
  BY <1>1, <1>2, OnePart
<1>6. Part("open", f, g, filesys_open(n), At1("find", n), At1("file_open", NULL))
  BY OpenPart
<1>7. Part("open", f, g, filesys_open(n) \o Step("install", d), At1("find", n), At1("install", d))
  BY <1>3, <1>4, <1>6, TwoParts
<1>8. Part("open", f, g, filesys_open(n) \o Step("install", d) \o Step("unlock", NULL),
           At1("find", n), At1("unlock", NULL))
  BY <1>3, <1>5, <1>7, TwoParts
<1> QED
  BY <1>3, <1>8, PartScript

LEMMA CopyScript ==
  ASSUME FileTableAssumption, NEW f, NEW g, NEW q \in Proc, NEW d \in 1 .. Fds + 1
  PROVE  /\ LET s == Step("start", q)
            IN  s # <<>> /\ Script("fork", s) /\ Uses(f, g, s) /\ Head(s) = At1("start", q)
         /\ d <= Fds =>
              LET s == Step("copy", [child |-> q, fd |-> d + 1])
              IN  /\ s # <<>> /\ Script("fork", s) /\ Uses(f, g, s)
                  /\ Head(s) = At1("copy", [child |-> q, fd |-> d + 1])
<1>1. q \in Args
  BY DEF Args
<1>2. /\ StepOf("fork", "start") /\ Typed(At1("start", q)) /\ UsesStep(f, g, At1("start", q))
      /\ LastOf("fork", At1("start", q).do)
  BY DEF StepOf, Typed, UsesStep, At1, LastOf
<1>3. Part("fork", f, g, Step("start", q), At1("start", q), At1("start", q))
  BY <1>1, <1>2, OnePart
<1> DEFINE y == [child |-> q, fd |-> d + 1]
<1>4. d <= Fds => y \in Args /\ y \in [child : Proc, fd : 1 .. Fds + 1]
  BY DEF Args, FileTableAssumption
<1> HIDE DEF y
<1>5. ASSUME d <= Fds
      PROVE  Step("copy", y) # <<>> /\ Script("fork", Step("copy", y)) /\ Uses(f, g, Step("copy", y))
             /\ Head(Step("copy", y)) = At1("copy", y)
  <2>1. /\ StepOf("fork", "copy") /\ Typed(At1("copy", y)) /\ UsesStep(f, g, At1("copy", y))
        /\ LastOf("fork", At1("copy", y).do)
    BY <1>4, <1>5 DEF StepOf, Typed, UsesStep, At1, LastOf
  <2> QED
    BY <1>4, <1>5, <2>1, OnePart, PartScript
<1> QED
  BY <1>2, <1>3, <1>5, PartScript DEF y

LEMMA InheritScript ==
  ASSUME FileTableAssumption, NEW f, NEW g, NEW d \in Fd, f[d] # NULL,
         NEW x \in [child : Proc, fd : Fd], x.fd = d, NEW y \in [child : Proc, fd : 1 .. Fds + 1]
  PROVE  LET s == file_reopen(d) \o Step("inherit", x) \o Step("copy", y)
         IN  s # <<>> /\ Script("fork", s) /\ Uses(f, g, s) /\ Head(s) = At1("reopen", d)
<1> DEFINE s == file_reopen(d) \o Step("inherit", x) \o Step("copy", y)
<1>1. d \in Args /\ x \in Args /\ y \in Args
  BY DEF Args, Fd, FileTableAssumption
<1>2. /\ StepOf("fork", "copy") /\ Typed(At1("copy", y)) /\ UsesStep(f, g, At1("copy", y))
      /\ LastOf("fork", At1("copy", y).do)
  BY <1>1 DEF StepOf, Typed, UsesStep, At1, LastOf
<1>3. StepOf("fork", "inherit") /\ Typed(At1("inherit", x)) /\ UsesStep(f, g, At1("inherit", x))
  BY <1>1 DEF StepOf, Typed, UsesStep, At1
<1>4. /\ Part("fork", f, g, Step("copy", y), At1("copy", y), At1("copy", y))
      /\ Part("fork", f, g, Step("inherit", x), At1("inherit", x), At1("inherit", x))
  BY <1>1, <1>2, <1>3, OnePart
<1>5. Part("fork", f, g, file_reopen(d), At1("reopen", d), At1("file_open", NULL))
  BY ReopenPart
<1>6. Follows(At1("file_open", NULL), At1("inherit", x)) /\ Follows(At1("inherit", x), At1("copy", y))
  BY DEF Follows, At1
<1>7. Part("fork", f, g, file_reopen(d) \o Step("inherit", x), At1("reopen", d), At1("inherit", x))
  BY <1>4, <1>5, <1>6, TwoParts
<1>8. Part("fork", f, g, s, At1("reopen", d), At1("copy", y))
  BY <1>4, <1>6, <1>7, TwoParts
<1> QED
  BY <1>2, <1>8, PartScript

LEMMA ShutScript ==
  ASSUME FileTableAssumption, NEW f, NEW g, NEW d \in 1 .. Fds + 1
  PROVE  /\ d <= Fds =>
              LET s == Step("shut", d + 1)
              IN  s # <<>> /\ Script("exit", s) /\ Uses(f, g, s) /\ Head(s) = At1("shut", d + 1)
         /\ d <= Fds /\ f[d] # NULL =>
              LET s == Step("clear", d) \o file_close \o Step("shut", d + 1)
              IN  s # <<>> /\ Script("exit", s) /\ Uses(f, g, s) /\ Head(s) = At1("clear", d)
         /\ LET s == Step("gone", NULL)
            IN  s # <<>> /\ Script("exit", s) /\ Uses(f, g, s) /\ Head(s) = At1("gone", NULL)
         /\ g # NULL =>
              LET s == Step("clear_program", NULL) \o file_close \o Step("gone", NULL)
              IN  s # <<>> /\ Script("exit", s) /\ Uses(f, g, s) /\ Head(s) = At1("clear_program", NULL)
<1>1. NULL \in Args
  BY DEF Args
<1>2. Part("exit", f, g, file_close, At1("drop", NULL), At1("free", NULL))
  BY ClosePart
<1>3. /\ StepOf("exit", "gone") /\ Typed(At1("gone", NULL)) /\ UsesStep(f, g, At1("gone", NULL))
      /\ LastOf("exit", At1("gone", NULL).do)
  BY DEF StepOf, Typed, UsesStep, At1, LastOf
<1>4. Part("exit", f, g, Step("gone", NULL), At1("gone", NULL), At1("gone", NULL))
  BY <1>1, <1>3, OnePart
<1>5. ASSUME d <= Fds
      PROVE  /\ Part("exit", f, g, Step("shut", d + 1), At1("shut", d + 1), At1("shut", d + 1))
             /\ LastOf("exit", At1("shut", d + 1).do)
  <2>1. d + 1 \in Args /\ d + 1 \in 1 .. Fds + 1
    BY <1>5 DEF Args, FileTableAssumption
  <2>2. /\ StepOf("exit", "shut") /\ Typed(At1("shut", d + 1)) /\ UsesStep(f, g, At1("shut", d + 1))
        /\ LastOf("exit", At1("shut", d + 1).do)
    BY <2>1 DEF StepOf, Typed, UsesStep, At1, LastOf
  <2> QED
    BY <2>1, <2>2, OnePart
<1>6. ASSUME d <= Fds, f[d] # NULL
      PROVE  Part("exit", f, g, Step("clear", d) \o file_close \o Step("shut", d + 1),
                  At1("clear", d), At1("shut", d + 1))
  <2>1. d \in Args /\ d \in Fd
    BY <1>6 DEF Args, Fd, FileTableAssumption
  <2>2. StepOf("exit", "clear") /\ Typed(At1("clear", d)) /\ UsesStep(f, g, At1("clear", d))
    BY <1>6, <2>1 DEF StepOf, Typed, UsesStep, At1
  <2>3. Part("exit", f, g, Step("clear", d), At1("clear", d), At1("clear", d))
    BY <2>1, <2>2, OnePart
  <2>4. Follows(At1("clear", d), At1("drop", NULL)) /\ Follows(At1("free", NULL), At1("shut", d + 1))
    BY DEF Follows, At1
  <2>5. Part("exit", f, g, Step("clear", d) \o file_close, At1("clear", d), At1("free", NULL))
    BY <1>2, <2>3, <2>4, TwoParts
  <2> QED
    BY <1>5, <1>6, <2>4, <2>5, TwoParts
<1>7. ASSUME g # NULL
      PROVE  Part("exit", f, g, Step("clear_program", NULL) \o file_close \o Step("gone", NULL),
                  At1("clear_program", NULL), At1("gone", NULL))
  <2>1. /\ StepOf("exit", "clear_program") /\ Typed(At1("clear_program", NULL))
        /\ UsesStep(f, g, At1("clear_program", NULL))
    BY <1>7 DEF StepOf, Typed, UsesStep, At1
  <2>2. Part("exit", f, g, Step("clear_program", NULL), At1("clear_program", NULL), At1("clear_program", NULL))
    BY <1>1, <2>1, OnePart
  <2>3. Follows(At1("clear_program", NULL), At1("drop", NULL)) /\ Follows(At1("free", NULL), At1("gone", NULL))
    BY DEF Follows, At1
  <2>4. Part("exit", f, g, Step("clear_program", NULL) \o file_close, At1("clear_program", NULL), At1("free", NULL))
    BY <1>2, <2>2, <2>3, TwoParts
  <2> QED
    BY <1>4, <2>3, <2>4, TwoParts
<1>8. d <= Fds => /\ Step("shut", d + 1) # <<>> /\ Script("exit", Step("shut", d + 1))
                  /\ Uses(f, g, Step("shut", d + 1)) /\ Head(Step("shut", d + 1)) = At1("shut", d + 1)
  BY <1>5, PartScript
<1>9. d <= Fds /\ f[d] # NULL =>
        LET s == Step("clear", d) \o file_close \o Step("shut", d + 1)
        IN  s # <<>> /\ Script("exit", s) /\ Uses(f, g, s) /\ Head(s) = At1("clear", d)
  BY <1>5, <1>6, PartScript
<1>10. g # NULL =>
         LET s == Step("clear_program", NULL) \o file_close \o Step("gone", NULL)
         IN  s # <<>> /\ Script("exit", s) /\ Uses(f, g, s) /\ Head(s) = At1("clear_program", NULL)
  BY <1>3, <1>7, PartScript
<1> QED
  BY <1>3, <1>4, <1>8, <1>9, <1>10, PartScript


-----------------------------------------------------------------------------
(* The steps of a script.                                                  *)
StepsOf(s) == {s[i] : i \in 1 .. Len(s)}

LEMMA StepsTail ==
  ASSUME NEW s \in Seq(Steps), s # <<>>
  PROVE  StepsOf(s) = {Head(s)} \cup StepsOf(Tail(s))
<1>1. Tail(s) \in Seq(Steps) /\ Len(Tail(s)) = Len(s) - 1 /\ Len(s) \in Nat \ {0} /\ Head(s) = s[1]
  BY HeadTailProperties, EmptySeq, LenProperties
<1>2. \A i \in 1 .. Len(s) - 1 : Tail(s)[i] = s[i + 1]
  BY HeadTailProperties
<1>3. \A i \in 1 .. Len(s) : i = 1 \/ (i - 1 \in 1 .. Len(s) - 1 /\ Tail(s)[i - 1] = s[i])
  BY <1>1, <1>2
<1>4. \A i \in 1 .. Len(s) - 1 : i + 1 \in 1 .. Len(s)
  BY <1>1
<1>5. ASSUME NEW x \in StepsOf(s) PROVE x \in {Head(s)} \cup StepsOf(Tail(s))
  <2>1. PICK i \in 1 .. Len(s) : x = s[i]
    BY DEF StepsOf
  <2>2. CASE i = 1
    BY <1>1, <2>1, <2>2
  <2>3. CASE i # 1
    <3>1. i - 1 \in 1 .. Len(Tail(s)) /\ Tail(s)[i - 1] = x
      BY <1>1, <1>3, <2>1, <2>3
    <3> QED
      BY <3>1 DEF StepsOf
  <2> QED
    BY <2>2, <2>3
<1>6. ASSUME NEW x \in StepsOf(Tail(s)) PROVE x \in StepsOf(s)
  <2>1. PICK i \in 1 .. Len(s) - 1 : x = Tail(s)[i]
    BY <1>1 DEF StepsOf
  <2> QED
    BY <1>2, <1>4, <2>1 DEF StepsOf
<1>7. Head(s) \in StepsOf(s)
  <2>1. 1 \in 1 .. Len(s)
    BY <1>1
  <2> QED
    BY <1>1, <2>1 DEF StepsOf
<1> QED
  BY <1>5, <1>6, <1>7

LEMMA StepsNone == StepsOf(<<>>) = {}
<1>1. 1 .. Len(<<>>) = {}
  OBVIOUS
<1> QED
  BY <1>1 DEF StepsOf

LEMMA StepsOne ==
  ASSUME NEW do, NEW x
  PROVE  StepsOf(Step(do, x)) = {[do |-> do, arg |-> x]}
<1>1. 1 .. Len(Step(do, x)) = {1} /\ Step(do, x)[1] = [do |-> do, arg |-> x]
  BY DEF Step
<1> QED
  BY <1>1 DEF StepsOf

LEMMA StepsConcat ==
  ASSUME NEW S, NEW s \in Seq(S), NEW t \in Seq(S)
  PROVE  s \o t \in Seq(S) /\ StepsOf(s \o t) = StepsOf(s) \cup StepsOf(t)
<1>1. /\ s \o t \in Seq(S) /\ Len(s \o t) = Len(s) + Len(t) /\ Len(s) \in Nat /\ Len(t) \in Nat
      /\ \A i \in 1 .. Len(s) + Len(t) : (s \o t)[i] = IF i <= Len(s) THEN s[i] ELSE t[i - Len(s)]
  BY ConcatProperties, LenProperties
<1>2. \A i \in 1 .. Len(s) : i \in 1 .. Len(s \o t) /\ (s \o t)[i] = s[i]
  BY <1>1
<1>3. \A i \in 1 .. Len(t) : Len(s) + i \in 1 .. Len(s \o t) /\ (s \o t)[Len(s) + i] = t[i]
  BY <1>1
<1>4. \A i \in 1 .. Len(s \o t) :
        \/ i \in 1 .. Len(s) /\ (s \o t)[i] = s[i]
        \/ i - Len(s) \in 1 .. Len(t) /\ (s \o t)[i] = t[i - Len(s)]
  BY <1>1
<1>5. ASSUME NEW x \in StepsOf(s \o t) PROVE x \in StepsOf(s) \cup StepsOf(t)
  <2>1. PICK i \in 1 .. Len(s \o t) : x = (s \o t)[i]
    BY <1>5 DEF StepsOf
  <2> QED
    BY <1>4, <2>1 DEF StepsOf
<1>6. ASSUME NEW x \in StepsOf(s) PROVE x \in StepsOf(s \o t)
  <2>1. PICK i \in 1 .. Len(s) : x = s[i]
    BY <1>6 DEF StepsOf
  <2> QED
    BY <1>2, <2>1 DEF StepsOf
<1>7. ASSUME NEW x \in StepsOf(t) PROVE x \in StepsOf(s \o t)
  <2>1. PICK i \in 1 .. Len(t) : x = t[i]
    BY <1>7 DEF StepsOf
  <2> QED
    BY <1>3, <2>1 DEF StepsOf
<1> QED
  BY <1>1, <1>5, <1>6, <1>7

LEMMA StepSeq ==
  ASSUME NEW do \in Dos, NEW x \in Args
  PROVE  Step(do, x) \in Seq(Steps)
BY DEF Step, Steps

(* What fork does is about one child.                                      *)
ForChild(q, s) ==
  \A x \in StepsOf(s) :
    /\ x.do \in {"copy", "inherit"} => x.arg.child = q
    /\ x.do = "start" => x.arg = q

LEMMA CopySteps ==
  ASSUME FileTableAssumption, NEW q \in Proc, NEW d \in 1 .. Fds + 1
  PROVE  /\ ForChild(q, Step("start", q))
         /\ d <= Fds => LET next == Step("copy", [child |-> q, fd |-> d + 1])
                       IN  /\ ForChild(q, next)
                           /\ ForChild(q, file_reopen(d) \o Step("inherit", [child |-> q, fd |-> d]) \o next)
<1>1. ForChild(q, Step("start", q))
  BY StepsOne DEF ForChild
<1> SUFFICES ASSUME d <= Fds
             PROVE  LET next == Step("copy", [child |-> q, fd |-> d + 1])
                    IN  /\ ForChild(q, next)
                        /\ ForChild(q, file_reopen(d) \o Step("inherit", [child |-> q, fd |-> d]) \o next)
  BY <1>1
<1> DEFINE y == [child |-> q, fd |-> d + 1]
           x == [child |-> q, fd |-> d]
           next == Step("copy", y)
           this == Step("inherit", x)
           a == Step("reopen", d)
           b == Step("file_open", NULL)
<1>2. d \in Args /\ NULL \in Args /\ x \in Args /\ y \in Args /\ x.child = q /\ y.child = q
  BY DEF Args, FileTableAssumption
<1> HIDE DEF x, y
<1>3. /\ a \in Seq(Steps) /\ b \in Seq(Steps) /\ this \in Seq(Steps) /\ next \in Seq(Steps)
      /\ ForChild(q, a) /\ ForChild(q, b) /\ ForChild(q, this) /\ ForChild(q, next)
  <2>1. ASSUME NEW do \in {"reopen", "file_open", "inherit", "copy"}, NEW z \in Args,
               do \in {"inherit", "copy"} => z.child = q
        PROVE  Step(do, z) \in Seq(Steps) /\ ForChild(q, Step(do, z))
    <3>1. Step(do, z) \in Seq(Steps)
      BY StepSeq DEF Dos
    <3> QED
      BY <2>1, <3>1, StepsOne DEF ForChild
  <2> QED
    BY <1>2, <2>1
<1> HIDE DEF a, b, this, next
<1>4. ASSUME NEW s \in Seq(Steps), NEW t \in Seq(Steps), ForChild(q, s), ForChild(q, t)
      PROVE  s \o t \in Seq(Steps) /\ ForChild(q, s \o t)
  BY <1>4, StepsConcat DEF ForChild
<1>5. a \o b \in Seq(Steps) /\ ForChild(q, a \o b)
  BY <1>3, <1>4
<1>6. a \o b \o this \in Seq(Steps) /\ ForChild(q, a \o b \o this)
  BY <1>3, <1>4, <1>5
<1>7. ForChild(q, a \o b \o this \o next)
  BY <1>3, <1>4, <1>6
<1>8. file_reopen(d) = a \o b
  BY DEF file_reopen, a, b
<1> QED
  BY <1>3, <1>7, <1>8 DEF x, y, next, this

-----------------------------------------------------------------------------
(* How a step changes the calls.                                           *)
LEMMA InCall ==
  ASSUME CallInv, NEW p \in Proc, Doing(p) # "nothing"
  PROVE  /\ todo[p] # <<>> /\ call[p] \in Kind /\ Script(call[p], todo[p])
         /\ Head(todo[p]) = todo[p][1] /\ Len(todo[p]) \in Nat \ {0}
         /\ Doing(p) = Head(todo[p]).do /\ Arg(p) = Head(todo[p]).arg
         /\ StepOf(call[p], Doing(p)) /\ Typed(Head(todo[p]))
         /\ Head(todo[p]) \in Steps
<1>1. todo[p] # <<>> /\ Doing(p) = Head(todo[p]).do
  BY DEF Doing
<1>2. call[p] \in Kind /\ Script(call[p], todo[p])
  BY <1>1 DEF CallInv
<1> QED
  BY <1>1, <1>2, ScriptTail DEF Arg

(* The other processes go on as before.                                    *)
Others(p) ==
  \A q \in Proc \ {p} :
    /\ todo'[q] = todo[q] /\ call'[q] = call[q]
    /\ Doing(q)' = Doing(q) /\ Arg(q)' = Arg(q)

(* A process is to take the steps s next, or has ended its call.           *)
Goes(p, s) ==
  /\ todo'[p] = s
  /\ call'[p] = (IF s = <<>> THEN NULL ELSE call[p])
  /\ Doing(p)' = (IF s = <<>> THEN "nothing" ELSE Head(s).do)
  /\ Arg(p)' = Head(s).arg
  /\ call' \in [Proc -> Kind \cup {NULL}] /\ DOMAIN todo' = Proc

LEMMA ThenGoes ==
  ASSUME TypeInv, NEW p \in Proc, NEW s, Then(p, s)
  PROVE  Others(p) /\ Goes(p, s)
<1>1. /\ DOMAIN todo = Proc /\ DOMAIN call = Proc /\ call \in [Proc -> Kind \cup {NULL}]
  BY DEF TypeInv
<1>2. /\ todo' = [todo EXCEPT ![p] = s]
      /\ call' = IF s = <<>> THEN [call EXCEPT ![p] = NULL] ELSE call
  BY DEF Then
<1>3. /\ DOMAIN todo' = Proc /\ todo'[p] = s /\ \A q \in Proc \ {p} : todo'[q] = todo[q]
      /\ call' \in [Proc -> Kind \cup {NULL}]
      /\ call'[p] = (IF s = <<>> THEN NULL ELSE call[p])
      /\ \A q \in Proc \ {p} : call'[q] = call[q]
  BY <1>1, <1>2
<1> QED
  BY <1>3 DEF Others, Goes, Doing, Arg

LEMMA GoesCalls ==
  ASSUME FileTableAssumption, CallInv, AloneInv, NEW p \in Proc, call[p] \in Kind, NEW s,
         Others(p), Goes(p, s), s = <<>> \/ Script(call[p], s)
  PROVE  CallInv' /\ AloneInv'
<1>1. CallInv'
  <2> SUFFICES ASSUME NEW q \in Proc
               PROVE  \/ call'[q] = NULL /\ todo'[q] = <<>>
                      \/ call'[q] \in Kind /\ Script(call'[q], todo'[q])
    BY DEF CallInv
  <2>1. CASE q = p
    <3>1. CASE s = <<>>
      BY <2>1, <3>1 DEF Goes
    <3>2. CASE s # <<>>
      BY <2>1, <3>2 DEF Goes
    <3> QED
      BY <3>1, <3>2
  <2>2. CASE q # p
    BY <2>2 DEF Others, CallInv
  <2> QED
    BY <2>1, <2>2
<1>2. \A q \in Proc : call'[q] \in {call[q], NULL}
  BY DEF Others, Goes
<1>3. NULL \notin UsesList
  BY DEF FileTableAssumption, Kind, UsesList
<1>4. AloneInv'
  <2> SUFFICES ASSUME NEW q \in Proc, NEW r \in Proc, call'[q] \in {"exec", "exit"}, call'[r] \in UsesList
               PROVE  q = r
    BY DEF AloneInv
  <2>1. call[q] \in {"exec", "exit"} /\ call[r] \in UsesList
    BY <1>2, <1>3 DEF UsesList
  <2> QED
    BY <2>1 DEF AloneInv
<1> QED
  BY <1>1, <1>4

LEMMA GoesLock ==
  ASSUME FileTableAssumption, LockInv, NEW p \in Proc, call[p] \in Kind, NEW s,
         Others(p), Goes(p, s), filesys_lock' = filesys_lock, Doing(p) # "lock",
         s = <<>> => call[p] \notin Locking,
         s # <<>> => Head(s).do # "lock"
  PROVE  LockInv'
<1> SUFFICES ASSUME NEW q \in Proc
             PROVE  filesys_lock' = q <=> call'[q] \in Locking /\ Doing(q)' # "lock"
  BY DEF LockInv
<1>1. filesys_lock = q <=> call[q] \in Locking /\ Doing(q) # "lock"
  BY DEF LockInv
<1>2. NULL \notin Locking
  BY DEF FileTableAssumption, Kind, Locking
<1>3. CASE q = p
  BY <1>1, <1>2, <1>3 DEF Goes
<1>4. CASE q # p
  BY <1>1, <1>4 DEF Others
<1> QED
  BY <1>3, <1>4

(* The step that follows in the script.                                    *)
Successor(p) ==
  \/ /\ Doing(p)' = "nothing" /\ todo'[p] = <<>> /\ call'[p] = NULL
     /\ LastOf(call[p], Doing(p))
  \/ /\ Doing(p)' = Head(todo'[p]).do /\ todo'[p] # <<>> /\ call'[p] = call[p]
     /\ Follows(Head(todo[p]), Head(todo'[p])) /\ StepOf(call[p], Doing(p)')

LEMMA Advances ==
  ASSUME FileTableAssumption, TypeInv, ControlInv, NEW p \in Proc, Doing(p) # "nothing", Advance(p)
  PROVE  /\ Others(p) /\ Goes(p, Tail(todo[p])) /\ Successor(p)
         /\ CallInv' /\ AloneInv'
         /\ filesys_lock' = filesys_lock /\ Doing(p) \notin {"lock", "unlock", "place"} => ControlInv'
<1>1. CallInv /\ AloneInv /\ LockInv
  BY DEF ControlInv
<1>2. /\ call[p] \in Kind /\ Script(call[p], todo[p]) /\ Head(todo[p]) = todo[p][1]
      /\ Doing(p) = Head(todo[p]).do /\ StepOf(call[p], Doing(p))
  BY <1>1, InCall
<1> DEFINE t == Tail(todo[p])
<1>3. Others(p) /\ Goes(p, t)
  BY ThenGoes DEF Advance
<1>4. \/ t = <<>> /\ LastOf(call[p], Doing(p))
      \/ t # <<>> /\ Script(call[p], t) /\ Follows(Head(todo[p]), Head(t))
  BY <1>2, ScriptTail
<1> HIDE DEF t
<1>5. t # <<>> => StepOf(call[p], Head(t).do)
  <2>1. ASSUME Script(call[p], t) PROVE StepOf(call[p], Head(t).do)
    BY <2>1, ScriptTail
  <2> QED
    BY <1>4, <2>1
<1>6. Successor(p)
  BY <1>3, <1>4, <1>5 DEF Goes, Successor
<1>7. CallInv' /\ AloneInv'
  BY <1>1, <1>2, <1>3, <1>4, GoesCalls
<1>8. ASSUME filesys_lock' = filesys_lock, Doing(p) \notin {"lock", "unlock", "place"}
      PROVE  LockInv'
  <2>1. t = <<>> => call[p] \notin Locking
    BY <1>4, <1>8 DEF LastOf, Locking
  <2>2. t # <<>> => Head(t).do # "lock"
    BY <1>4 DEF Follows
  <2> QED
    BY <1>1, <1>2, <1>3, <1>8, <2>1, <2>2, GoesLock
<1> QED
  BY <1>1, <1>3, <1>6, <1>7, <1>8 DEF ControlInv, t


-----------------------------------------------------------------------------
(* What points to struct files.                                            *)
LEMMA PointersAre ==
  /\ \A x \in Pointers :
       \/ \E q \in Proc, d \in Fd : x = <<"fd", q, d>>
       \/ \E q \in Proc \cup {Main} : x = <<"program", q>>
       \/ \E q \in Proc : x = <<"pages", q>>
       \/ \E q \in Proc : x = <<"reg", q>>
  /\ \A q \in Proc, d \in Fd : <<"fd", q, d>> \in Pointers
  /\ \A q \in Proc \cup {Main} : <<"program", q>> \in Pointers
  /\ \A q \in Proc : <<"pages", q>> \in Pointers /\ <<"reg", q>> \in Pointers
BY DEF Pointers

LEMMA FileAtIs ==
  /\ \A q, d : FileAt(<<"fd", q, d>>) = fds[q][d] /\ FileAt(<<"fd", q, d>>)' = fds'[q][d]
  /\ \A q : FileAt(<<"program", q>>) = program[q] /\ FileAt(<<"program", q>>)' = program'[q]
  /\ \A q : FileAt(<<"pages", q>>) = pages[q] /\ FileAt(<<"pages", q>>)' = pages'[q]
  /\ \A q : FileAt(<<"reg", q>>) = reg[q].file /\ FileAt(<<"reg", q>>)' = reg'[q].file
BY DEF FileAt

LEMMA PointersTyped ==
  ASSUME TypeInv
  PROVE  \A x \in Pointers : FileAt(x) # NULL => FileAt(x) \in FileObj
<1> SUFFICES ASSUME NEW x \in Pointers PROVE FileAt(x) \in FileObj \cup {NULL}
  OBVIOUS
<1>1. CASE \E q \in Proc, d \in Fd : x = <<"fd", q, d>>
  BY <1>1, FileAtIs DEF TypeInv
<1>2. CASE \E q \in Proc \cup {Main} : x = <<"program", q>>
  BY <1>2, FileAtIs DEF TypeInv
<1>3. CASE \E q \in Proc : x = <<"pages", q>>
  BY <1>3, FileAtIs DEF TypeInv
<1>4. CASE \E q \in Proc : x = <<"reg", q>>
  BY <1>4, FileAtIs DEF TypeInv, Regs
<1> QED
  BY <1>1, <1>2, <1>3, <1>4, PointersAre

LEMMA PointersKeep ==
  ASSUME PointerInv,
         \A x \in Pointers : FileAt(x)' \in {FileAt(x), NULL},
         \A x \in Pointers : FileAt(x)' # NULL /\ files[FileAt(x)'] # NULL => files'[FileAt(x)'] # NULL
  PROVE  PointerInv'
<1> SUFFICES ASSUME NEW x \in Pointers, NEW y \in Pointers, FileAt(x)' # NULL
             PROVE  files'[FileAt(x)'] # NULL /\ (FileAt(x)' = FileAt(y)' => x = y)
  BY DEF PointerInv, Pointers
<1>1. FileAt(x)' = FileAt(x)
  OBVIOUS
<1>2. FileAt(x) # NULL
  BY <1>1
<1>3. files[FileAt(x)] # NULL /\ (FileAt(x) = FileAt(y) => x = y)
  BY <1>2 DEF PointerInv
<1>4. files'[FileAt(x)'] # NULL
  BY <1>1, <1>3
<1>5. FileAt(x)' = FileAt(y)' => x = y
  BY <1>1, <1>3
<1> QED
  BY <1>4, <1>5

(* One pointer takes over what another one lets go.                        *)
LEMMA PointerMoves ==
  ASSUME TypeInv, PointerInv, NEW a \in Pointers, NEW b \in Pointers, a # b,
         FileAt(a)' = FileAt(b), FileAt(b)' = NULL,
         \A x \in Pointers \ {a, b} : FileAt(x)' = FileAt(x),
         \A f \in FileObj : files[f] # NULL => files'[f] # NULL
  PROVE  PointerInv'
<1> SUFFICES ASSUME NEW x \in Pointers, NEW y \in Pointers, FileAt(x)' # NULL
             PROVE  files'[FileAt(x)'] # NULL /\ (FileAt(x)' = FileAt(y)' => x = y)
  BY DEF PointerInv, Pointers
<1> DEFINE old(z) == IF z = a THEN b ELSE z
<1>1. \A z \in Pointers : z # b => old(z) \in Pointers /\ FileAt(z)' = FileAt(old(z))
  OBVIOUS
<1>2. \A z, w \in Pointers : z # b /\ w # b /\ old(z) = old(w) => z = w
  OBVIOUS
<1> HIDE DEF old
<1>3. x # b
  OBVIOUS
<1>4. files[FileAt(old(x))] # NULL /\ FileAt(old(x)) # NULL /\ FileAt(old(x)) \in FileObj
  BY <1>1, <1>3, PointersTyped DEF PointerInv
<1>5. files'[FileAt(x)'] # NULL
  BY <1>1, <1>3, <1>4
<1>6. ASSUME FileAt(x)' = FileAt(y)' PROVE x = y
  <2>1. y # b
    BY <1>6
  <2>2. old(x) = old(y)
    BY <1>1, <1>3, <1>4, <1>6, <2>1 DEF PointerInv
  <2> QED
    BY <1>2, <1>3, <2>1, <2>2
<1> QED
  BY <1>5, <1>6

(* A new struct file has one pointer to it.                                *)
LEMMA PointerNew ==
  ASSUME TypeInv, PointerInv, NEW a \in Pointers,
         files[FileAt(a)'] = NULL, files'[FileAt(a)'] # NULL,
         \A x \in Pointers \ {a} : FileAt(x)' = FileAt(x),
         \A f \in FileObj : files[f] # NULL => files'[f] # NULL
  PROVE  PointerInv'
<1> SUFFICES ASSUME NEW x \in Pointers, NEW y \in Pointers, FileAt(x)' # NULL
             PROVE  files'[FileAt(x)'] # NULL /\ (FileAt(x)' = FileAt(y)' => x = y)
  BY DEF PointerInv, Pointers
<1>1. \A z \in Pointers \ {a} : FileAt(z) # NULL => files[FileAt(z)] # NULL /\ FileAt(z) \in FileObj
  BY PointersTyped DEF PointerInv
<1>2. files'[FileAt(x)'] # NULL
  BY <1>1
<1>3. ASSUME FileAt(x)' = FileAt(y)' PROVE x = y
  <2>1. CASE x = a
    BY <1>1, <1>3, <2>1
  <2>2. CASE y = a
    BY <1>1, <1>3, <2>2
  <2>3. CASE x # a /\ y # a
    BY <1>3, <2>3 DEF PointerInv
  <2> QED
    BY <2>1, <2>2, <2>3
<1> QED
  BY <1>2, <1>3

(* The same for the variables.                                             *)
LEMMA RegToFd ==
  ASSUME TypeInv, PointerInv, NEW p \in Proc, NEW q \in Proc, NEW d \in Fd,
         fds' = [fds EXCEPT ![q][d] = reg[p].file], UNCHANGED <<program, pages>>,
         reg' = [reg EXCEPT ![p] = Locals],
         \A f \in FileObj : files[f] # NULL => files'[f] # NULL
  PROVE  PointerInv'
<1> DEFINE a == <<"fd", q, d>>
           b == <<"reg", p>>
<1>1. /\ fds'[q][d] = reg[p].file /\ reg'[p].file = NULL
      /\ \A r \in Proc, e \in Fd : ~(r = q /\ e = d) => fds'[r][e] = fds[r][e]
      /\ \A r \in Proc : r # p => reg'[r].file = reg[r].file
  BY DEF TypeInv, Locals
<1>2. a \in Pointers /\ b \in Pointers /\ a # b
  BY PointersAre
<1>3. FileAt(a)' = FileAt(b) /\ FileAt(b)' = NULL
  BY <1>1, FileAtIs
<1>4. ASSUME NEW x \in Pointers \ {a, b} PROVE FileAt(x)' = FileAt(x)
  <2>1. ASSUME NEW r \in Proc, NEW e \in Fd, x = <<"fd", r, e>> PROVE FileAt(x)' = FileAt(x)
    BY <1>1, <2>1, FileAtIs
  <2>2. ASSUME NEW r \in Proc, x = <<"reg", r>> PROVE FileAt(x)' = FileAt(x)
    BY <1>1, <2>2, FileAtIs
  <2> QED
    BY <2>1, <2>2, PointersAre, FileAtIs
<1> HIDE DEF a, b
<1> QED
  BY <1>2, <1>3, <1>4, PointerMoves

LEMMA FdToReg ==
  ASSUME TypeInv, PointerInv, NEW p \in Proc, NEW d \in Fd,
         fds' = [fds EXCEPT ![p][d] = NULL], UNCHANGED <<program, pages, files>>,
         reg' = [reg EXCEPT ![p] = [reg[p] EXCEPT !.file = fds[p][d]]]
  PROVE  PointerInv'
<1> DEFINE a == <<"fd", p, d>>
           b == <<"reg", p>>
<1>1. /\ fds'[p][d] = NULL /\ reg'[p].file = fds[p][d]
      /\ \A r \in Proc, e \in Fd : ~(r = p /\ e = d) => fds'[r][e] = fds[r][e]
      /\ \A r \in Proc : r # p => reg'[r].file = reg[r].file
  BY DEF TypeInv
<1>2. a \in Pointers /\ b \in Pointers /\ a # b
  BY PointersAre
<1>3. FileAt(b)' = FileAt(a) /\ FileAt(a)' = NULL
  BY <1>1, FileAtIs
<1>4. ASSUME NEW x \in Pointers \ {b, a} PROVE FileAt(x)' = FileAt(x)
  <2>1. ASSUME NEW r \in Proc, NEW e \in Fd, x = <<"fd", r, e>> PROVE FileAt(x)' = FileAt(x)
    BY <1>1, <2>1, FileAtIs
  <2>2. ASSUME NEW r \in Proc, x = <<"reg", r>> PROVE FileAt(x)' = FileAt(x)
    BY <1>1, <2>2, FileAtIs
  <2> QED
    BY <2>1, <2>2, PointersAre, FileAtIs
<1> HIDE DEF a, b
<1> QED
  BY <1>2, <1>3, <1>4, PointerMoves

LEMMA RegToProgram ==
  ASSUME TypeInv, PointerInv, NEW p \in Proc,
         program' = [program EXCEPT ![p] = reg[p].file], UNCHANGED <<fds, pages>>,
         reg' = [reg EXCEPT ![p] = Locals],
         \A f \in FileObj : files[f] # NULL => files'[f] # NULL
  PROVE  PointerInv'
<1> DEFINE a == <<"program", p>>
           b == <<"reg", p>>
<1>1. /\ program'[p] = reg[p].file /\ reg'[p].file = NULL
      /\ \A r \in Proc \cup {Main} : r # p => program'[r] = program[r]
      /\ \A r \in Proc : r # p => reg'[r].file = reg[r].file
  BY DEF TypeInv, Locals
<1>2. a \in Pointers /\ b \in Pointers /\ a # b
  BY PointersAre
<1>3. FileAt(a)' = FileAt(b) /\ FileAt(b)' = NULL
  BY <1>1, FileAtIs
<1>4. ASSUME NEW x \in Pointers \ {a, b} PROVE FileAt(x)' = FileAt(x)
  <2>1. ASSUME NEW r \in Proc \cup {Main}, x = <<"program", r>> PROVE FileAt(x)' = FileAt(x)
    BY <1>1, <2>1, FileAtIs
  <2>2. ASSUME NEW r \in Proc, x = <<"reg", r>> PROVE FileAt(x)' = FileAt(x)
    BY <1>1, <2>2, FileAtIs
  <2> QED
    BY <2>1, <2>2, PointersAre, FileAtIs
<1> HIDE DEF a, b
<1> QED
  BY <1>2, <1>3, <1>4, PointerMoves

LEMMA ProgramToReg ==
  ASSUME TypeInv, PointerInv, NEW p \in Proc,
         program' = [program EXCEPT ![p] = NULL], UNCHANGED <<fds, pages, files>>,
         reg' = [reg EXCEPT ![p] = [reg[p] EXCEPT !.file = program[p]]]
  PROVE  PointerInv'
<1> DEFINE a == <<"program", p>>
           b == <<"reg", p>>
<1>1. /\ program'[p] = NULL /\ reg'[p].file = program[p]
      /\ \A r \in Proc \cup {Main} : r # p => program'[r] = program[r]
      /\ \A r \in Proc : r # p => reg'[r].file = reg[r].file
  BY DEF TypeInv
<1>2. a \in Pointers /\ b \in Pointers /\ a # b
  BY PointersAre
<1>3. FileAt(b)' = FileAt(a) /\ FileAt(a)' = NULL
  BY <1>1, FileAtIs
<1>4. ASSUME NEW x \in Pointers \ {b, a} PROVE FileAt(x)' = FileAt(x)
  <2>1. ASSUME NEW r \in Proc \cup {Main}, x = <<"program", r>> PROVE FileAt(x)' = FileAt(x)
    BY <1>1, <2>1, FileAtIs
  <2>2. ASSUME NEW r \in Proc, x = <<"reg", r>> PROVE FileAt(x)' = FileAt(x)
    BY <1>1, <2>2, FileAtIs
  <2> QED
    BY <2>1, <2>2, PointersAre, FileAtIs
<1> HIDE DEF a, b
<1> QED
  BY <1>2, <1>3, <1>4, PointerMoves

(* The local of one process, or its pages, are set to a new file.          *)
LEMMA NewInReg ==
  ASSUME TypeInv, PointerInv, NEW p \in Proc, NEW f,
         UNCHANGED <<fds, program, pages>>,
         reg'[p].file = f, \A r \in Proc : r # p => reg'[r].file = reg[r].file,
         files[f] = NULL, files'[f] # NULL,
         \A g \in FileObj : files[g] # NULL => files'[g] # NULL
  PROVE  PointerInv'
<1> DEFINE a == <<"reg", p>>
<1>1. a \in Pointers /\ FileAt(a)' = f
  BY PointersAre, FileAtIs
<1>2. ASSUME NEW x \in Pointers \ {a} PROVE FileAt(x)' = FileAt(x)
  <2>1. ASSUME NEW r \in Proc, x = <<"reg", r>> PROVE FileAt(x)' = FileAt(x)
    BY <2>1, FileAtIs
  <2> QED
    BY <2>1, PointersAre, FileAtIs
<1> HIDE DEF a
<1> QED
  BY <1>1, <1>2, PointerNew

LEMMA NewInPages ==
  ASSUME TypeInv, PointerInv, NEW p \in Proc, NEW f,
         UNCHANGED <<fds, program, reg>>, pages' = [pages EXCEPT ![p] = f],
         files[f] = NULL, files'[f] # NULL,
         \A g \in FileObj : files[g] # NULL => files'[g] # NULL
  PROVE  PointerInv'
<1> DEFINE a == <<"pages", p>>
<1>1. /\ pages'[p] = f
      /\ \A r \in Proc : r # p => pages'[r] = pages[r]
  BY DEF TypeInv
<1>2. a \in Pointers /\ FileAt(a)' = f
  BY <1>1, PointersAre, FileAtIs
<1>3. ASSUME NEW x \in Pointers \ {a} PROVE FileAt(x)' = FileAt(x)
  <2>1. ASSUME NEW r \in Proc, x = <<"pages", r>> PROVE FileAt(x)' = FileAt(x)
    BY <1>1, <2>1, FileAtIs
  <2> QED
    BY <2>1, PointersAre, FileAtIs
<1> HIDE DEF a
<1> QED
  BY <1>2, <1>3, PointerNew

(* Pointers stay, or are let go; and no file that is pointed to is freed.  *)
LEMMA PointersStay ==
  ASSUME TypeInv, PointerInv, UNCHANGED <<fds, program>>,
         \A r \in Proc : pages'[r] \in {pages[r], NULL} /\ reg'[r].file \in {reg[r].file, NULL},
         \A g \in FileObj : files[g] # NULL => files'[g] # NULL
  PROVE  PointerInv'
<1>1. ASSUME NEW x \in Pointers PROVE FileAt(x)' \in {FileAt(x), NULL}
  <2>1. ASSUME NEW r \in Proc, x \in {<<"reg", r>>, <<"pages", r>>} PROVE FileAt(x)' \in {FileAt(x), NULL}
    BY <2>1, FileAtIs
  <2> QED
    BY <2>1, PointersAre, FileAtIs
<1> QED
  BY <1>1, PointersKeep, PointersTyped

(* The file of a local is freed.                                           *)
LEMMA RegFreed ==
  ASSUME TypeInv, PointerInv, NEW p \in Proc, reg[p].file # NULL,
         UNCHANGED <<fds, program, pages>>,
         reg'[p].file = NULL, \A r \in Proc : r # p => reg'[r].file = reg[r].file,
         \A g \in FileObj : g # reg[p].file /\ files[g] # NULL => files'[g] # NULL
  PROVE  PointerInv'
<1> DEFINE a == <<"reg", p>>
<1>1. a \in Pointers /\ FileAt(a) = reg[p].file /\ FileAt(a)' = NULL
  BY PointersAre, FileAtIs
<1>2. ASSUME NEW x \in Pointers \ {a} PROVE FileAt(x)' = FileAt(x)
  <2>1. ASSUME NEW r \in Proc, x = <<"reg", r>> PROVE FileAt(x)' = FileAt(x)
    BY <2>1, FileAtIs
  <2> QED
    BY <2>1, PointersAre, FileAtIs
<1> HIDE DEF a
<1>3. ASSUME NEW x \in Pointers, FileAt(x)' # NULL, files[FileAt(x)'] # NULL
      PROVE  files'[FileAt(x)'] # NULL
  <2>1. x # a /\ FileAt(x)' = FileAt(x)
    BY <1>1, <1>2, <1>3
  <2>2. FileAt(x) # FileAt(a)
    BY <1>1, <1>3, <2>1 DEF PointerInv
  <2>3. FileAt(x) \in FileObj
    BY <1>3, <2>1, PointersTyped
  <2> QED
    BY <1>1, <1>3, <2>1, <2>2, <2>3
<1>4. \A x \in Pointers : FileAt(x)' \in {FileAt(x), NULL}
  BY <1>1, <1>2
<1> QED
  BY <1>3, <1>4, PointersKeep


-----------------------------------------------------------------------------
(* What an inode counts.                                                   *)
LEMMA OneMore ==
  ASSUME NEW S, IsFiniteSet(S), NEW x, x \notin S, NEW T, T = S \cup {x}
  PROVE  Cardinality(T) = Cardinality(S) + 1
BY FS_AddElement

LEMMA OneLess ==
  ASSUME NEW S, IsFiniteSet(S), NEW x, x \in S, NEW T, T = S \ {x}
  PROVE  Cardinality(T) = Cardinality(S) - 1
BY FS_RemoveElement

LEMMA CountsFinite ==
  ASSUME FileTableAssumption, NEW i
  PROVE  /\ IsFiniteSet(FilesOf(i)) /\ IsFiniteSet(DeniedOf(i)) /\ IsFiniteSet(Holders(i))
         /\ Cardinality(FilesOf(i)) \in Nat /\ Cardinality(DeniedOf(i)) \in Nat
         /\ Cardinality(Holders(i)) \in Nat
<1>1. IsFiniteSet(FileObj) /\ IsFiniteSet(Proc)
  BY FS_Interval DEF FileObj, FileTableAssumption
<1>2. FilesOf(i) \in SUBSET FileObj /\ DeniedOf(i) \in SUBSET FileObj /\ Holders(i) \in SUBSET Proc
  BY DEF FilesOf, DeniedOf, Holders
<1>3. IsFiniteSet(FilesOf(i)) /\ IsFiniteSet(DeniedOf(i)) /\ IsFiniteSet(Holders(i))
  BY <1>1, <1>2, FS_Subset
<1> QED
  BY <1>3, FS_CardinalityType

(* A file that somebody holds, and who is not freeing it, is counted.      *)
LEMMA HeldCounted ==
  ASSUME TypeInv, PointerInv, NEW p \in Proc, reg[p].file # NULL, Doing(p) # "free"
  PROVE  reg[p].file \in FileObj /\ files[reg[p].file] # NULL /\ Counted(reg[p].file)
<1> DEFINE a == <<"reg", p>>
<1>1. a \in Pointers /\ FileAt(a) = reg[p].file
  BY PointersAre, FileAtIs
<1>2. ASSUME NEW q \in Proc, Doing(q) = "free", reg[q].file = reg[p].file PROVE FALSE
  <2>1. q # p /\ <<"reg", q>> \in Pointers /\ FileAt(<<"reg", q>>) = reg[q].file
    BY <1>2, PointersAre, FileAtIs
  <2>2. <<"reg", q>> = a
    BY <1>1, <1>2, <2>1 DEF PointerInv
  <2> QED
    BY <2>1, <2>2
<1>3. reg[p].file \in FileObj /\ files[reg[p].file] # NULL
  BY <1>1, PointersTyped DEF PointerInv
<1> QED
  BY <1>2, <1>3 DEF Counted

LEMMA OpenCounted ==
  ASSUME TypeInv, PointerInv, NEW p \in Proc, NEW d \in Fd, fds[p][d] # NULL
  PROVE  fds[p][d] \in FileObj /\ files[fds[p][d]] # NULL /\ Counted(fds[p][d])
<1> DEFINE a == <<"fd", p, d>>
<1>1. a \in Pointers /\ FileAt(a) = fds[p][d]
  BY PointersAre, FileAtIs
<1>2. ASSUME NEW q \in Proc, Doing(q) = "free", reg[q].file = fds[p][d] PROVE FALSE
  <2>1. <<"reg", q>> \in Pointers /\ FileAt(<<"reg", q>>) = reg[q].file /\ <<"reg", q>> # a
    BY PointersAre, FileAtIs
  <2> QED
    BY <1>1, <1>2, <2>1 DEF PointerInv
<1>3. fds[p][d] \in FileObj /\ files[fds[p][d]] # NULL
  BY <1>1, PointersTyped DEF PointerInv
<1> QED
  BY <1>2, <1>3 DEF Counted

(* A file that is counted has an open inode, which has it in its count.    *)
LEMMA CountedOpen ==
  ASSUME FileTableAssumption, TypeInv, LinkInv, CountInv, NEW f \in FileObj, Counted(f)
  PROVE  /\ files[f] \in File /\ files[f].inode \in open_inodes /\ files[f].inode \in Ino
         /\ inodes[files[f].inode] \in Inode /\ inodes[files[f].inode] # NULL
         /\ f \in FilesOf(files[f].inode)
         /\ inodes[files[f].inode].open_cnt \in Nat \ {0}
<1> DEFINE i == files[f].inode
<1>1. files[f] \in File /\ files[f] # NULL
  BY DEF TypeInv, Counted
<1>2. i \in Ino /\ inodes[i] # NULL /\ i \in open_inodes /\ inodes[i] \in Inode
  BY <1>1 DEF LinkInv, TypeInv, File
<1>3. f \in FilesOf(i)
  BY DEF FilesOf
<1>4. Cardinality(FilesOf(i)) # 0
  <2>1. Cardinality(FilesOf(i) \ {f}) = Cardinality(FilesOf(i)) - 1
    BY <1>3, CountsFinite, OneLess
  <2>2. Cardinality(FilesOf(i) \ {f}) \in Nat
    BY CountsFinite, FS_RemoveElement, FS_CardinalityType
  <2> QED
    BY <2>1, <2>2
<1>5. inodes[i].open_cnt = Cardinality(FilesOf(i)) + Cardinality(Holders(i))
  BY <1>2 DEF CountInv
<1>6. inodes[i].open_cnt \in Nat \ {0}
  BY <1>4, <1>5, CountsFinite
<1> QED
  BY <1>1, <1>2, <1>3, <1>6

(* Steps that neither begin nor end the second half of inode_close count   *)
(* the same files.                                                         *)
Freeing(f) == \E q \in Proc : Doing(q) = "free" /\ reg[q].file = f

NotFreeing(p) ==
  /\ Others(p) /\ \A q \in Proc \ {p} : reg'[q] = reg[q]
  /\ Doing(p) # "free" /\ Doing(p)' # "free"

LEMMA CountedSame ==
  ASSUME NEW p \in Proc, NotFreeing(p), NEW f
  PROVE  /\ Counted(f) <=> files[f] # NULL /\ ~Freeing(f)
         /\ Counted(f)' <=> files'[f] # NULL /\ ~Freeing(f)
BY DEF Counted, Freeing, NotFreeing, Others

LEMMA FreeingKnown ==
  ASSUME TypeInv, LocalInv, PointerInv, NEW f \in FileObj, Freeing(f)
  PROVE  files[f] # NULL
<1>1. PICK q \in Proc : Doing(q) = "free" /\ reg[q].file = f
  BY DEF Freeing
<1>2. reg[q].file # NULL
  BY <1>1 DEF LocalInv, LocalOK, Holding
<1>3. <<"reg", q>> \in Pointers /\ FileAt(<<"reg", q>>) = f
  BY <1>1, PointersAre, FileAtIs
<1> QED
  BY <1>1, <1>2, <1>3 DEF PointerInv

(* A step that changes no file and no inode.                               *)
LEMMA QuietHeap ==
  ASSUME LinkInv, CountInv, NEW p \in Proc, NotFreeing(p), UNCHANGED fileVars,
         reg'[p].inode = reg[p].inode
  PROVE  LinkInv' /\ CountInv'
<1>1. UNCHANGED <<files, inodes, open_inodes>>
  BY DEF fileVars
<1>2. \A q \in Proc : reg'[q].inode = reg[q].inode
  BY DEF NotFreeing
<1>3. \A f : Counted(f)' <=> Counted(f)
  BY <1>1, CountedSame
<1>4. \A i : FilesOf(i)' = FilesOf(i) /\ DeniedOf(i)' = DeniedOf(i) /\ Holders(i)' = Holders(i)
  BY <1>1, <1>2, <1>3 DEF FilesOf, DeniedOf, Holders
<1>5. LinkInv'
  BY <1>1 DEF LinkInv
<1>6. CountInv'
  BY <1>1, <1>4 DEF CountInv
<1> QED
  BY <1>5, <1>6


(* A step that opens and closes no inode, and creates none.                *)
SameShape ==
  /\ open_inodes' = open_inodes
  /\ \A i \in Ino :
       /\ inodes'[i] # NULL <=> inodes[i] # NULL
       /\ inodes[i] # NULL => /\ inodes'[i].name = inodes[i].name
                              /\ inodes'[i].open_cnt = 0 <=> inodes[i].open_cnt = 0
  /\ \A f \in FileObj : files[f] # NULL => files'[f] # NULL /\ files'[f].inode = files[f].inode

LEMMA QuietShape ==
  ASSUME UNCHANGED fileVars
  PROVE  SameShape
BY DEF SameShape, fileVars

LEMMA RegTyped ==
  ASSUME TypeInv, PointerInv, LinkInv, NEW q \in Proc
  PROVE  /\ reg[q].inode \in Ino \cup {NULL} /\ reg[q].found \in Ino \cup {NULL}
         /\ reg[q].file \in FileObj \cup {NULL} /\ reg[q].last \in BOOLEAN
         /\ open_inodes \subseteq Ino
         /\ reg[q].file # NULL => /\ files[reg[q].file] \in File /\ files[reg[q].file] # NULL
                                  /\ files[reg[q].file].inode \in Ino
                                  /\ inodes[files[reg[q].file].inode] # NULL
<1>1. /\ reg[q].inode \in Ino \cup {NULL} /\ reg[q].found \in Ino \cup {NULL}
      /\ reg[q].file \in FileObj \cup {NULL} /\ reg[q].last \in BOOLEAN
  BY DEF TypeInv, Regs
<1>2. open_inodes \subseteq Ino
  BY DEF LinkInv
<1>3. ASSUME reg[q].file # NULL
      PROVE  files[reg[q].file] \in File /\ files[reg[q].file] # NULL
  <2>1. <<"reg", q>> \in Pointers /\ FileAt(<<"reg", q>>) = reg[q].file
    BY PointersAre, FileAtIs
  <2>2. files[reg[q].file] # NULL
    BY <1>3, <2>1 DEF PointerInv
  <2> QED
    BY <1>1, <1>3, <2>2 DEF TypeInv
<1>4. ASSUME reg[q].file # NULL
      PROVE  files[reg[q].file].inode \in Ino /\ inodes[files[reg[q].file].inode] # NULL
  BY <1>1, <1>3, <1>4 DEF File, LinkInv
<1> QED
  BY <1>1, <1>2, <1>3, <1>4

LEMMA LocalSame ==
  ASSUME TypeInv, LocalInv, PointerInv, LinkInv, NEW p \in Proc, Others(p),
         \A q \in Proc \ {p} : reg'[q] = reg[q], SameShape, LocalOK(p)'
  PROVE  LocalInv'
<1> SUFFICES ASSUME NEW q \in Proc \ {p} PROVE LocalOK(q)'
  BY DEF LocalInv
<1>1. /\ reg'[q] = reg[q] /\ Doing(q)' = Doing(q) /\ Arg(q)' = Arg(q)
  BY DEF Others
<1>2. LocalOK(q)
  BY DEF LocalInv
<1>3. /\ reg[q].inode \in Ino \cup {NULL} /\ reg[q].found \in Ino \cup {NULL}
      /\ reg[q].file \in FileObj \cup {NULL} /\ open_inodes \subseteq Ino
      /\ reg[q].file # NULL => /\ files[reg[q].file] # NULL /\ files[reg[q].file].inode \in Ino
                               /\ inodes[files[reg[q].file].inode] # NULL
  BY RegTyped
<1>4. /\ reg[q].inode # NULL <=> Doing(q) = "file_open"
      /\ reg[q].inode # NULL => inodes'[reg[q].inode] # NULL
      /\ reg[q].file # NULL <=> Doing(q) \in Holding
  BY <1>2, <1>3 DEF LocalOK, SameShape
<1>5. Doing(q) = "take" =>
        IF reg[q].found = NULL THEN \A i \in open_inodes' : inodes'[i].name # Arg(q)
        ELSE inodes'[reg[q].found] # NULL
  <2>1. CASE Doing(q) = "take" /\ reg[q].found = NULL
    <3>1. \A i \in open_inodes : inodes[i].name # Arg(q) /\ inodes[i] # NULL
      BY <1>2, <2>1 DEF LocalOK, LinkInv
    <3> QED
      BY <1>3, <2>1, <3>1 DEF SameShape
  <2>2. CASE Doing(q) = "take" /\ reg[q].found # NULL
    BY <1>2, <1>3, <2>2 DEF LocalOK, SameShape
  <2> QED
    BY <2>1, <2>2
<1>6. Doing(q) = "free" => (reg[q].last <=> inodes'[files'[reg[q].file].inode].open_cnt = 0)
  <2>1. ASSUME Doing(q) = "free"
        PROVE  reg[q].last <=> inodes'[files'[reg[q].file].inode].open_cnt = 0
    <3>1. reg[q].file # NULL
      BY <1>4, <2>1 DEF Holding
    <3>2. files'[reg[q].file].inode = files[reg[q].file].inode
      BY <1>3, <3>1 DEF SameShape
    <3>3. inodes'[files[reg[q].file].inode].open_cnt = 0 <=> inodes[files[reg[q].file].inode].open_cnt = 0
      BY <1>3, <3>1 DEF SameShape
    <3> QED
      BY <1>2, <2>1, <3>2, <3>3 DEF LocalOK
  <2> QED
    BY <2>1
<1> QED
  BY <1>1, <1>4, <1>5, <1>6 DEF LocalOK

(* take, drop and free are steps of calls that use the list of inodes, and *)
(* hold the lock or are kept apart from those that do.                     *)
Critical == {"take", "drop", "free"}

LEMMA OneCritical ==
  ASSUME FileTableAssumption, ControlInv, NEW p \in Proc, NEW q \in Proc, Doing(p) \in Critical, Doing(q) \in Critical
  PROVE  p = q
<1>1. CallInv /\ AloneInv /\ LockInv
  BY DEF ControlInv
<1>2. ASSUME NEW r \in Proc, Doing(r) \in Critical
      PROVE  /\ call[r] \in {"exec", "exit"} \/ filesys_lock = r
             /\ call[r] \in UsesList
  <2>1. call[r] \in Kind /\ StepOf(call[r], Doing(r))
    BY <1>1, <1>2, InCall DEF Critical
  <2>2. call[r] \in {"exec", "exit"} \/ call[r] \in Locking
    BY <1>2, <2>1 DEF StepOf, Critical, Locking
  <2>3. call[r] \in Locking => filesys_lock = r
    BY <1>1, <1>2 DEF LockInv, Critical
  <2>4. call[r] \in UsesList
    BY <1>2, <2>1 DEF StepOf, Critical, UsesList
  <2> QED
    BY <2>2, <2>3, <2>4
<1>3. call[p] \in UsesList /\ call[q] \in UsesList
  BY <1>2
<1>4. CASE call[p] \in {"exec", "exit"}
  BY <1>1, <1>3, <1>4 DEF AloneInv
<1>5. CASE call[q] \in {"exec", "exit"}
  BY <1>1, <1>3, <1>5 DEF AloneInv
<1>6. CASE filesys_lock = p /\ filesys_lock = q
  BY <1>6
<1> QED
  BY <1>2, <1>4, <1>5, <1>6

LEMMA CriticalLocal ==
  ASSUME FileTableAssumption, TypeInv, ControlInv, LocalInv,
         NEW p \in Proc, Doing(p) \in Critical, Others(p),
         \A q \in Proc \ {p} : reg'[q] = reg[q],
         \A q \in Proc \ {p} : reg[q].inode # NULL => inodes'[reg[q].inode] # NULL,
         LocalOK(p)'
  PROVE  LocalInv'
<1> SUFFICES ASSUME NEW q \in Proc \ {p} PROVE LocalOK(q)'
  BY DEF LocalInv
<1>1. /\ reg'[q] = reg[q] /\ Doing(q)' = Doing(q)
  BY DEF Others
<1>2. LocalOK(q)
  BY DEF LocalInv
<1>3. Doing(q) \notin Critical
  BY OneCritical
<1> QED
  BY <1>1, <1>2, <1>3 DEF LocalOK, Critical

-----------------------------------------------------------------------------
(* The steps that change files and inodes.                                 *)

(* The record of an open inode.                                            *)
LEMMA OpenInode ==
  ASSUME TypeInv, LinkInv, NEW i \in open_inodes
  PROVE  i \in Ino /\ inodes[i] # NULL /\ inodes[i] \in Inode
BY DEF LinkInv, TypeInv

(* A process opens an inode once more.                                     *)
LEMMA HolderMore ==
  ASSUME FileTableAssumption, NullAssumption, TypeInv, LinkInv, CountInv, NEW p \in Proc, NotFreeing(p),
         NEW i \in open_inodes, UNCHANGED <<files, open_inodes>>,
         inodes' = [inodes EXCEPT ![i].open_cnt = @ + 1],
         reg[p].inode = NULL, reg'[p].inode = i
  PROVE  /\ LinkInv' /\ CountInv' /\ inodes' \in [Ino -> Inode \cup {NULL}]
         /\ inodes[i].open_cnt # 0 => SameShape
<1>1. i \in Ino /\ inodes[i] # NULL /\ inodes[i] \in Inode
  BY OpenInode
<1>2. inodes'[i] = [inodes[i] EXCEPT !.open_cnt = @ + 1] /\ \A j \in Ino : j # i => inodes'[j] = inodes[j]
  BY <1>1 DEF TypeInv
<1>3. /\ inodes'[i] \in Inode /\ inodes'[i] # NULL /\ inodes'[i].name = inodes[i].name
      /\ inodes'[i].open_cnt = inodes[i].open_cnt + 1
      /\ inodes'[i].deny_write_cnt = inodes[i].deny_write_cnt
  BY <1>1, <1>2 DEF Inode, NullAssumption
<1>4. inodes' \in [Ino -> Inode \cup {NULL}]
  BY <1>1, <1>3 DEF TypeInv
<1>5. \A j \in Ino : (inodes'[j] # NULL <=> inodes[j] # NULL) /\ inodes'[j].name = inodes[j].name
  BY <1>1, <1>2, <1>3
<1>6. LinkInv'
  <2>1. \A f \in FileObj : files[f] # NULL => files[f].inode \in Ino
    BY DEF TypeInv, File
  <2> QED
    BY <1>5, <2>1 DEF LinkInv
<1>7. \A j : FilesOf(j)' = FilesOf(j) /\ DeniedOf(j)' = DeniedOf(j)
  BY CountedSame DEF FilesOf, DeniedOf
<1>8. CountInv'
  <2> SUFFICES ASSUME NEW j \in open_inodes
               PROVE  /\ inodes'[j].open_cnt = Cardinality(FilesOf(j)') + Cardinality(Holders(j)')
                      /\ inodes'[j].deny_write_cnt = Cardinality(DeniedOf(j)')
    BY DEF CountInv
  <2>1. /\ inodes[j].open_cnt = Cardinality(FilesOf(j)) + Cardinality(Holders(j))
        /\ inodes[j].deny_write_cnt = Cardinality(DeniedOf(j)) /\ j \in Ino
    BY OpenInode DEF CountInv
  <2>2. CASE j # i
    <3>1. Holders(j)' = Holders(j)
      BY <1>1, <2>1, <2>2 DEF Holders, NotFreeing, FileTableAssumption, Ino
    <3> QED
      BY <1>2, <1>7, <2>1, <2>2, <3>1
  <2>3. CASE j = i
    <3>1. Holders(i)' = Holders(i) \cup {p} /\ p \notin Holders(i)
      BY <1>1 DEF Holders, NotFreeing, FileTableAssumption, Ino
    <3>2. Cardinality(Holders(i)') = Cardinality(Holders(i)) + 1
      BY <3>1, CountsFinite, OneMore
    <3> QED
      BY <1>3, <1>7, <2>1, <2>3, <3>2, CountsFinite
  <2> QED
    BY <2>2, <2>3
<1>9. ASSUME inodes[i].open_cnt # 0 PROVE SameShape
  <2>1. inodes'[i].open_cnt # 0
    BY <1>1, <1>3 DEF Inode
  <2>2. \A j \in Ino : inodes'[j].open_cnt = 0 <=> inodes[j].open_cnt = 0
    BY <1>2, <1>9, <2>1
  <2> QED
    BY <1>5, <2>2 DEF SameShape
<1> QED
  BY <1>4, <1>6, <1>8, <1>9

(* A new inode.                                                            *)
LEMMA InodeNew ==
  ASSUME FileTableAssumption, NullAssumption, TypeInv, LinkInv, CountInv, NEW p \in Proc, NotFreeing(p),
         NEW i \in Ino, inodes[i] = NULL, NEW n \in Name,
         \A j \in open_inodes : inodes[j].name # n,
         \A q \in Proc : reg[q].inode # i, UNCHANGED files,
         inodes' = [inodes EXCEPT ![i] = [name |-> n, open_cnt |-> 1, deny_write_cnt |-> 0]],
         open_inodes' = open_inodes \cup {i},
         reg[p].inode = NULL, reg'[p].inode = i
  PROVE  LinkInv' /\ CountInv' /\ inodes' \in [Ino -> Inode \cup {NULL}]
<1> DEFINE new == [name |-> n, open_cnt |-> 1, deny_write_cnt |-> 0]
<1>1. inodes'[i] = new /\ \A j \in Ino : j # i => inodes'[j] = inodes[j]
  BY DEF TypeInv
<1>2. /\ new \in Inode /\ new.name = n /\ new.open_cnt = 1 /\ new.deny_write_cnt = 0
  BY DEF Inode
<1>3. new # NULL
  BY <1>2, NullAssumption
<1> HIDE DEF new
<1>4. inodes' \in [Ino -> Inode \cup {NULL}]
  BY <1>2 DEF TypeInv, new
<1>5. \A f \in FileObj : files[f] # NULL => files[f].inode \in Ino /\ files[f].inode # i
  BY DEF TypeInv, File, LinkInv
<1>6. LinkInv'
  <2>1. \A f \in FileObj : files'[f] # NULL => inodes'[files'[f].inode] # NULL
    BY <1>1, <1>5 DEF LinkInv
  <2>2. open_inodes' = {j \in Ino : inodes'[j] # NULL}
    BY <1>1, <1>3 DEF LinkInv
  <2>3. ASSUME NEW j \in open_inodes', NEW k \in open_inodes', inodes'[j].name = inodes'[k].name
        PROVE  j = k
    <3>1. j \in Ino /\ k \in Ino /\ (j # i => j \in open_inodes) /\ (k # i => k \in open_inodes)
      BY <2>2
    <3> QED
      BY <1>1, <1>2, <2>3, <3>1 DEF LinkInv
  <2> QED
    BY <2>1, <2>2, <2>3 DEF LinkInv
<1>7. \A j : FilesOf(j)' = FilesOf(j) /\ DeniedOf(j)' = DeniedOf(j)
  BY CountedSame DEF FilesOf, DeniedOf
<1>8. CountInv'
  <2> SUFFICES ASSUME NEW j \in open_inodes'
               PROVE  /\ inodes'[j].open_cnt = Cardinality(FilesOf(j)') + Cardinality(Holders(j)')
                      /\ inodes'[j].deny_write_cnt = Cardinality(DeniedOf(j)')
    BY DEF CountInv
  <2>1. CASE j # i
    <3>1. j \in open_inodes /\ j \in Ino
      BY <2>1, OpenInode
    <3>2. Holders(j)' = Holders(j)
      BY <2>1, <3>1 DEF Holders, NotFreeing, FileTableAssumption, Ino
    <3> QED
      BY <1>1, <1>7, <2>1, <3>1, <3>2 DEF CountInv
  <2>2. CASE j = i
    <3>1. FilesOf(i) = {} /\ DeniedOf(i) = {}
      BY <1>5 DEF FilesOf, DeniedOf, Counted
    <3>2. Holders(i)' = {p}
      BY DEF Holders, NotFreeing
    <3>3. Cardinality({}) = 0 /\ Cardinality({p}) = 1
      BY FS_EmptySet, FS_Singleton
    <3>4. /\ Cardinality(FilesOf(i)') = 0 /\ Cardinality(DeniedOf(i)') = 0
          /\ Cardinality(Holders(i)') = 1
      BY <1>7, <3>1, <3>2, <3>3
    <3>5. inodes'[i].open_cnt = 1 /\ inodes'[i].deny_write_cnt = 0
      BY <1>1, <1>2
    <3> QED
      BY <2>2, <3>4, <3>5
  <2> QED
    BY <2>1, <2>2
<1> QED
  BY <1>4, <1>6, <1>8

(* A new file, of an inode that a local or another file has open.          *)
LEMMA FileNew ==
  ASSUME FileTableAssumption, NullAssumption, TypeInv, LinkInv, LocalInv, PointerInv,
         NEW p \in Proc, NotFreeing(p), NEW f \in FileObj, files[f] = NULL, NEW i \in open_inodes,
         files' = [files EXCEPT ![f] = [inode |-> i, deny_write |-> FALSE]]
  PROVE  /\ files' \in [FileObj -> File \cup {NULL}] /\ files'[f] # NULL
         /\ \A g \in FileObj : g # f => files'[g] = files[g]
         /\ \A g \in FileObj : files[g] # NULL => files'[g] # NULL /\ files'[g].inode = files[g].inode
         /\ \A g \in FileObj : files'[g] # NULL => files'[g].inode \in open_inodes
         /\ f \notin FilesOf(i) /\ FilesOf(i)' = FilesOf(i) \cup {f} /\ DeniedOf(i)' = DeniedOf(i)
         /\ \A j : j # i => FilesOf(j)' = FilesOf(j) /\ DeniedOf(j)' = DeniedOf(j)
<1> DEFINE new == [inode |-> i, deny_write |-> FALSE]
<1>1. files'[f] = new /\ \A g \in FileObj : g # f => files'[g] = files[g]
  BY DEF TypeInv
<1>2. i \in Ino /\ new \in File /\ new.inode = i /\ new.deny_write = FALSE
  BY OpenInode DEF File
<1>3. new # NULL
  BY <1>2, NullAssumption
<1>4. files' \in [FileObj -> File \cup {NULL}]
  BY <1>2 DEF TypeInv
<1> HIDE DEF new
<1>5. \A g \in FileObj : files'[g] # NULL => files'[g].inode \in open_inodes
  <2>1. \A g \in FileObj : files[g] # NULL => files[g].inode \in open_inodes
    BY DEF LinkInv, TypeInv, File
  <2> QED
    BY <1>1, <1>2, <2>1
<1>6. ~Freeing(f)
  BY FreeingKnown
<1>7. /\ \A g \in FileObj : g # f => (Counted(g)' <=> Counted(g))
      /\ ~Counted(f) /\ Counted(f)'
  BY <1>1, <1>3, <1>6, CountedSame
<1>8. f \notin FilesOf(i) /\ FilesOf(i)' = FilesOf(i) \cup {f} /\ DeniedOf(i)' = DeniedOf(i)
  BY <1>1, <1>2, <1>7 DEF FilesOf, DeniedOf
<1>9. \A j : j # i => FilesOf(j)' = FilesOf(j) /\ DeniedOf(j)' = DeniedOf(j)
  BY <1>1, <1>2, <1>7 DEF FilesOf, DeniedOf
<1> QED
  BY <1>1, <1>3, <1>4, <1>5, <1>8, <1>9


(* ... file_open: the file takes over what the local has open.             *)
LEMMA FileOpenHeap ==
  ASSUME FileTableAssumption, NullAssumption, TypeInv, LinkInv, CountInv, LocalInv, PointerInv,
         NEW p \in Proc, NotFreeing(p), NEW f \in FileObj, files[f] = NULL, NEW i \in open_inodes,
         files' = [files EXCEPT ![f] = [inode |-> i, deny_write |-> FALSE]],
         UNCHANGED <<inodes, open_inodes>>, reg[p].inode = i, reg'[p].inode = NULL
  PROVE  LinkInv' /\ CountInv' /\ SameShape
<1>1. /\ \A g \in FileObj : files[g] # NULL => files'[g] # NULL /\ files'[g].inode = files[g].inode
      /\ \A g \in FileObj : files'[g] # NULL => files'[g].inode \in open_inodes
      /\ f \notin FilesOf(i) /\ FilesOf(i)' = FilesOf(i) \cup {f} /\ DeniedOf(i)' = DeniedOf(i)
      /\ \A j : j # i => FilesOf(j)' = FilesOf(j) /\ DeniedOf(j)' = DeniedOf(j)
  BY FileNew
<1>2. LinkInv'
  BY <1>1, OpenInode DEF LinkInv
<1>3. SameShape
  BY <1>1 DEF SameShape
<1>4. CountInv'
  <2> SUFFICES ASSUME NEW j \in open_inodes
               PROVE  /\ inodes[j].open_cnt = Cardinality(FilesOf(j)') + Cardinality(Holders(j)')
                      /\ inodes[j].deny_write_cnt = Cardinality(DeniedOf(j)')
    BY DEF CountInv
  <2>1. /\ inodes[j].open_cnt = Cardinality(FilesOf(j)) + Cardinality(Holders(j))
        /\ inodes[j].deny_write_cnt = Cardinality(DeniedOf(j)) /\ j \in Ino
    BY OpenInode DEF CountInv
  <2>2. CASE j # i
    <3>1. Holders(j)' = Holders(j)
      BY <2>1, <2>2 DEF Holders, NotFreeing, FileTableAssumption, Ino
    <3> QED
      BY <1>1, <2>1, <2>2, <3>1
  <2>3. CASE j = i
    <3>1. Holders(i)' = Holders(i) \ {p} /\ p \in Holders(i)
      BY <2>1, <2>3 DEF Holders, NotFreeing, FileTableAssumption, Ino
    <3>2. Cardinality(Holders(i)') = Cardinality(Holders(i)) - 1
      BY <3>1, CountsFinite, OneLess
    <3>3. Cardinality(FilesOf(i)') = Cardinality(FilesOf(i)) + 1
      BY <1>1, CountsFinite, OneMore
    <3>4. Cardinality(FilesOf(i)') + Cardinality(Holders(i)') = Cardinality(FilesOf(i)) + Cardinality(Holders(i))
      BY <3>2, <3>3, CountsFinite
    <3>5. Cardinality(DeniedOf(i)') = Cardinality(DeniedOf(i))
      BY <1>1
    <3> QED
      BY <2>1, <2>3, <3>4, <3>5
  <2> QED
    BY <2>2, <2>3
<1> QED
  BY <1>2, <1>3, <1>4

(* ... load's pages: the file is opened once more.                         *)
LEMMA MapHeap ==
  ASSUME FileTableAssumption, NullAssumption, TypeInv, LinkInv, CountInv, LocalInv, PointerInv,
         NEW p \in Proc, NotFreeing(p), NEW f \in FileObj, files[f] = NULL, NEW i \in open_inodes,
         files' = [files EXCEPT ![f] = [inode |-> i, deny_write |-> FALSE]],
         inodes' = [inodes EXCEPT ![i].open_cnt = @ + 1], UNCHANGED <<open_inodes, reg>>,
         inodes[i].open_cnt # 0
  PROVE  LinkInv' /\ CountInv' /\ SameShape /\ inodes' \in [Ino -> Inode \cup {NULL}]
<1>1. /\ \A g \in FileObj : files[g] # NULL => files'[g] # NULL /\ files'[g].inode = files[g].inode
      /\ \A g \in FileObj : files'[g] # NULL => files'[g].inode \in open_inodes
      /\ f \notin FilesOf(i) /\ FilesOf(i)' = FilesOf(i) \cup {f} /\ DeniedOf(i)' = DeniedOf(i)
      /\ \A j : j # i => FilesOf(j)' = FilesOf(j) /\ DeniedOf(j)' = DeniedOf(j)
  BY FileNew
<1>2. i \in Ino /\ inodes[i] # NULL /\ inodes[i] \in Inode
  BY OpenInode
<1>3. inodes'[i] = [inodes[i] EXCEPT !.open_cnt = @ + 1] /\ \A j \in Ino : j # i => inodes'[j] = inodes[j]
  BY <1>2 DEF TypeInv
<1>4. /\ inodes'[i] \in Inode /\ inodes'[i] # NULL /\ inodes'[i].name = inodes[i].name
      /\ inodes'[i].open_cnt = inodes[i].open_cnt + 1 /\ inodes'[i].open_cnt # 0
      /\ inodes'[i].deny_write_cnt = inodes[i].deny_write_cnt
  BY <1>2, <1>3 DEF Inode, NullAssumption
<1>5. inodes' \in [Ino -> Inode \cup {NULL}]
  BY <1>2, <1>4 DEF TypeInv
<1>6. \A j \in Ino : /\ inodes'[j] # NULL <=> inodes[j] # NULL
                     /\ inodes'[j].name = inodes[j].name
                     /\ inodes'[j].open_cnt = 0 <=> inodes[j].open_cnt = 0
  BY <1>2, <1>3, <1>4
<1>7. LinkInv'
  BY <1>1, <1>6, OpenInode DEF LinkInv
<1>8. SameShape
  BY <1>1, <1>6 DEF SameShape
<1>9. CountInv'
  <2> SUFFICES ASSUME NEW j \in open_inodes
               PROVE  /\ inodes'[j].open_cnt = Cardinality(FilesOf(j)') + Cardinality(Holders(j)')
                      /\ inodes'[j].deny_write_cnt = Cardinality(DeniedOf(j)')
    BY DEF CountInv
  <2>1. /\ inodes[j].open_cnt = Cardinality(FilesOf(j)) + Cardinality(Holders(j))
        /\ inodes[j].deny_write_cnt = Cardinality(DeniedOf(j)) /\ j \in Ino
    BY OpenInode DEF CountInv
  <2>2. Holders(j)' = Holders(j)
    BY DEF Holders
  <2>3. CASE j # i
    BY <1>1, <1>3, <2>1, <2>2, <2>3
  <2>4. CASE j = i
    <3>1. Cardinality(FilesOf(i)') = Cardinality(FilesOf(i)) + 1
      BY <1>1, CountsFinite, OneMore
    <3>2. /\ inodes[i].open_cnt = Cardinality(FilesOf(i)) + Cardinality(Holders(i))
          /\ inodes[i].deny_write_cnt = Cardinality(DeniedOf(i)) /\ Holders(i)' = Holders(i)
      BY <2>1, <2>2, <2>4
    <3>3. /\ inodes'[i].open_cnt = Cardinality(FilesOf(i)') + Cardinality(Holders(i)')
          /\ inodes'[i].deny_write_cnt = Cardinality(DeniedOf(i)')
      BY <1>1, <1>4, <3>1, <3>2, CountsFinite
    <3> QED
      BY <2>4, <3>3
  <2> QED
    BY <2>3, <2>4
<1> QED
  BY <1>5, <1>7, <1>8, <1>9

(* file_deny_write.                                                        *)
LEMMA DenyHeap ==
  ASSUME FileTableAssumption, NullAssumption, TypeInv, LinkInv, CountInv, LocalInv, PointerInv,
         NEW p \in Proc, NotFreeing(p), NEW f \in FileObj, Counted(f), file_deny_write(f),
         NEW i, files[f].inode = i,
         UNCHANGED open_inodes, reg'[p].inode = reg[p].inode
  PROVE  /\ LinkInv' /\ CountInv' /\ SameShape
         /\ files' \in [FileObj -> File \cup {NULL}] /\ inodes' \in [Ino -> Inode \cup {NULL}]
<1>1. CASE files[f].deny_write
  <2>1. UNCHANGED fileVars
    BY <1>1 DEF file_deny_write, fileVars
  <2> QED
    BY <2>1, QuietHeap, QuietShape DEF TypeInv, fileVars
<1>2. CASE ~files[f].deny_write
  <2>1. /\ files[f] \in File /\ i \in open_inodes /\ i \in Ino
        /\ inodes[i] \in Inode /\ inodes[i] # NULL /\ f \in FilesOf(i)
    BY CountedOpen
  <2>2. /\ files' = [files EXCEPT ![f].deny_write = TRUE]
        /\ inodes' = [inodes EXCEPT ![i].deny_write_cnt = @ + 1]
    BY <1>2 DEF file_deny_write
  <2>4. /\ files'[f] = [files[f] EXCEPT !.deny_write = TRUE]
        /\ \A g \in FileObj : g # f => files'[g] = files[g]
    BY <2>2 DEF TypeInv
  <2>5. files'[f] \in File /\ files'[f] # NULL /\ files'[f].inode = i /\ files'[f].deny_write
    BY <2>1, <2>4 DEF File, NullAssumption
  <2>6. /\ inodes'[i] = [inodes[i] EXCEPT !.deny_write_cnt = @ + 1]
        /\ \A j \in Ino : j # i => inodes'[j] = inodes[j]
    BY <2>1, <2>2 DEF TypeInv
  <2>7. /\ inodes'[i] \in Inode /\ inodes'[i] # NULL /\ inodes'[i].name = inodes[i].name
        /\ inodes'[i].open_cnt = inodes[i].open_cnt
        /\ inodes'[i].deny_write_cnt = inodes[i].deny_write_cnt + 1
    BY <2>1, <2>6 DEF Inode, NullAssumption
  <2>8. files' \in [FileObj -> File \cup {NULL}] /\ inodes' \in [Ino -> Inode \cup {NULL}]
    BY <2>1, <2>2, <2>5, <2>7 DEF TypeInv
  <2>9. \A j \in Ino : /\ inodes'[j] # NULL <=> inodes[j] # NULL
                       /\ inodes'[j].name = inodes[j].name
                       /\ inodes'[j].open_cnt = inodes[j].open_cnt
    BY <2>1, <2>6, <2>7
  <2>10. \A g \in FileObj : (files'[g] # NULL <=> files[g] # NULL) /\ files'[g].inode = files[g].inode
    BY <2>1, <2>4, <2>5, CountedOpen DEF Counted
  <2>11. LinkInv'
    BY <2>9, <2>10 DEF LinkInv, TypeInv, File
  <2>12. SameShape
    BY <2>9, <2>10 DEF SameShape
  <2>13. \A g \in FileObj : Counted(g)' <=> Counted(g)
    BY <2>10, CountedSame
  <2>14. /\ \A j : FilesOf(j)' = FilesOf(j)
         /\ \A j : j # i => DeniedOf(j)' = DeniedOf(j)
         /\ DeniedOf(i)' = DeniedOf(i) \cup {f} /\ f \notin DeniedOf(i)
    <3>1. \A j : FilesOf(j)' = FilesOf(j)
      BY <2>10, <2>13 DEF FilesOf
    <3>2. \A j : j # i => f \notin FilesOf(j)
      BY DEF FilesOf
    <3>3. ASSUME NEW j, j # i PROVE DeniedOf(j)' = DeniedOf(j)
      <4>1. \A g \in FilesOf(j) : g \in FileObj /\ g # f
        BY <3>2, <3>3 DEF FilesOf
      <4>2. \A g \in FilesOf(j) : files'[g] = files[g]
        BY <2>4, <4>1
      <4> QED
        BY <3>1, <4>2 DEF DeniedOf
    <3>4. f \notin DeniedOf(i)
      BY <1>2 DEF DeniedOf
    <3>5. DeniedOf(i)' = DeniedOf(i) \cup {f}
      <4>1. \A g \in FilesOf(i) : g \in FileObj
        BY DEF FilesOf
      <4>2. \A g \in FilesOf(i) : g # f => files'[g] = files[g]
        BY <2>4, <4>1
      <4> QED
        BY <2>1, <2>5, <3>1, <4>2 DEF DeniedOf
    <3> QED
      BY <3>1, <3>3, <3>4, <3>5
  <2>15. CountInv'
    <3> SUFFICES ASSUME NEW j \in open_inodes
                 PROVE  /\ inodes'[j].open_cnt = Cardinality(FilesOf(j)') + Cardinality(Holders(j)')
                        /\ inodes'[j].deny_write_cnt = Cardinality(DeniedOf(j)')
      BY DEF CountInv
    <3>1. /\ inodes[j].open_cnt = Cardinality(FilesOf(j)) + Cardinality(Holders(j))
          /\ inodes[j].deny_write_cnt = Cardinality(DeniedOf(j)) /\ j \in Ino
      BY OpenInode DEF CountInv
    <3>2. Holders(j)' = Holders(j)
      BY DEF Holders, NotFreeing
    <3>3. CASE j # i
      BY <2>6, <2>14, <3>1, <3>2, <3>3
    <3>4. CASE j = i
      <4>1. Cardinality(DeniedOf(i)') = Cardinality(DeniedOf(i)) + 1
        BY <2>14, CountsFinite, OneMore
      <4>2. /\ inodes[i].open_cnt = Cardinality(FilesOf(i)) + Cardinality(Holders(i))
            /\ inodes[i].deny_write_cnt = Cardinality(DeniedOf(i)) /\ Holders(i)' = Holders(i)
        BY <3>1, <3>2, <3>4
      <4>3. /\ inodes'[i].open_cnt = Cardinality(FilesOf(i)') + Cardinality(Holders(i)')
            /\ inodes'[i].deny_write_cnt = Cardinality(DeniedOf(i)')
        BY <2>7, <2>14, <4>1, <4>2
      <4> QED
        BY <3>4, <4>3
    <3> QED
      BY <3>3, <3>4
  <2> QED
    BY <2>8, <2>11, <2>12, <2>15
<1> QED
  BY <1>1, <1>2


LEMMA AllowedFile ==
  ASSUME NEW r \in File
  PROVE  LET s == [r EXCEPT !.deny_write = FALSE] IN s \in File /\ s.inode = r.inode
BY DEF File

(* The first half of inode_close: the file is not counted any more.        *)
LEMMA DropHeap ==
  ASSUME FileTableAssumption, NullAssumption, TypeInv, LinkInv, CountInv,
         NEW p \in Proc, Others(p), \A q \in Proc \ {p} : reg'[q] = reg[q],
         Doing(p) # "free", Doing(p)' = "free",
         NEW f \in FileObj, Counted(f), reg'[p].file = f, reg'[p].inode = reg[p].inode,
         NEW i, files[f].inode = i,
         inodes' = [inodes EXCEPT ![i] = Uncount(@, files[f].deny_write)],
         files' = [files EXCEPT ![f].deny_write = FALSE], UNCHANGED open_inodes
  PROVE  /\ LinkInv' /\ CountInv'
         /\ files' \in [FileObj -> File \cup {NULL}] /\ inodes' \in [Ino -> Inode \cup {NULL}]
         /\ files'[f].inode = i /\ inodes'[i] # NULL
         /\ \A j \in Ino : inodes'[j] # NULL <=> inodes[j] # NULL
<1> DEFINE denied == files[f].deny_write
           s == Uncount(inodes[i], denied)
           count == IF denied THEN inodes[i].deny_write_cnt - 1 ELSE inodes[i].deny_write_cnt
<1>1. /\ files[f] \in File /\ i \in open_inodes /\ i \in Ino
      /\ inodes[i] \in Inode /\ inodes[i] # NULL /\ f \in FilesOf(i)
      /\ inodes[i].open_cnt \in Nat \ {0}
  BY CountedOpen
<1>2. files'[f] = [files[f] EXCEPT !.deny_write = FALSE] /\ \A g \in FileObj : g # f => files'[g] = files[g]
  BY DEF TypeInv
<1>3. files'[f] \in File /\ files'[f] # NULL /\ files'[f].inode = i
  <2>1. files'[f] \in File /\ files'[f].inode = i
    BY <1>1, <1>2, AllowedFile
  <2> QED
    BY <2>1, NullAssumption
<1>4. \A g \in FileObj : (files'[g] # NULL <=> files[g] # NULL) /\ files'[g].inode = files[g].inode
  BY <1>2, <1>3 DEF Counted
<1>5. /\ inodes'[i] = s /\ s = [inodes[i] EXCEPT !.open_cnt = inodes[i].open_cnt - 1, !.deny_write_cnt = count]
      /\ \A j \in Ino : j # i => inodes'[j] = inodes[j]
  <2>1. s = [inodes[i] EXCEPT !.open_cnt = inodes[i].open_cnt - 1, !.deny_write_cnt = count]
    BY DEF Uncount
  <2>2. inodes' = [inodes EXCEPT ![i] = s]
    OBVIOUS
  <2> HIDE DEF s
  <2> QED
    BY <1>1, <2>1, <2>2 DEF TypeInv
<1> HIDE DEF denied, s, count
<1>6. /\ inodes[i].open_cnt = Cardinality(FilesOf(i)) + Cardinality(Holders(i))
      /\ inodes[i].deny_write_cnt = Cardinality(DeniedOf(i))
  BY <1>1 DEF CountInv
<1>7. denied => f \in DeniedOf(i) /\ Cardinality(DeniedOf(i) \ {f}) = Cardinality(DeniedOf(i)) - 1
  BY <1>1, CountsFinite, OneLess DEF DeniedOf, denied
<1>8. Cardinality(DeniedOf(i) \ {f}) \in Nat /\ inodes[i].deny_write_cnt \in Nat
  BY <1>1, CountsFinite, FS_RemoveElement, FS_CardinalityType DEF Inode
<1>9. ~denied => DeniedOf(i) \ {f} = DeniedOf(i)
  BY DEF DeniedOf, denied
<1>10. count = Cardinality(DeniedOf(i) \ {f}) /\ count \in Nat /\ inodes[i].open_cnt - 1 \in Nat
  <2>1. CASE denied
    <3>1. count = inodes[i].deny_write_cnt - 1
      BY <2>1 DEF count
    <3> QED
      BY <1>1, <1>6, <1>7, <1>8, <2>1, <3>1
  <2>2. CASE ~denied
    <3>1. count = inodes[i].deny_write_cnt
      BY <2>2 DEF count
    <3> QED
      <4>1. DeniedOf(i) \ {f} = DeniedOf(i)
        BY <1>9, <2>2
      <4>2. inodes[i].open_cnt - 1 \in Nat
        BY <1>1
      <4> QED
        BY <1>6, <1>8, <3>1, <4>1, <4>2
  <2> QED
    BY <2>1, <2>2
<1>11. /\ inodes'[i] \in Inode /\ inodes'[i].name = inodes[i].name
       /\ inodes'[i].open_cnt = inodes[i].open_cnt - 1 /\ inodes'[i].deny_write_cnt = count
  <2>1. inodes[i] \in Inode /\ inodes[i].open_cnt - 1 \in Nat /\ count \in Nat
    BY <1>1, <1>10
  <2>2. /\ s \in Inode /\ s.name = inodes[i].name
        /\ s.open_cnt = inodes[i].open_cnt - 1 /\ s.deny_write_cnt = count
    BY <1>5, <2>1 DEF Inode
  <2> QED
    BY <1>5, <2>2
<1>12. inodes'[i] # NULL
  BY <1>11, NullAssumption
<1>13. files' \in [FileObj -> File \cup {NULL}] /\ inodes' \in [Ino -> Inode \cup {NULL}]
  BY <1>1, <1>3, <1>11 DEF TypeInv
<1>14. \A j \in Ino : (inodes'[j] # NULL <=> inodes[j] # NULL) /\ inodes'[j].name = inodes[j].name
  BY <1>1, <1>5, <1>11, <1>12
<1>15. LinkInv'
  <2>1. \A g \in FileObj : files[g] # NULL => files[g].inode \in Ino
    BY DEF TypeInv, File
  <2> QED
    <3>1. \A g \in FileObj : files'[g] # NULL => inodes'[files'[g].inode] # NULL
      BY <1>4, <1>14, <2>1 DEF LinkInv
    <3>2. open_inodes' = {j \in Ino : inodes'[j] # NULL}
      BY <1>14 DEF LinkInv
    <3>3. \A j, k \in open_inodes' : inodes'[j].name = inodes'[k].name => j = k
      BY <1>14, OpenInode DEF LinkInv
    <3> QED
      BY <3>1, <3>2, <3>3 DEF LinkInv
<1>16. /\ \A g \in FileObj : g # f => (Counted(g)' <=> Counted(g))
       /\ ~Counted(f)'
  <2>1. ~Counted(f)'
    BY DEF Counted
  <2>2. ASSUME NEW g \in FileObj, g # f PROVE Counted(g)' <=> Counted(g)
    <3>1. \A q \in Proc : (Doing(q)' = "free" => reg'[q].file # g) <=> (Doing(q) = "free" => reg[q].file # g)
      BY <2>2 DEF Others
    <3> QED
      BY <1>4, <3>1 DEF Counted
  <2> QED
    BY <2>1, <2>2
<1>17. /\ FilesOf(i)' = FilesOf(i) \ {f} /\ DeniedOf(i)' = DeniedOf(i) \ {f}
       /\ \A j : j # i => FilesOf(j)' = FilesOf(j) /\ DeniedOf(j)' = DeniedOf(j)
  <2>1. /\ FilesOf(i)' = FilesOf(i) \ {f}
        /\ \A j : j # i => FilesOf(j)' = FilesOf(j) /\ f \notin FilesOf(j)
    BY <1>4, <1>16 DEF FilesOf
  <2>2. \A j : \A g \in FilesOf(j) : g # f => files'[g] = files[g]
    BY <1>2 DEF FilesOf
  <2> QED
    BY <2>1, <2>2 DEF DeniedOf
<1>18. Cardinality(FilesOf(i)') = Cardinality(FilesOf(i)) - 1
  BY <1>1, <1>17, CountsFinite, OneLess
<1>19. \A j : Holders(j)' = Holders(j)
  <2>1. \A q \in Proc : reg'[q].inode = reg[q].inode
    OBVIOUS
  <2> QED
    BY <2>1 DEF Holders
<1>20. CountInv'
  <2> SUFFICES ASSUME NEW j \in open_inodes
               PROVE  /\ inodes'[j].open_cnt = Cardinality(FilesOf(j)') + Cardinality(Holders(j)')
                      /\ inodes'[j].deny_write_cnt = Cardinality(DeniedOf(j)')
    BY DEF CountInv
  <2>1. CASE j # i
    <3>1. /\ inodes[j].open_cnt = Cardinality(FilesOf(j)) + Cardinality(Holders(j))
          /\ inodes[j].deny_write_cnt = Cardinality(DeniedOf(j)) /\ j \in Ino
      BY OpenInode DEF CountInv
    <3> QED
      BY <1>5, <1>17, <1>19, <2>1, <3>1
  <2>2. CASE j = i
    <3>1. inodes'[i].open_cnt = Cardinality(FilesOf(i)') + Cardinality(Holders(i)')
      BY <1>1, <1>6, <1>11, <1>18, <1>19, CountsFinite
    <3>2. inodes'[i].deny_write_cnt = Cardinality(DeniedOf(i)')
      BY <1>10, <1>11, <1>17
    <3> QED
      BY <2>2, <3>1, <3>2
  <2> QED
    BY <2>1, <2>2
<1> QED
  BY <1>3, <1>12, <1>13, <1>14, <1>15, <1>20

(* The second half: the file is freed, and the inode if nobody has it open.*)
LEMMA FreeHeap ==
  ASSUME FileTableAssumption, NullAssumption, TypeInv, LinkInv, CountInv,
         NEW p \in Proc, Others(p), \A q \in Proc \ {p} : reg'[q] = reg[q],
         \A q \in Proc : Doing(q) = "free" => q = p,
         Doing(p) = "free", Doing(p)' # "free",
         NEW f \in FileObj, reg[p].file = f, files[f] # NULL,
         reg[p].inode = NULL, reg'[p].inode = NULL,
         NEW i, files[f].inode = i, reg[p].last <=> inodes[i].open_cnt = 0,
         inodes' = IF reg[p].last THEN [inodes EXCEPT ![i] = NULL] ELSE inodes,
         open_inodes' = open_inodes \ (IF reg[p].last THEN {i} ELSE {}),
         files' = [files EXCEPT ![f] = NULL]
  PROVE  /\ LinkInv' /\ CountInv'
         /\ files' \in [FileObj -> File \cup {NULL}] /\ inodes' \in [Ino -> Inode \cup {NULL}]
         /\ \A g \in FileObj : g # f => files'[g] = files[g]
         /\ \A q \in Proc : reg[q].inode # NULL => inodes'[reg[q].inode] = inodes[reg[q].inode]
<1>1. i \in Ino /\ i \in open_inodes /\ inodes[i] # NULL
  BY DEF TypeInv, File, LinkInv
<1>2. files'[f] = NULL /\ \A g \in FileObj : g # f => files'[g] = files[g]
  BY DEF TypeInv
<1>3. files' \in [FileObj -> File \cup {NULL}] /\ inodes' \in [Ino -> Inode \cup {NULL}]
  BY DEF TypeInv
<1>4. \A g \in FileObj : Counted(g)' <=> Counted(g)
  <2>1. ~Counted(f) /\ ~Counted(f)'
    BY <1>2 DEF Counted
  <2>2. ASSUME NEW g \in FileObj, g # f PROVE Counted(g)' <=> Counted(g)
    <3>1. \A q \in Proc : Doing(q)' # "free"
      BY DEF Others
    <3>2. \A q \in Proc : Doing(q) = "free" => reg[q].file # g
      BY <2>2
    <3> QED
      BY <1>2, <2>2, <3>1, <3>2 DEF Counted
  <2> QED
    BY <2>1, <2>2
<1>5. \A j : \A g \in FilesOf(j) : g \in FileObj /\ g # f /\ files'[g] = files[g]
  BY <1>2 DEF FilesOf, Counted
<1>6. \A j : FilesOf(j)' = FilesOf(j)
  <2>1. \A g \in FileObj : Counted(g) => g # f /\ files'[g] = files[g]
    BY <1>2 DEF Counted
  <2> QED
    BY <1>4, <2>1 DEF FilesOf
<1>7. \A j : DeniedOf(j)' = DeniedOf(j)
  BY <1>5, <1>6 DEF DeniedOf
<1>8. \A j : j # NULL => Holders(j)' = Holders(j)
  BY DEF Holders
<1>9. CASE ~reg[p].last
  <2>1. UNCHANGED <<inodes, open_inodes>>
    BY <1>9
  <2>2. LinkInv'
    BY <1>2, <2>1 DEF LinkInv
  <2>3. CountInv'
    BY <1>6, <1>7, <1>8, <2>1, OpenInode DEF CountInv, FileTableAssumption, Ino
  <2> QED
    BY <1>2, <1>3, <2>1, <2>2, <2>3
<1>10. CASE reg[p].last
  <2>1. /\ inodes'[i] = NULL /\ \A j \in Ino : j # i => inodes'[j] = inodes[j]
        /\ open_inodes' = open_inodes \ {i}
    BY <1>1, <1>10 DEF TypeInv
  <2>2. FilesOf(i) = {} /\ Holders(i) = {}
    <3>1. Cardinality(FilesOf(i)) + Cardinality(Holders(i)) = 0
      BY <1>1, <1>10 DEF CountInv
    <3>2. Cardinality(FilesOf(i)) = 0 /\ Cardinality(Holders(i)) = 0
      BY <3>1, CountsFinite
    <3> QED
      BY <3>2, CountsFinite, FS_EmptySet
  <2>3. ASSUME NEW g \in FileObj, g # f, files[g] # NULL PROVE files[g].inode # i
    <3>1. Counted(g)
      BY <2>3 DEF Counted
    <3> QED
      BY <2>2, <3>1 DEF FilesOf
  <2>4. LinkInv'
    <3>1. \A g \in FileObj : files'[g] # NULL => inodes'[files'[g].inode] # NULL
      BY <1>2, <2>1, <2>3 DEF LinkInv, TypeInv, File
    <3>2. open_inodes' = {j \in Ino : inodes'[j] # NULL}
      BY <1>1, <2>1 DEF LinkInv
    <3>3. \A j, k \in open_inodes' : inodes'[j].name = inodes'[k].name => j = k
      BY <2>1, OpenInode DEF LinkInv
    <3> QED
      BY <3>1, <3>2, <3>3 DEF LinkInv
  <2>5. CountInv'
    <3>1. ASSUME NEW j \in open_inodes'
          PROVE  /\ inodes'[j].open_cnt = Cardinality(FilesOf(j)') + Cardinality(Holders(j)')
                 /\ inodes'[j].deny_write_cnt = Cardinality(DeniedOf(j)')
      <4>1. j \in open_inodes /\ j # i /\ j \in Ino /\ inodes'[j] = inodes[j]
        BY <2>1, <3>1, OpenInode
      <4>2. j # NULL
        BY <4>1 DEF FileTableAssumption, Ino
      <4> QED
        BY <1>6, <1>7, <1>8, <4>1, <4>2 DEF CountInv
    <3> QED
      BY <3>1 DEF CountInv
  <2>6. \A q \in Proc : reg[q].inode # NULL => inodes'[reg[q].inode] = inodes[reg[q].inode]
    <3>1. \A q \in Proc : reg[q].inode # i
      BY <2>2 DEF Holders
    <3> QED
      BY <2>1, <3>1 DEF TypeInv
  <2> QED
    BY <1>2, <1>3, <2>4, <2>5, <2>6
<1> QED
  BY <1>9, <1>10


-----------------------------------------------------------------------------
(* What the rest of a call uses.                                           *)
LEMMA UsesMore ==
  ASSUME NEW k, NEW s, s = <<>> \/ Script(k, s), NEW f, NEW g, NEW f2, NEW g2, Uses(f, g, s),
         \A d \in Fd : f[d] # NULL => f2[d] # NULL, g # NULL => g2 # NULL
  PROVE  Uses(f2, g2, s)
<1>1. CASE s = <<>>
  BY <1>1 DEF Uses
<1>2. CASE Script(k, s)
  <2> SUFFICES ASSUME NEW i \in 1 .. Len(s) PROVE UsesStep(f2, g2, s[i])
    BY DEF Uses
  <2>1. UsesStep(f, g, s[i]) /\ Typed(s[i])
    BY <1>2 DEF Uses, Script, Piece
  <2>2. s[i].do = "inherit" => s[i].arg.fd \in Fd
    BY <2>1 DEF Typed
  <2> QED
    BY <2>1, <2>2 DEF UsesStep, Typed
<1> QED
  BY <1>1, <1>2

(* Nothing that is open goes away.                                         *)
LEMMA UseKept ==
  ASSUME FileTableAssumption, CallInv, UseInv, NEW p \in Proc, call[p] \in Kind, NEW s,
         Others(p), Goes(p, s), s = <<>> \/ Script(call[p], s),
         Uses(fds[p], program[p], s),
         \A q \in Proc, d \in Fd : fds[q][d] # NULL => fds'[q][d] # NULL,
         \A q \in Proc : program[q] # NULL => program'[q] # NULL
  PROVE  UseInv'
<1> SUFFICES ASSUME NEW q \in Proc PROVE Uses(fds'[q], program'[q], todo'[q])
  BY DEF UseInv
<1>1. CASE q = p
  <2>1. todo'[p] = s
    BY DEF Goes
  <2>2. \A d \in Fd : fds[p][d] # NULL => fds'[p][d] # NULL
    OBVIOUS
  <2>3. program[p] # NULL => program'[p] # NULL
    OBVIOUS
  <2>4. Uses(fds'[p], program'[p], s)
    BY <2>2, <2>3, UsesMore
  <2> QED
    BY <1>1, <2>1, <2>4
<1>2. CASE q # p
  <2>1. todo'[q] = todo[q] /\ Uses(fds[q], program[q], todo[q])
    BY <1>2 DEF Others, UseInv
  <2>2. todo[q] = <<>> \/ Script(call[q], todo[q])
    BY DEF CallInv
  <2>3. Uses(fds'[q], program'[q], todo[q])
    BY <2>1, <2>2, UsesMore
  <2> QED
    BY <2>1, <2>3
<1> QED
  BY <1>1, <1>2

(* A step of a script uses what is open.                                   *)
LEMMA UsesOpen ==
  ASSUME CallInv, UseInv, NEW p \in Proc, Doing(p) # "nothing"
  PROVE  /\ UsesStep(fds[p], program[p], Head(todo[p]))
         /\ Uses(fds[p], program[p], Tail(todo[p]))
         /\ Tail(todo[p]) = <<>> \/ Script(call[p], Tail(todo[p]))
<1>1. Script(call[p], todo[p]) /\ Head(todo[p]) = todo[p][1]
  BY InCall
<1>2. Uses(fds[p], program[p], todo[p])
  BY DEF UseInv
<1> QED
  BY <1>1, <1>2, ScriptTail

LEMMA AdvanceUses ==
  ASSUME FileTableAssumption, TypeInv, CallInv, UseInv, NEW p \in Proc, Doing(p) # "nothing", Advance(p),
         \A q \in Proc, d \in Fd : fds[q][d] # NULL => fds'[q][d] # NULL,
         \A q \in Proc : program[q] # NULL => program'[q] # NULL
  PROVE  UseInv'
<1>1. Others(p) /\ Goes(p, Tail(todo[p]))
  BY ThenGoes DEF Advance
<1>2. call[p] \in Kind
  BY InCall
<1> QED
  BY <1>1, <1>2, UsesOpen, UseKept

(* A descriptor, or the program, is cleared once in a script.              *)
LEMMA ClearedOnce ==
  ASSUME NEW k \in {"close", "exit"}, NEW s, Script(k, s), s[1].do \in {"clear", "clear_program"},
         NEW f, NEW g
  PROVE  Uses(f, g, Tail(s))
<1>1. s \in Seq(Steps) /\ Len(s) \in Nat \ {0}
  BY ScriptTail DEF Script, Piece
<1>2. \A i \in 1 .. Len(s) - 1 : s[i + 1].do \notin {"reopen", "clear", "check", "dup_deny", "inherit", "clear_program"}
  <2> SUFFICES ASSUME NEW i \in 1 .. Len(s) - 1
               PROVE  s[i + 1].do \notin {"reopen", "clear", "check", "dup_deny", "inherit", "clear_program"}
    OBVIOUS
  <2>1. Follows(s[i], s[i + 1])
    BY DEF Script, Piece
  <2>2. i \in 1 .. Len(s) /\ i + 1 \in 1 .. Len(s)
    BY <1>1
  <2>3. StepOf(k, s[i].do) /\ StepOf(k, s[i + 1].do)
    BY <2>2 DEF Script, Piece
  <2>4. s[i + 1].do \notin {"reopen", "check", "dup_deny", "inherit", "clear_program"}
    BY <2>1, <2>3 DEF StepOf, Follows
  <2>5. s[i + 1].do # "clear"
    <3>1. SUFFICES ASSUME s[i + 1].do = "clear" PROVE FALSE
      OBVIOUS
    <3>2. s[i].do = "lock"
      BY <2>1, <3>1 DEF Follows
    <3>3. i # 1
      BY <3>2
    <3>4. i - 1 \in 1 .. Len(s) - 1 /\ (i - 1) + 1 = i
      BY <1>1, <3>3
    <3>5. Follows(s[i - 1], s[i])
      BY <3>4 DEF Script, Piece
    <3> QED
      BY <3>2, <3>5 DEF Follows
  <2> QED
    BY <2>4, <2>5
<1>3. /\ Len(Tail(s)) = Len(s) - 1 /\ \A i \in 1 .. Len(s) - 1 : Tail(s)[i] = s[i + 1]
  BY <1>1
<1> QED
  BY <1>2, <1>3 DEF Uses, UsesStep

(* A process clears its own descriptor or program.                         *)
LEMMA ClearUses ==
  ASSUME FileTableAssumption, TypeInv, CallInv, UseInv, NEW p \in Proc,
         Doing(p) \in {"clear", "clear_program"}, Advance(p),
         \A q \in Proc \ {p} : fds'[q] = fds[q] /\ program'[q] = program[q]
  PROVE  UseInv'
<1>1. Others(p) /\ Goes(p, Tail(todo[p]))
  BY ThenGoes DEF Advance
<1>2. /\ Script(call[p], todo[p]) /\ Head(todo[p]) = todo[p][1] /\ Doing(p) = Head(todo[p]).do
      /\ StepOf(call[p], Doing(p))
  BY InCall
<1>3. call[p] \in {"close", "exit"}
  BY <1>2 DEF StepOf
<1>4. Uses(fds'[p], program'[p], Tail(todo[p]))
  BY <1>2, <1>3, ClearedOnce
<1> QED
  BY <1>1, <1>4 DEF UseInv, Others, Goes


-----------------------------------------------------------------------------
(* The steps that change no file and no inode.                             *)
QuietStep(p) ==
  /\ Others(p) /\ call' \in [Proc -> Kind \cup {NULL}] /\ DOMAIN todo' = Proc
  /\ UNCHANGED fileVars
  /\ reg' \in [Proc -> Regs] /\ \A q \in Proc \ {p} : reg'[q] = reg[q]
  /\ reg'[p].inode = reg[p].inode

LEMMA QuietKeeps ==
  ASSUME IInv, NEW p \in Proc, QuietStep(p), Doing(p) # "free", Doing(p)' # "free", LocalOK(p)'
  PROVE  LocalInv' /\ LinkInv' /\ CountInv'
<1>1. TypeInv /\ LocalInv /\ PointerInv /\ LinkInv /\ CountInv
  BY DEF IInv, HeapInv
<1>2. Others(p) /\ UNCHANGED fileVars
  BY DEF QuietStep
<1>3. SameShape /\ NotFreeing(p)
  BY <1>2, QuietShape DEF NotFreeing, QuietStep
<1>4. LinkInv' /\ CountInv'
  BY <1>1, <1>2, <1>3, QuietHeap DEF QuietStep
<1>5. LocalInv'
  BY <1>1, <1>2, <1>3, LocalSame DEF QuietStep
<1> QED
  BY <1>4, <1>5

(* Steps around which the locals hold nothing.                             *)
Busy == Holding \cup {"file_open", "take"}

LEMMA Idle ==
  ASSUME IInv, NEW p \in Proc, Doing(p) \notin Busy
  PROVE  reg[p].inode = NULL /\ reg[p].file = NULL
BY DEF IInv, LocalInv, LocalOK, Busy

LEMMA IdleOK ==
  ASSUME NEW p \in Proc, Doing(p)' \notin Busy, reg'[p].inode = NULL, reg'[p].file = NULL
  PROVE  LocalOK(p)'
BY DEF LocalOK, Busy, Holding

LEMMA LocalsFree ==
  /\ Locals \in Regs
  /\ Locals.inode = NULL /\ Locals.file = NULL /\ Locals.found = NULL /\ Locals.last = FALSE
BY DEF Locals, Regs

LEMMA IdleKeeps ==
  ASSUME IInv, NEW p \in Proc, Others(p), Doing(p) \notin Busy, Doing(p)' \notin Busy,
         call' \in [Proc -> Kind \cup {NULL}], DOMAIN todo' = Proc,
         ControlInv', UseInv', UNCHANGED <<fileVars, fds, program>>,
         pages' \in [Proc -> FileObj \cup {NULL}], \A r \in Proc : pages'[r] \in {pages[r], NULL},
         reg' \in [Proc -> Regs], \A q \in Proc \ {p} : reg'[q] = reg[q],
         reg'[p].inode = NULL, reg'[p].file = NULL
  PROVE  IInv'
<1>1. TypeInv /\ PointerInv
  BY DEF IInv, HeapInv
<1>2. reg[p].inode = NULL /\ reg[p].file = NULL
  BY Idle
<1>3. Doing(p) # "free" /\ Doing(p)' # "free"
  BY DEF Busy, Holding
<1>4. LocalInv' /\ LinkInv' /\ CountInv'
  BY <1>2, <1>3, IdleOK, QuietKeeps DEF QuietStep
<1>5. PointerInv'
  <2>1. \A r \in Proc : reg'[r].file \in {reg[r].file, NULL}
    BY <1>2
  <2>2. \A g \in FileObj : files[g] # NULL => files'[g] # NULL
    BY DEF fileVars
  <2> QED
    BY <1>1, <2>1, <2>2, PointersStay
<1>6. TypeInv'
  BY <1>1 DEF TypeInv, fileVars
<1> QED
  BY <1>4, <1>5, <1>6 DEF IInv, HeapInv


(* The invariant at a step of a call.                                      *)
LEMMA Parts ==
  ASSUME IInv
  PROVE  /\ TypeInv /\ ControlInv /\ UseInv /\ LocalInv /\ HeapInv
         /\ CallInv /\ AloneInv /\ LockInv /\ PointerInv /\ LinkInv /\ CountInv
BY DEF IInv, ControlInv, HeapInv

LEMMA AtCall ==
  ASSUME FileTableAssumption, IInv, NEW p \in Proc, NEW do, At(p, do), do # "nothing"
  PROVE  /\ Doing(p) = do /\ Doing(p) # "nothing" /\ Head(todo[p]).do = do
         /\ call[p] \in Kind /\ call[p] # NULL /\ StepOf(call[p], do) /\ Typed(Head(todo[p]))
         /\ Arg(p) = Head(todo[p]).arg /\ UsesStep(fds[p], program[p], Head(todo[p]))
<1>1. Doing(p) = do
  BY DEF At
<1>2. Doing(p) # "nothing" /\ CallInv /\ UseInv
  BY <1>1, Parts
<1>3. /\ Doing(p) = Head(todo[p]).do /\ call[p] \in Kind /\ StepOf(call[p], Doing(p))
      /\ Typed(Head(todo[p])) /\ Arg(p) = Head(todo[p]).arg
  BY <1>2, InCall
<1>4. UsesStep(fds[p], program[p], Head(todo[p]))
  BY <1>2, UsesOpen
<1>5. call[p] # NULL
  BY <1>3 DEF FileTableAssumption
<1> QED
  BY <1>1, <1>2, <1>3, <1>4, <1>5

(* A step that goes on with the script.                                    *)
LEMMA OnStep ==
  ASSUME FileTableAssumption, IInv, NEW p \in Proc, Doing(p) \notin {"nothing", "lock", "unlock", "place"},
         Advance(p), filesys_lock' = filesys_lock
  PROVE  /\ Others(p) /\ Successor(p) /\ ControlInv'
         /\ call' \in [Proc -> Kind \cup {NULL}] /\ DOMAIN todo' = Proc
BY Parts, Advances DEF Goes

(* A step that puts other steps in its place.                              *)
LEMMA TurnStep ==
  ASSUME FileTableAssumption, IInv, NEW p \in Proc, Doing(p) \notin {"nothing", "lock"},
         NEW s, s # <<>>, Script(call[p], s), Head(s).do # "lock", Uses(fds[p], program[p], s),
         Then(p, s), filesys_lock' = filesys_lock, UNCHANGED <<fds, program>>
  PROVE  /\ Others(p) /\ Doing(p)' = Head(s).do /\ ControlInv' /\ UseInv'
         /\ call' \in [Proc -> Kind \cup {NULL}] /\ DOMAIN todo' = Proc
<1>1. Others(p) /\ Goes(p, s)
  BY Parts, ThenGoes
<1>2. call[p] \in Kind
  BY Parts, InCall
<1>3. CallInv' /\ AloneInv'
  BY <1>1, <1>2, Parts, GoesCalls
<1>4. LockInv'
  BY <1>1, <1>2, Parts, GoesLock
<1>5. UseInv'
  BY <1>1, <1>2, Parts, UseKept
<1> QED
  BY <1>1, <1>3, <1>4, <1>5 DEF Goes, ControlInv

LEMMA LockKeeps ==
  ASSUME FileTableAssumption, IInv, NEW p \in Proc, LockStep(p)
  PROVE  IInv'
<1>1. At(p, "lock") /\ filesys_lock = NULL /\ filesys_lock' = p /\ Advance(p)
  BY DEF LockStep
<1>2. Doing(p) = "lock" /\ StepOf(call[p], "lock") /\ Head(todo[p]).do = "lock" /\ call[p] \in Kind
  BY <1>1, AtCall
<1>3. Others(p) /\ Goes(p, Tail(todo[p])) /\ Successor(p) /\ CallInv' /\ AloneInv'
  BY <1>1, <1>2, Parts, Advances
<1>4. Doing(p)' \in {"place", "clear", "check", "tell"} /\ call'[p] = call[p] /\ call[p] \in Locking
  BY <1>2, <1>3 DEF Successor, Follows, LastOf, StepOf, Locking
<1>5. LockInv'
  <2>1. ASSUME NEW q \in Proc, q # p PROVE ~(call[q] \in Locking /\ Doing(q) # "lock")
    BY <1>1, Parts DEF LockInv, FileTableAssumption
  <2> QED
    BY <1>1, <1>3, <1>4, <2>1 DEF LockInv, Others
<1>6. ControlInv'
  BY <1>3, <1>5 DEF ControlInv
<1>7. UseInv'
  BY <1>1, <1>2, Parts, AdvanceUses DEF LockStep, procVars
<1>8. reg[p].inode = NULL /\ reg[p].file = NULL
  BY <1>2, Idle DEF Busy, Holding
<1> QED
  BY <1>2, <1>3, <1>4, <1>6, <1>7, <1>8, Parts, IdleKeeps
  DEF LockStep, procVars, Goes, Busy, Holding, TypeInv

LEMMA UnlockKeeps ==
  ASSUME FileTableAssumption, IInv, NEW p \in Proc, UnlockStep(p)
  PROVE  IInv'
<1>1. At(p, "unlock") /\ filesys_lock' = NULL /\ Advance(p) /\ reg' = [reg EXCEPT ![p] = Locals]
  BY DEF UnlockStep, Local
<1>2. Doing(p) = "unlock" /\ StepOf(call[p], "unlock") /\ Head(todo[p]).do = "unlock" /\ call[p] \in Kind
  BY <1>1, AtCall
<1>3. Others(p) /\ Goes(p, Tail(todo[p])) /\ Successor(p) /\ CallInv' /\ AloneInv'
  BY <1>1, <1>2, Parts, Advances
<1>4. Doing(p)' = "nothing" /\ call'[p] = NULL /\ call[p] \in Locking
  BY <1>2, <1>3 DEF Successor, Follows, StepOf, Locking
<1>5. LockInv'
  <2>1. filesys_lock = p
    BY <1>2, <1>4, Parts DEF LockInv
  <2>2. ASSUME NEW q \in Proc, q # p PROVE ~(call[q] \in Locking /\ Doing(q) # "lock")
    BY <2>1, <2>2, Parts DEF LockInv
  <2>3. NULL \notin Locking /\ NULL \notin Proc
    BY DEF FileTableAssumption, Kind, Locking
  <2> QED
    BY <1>1, <1>3, <1>4, <2>2, <2>3 DEF LockInv, Others
<1>6. ControlInv'
  BY <1>3, <1>5 DEF ControlInv
<1>7. UseInv'
  BY <1>1, <1>2, Parts, AdvanceUses DEF UnlockStep, procVars
<1>8. reg' \in [Proc -> Regs] /\ reg'[p].inode = NULL /\ reg'[p].file = NULL /\ \A q \in Proc \ {p} : reg'[q] = reg[q]
  BY <1>1, Parts, LocalsFree DEF TypeInv
<1> QED
  BY <1>2, <1>3, <1>4, <1>6, <1>7, <1>8, Parts, IdleKeeps
  DEF UnlockStep, procVars, Goes, Busy, Holding, TypeInv


(* A non-empty set of natural numbers has a least element, which Min gives.*)
LEMMA MinOfNats ==
  ASSUME NEW S, S \subseteq Nat, S # {}
  PROVE  Min(S) \in S
<1>1. PICK m \in S : \A n \in S : ~(<<n, m>> \in OpToRel(<, Nat))
  BY NatLessThanWellFounded, WFMin
<1>2. \A n \in S : m <= n
  <2> SUFFICES ASSUME NEW n \in S, n < m PROVE FALSE
    OBVIOUS
  <2> <<n, m>> \in OpToRel(<, Nat)
    BY DEF OpToRel
  <2> QED
    BY <1>1
<1> QED
  BY <1>1, <1>2 DEF Min

LEMMA PlaceTurns ==
  ASSUME FileTableAssumption, IInv, NEW p \in Proc, Place(p)
  PROVE  /\ Doing(p) = "place" /\ call[p] = "open"
         /\ \E s : /\ Then(p, s) /\ s # <<>> /\ Script("open", s) /\ Uses(fds[p], program[p], s)
                  /\ Head(s).do \in {"unlock", "find"}
<1>1. At(p, "place") /\ UNCHANGED <<fileVars, procVars, filesys_lock, reg, panicked>>
  BY DEF Place
<1>2. Doing(p) = "place" /\ StepOf(call[p], "place") /\ Arg(p) \in Name
  BY <1>1, AtCall DEF Typed
<1>3. call[p] = "open"
  BY <1>2 DEF StepOf
<1>4. \E s :
        /\ Then(p, s) /\ s # <<>> /\ Script("open", s) /\ Uses(fds[p], program[p], s)
        /\ Head(s).do \in {"unlock", "find"}
  <2>1. CASE OpenFds(p) = Fd
    <3>1. Then(p, Step("unlock", NULL))
      BY <2>1 DEF Place
    <3> QED
      BY <3>1, UnlockScript DEF Locking, At1
  <2>2. CASE OpenFds(p) # Fd
    <3> DEFINE d == Min(Fd \ OpenFds(p))
               s == filesys_open(Arg(p)) \o Step("install", d) \o Step("unlock", NULL)
    <3>1. Then(p, s)
      BY <2>2 DEF Place
    <3>2. Fd \ OpenFds(p) # {} /\ Fd \ OpenFds(p) \subseteq Nat
      BY <2>2 DEF OpenFds, Fd
    <3>3. d \in Fd
      BY <3>2, MinOfNats
    <3> HIDE DEF d
    <3>4. s # <<>> /\ Script("open", s) /\ Uses(fds[p], program[p], s) /\ Head(s) = At1("find", Arg(p))
      BY <1>2, <3>3, PlaceScript
    <3> HIDE DEF s
    <3> QED
      BY <3>1, <3>4 DEF At1
  <2> QED
    BY <2>1, <2>2
<1> QED
  BY <1>2, <1>3, <1>4

LEMMA PlaceKeeps ==
  ASSUME FileTableAssumption, IInv, NEW p \in Proc, Place(p)
  PROVE  IInv'
<1>1. UNCHANGED <<fileVars, procVars, filesys_lock, reg, panicked>>
  BY DEF Place
<1>2. Doing(p) = "place" /\ call[p] = "open"
  BY PlaceTurns
<1>3. PICK s :
        /\ Then(p, s) /\ s # <<>> /\ Script("open", s) /\ Uses(fds[p], program[p], s)
        /\ Head(s).do \in {"unlock", "find"}
  BY PlaceTurns
<1>4. /\ Others(p) /\ Doing(p)' \in {"unlock", "find"} /\ ControlInv' /\ UseInv'
      /\ call' \in [Proc -> Kind \cup {NULL}] /\ DOMAIN todo' = Proc
  BY <1>1, <1>2, <1>3, TurnStep DEF procVars
<1>5. reg[p].inode = NULL /\ reg[p].file = NULL
  BY <1>2, Idle DEF Busy, Holding
<1> QED
  BY <1>1, <1>2, <1>4, <1>5, Parts, IdleKeeps DEF procVars, Busy, Holding, TypeInv

LEMMA CopyTurns ==
  ASSUME FileTableAssumption, IInv, NEW p \in Proc, Copy(p)
  PROVE  /\ Doing(p) = "copy" /\ call[p] = "fork"
         /\ \E s : /\ Then(p, s) /\ s # <<>> /\ Script("fork", s) /\ Uses(fds[p], program[p], s)
                  /\ Head(s).do \in {"start", "copy", "reopen"} /\ ForChild(Arg(p).child, s)
<1>1. At(p, "copy") /\ UNCHANGED <<fileVars, procVars, filesys_lock, reg, panicked>>
  BY DEF Copy
<1>2. Doing(p) = "copy" /\ StepOf(call[p], "copy") /\ Arg(p) \in [child : Proc, fd : 1 .. Fds + 1]
  BY <1>1, AtCall DEF Typed
<1>3. call[p] = "fork"
  BY <1>2 DEF StepOf
<1>4. PICK q \in Proc, d \in 1 .. Fds + 1 : q = Arg(p).child /\ d = Arg(p).fd
  BY <1>2
<1> DEFINE y == [child |-> q, fd |-> d + 1]
           x == [child |-> q, fd |-> d]
           next == Step("copy", y)
           one == file_reopen(d) \o Step("inherit", x) \o next
<1>5. \/ Then(p, Step("start", q))
      \/ d <= Fds /\ Then(p, next)
      \/ d <= Fds /\ fds[p][d] # NULL /\ Then(p, one)
  BY <1>4 DEF Copy, FileTableAssumption
<1>6. /\ LET s == Step("start", q)
         IN  s # <<>> /\ Script("fork", s) /\ Uses(fds[p], program[p], s) /\ Head(s) = At1("start", q)
      /\ d <= Fds => /\ next # <<>> /\ Script("fork", next) /\ Uses(fds[p], program[p], next)
                     /\ Head(next) = At1("copy", [child |-> q, fd |-> d + 1])
      /\ d <= Fds /\ fds[p][d] # NULL =>
           one # <<>> /\ Script("fork", one) /\ Uses(fds[p], program[p], one) /\ Head(one) = At1("reopen", d)
  <2>1. LET s == Step("start", q)
        IN  s # <<>> /\ Script("fork", s) /\ Uses(fds[p], program[p], s) /\ Head(s) = At1("start", q)
    BY CopyScript
  <2>2. d <= Fds => /\ next # <<>> /\ Script("fork", next) /\ Uses(fds[p], program[p], next)
                    /\ Head(next) = At1("copy", [child |-> q, fd |-> d + 1])
    BY CopyScript
  <2>3. d <= Fds /\ fds[p][d] # NULL =>
          one # <<>> /\ Script("fork", one) /\ Uses(fds[p], program[p], one) /\ Head(one) = At1("reopen", d)
    <3> SUFFICES ASSUME d <= Fds, fds[p][d] # NULL
                 PROVE  one # <<>> /\ Script("fork", one) /\ Uses(fds[p], program[p], one)
                        /\ Head(one) = At1("reopen", d)
      OBVIOUS
    <3>1. /\ d \in Fd /\ x \in [child : Proc, fd : Fd] /\ x.fd = d
          /\ y \in [child : Proc, fd : 1 .. Fds + 1]
      BY DEF Fd, FileTableAssumption
    <3> HIDE DEF x, y
    <3> QED
      BY <3>1, InheritScript
  <2> HIDE DEF next, one
  <2> QED
    BY <2>1, <2>2, <2>3
<1>7. \E s :
        /\ Then(p, s) /\ s # <<>> /\ Script("fork", s) /\ Uses(fds[p], program[p], s)
        /\ Head(s).do \in {"start", "copy", "reopen"} /\ ForChild(q, s)
  <2>1. ForChild(q, Step("start", q)) /\ (d <= Fds => ForChild(q, next) /\ ForChild(q, one))
    BY CopySteps
  <2> HIDE DEF next, one
  <2> QED
    BY <1>5, <1>6, <2>1 DEF At1
<1> QED
  BY <1>2, <1>3, <1>4, <1>7

LEMMA CopyKeeps ==
  ASSUME FileTableAssumption, IInv, NEW p \in Proc, Copy(p)
  PROVE  IInv'
<1>1. UNCHANGED <<fileVars, procVars, filesys_lock, reg, panicked>>
  BY DEF Copy
<1>2. Doing(p) = "copy" /\ call[p] = "fork"
  BY CopyTurns
<1>3. PICK s :
        /\ Then(p, s) /\ s # <<>> /\ Script("fork", s) /\ Uses(fds[p], program[p], s)
        /\ Head(s).do \in {"start", "copy", "reopen"}
  BY CopyTurns
<1>4. /\ Others(p) /\ Doing(p)' \in {"start", "copy", "reopen"} /\ ControlInv' /\ UseInv'
      /\ call' \in [Proc -> Kind \cup {NULL}] /\ DOMAIN todo' = Proc
  BY <1>1, <1>2, <1>3, TurnStep DEF procVars
<1>5. reg[p].inode = NULL /\ reg[p].file = NULL
  BY <1>2, Idle DEF Busy, Holding
<1> QED
  BY <1>1, <1>2, <1>4, <1>5, Parts, IdleKeeps DEF procVars, Busy, Holding, TypeInv

LEMMA ShutTurns ==
  ASSUME FileTableAssumption, IInv, NEW p \in Proc, Shut(p)
  PROVE  /\ Doing(p) = "shut" /\ call[p] = "exit"
         /\ \E s : /\ Then(p, s) /\ s # <<>> /\ Script("exit", s) /\ Uses(fds[p], program[p], s)
                  /\ Head(s).do \in {"shut", "clear", "gone", "clear_program"}
<1>1. At(p, "shut") /\ UNCHANGED <<fileVars, procVars, filesys_lock, reg, panicked>>
  BY DEF Shut
<1>2. Doing(p) = "shut" /\ StepOf(call[p], "shut") /\ Arg(p) \in 1 .. Fds + 1
  BY <1>1, AtCall DEF Typed
<1>3. call[p] = "exit"
  BY <1>2 DEF StepOf
<1> DEFINE d == Arg(p)
           next == Step("shut", d + 1)
           one == Step("clear", d) \o file_close \o Step("shut", d + 1)
           gone == Step("gone", NULL)
           last == Step("clear_program", NULL) \o file_close \o Step("gone", NULL)
<1>4. \/ d <= Fds /\ Then(p, next)
      \/ d <= Fds /\ fds[p][d] # NULL /\ Then(p, one)
      \/ Then(p, gone)
      \/ program[p] # NULL /\ Then(p, last)
  BY DEF Shut
<1>5. /\ d <= Fds => /\ next # <<>> /\ Script("exit", next) /\ Uses(fds[p], program[p], next)
                     /\ Head(next) = At1("shut", d + 1)
      /\ d <= Fds /\ fds[p][d] # NULL =>
           one # <<>> /\ Script("exit", one) /\ Uses(fds[p], program[p], one) /\ Head(one) = At1("clear", d)
      /\ gone # <<>> /\ Script("exit", gone) /\ Uses(fds[p], program[p], gone) /\ Head(gone) = At1("gone", NULL)
      /\ program[p] # NULL =>
           /\ last # <<>> /\ Script("exit", last) /\ Uses(fds[p], program[p], last)
           /\ Head(last) = At1("clear_program", NULL)
  BY <1>2, ShutScript
<1>6. \E s :
        /\ Then(p, s) /\ s # <<>> /\ Script("exit", s) /\ Uses(fds[p], program[p], s)
        /\ Head(s).do \in {"shut", "clear", "gone", "clear_program"}
  <2> HIDE DEF d, next, one, gone, last
  <2> QED
    BY <1>4, <1>5 DEF At1
<1> QED
  BY <1>2, <1>3, <1>6

LEMMA ShutKeeps ==
  ASSUME FileTableAssumption, IInv, NEW p \in Proc, Shut(p)
  PROVE  IInv'
<1>1. UNCHANGED <<fileVars, procVars, filesys_lock, reg, panicked>>
  BY DEF Shut
<1>2. Doing(p) = "shut" /\ call[p] = "exit"
  BY ShutTurns
<1>3. PICK s :
        /\ Then(p, s) /\ s # <<>> /\ Script("exit", s) /\ Uses(fds[p], program[p], s)
        /\ Head(s).do \in {"shut", "clear", "gone", "clear_program"}
  BY ShutTurns
<1>4. /\ Others(p) /\ Doing(p)' \in {"shut", "clear", "gone", "clear_program"} /\ ControlInv' /\ UseInv'
      /\ call' \in [Proc -> Kind \cup {NULL}] /\ DOMAIN todo' = Proc
  BY <1>1, <1>2, <1>3, TurnStep DEF procVars
<1>5. reg[p].inode = NULL /\ reg[p].file = NULL
  BY <1>2, Idle DEF Busy, Holding
<1> QED
  BY <1>1, <1>2, <1>4, <1>5, Parts, IdleKeeps DEF procVars, Busy, Holding, TypeInv


(* Steps that go on with the script, around which the locals hold nothing. *)
LEMMA IdleOn ==
  ASSUME FileTableAssumption, IInv, NEW p \in Proc, NEW do, At(p, do),
         do \notin Busy \cup {"nothing", "lock", "unlock", "place"},
         Doing(p)' \notin Busy, Advance(p), UNCHANGED <<fileVars, fds, program, filesys_lock>>,
         pages' \in [Proc -> FileObj \cup {NULL}], \A r \in Proc : pages'[r] \in {pages[r], NULL},
         reg' \in [Proc -> Regs], \A q \in Proc \ {p} : reg'[q] = reg[q],
         reg'[p].inode = NULL, reg'[p].file = NULL
  PROVE  IInv'
<1>1. Doing(p) = do
  BY DEF At
<1>2. /\ Others(p) /\ ControlInv' /\ call' \in [Proc -> Kind \cup {NULL}] /\ DOMAIN todo' = Proc
  BY <1>1, OnStep
<1>3. UseInv'
  BY <1>1, Parts, AdvanceUses
<1> QED
  BY <1>1, <1>2, <1>3, IdleKeeps

LEMMA ResetLocals ==
  ASSUME IInv, NEW p \in Proc, Local(p, Locals)
  PROVE  /\ reg' = [reg EXCEPT ![p] = Locals] /\ reg'[p] = Locals
         /\ reg' \in [Proc -> Regs] /\ reg'[p].inode = NULL /\ reg'[p].file = NULL
         /\ \A q \in Proc \ {p} : reg'[q] = reg[q]
BY Parts, LocalsFree DEF Local, TypeInv

LEMMA StoreKeeps ==
  ASSUME FileTableAssumption, IInv, NEW p \in Proc, Store(p) \/ Tell(p) \/ Start(p) \/ Gone(p)
  PROVE  IInv'
<1>1. PICK do \in {"store", "tell", "start", "gone"} : At(p, do)
  BY DEF Store, Tell, Start, Gone
<1>2. Advance(p) /\ UNCHANGED <<fileVars, fds, program, filesys_lock>>
  BY DEF Store, Tell, Start, Gone, procVars
<1>3. Doing(p) = do /\ Doing(p) \notin Busy /\ Head(todo[p]).do = do
  BY <1>1, AtCall DEF Busy, Holding
<1>4. Doing(p)' \notin Busy
  <2>1. Successor(p)
    BY <1>2, <1>3, OnStep
  <2> QED
    BY <1>3, <2>1 DEF Successor, Follows, Busy, Holding
<1>5. pages' \in [Proc -> FileObj \cup {NULL}] /\ \A r \in Proc : pages'[r] \in {pages[r], NULL}
  BY Parts DEF Store, Tell, Start, Gone, procVars, TypeInv
<1>6. /\ reg' \in [Proc -> Regs] /\ \A q \in Proc \ {p} : reg'[q] = reg[q]
      /\ reg'[p].inode = NULL /\ reg'[p].file = NULL
  <2>1. CASE Tell(p)
    BY <1>3, <2>1, Parts, Idle DEF Tell, TypeInv
  <2>2. CASE Local(p, Locals)
    BY <2>2, ResetLocals
  <2> QED
    BY <2>1, <2>2 DEF Store, Start, Gone
<1> QED
  BY <1>1, <1>2, <1>4, <1>5, <1>6, IdleOn DEF Busy, Holding

LEMMA CheckKeeps ==
  ASSUME FileTableAssumption, IInv, NEW p \in Proc, Check(p)
  PROVE  IInv'
<1>1. At(p, "check") /\ UNCHANGED <<fileVars, procVars, filesys_lock, panicked>>
  BY DEF Check
<1>2. /\ Doing(p) = "check" /\ StepOf(call[p], "check") /\ Arg(p) \in Fd
      /\ Head(todo[p]).do = "check" /\ fds[p][Arg(p)] # NULL
  BY <1>1, AtCall DEF Typed, UsesStep
<1>3. call[p] = "write"
  BY <1>2 DEF StepOf
<1>4. reg[p].inode = NULL /\ reg[p].file = NULL
  BY <1>2, Idle DEF Busy, Holding
<1> DEFINE i == files[fds[p][Arg(p)]].inode
<1>5. i \in Ino
  <2>1. fds[p][Arg(p)] \in FileObj /\ files[fds[p][Arg(p)]] # NULL
    BY <1>2, Parts, OpenCounted
  <2> QED
    BY <2>1, Parts DEF TypeInv, File
<1> HIDE DEF i
<1>6. CASE Then(p, Step("unlock", NULL)) /\ UNCHANGED reg
  <2> DEFINE s == Step("unlock", NULL)
  <2>1. s # <<>> /\ Script(call[p], s) /\ Uses(fds[p], program[p], s) /\ Head(s).do = "unlock"
    BY <1>3, UnlockScript DEF Locking, At1
  <2> HIDE DEF s
  <2>2. /\ Others(p) /\ Doing(p)' = "unlock" /\ ControlInv' /\ UseInv'
        /\ call' \in [Proc -> Kind \cup {NULL}] /\ DOMAIN todo' = Proc
    BY <1>1, <1>2, <1>6, <2>1, TurnStep DEF procVars, s
  <2> QED
    BY <1>1, <1>2, <1>4, <1>6, <2>2, Parts, IdleKeeps DEF procVars, Busy, Holding, TypeInv
<1>7. CASE Advance(p) /\ Local(p, [reg[p] EXCEPT !.found = i])
  <2>1. Doing(p)' \notin Busy
    BY <1>1, <1>2, <1>7, OnStep DEF Successor, Follows, LastOf, Busy, Holding
  <2>2. /\ reg' \in [Proc -> Regs] /\ \A q \in Proc \ {p} : reg'[q] = reg[q]
        /\ reg'[p].inode = NULL /\ reg'[p].file = NULL
    <3> DEFINE r == [reg[p] EXCEPT !.found = i]
    <3>1. reg \in [Proc -> Regs] /\ reg[p] \in Regs
      BY Parts DEF TypeInv
    <3>2. r \in Regs /\ r.inode = NULL /\ r.file = NULL
      BY <1>4, <1>5, <3>1 DEF Regs
    <3>3. reg' = [reg EXCEPT ![p] = r]
      BY <1>7 DEF Local
    <3> HIDE DEF r
    <3> QED
      BY <3>1, <3>2, <3>3
  <2> QED
    BY <1>1, <1>7, <2>1, <2>2, Parts, IdleOn DEF procVars, Busy, Holding, TypeInv
<1> QED
  BY <1>6, <1>7 DEF Check, i

LEMMA ExitKeeps ==
  ASSUME FileTableAssumption, IInv, NEW p \in Proc, ExitStep(p)
  PROVE  IInv'
<1>1. At(p, "exit") /\ UNCHANGED <<fileVars, procVars, filesys_lock, panicked>>
  BY DEF ExitStep
<1>2. Doing(p) = "exit" /\ StepOf(call[p], "exit") /\ call[p] # NULL
  BY <1>1, AtCall
<1>3. call[p] = "exec"
  BY <1>2 DEF StepOf
<1>4. exit # <<>> /\ Script("exit", exit) /\ Uses(fds[p], program[p], exit) /\ Head(exit).do = "shut"
  BY ExitScript DEF At1
<1>5. /\ todo' = [todo EXCEPT ![p] = exit] /\ call' = [call EXCEPT ![p] = "exit"]
      /\ DOMAIN todo = Proc /\ call \in [Proc -> Kind \cup {NULL}]
  BY Parts DEF ExitStep, TypeInv
<1>6. /\ Others(p) /\ todo'[p] = exit /\ call'[p] = "exit" /\ Doing(p)' = "shut"
      /\ call' \in [Proc -> Kind \cup {NULL}] /\ DOMAIN todo' = Proc
  BY <1>4, <1>5 DEF Others, Doing, Arg, Kind
<1>7. CallInv'
  BY <1>4, <1>6, Parts DEF CallInv, Others, Kind
<1>8. AloneInv'
  BY <1>2, <1>3, <1>6, Parts DEF AloneInv, Others, UsesList
<1>9. LockInv'
  BY <1>1, <1>3, <1>6, Parts DEF LockInv, Others, Locking
<1>10. UseInv'
  BY <1>1, <1>4, <1>6, Parts DEF UseInv, Others, procVars
<1>11. ControlInv'
  BY <1>7, <1>8, <1>9 DEF ControlInv
<1>12. reg' \in [Proc -> Regs] /\ reg'[p].inode = NULL /\ reg'[p].file = NULL /\ \A q \in Proc \ {p} : reg'[q] = reg[q]
  BY ResetLocals DEF ExitStep
<1> QED
  BY <1>1, <1>2, <1>6, <1>10, <1>11, <1>12, Parts, IdleKeeps DEF procVars, Busy, Holding, TypeInv


-----------------------------------------------------------------------------
(* The calls begin.  exec and exit begin only while no other call uses the *)
(* list of inodes.                                                         *)
ExecAlone == {"exec", "exit"} \subseteq Alone

LEMMA BeginKeeps ==
  ASSUME FileTableAssumption, ExecAlone, IInv, NEW p \in Proc, NEW kind \in Kind, NEW steps,
         Begin(p, kind, steps), steps # <<>>, Script(kind, steps),
         Uses(fds[p], program[p], steps),
         Head(steps).do \notin Busy, kind \in Locking => Head(steps).do = "lock"
  PROVE  IInv'
<1>1. /\ call[p] = NULL /\ call' = [call EXCEPT ![p] = kind] /\ todo' = [todo EXCEPT ![p] = steps]
      /\ \A q \in Proc : ~Apart(kind, call[q])
      /\ UNCHANGED <<fileVars, fds, program, pages, running, filesys_lock, reg, panicked>>
  BY DEF Begin
<1>2. /\ DOMAIN todo = Proc /\ call \in [Proc -> Kind \cup {NULL}]
      /\ reg \in [Proc -> Regs] /\ pages \in [Proc -> FileObj \cup {NULL}]
  BY Parts DEF TypeInv
<1>3. kind # NULL /\ NULL \notin Kind
  BY DEF FileTableAssumption
<1>4. todo[p] = <<>> /\ Doing(p) = "nothing"
  BY <1>1, <1>3, Parts DEF CallInv, Doing
<1>5. /\ Others(p) /\ todo'[p] = steps /\ call'[p] = kind /\ Doing(p)' = Head(steps).do
      /\ call' \in [Proc -> Kind \cup {NULL}] /\ DOMAIN todo' = Proc
  BY <1>1, <1>2 DEF Others, Doing, Arg
<1>6. CallInv'
  BY <1>5, Parts DEF CallInv, Others
<1>7. AloneInv'
  <2> SUFFICES ASSUME NEW a \in Proc, NEW b \in Proc, call'[a] \in {"exec", "exit"},
                      call'[b] \in UsesList, a # b
               PROVE  FALSE
    BY DEF AloneInv
  <2>1. CASE a = p
    <3>1. call[b] \in UsesList /\ kind \in {"exec", "exit"}
      BY <1>5, <2>1 DEF Others
    <3> QED
      BY <1>1, <3>1 DEF ExecAlone, Apart, UsesList
  <2>2. CASE b = p
    <3>1. call[a] \in {"exec", "exit"} /\ kind \in UsesList
      BY <1>5, <2>2 DEF Others
    <3> QED
      BY <1>1, <3>1 DEF ExecAlone, Apart, UsesList
  <2>3. CASE a # p /\ b # p
    BY <1>5, <2>3, Parts DEF AloneInv, Others
  <2> QED
    BY <2>1, <2>2, <2>3
<1>8. LockInv'
  <2>1. call[p] \notin Locking
    BY <1>1, <1>3 DEF Locking, Kind
  <2> QED
    BY <1>1, <1>5, <2>1, Parts DEF LockInv, Others
<1>9. UseInv'
  BY <1>1, <1>5, Parts DEF UseInv, Others
<1>10. reg[p].inode = NULL /\ reg[p].file = NULL /\ Doing(p) \notin Busy
  BY <1>4, Idle DEF Busy, Holding
<1> QED
  BY <1>1, <1>2, <1>5, <1>6, <1>7, <1>8, <1>9, <1>10, IdleKeeps DEF ControlInv

LEMMA CallsKeep ==
  ASSUME FileTableAssumption, ExecAlone, IInv, NEW p \in Proc,
         Open(p) \/ Use(p) \/ Dup2(p) \/ Fork(p) \/ Exec(p) \/ Exit(p)
  PROVE  IInv'
<1> DEFINE Ready(kind, s, do) ==
             /\ Begin(p, kind, s) /\ s # <<>> /\ Script(kind, s) /\ Uses(fds[p], program[p], s)
             /\ Head(s).do = do
<1>1. ASSUME NEW kind \in Kind, NEW s, NEW do, Ready(kind, s, do),
             do \in {"lock", "reopen", "copy", "find", "shut"}, kind \in Locking => do = "lock"
      PROVE  IInv'
  BY <1>1, BeginKeeps DEF Busy, Holding
<1> HIDE DEF Ready
<1>2. CASE Open(p)
  <2>1. PICK n \in Name : Begin(p, "open", open(n))
    BY <1>2 DEF Open
  <2>2. Ready("open", open(n), "lock")
    BY <2>1, OpenScript DEF At1, Ready
  <2> QED
    BY <1>1, <2>2 DEF Kind, Locking
<1>3. CASE Use(p)
  <2>1. PICK d \in Fd :
          \/ fds[p][d] = NULL /\ Begin(p, "tell", tell(d))
          \/ /\ fds[p][d] # NULL
             /\ \/ Begin(p, "close", close(d))
                \/ Begin(p, "write", write(d))
    BY <1>3 DEF Use
  <2>2. CASE Begin(p, "tell", tell(d))
    <3>1. Ready("tell", tell(d), "lock")
      BY <2>2, TellScript DEF At1, Ready
    <3> QED
      BY <1>1, <3>1 DEF Kind, Locking
  <2>3. CASE fds[p][d] # NULL /\ Begin(p, "close", close(d))
    <3>1. Ready("close", close(d), "lock")
      <4>1. LET s == close(d) IN s # <<>> /\ Script("close", s) /\ Uses(fds[p], program[p], s) /\ Head(s) = At1("lock", NULL)
        BY <2>3, CloseScript
      <4> QED
        BY <2>3, <4>1 DEF At1, Ready
    <3> QED
      BY <1>1, <3>1 DEF Kind, Locking
  <2>4. CASE fds[p][d] # NULL /\ Begin(p, "write", write(d))
    <3>1. Ready("write", write(d), "lock")
      <4>1. LET s == write(d) IN s # <<>> /\ Script("write", s) /\ Uses(fds[p], program[p], s) /\ Head(s) = At1("lock", NULL)
        BY <2>4, WriteScript
      <4> QED
        BY <2>4, <4>1 DEF At1, Ready
    <3> QED
      BY <1>1, <3>1 DEF Kind, Locking
  <2> QED
    BY <2>1, <2>2, <2>3, <2>4
<1>4. CASE Dup2(p)
  <2>1. PICK old \in OpenFds(p), new \in Fd : Begin(p, "dup2", dup2(old, new))
    BY <1>4 DEF Dup2
  <2>2. old \in Fd /\ fds[p][old] # NULL
    BY DEF OpenFds
  <2>3. Ready("dup2", dup2(old, new), "reopen")
    <3>1. LET s == dup2(old, new)
          IN  s # <<>> /\ Script("dup2", s) /\ Uses(fds[p], program[p], s) /\ Head(s) = At1("reopen", old)
      BY <2>2, Dup2Script
    <3> QED
      BY <2>1, <3>1 DEF At1, Ready
  <2> QED
    BY <1>1, <2>3 DEF Kind, Locking
<1>5. CASE Fork(p)
  <2>1. PICK q \in Proc : Begin(p, "fork", fork(q))
    BY <1>5 DEF Fork
  <2>2. Ready("fork", fork(q), "copy")
    <3>1. LET s == fork(q)
          IN  /\ s # <<>> /\ Script("fork", s) /\ Uses(fds[p], program[p], s)
              /\ Head(s) = At1("copy", [child |-> q, fd |-> 1])
      BY ForkScript
    <3> QED
      BY <2>1, <3>1 DEF At1, Ready
  <2> QED
    BY <1>1, <2>2 DEF Kind, Locking
<1>6. CASE Exec(p)
  <2>1. PICK n \in Name, loads \in BOOLEAN : Begin(p, "exec", exec(n, loads))
    BY <1>6 DEF Exec
  <2>2. Ready("exec", exec(n, loads), "find")
    BY <2>1, ExecScript DEF At1, Ready
  <2> QED
    BY <1>1, <2>2 DEF Kind, Locking
<1>7. CASE Exit(p)
  <2>1. Begin(p, "exit", exit)
    BY <1>7 DEF Exit
  <2>2. Ready("exit", exit, "shut")
    BY <2>1, ExitScript DEF At1, Ready
  <2> QED
    BY <1>1, <2>2 DEF Kind, Locking
<1> QED
  BY <1>2, <1>3, <1>4, <1>5, <1>6, <1>7


-----------------------------------------------------------------------------
(* Steps that move a pointer.                                              *)
LEMMA HoldingOK ==
  ASSUME NEW p \in Proc, Doing(p)' \in Holding \ {"free"}, reg'[p].inode = NULL, reg'[p].file # NULL
  PROVE  LocalOK(p)'
BY DEF LocalOK, Holding

LEMMA AtHolding ==
  ASSUME FileTableAssumption, IInv, NEW p \in Proc, Doing(p) \in Holding
  PROVE  /\ reg[p].inode = NULL /\ reg[p].file # NULL /\ reg[p].file \in FileObj
         /\ files[reg[p].file] # NULL /\ files[reg[p].file] \in File
         /\ Doing(p) # "free" => Counted(reg[p].file)
<1>1. reg[p].inode = NULL /\ reg[p].file # NULL
  BY Parts DEF LocalInv, LocalOK, Holding
<1>2. reg[p].file \in FileObj \cup {NULL} /\ files[reg[p].file] \in File /\ files[reg[p].file] # NULL
  BY <1>1, Parts, RegTyped
<1>3. Doing(p) # "free" => Counted(reg[p].file)
  BY <1>1, Parts, HeldCounted
<1> QED
  BY <1>1, <1>2, <1>3

(* The parts of the invariant make the whole.                              *)
LEMMA Whole ==
  ASSUME FileTableAssumption, IInv, NEW p \in Proc, Doing(p) \notin {"nothing", "lock", "unlock", "place"},
         Advance(p), filesys_lock' = filesys_lock,
         fds' \in [Proc -> [Fd -> FileObj \cup {NULL}]],
         program' \in [Proc \cup {Main} -> FileObj \cup {NULL}],
         pages' \in [Proc -> FileObj \cup {NULL}],
         files' \in [FileObj -> File \cup {NULL}], inodes' \in [Ino -> Inode \cup {NULL}],
         reg' \in [Proc -> Regs],
         UseInv', LocalInv', PointerInv', LinkInv', CountInv'
  PROVE  IInv'
<1>1. ControlInv' /\ call' \in [Proc -> Kind \cup {NULL}] /\ DOMAIN todo' = Proc
  BY OnStep
<1> QED
  BY <1>1 DEF IInv, HeapInv, TypeInv

LEMMA FindKeeps ==
  ASSUME FileTableAssumption, IInv, NEW p \in Proc, Find(p)
  PROVE  IInv'
<1>1. At(p, "find") /\ Advance(p) /\ UNCHANGED <<fileVars, procVars, filesys_lock, panicked>>
  BY DEF Find
<1>2. Doing(p) = "find" /\ Head(todo[p]).do = "find" /\ Arg(p) = Head(todo[p]).arg
  BY <1>1, AtCall
<1> DEFINE named == {i \in open_inodes : inodes[i] # NULL /\ inodes[i].name = Arg(p)}
<1>3. PICK i \in IF named = {} THEN {NULL} ELSE named : reg' = [reg EXCEPT ![p] = [reg[p] EXCEPT !.found = i]]
  BY DEF Find, Local
<1>4. i \in Ino \cup {NULL} /\ (i # NULL => inodes[i] # NULL)
      /\ (i = NULL => \A j \in open_inodes : inodes[j].name # Arg(p))
  BY Parts DEF LinkInv, FileTableAssumption, Ino
<1> HIDE DEF named
<1>5. Others(p) /\ Doing(p)' = "take" /\ Arg(p)' = Arg(p)
  BY <1>1, <1>2, OnStep DEF Successor, Follows, LastOf, Locking, Arg
<1>6. reg[p] \in Regs /\ reg \in [Proc -> Regs] /\ reg[p].inode = NULL /\ reg[p].file = NULL
  BY <1>2, Idle, Parts DEF TypeInv, Busy, Holding
<1> DEFINE r == [reg[p] EXCEPT !.found = i]
<1>7. r \in Regs /\ r.inode = NULL /\ r.file = NULL /\ r.found = i
  BY <1>4, <1>6 DEF Regs
<1>8. reg' = [reg EXCEPT ![p] = r]
  BY <1>3
<1> HIDE DEF r
<1>9. /\ reg' \in [Proc -> Regs] /\ \A q \in Proc \ {p} : reg'[q] = reg[q]
      /\ reg'[p] = r
  BY <1>6, <1>7, <1>8
<1>10. LocalOK(p)'
  BY <1>1, <1>4, <1>5, <1>7, <1>9 DEF LocalOK, Holding, fileVars
<1>11. LocalInv' /\ LinkInv' /\ CountInv'
  <2>1. QuietStep(p)
    BY <1>1, <1>2, <1>5, <1>6, <1>7, <1>9, OnStep DEF QuietStep
  <2> QED
    BY <1>2, <1>5, <1>10, <2>1, QuietKeeps
<1>12. PointerInv'
  <2>1. \A q \in Proc : pages'[q] \in {pages[q], NULL} /\ reg'[q].file \in {reg[q].file, NULL}
    BY <1>1, <1>7, <1>9 DEF procVars
  <2> QED
    BY <1>1, <2>1, Parts, PointersStay DEF procVars, fileVars
<1>13. UseInv'
  BY <1>1, <1>2, Parts, AdvanceUses DEF procVars
<1> QED
  BY <1>1, <1>2, <1>9, <1>11, <1>12, <1>13, Parts, Whole DEF procVars, fileVars, TypeInv

(* install and point.                                                      *)
LEMMA InstallKeeps ==
  ASSUME FileTableAssumption, IInv, NEW p \in Proc, Install(p) \/ Point(p)
  PROVE  IInv'
<1>1. PICK do \in {"install", "point"} : At(p, do)
  BY DEF Install, Point
<1>2. /\ fds' = [fds EXCEPT ![p][Arg(p)] = reg[p].file] /\ Advance(p) /\ Local(p, Locals)
      /\ UNCHANGED <<fileVars, program, pages, state, running, filesys_lock, panicked>>
  BY DEF Install, Point
<1>3. Doing(p) = do /\ Head(todo[p]).do = do /\ Arg(p) \in Fd
  BY <1>1, AtCall DEF Typed
<1>4. reg[p].inode = NULL /\ reg[p].file # NULL /\ reg[p].file \in FileObj
  BY <1>3, AtHolding DEF Holding
<1>5. /\ Others(p) /\ Doing(p)' \in {"unlock", "nothing"}
      /\ call' \in [Proc -> Kind \cup {NULL}] /\ DOMAIN todo' = Proc
  BY <1>2, <1>3, OnStep DEF Successor, Follows
<1>6. /\ reg' = [reg EXCEPT ![p] = Locals] /\ reg' \in [Proc -> Regs]
      /\ reg'[p].inode = NULL /\ reg'[p].file = NULL /\ \A q \in Proc \ {p} : reg'[q] = reg[q]
  BY <1>2, ResetLocals
<1>7. LocalInv' /\ LinkInv' /\ CountInv'
  <2>1. LocalOK(p)'
    BY <1>5, <1>6, IdleOK DEF Busy, Holding
  <2>2. QuietStep(p)
    BY <1>2, <1>4, <1>5, <1>6 DEF QuietStep
  <2> QED
    BY <1>3, <1>5, <2>1, <2>2, QuietKeeps
<1>8. PointerInv'
  BY <1>2, <1>3, <1>6, Parts, RegToFd DEF fileVars
<1>9. /\ fds' \in [Proc -> [Fd -> FileObj \cup {NULL}]]
      /\ \A q \in Proc, d \in Fd : fds[q][d] # NULL => fds'[q][d] # NULL
  BY <1>2, <1>3, <1>4, Parts DEF TypeInv
<1>10. UseInv'
  BY <1>2, <1>3, <1>9, Parts, AdvanceUses
<1> QED
  BY <1>2, <1>3, <1>6, <1>7, <1>8, <1>9, <1>10, Parts, Whole DEF fileVars, TypeInv

LEMMA ClearKeeps ==
  ASSUME FileTableAssumption, IInv, NEW p \in Proc, Clear(p)
  PROVE  IInv'
<1>1. /\ At(p, "clear") /\ fds' = [fds EXCEPT ![p][Arg(p)] = NULL] /\ Advance(p)
      /\ reg' = [reg EXCEPT ![p] = [reg[p] EXCEPT !.file = fds[p][Arg(p)]]]
      /\ UNCHANGED <<fileVars, program, pages, state, running, filesys_lock, panicked>>
  BY DEF Clear, Local
<1>2. Doing(p) = "clear" /\ Head(todo[p]).do = "clear" /\ Arg(p) \in Fd /\ fds[p][Arg(p)] # NULL
  BY <1>1, AtCall DEF Typed, UsesStep
<1>3. /\ Others(p) /\ Doing(p)' = "drop"
      /\ call' \in [Proc -> Kind \cup {NULL}] /\ DOMAIN todo' = Proc
  BY <1>1, <1>2, OnStep DEF Successor, Follows, LastOf, Locking
<1>4. reg[p].inode = NULL /\ reg \in [Proc -> Regs] /\ reg[p] \in Regs /\ fds[p][Arg(p)] \in FileObj
  BY <1>2, Idle, Parts DEF TypeInv, Busy, Holding
<1> DEFINE r == [reg[p] EXCEPT !.file = fds[p][Arg(p)]]
<1>5. r \in Regs /\ r.inode = NULL /\ r.file = fds[p][Arg(p)]
  BY <1>4 DEF Regs
<1>6. reg' = [reg EXCEPT ![p] = r]
  BY <1>1
<1> HIDE DEF r
<1>7. reg' \in [Proc -> Regs] /\ reg'[p] = r /\ \A q \in Proc \ {p} : reg'[q] = reg[q]
  BY <1>4, <1>5, <1>6
<1>8. LocalInv' /\ LinkInv' /\ CountInv'
  <2>1. LocalOK(p)'
    BY <1>2, <1>3, <1>5, <1>7, HoldingOK DEF Holding
  <2>2. QuietStep(p)
    BY <1>1, <1>3, <1>4, <1>5, <1>7 DEF QuietStep
  <2> QED
    BY <1>2, <1>3, <2>1, <2>2, QuietKeeps
<1>9. PointerInv'
  BY <1>1, <1>2, Parts, FdToReg DEF fileVars
<1>10. fds' \in [Proc -> [Fd -> FileObj \cup {NULL}]] /\ \A q \in Proc \ {p} : fds'[q] = fds[q]
  BY <1>1, <1>2, Parts DEF TypeInv
<1>11. UseInv'
  BY <1>1, <1>2, <1>10, Parts, ClearUses
<1> QED
  BY <1>1, <1>2, <1>7, <1>8, <1>9, <1>10, <1>11, Parts, Whole DEF fileVars, TypeInv

LEMMA ClearProgramKeeps ==
  ASSUME FileTableAssumption, IInv, NEW p \in Proc, ClearProgram(p)
  PROVE  IInv'
<1>1. /\ At(p, "clear_program") /\ program' = [program EXCEPT ![p] = NULL] /\ Advance(p)
      /\ reg' = [reg EXCEPT ![p] = [reg[p] EXCEPT !.file = program[p]]]
      /\ UNCHANGED <<fileVars, fds, pages, state, filesys_lock, panicked>>
  BY DEF ClearProgram, Local
<1>2. Doing(p) = "clear_program" /\ Head(todo[p]).do = "clear_program" /\ program[p] # NULL
  BY <1>1, AtCall DEF UsesStep
<1>3. /\ Others(p) /\ Doing(p)' = "drop"
      /\ call' \in [Proc -> Kind \cup {NULL}] /\ DOMAIN todo' = Proc
  BY <1>1, <1>2, OnStep DEF Successor, Follows, LastOf, Locking
<1>4. reg[p].inode = NULL /\ reg \in [Proc -> Regs] /\ reg[p] \in Regs /\ program[p] \in FileObj
  BY <1>2, Idle, Parts DEF TypeInv, Busy, Holding
<1> DEFINE r == [reg[p] EXCEPT !.file = program[p]]
<1>5. r \in Regs /\ r.inode = NULL /\ r.file = program[p]
  BY <1>4 DEF Regs
<1>6. reg' = [reg EXCEPT ![p] = r]
  BY <1>1
<1> HIDE DEF r
<1>7. reg' \in [Proc -> Regs] /\ reg'[p] = r /\ \A q \in Proc \ {p} : reg'[q] = reg[q]
  BY <1>4, <1>5, <1>6
<1>8. LocalInv' /\ LinkInv' /\ CountInv'
  <2>1. LocalOK(p)'
    BY <1>2, <1>3, <1>5, <1>7, HoldingOK DEF Holding
  <2>2. QuietStep(p)
    BY <1>1, <1>3, <1>4, <1>5, <1>7 DEF QuietStep
  <2> QED
    BY <1>2, <1>3, <2>1, <2>2, QuietKeeps
<1>9. PointerInv'
  BY <1>1, Parts, ProgramToReg DEF fileVars
<1>10. program' \in [Proc \cup {Main} -> FileObj \cup {NULL}] /\ \A q \in Proc \ {p} : program'[q] = program[q]
  BY <1>1, Parts DEF TypeInv
<1>11. UseInv'
  BY <1>1, <1>2, <1>10, Parts, ClearUses
<1> QED
  BY <1>1, <1>2, <1>7, <1>8, <1>9, <1>10, <1>11, Parts, Whole DEF fileVars, TypeInv


-----------------------------------------------------------------------------
(* Steps that deny writes.                                                 *)
LEMMA Denies ==
  ASSUME FileTableAssumption, NullAssumption, IInv, NEW p \in Proc, NotFreeing(p), Doing(p) \in Holding,
         file_deny_write(reg[p].file) \/ UNCHANGED <<files, inodes>>,
         UNCHANGED open_inodes, reg'[p].inode = NULL, LocalOK(p)'
  PROVE  /\ LocalInv' /\ LinkInv' /\ CountInv'
         /\ files' \in [FileObj -> File \cup {NULL}] /\ inodes' \in [Ino -> Inode \cup {NULL}]
         /\ \A f \in FileObj : files[f] # NULL => files'[f] # NULL
<1>1. /\ reg[p].inode = NULL /\ reg[p].file \in FileObj /\ Counted(reg[p].file)
  BY AtHolding DEF NotFreeing
<1>2. /\ LinkInv' /\ CountInv' /\ SameShape
      /\ files' \in [FileObj -> File \cup {NULL}] /\ inodes' \in [Ino -> Inode \cup {NULL}]
  <2>1. CASE file_deny_write(reg[p].file)
    <3>1. PICK f \in FileObj : f = reg[p].file
      BY <1>1
    <3>2. PICK i : i = files[f].inode
      OBVIOUS
    <3>3. Counted(f) /\ file_deny_write(f)
      BY <1>1, <2>1, <3>1
    <3> QED
      BY <1>1, <3>2, <3>3, Parts, DenyHeap
  <2>2. CASE UNCHANGED <<files, inodes>>
    <3>1. UNCHANGED fileVars
      BY <2>2 DEF fileVars
    <3> QED
      BY <1>1, <2>2, <3>1, Parts, QuietHeap, QuietShape DEF TypeInv
  <2> QED
    BY <2>1, <2>2
<1>3. LocalInv'
  BY <1>2, Parts, LocalSame DEF NotFreeing
<1> QED
  BY <1>2, <1>3 DEF SameShape

LEMMA DupDenyKeeps ==
  ASSUME FileTableAssumption, NullAssumption, IInv, NEW p \in Proc, DupDeny(p)
  PROVE  IInv'
<1>1. /\ At(p, "dup_deny") /\ Advance(p)
      /\ file_deny_write(reg[p].file) \/ UNCHANGED <<files, inodes>>
      /\ UNCHANGED <<open_inodes, procVars, filesys_lock, reg>>
  BY DEF DupDeny
<1>2. Doing(p) = "dup_deny" /\ Head(todo[p]).do = "dup_deny"
  BY <1>1, AtCall
<1>3. Others(p) /\ Doing(p)' = "point"
  BY <1>1, <1>2, OnStep DEF Successor, Follows, LastOf, Locking
<1>4. reg[p].inode = NULL /\ reg[p].file # NULL
  BY <1>2, AtHolding DEF Holding
<1>5. LocalOK(p)'
  BY <1>1, <1>3, <1>4, HoldingOK DEF Holding
<1>6. NotFreeing(p)
  BY <1>1, <1>2, <1>3 DEF NotFreeing
<1>7. /\ LocalInv' /\ LinkInv' /\ CountInv'
      /\ files' \in [FileObj -> File \cup {NULL}] /\ inodes' \in [Ino -> Inode \cup {NULL}]
      /\ \A f \in FileObj : files[f] # NULL => files'[f] # NULL
  BY <1>1, <1>2, <1>4, <1>5, <1>6, Denies DEF Holding
<1>8. PointerInv'
  BY <1>1, <1>7, Parts, PointersStay DEF procVars
<1>9. UseInv'
  BY <1>1, <1>2, Parts, AdvanceUses DEF procVars
<1> QED
  BY <1>1, <1>2, <1>7, <1>8, <1>9, Parts, Whole DEF procVars, TypeInv

LEMMA InheritKeeps ==
  ASSUME FileTableAssumption, NullAssumption, IInv, NEW p \in Proc, Inherit(p)
  PROVE  IInv'
<1> DEFINE q == Arg(p).child
           d == Arg(p).fd
<1>1. /\ At(p, "inherit") /\ Advance(p) /\ Local(p, Locals)
      /\ file_deny_write(reg[p].file) \/ UNCHANGED <<files, inodes>>
      /\ fds' = [fds EXCEPT ![q][d] = reg[p].file]
      /\ UNCHANGED <<open_inodes, program, pages, state, running, filesys_lock>>
  BY DEF Inherit
<1>2. Doing(p) = "inherit" /\ Head(todo[p]).do = "inherit" /\ q \in Proc /\ d \in Fd
  BY <1>1, AtCall DEF Typed
<1> HIDE DEF q, d
<1>3. Others(p) /\ Doing(p)' = "copy"
  BY <1>1, <1>2, OnStep DEF Successor, Follows, LastOf, Locking
<1>4. reg[p].inode = NULL /\ reg[p].file # NULL /\ reg[p].file \in FileObj
  BY <1>2, AtHolding DEF Holding
<1>5. /\ reg' = [reg EXCEPT ![p] = Locals] /\ reg' \in [Proc -> Regs]
      /\ reg'[p].inode = NULL /\ reg'[p].file = NULL /\ \A r \in Proc \ {p} : reg'[r] = reg[r]
  BY <1>1, ResetLocals
<1>6. LocalOK(p)'
  BY <1>3, <1>5, IdleOK DEF Busy, Holding
<1>7. NotFreeing(p)
  BY <1>2, <1>3, <1>5 DEF NotFreeing
<1>8. /\ LocalInv' /\ LinkInv' /\ CountInv'
      /\ files' \in [FileObj -> File \cup {NULL}] /\ inodes' \in [Ino -> Inode \cup {NULL}]
      /\ \A f \in FileObj : files[f] # NULL => files'[f] # NULL
  BY <1>1, <1>2, <1>5, <1>6, <1>7, Denies DEF Holding
<1>9. PointerInv'
  BY <1>1, <1>2, <1>5, <1>8, Parts, RegToFd
<1>10. /\ fds' \in [Proc -> [Fd -> FileObj \cup {NULL}]]
       /\ \A r \in Proc, e \in Fd : fds[r][e] # NULL => fds'[r][e] # NULL
  BY <1>1, <1>2, <1>4, Parts DEF TypeInv
<1>11. UseInv'
  BY <1>1, <1>2, <1>10, Parts, AdvanceUses
<1> QED
  BY <1>1, <1>2, <1>5, <1>8, <1>9, <1>10, <1>11, Parts, Whole DEF TypeInv

LEMMA DenyKeeps ==
  ASSUME FileTableAssumption, NullAssumption, IInv, NEW p \in Proc, Deny(p)
  PROVE  IInv'
<1>1. /\ At(p, "deny") /\ Advance(p) /\ Local(p, Locals)
      /\ file_deny_write(reg[p].file)
      /\ program' = [program EXCEPT ![p] = reg[p].file]
      /\ UNCHANGED <<open_inodes, fds, pages, state, running, filesys_lock>>
  BY DEF Deny
<1>2. Doing(p) = "deny" /\ Head(todo[p]).do = "deny"
  BY <1>1, AtCall
<1>3. Others(p) /\ Doing(p)' = "find"
  BY <1>1, <1>2, OnStep DEF Successor, Follows, LastOf, Locking
<1>4. reg[p].inode = NULL /\ reg[p].file # NULL /\ reg[p].file \in FileObj
  BY <1>2, AtHolding DEF Holding
<1>5. /\ reg' = [reg EXCEPT ![p] = Locals] /\ reg' \in [Proc -> Regs]
      /\ reg'[p].inode = NULL /\ reg'[p].file = NULL /\ \A r \in Proc \ {p} : reg'[r] = reg[r]
  BY <1>1, ResetLocals
<1>6. LocalOK(p)'
  BY <1>3, <1>5, IdleOK DEF Busy, Holding
<1>7. NotFreeing(p)
  BY <1>2, <1>3, <1>5 DEF NotFreeing
<1>8. /\ LocalInv' /\ LinkInv' /\ CountInv'
      /\ files' \in [FileObj -> File \cup {NULL}] /\ inodes' \in [Ino -> Inode \cup {NULL}]
      /\ \A f \in FileObj : files[f] # NULL => files'[f] # NULL
  BY <1>1, <1>2, <1>5, <1>6, <1>7, Denies DEF Holding
<1>9. PointerInv'
  BY <1>1, <1>5, <1>8, Parts, RegToProgram
<1>10. /\ program' \in [Proc \cup {Main} -> FileObj \cup {NULL}]
       /\ \A r \in Proc : program[r] # NULL => program'[r] # NULL
  BY <1>1, <1>4, Parts DEF TypeInv
<1>11. UseInv'
  BY <1>1, <1>2, <1>10, Parts, AdvanceUses
<1> QED
  BY <1>1, <1>2, <1>5, <1>8, <1>9, <1>10, <1>11, Parts, Whole DEF TypeInv


-----------------------------------------------------------------------------
(* Steps that change what is open.                                         *)
LEMMA TakeKeeps ==
  ASSUME FileTableAssumption, NullAssumption, IInv, NEW p \in Proc, Take(p)
  PROVE  IInv'
<1> DEFINE old == reg[p].found
           i == IF old = NULL THEN CHOOSE j \in FreeInodes : TRUE ELSE old
           r == [reg[p] EXCEPT !.inode = i, !.found = NULL]
<1>1. /\ At(p, "take") /\ Advance(p) /\ UNCHANGED <<files, procVars, filesys_lock, panicked>>
      /\ old = NULL => FreeInodes # {}
      /\ inodes' = IF old # NULL THEN Reopened(i)
                   ELSE [inodes EXCEPT ![i] = [name |-> Arg(p), open_cnt |-> 1, deny_write_cnt |-> 0]]
      /\ open_inodes' = open_inodes \cup {i} /\ reg' = [reg EXCEPT ![p] = r]
  BY DEF Take, Local
<1>2. Doing(p) = "take" /\ Head(todo[p]).do = "take" /\ Arg(p) \in Name
  BY <1>1, AtCall DEF Typed
<1>3. Others(p) /\ Doing(p)' = "file_open"
  BY <1>1, <1>2, OnStep DEF Successor, Follows, LastOf, Locking
<1>4. /\ reg[p].inode = NULL /\ reg[p].file = NULL
      /\ IF old = NULL THEN \A j \in open_inodes : inodes[j].name # Arg(p) ELSE inodes[old] # NULL
  BY <1>2, Parts DEF LocalInv, LocalOK, Holding
<1>5. reg \in [Proc -> Regs] /\ reg[p] \in Regs /\ old \in Ino \cup {NULL} /\ NULL \notin Ino
  BY Parts DEF TypeInv, Regs, FileTableAssumption, Ino
<1>6. /\ i \in Ino
      /\ old = NULL => inodes[i] = NULL
      /\ old # NULL => i \in open_inodes /\ inodes[i] # NULL
  <2>1. CASE old = NULL
    <3>1. i \in FreeInodes
      BY <1>1, <2>1
    <3> QED
      BY <2>1, <3>1 DEF FreeInodes
  <2>2. CASE old # NULL
    BY <1>4, <1>5, <2>2, Parts DEF LinkInv
  <2> QED
    BY <2>1, <2>2
<1> HIDE DEF i
<1>7. r \in Regs /\ r.inode = i /\ r.file = NULL
  BY <1>4, <1>5, <1>6 DEF Regs
<1>8. reg' = [reg EXCEPT ![p] = r]
  BY <1>1
<1> HIDE DEF r
<1>9. reg' \in [Proc -> Regs] /\ reg'[p] = r /\ \A q \in Proc \ {p} : reg'[q] = reg[q]
  BY <1>5, <1>7, <1>8
<1>10. NotFreeing(p)
  BY <1>2, <1>3, <1>9 DEF NotFreeing
<1>11. \A q \in Proc : reg[q].inode # NULL => inodes[reg[q].inode] # NULL /\ reg[q].inode \in Ino
  BY Parts DEF LocalInv, LocalOK, TypeInv, Regs
<1>12. /\ LinkInv' /\ CountInv' /\ inodes' \in [Ino -> Inode \cup {NULL}]
       /\ \A j \in Ino : inodes[j] # NULL \/ j = i => inodes'[j] # NULL
  <2>1. CASE old = NULL
    <3>1. inodes' = [inodes EXCEPT ![i] = [name |-> Arg(p), open_cnt |-> 1, deny_write_cnt |-> 0]]
      BY <1>1, <2>1
    <3>2. \A q \in Proc : reg[q].inode # i
      BY <1>5, <1>6, <1>11, <2>1
    <3>3. PICK j \in Ino, n \in Name : j = i /\ n = Arg(p)
      BY <1>2, <1>6
    <3>4. LinkInv' /\ CountInv' /\ inodes' \in [Ino -> Inode \cup {NULL}]
      <4>1. /\ inodes[j] = NULL /\ open_inodes' = open_inodes \cup {j} /\ UNCHANGED files
            /\ inodes' = [inodes EXCEPT ![j] = [name |-> n, open_cnt |-> 1, deny_write_cnt |-> 0]]
        BY <1>1, <1>6, <2>1, <3>1, <3>3
      <4>2. /\ \A k \in open_inodes : inodes[k].name # n
            /\ \A q \in Proc : reg[q].inode # j
        BY <1>4, <2>1, <3>2, <3>3
      <4>3. reg[p].inode = NULL /\ reg'[p].inode = j
        BY <1>4, <1>7, <1>9, <3>3
      <4>4. TypeInv /\ LinkInv /\ CountInv
        BY Parts
      <4> QED
        BY <1>10, <3>3, <4>1, <4>2, <4>3, <4>4, InodeNew, ZenonT(30)
    <3>5. [name |-> Arg(p), open_cnt |-> 1, deny_write_cnt |-> 0] # NULL
      BY <1>2 DEF NullAssumption, Inode
    <3> QED
      BY <1>6, <3>1, <3>4, <3>5, Parts DEF TypeInv
  <2>2. CASE old # NULL
    <3>1. PICK j \in open_inodes : j = i
      BY <1>6, <2>2
    <3>2. inodes' = [inodes EXCEPT ![j].open_cnt = @ + 1] /\ open_inodes' = open_inodes
      BY <1>1, <1>6, <2>2, <3>1 DEF Reopened
    <3>3. LinkInv' /\ CountInv' /\ inodes' \in [Ino -> Inode \cup {NULL}]
      BY <1>1, <1>4, <1>7, <1>9, <1>10, <3>1, <3>2, Parts, HolderMore
    <3>4. open_inodes = {k \in Ino : inodes[k] # NULL} /\ open_inodes' = {k \in Ino : inodes'[k] # NULL}
      BY <3>3, Parts DEF LinkInv
    <3> QED
      BY <1>6, <2>2, <3>2, <3>3, <3>4
  <2> QED
    BY <2>1, <2>2
<1>13. LocalInv'
  <2>1. LocalOK(p)'
    BY <1>3, <1>5, <1>6, <1>7, <1>9, <1>12 DEF LocalOK, Holding
  <2>2. \A q \in Proc \ {p} : reg[q].inode # NULL => inodes'[reg[q].inode] # NULL
    BY <1>11, <1>12
  <2> QED
    BY <1>2, <1>3, <1>9, <2>1, <2>2, Parts, CriticalLocal DEF Critical
<1>14. PointerInv'
  <2>1. \A q \in Proc : pages'[q] \in {pages[q], NULL} /\ reg'[q].file \in {reg[q].file, NULL}
    BY <1>1, <1>7, <1>9 DEF procVars
  <2> QED
    BY <1>1, <2>1, Parts, PointersStay DEF procVars
<1>15. UseInv'
  BY <1>1, <1>2, Parts, AdvanceUses DEF procVars
<1> QED
  BY <1>1, <1>2, <1>9, <1>12, <1>13, <1>14, <1>15, Parts, Whole DEF procVars, TypeInv

LEMMA ReopenKeeps ==
  ASSUME FileTableAssumption, NullAssumption, IInv, NEW p \in Proc, Reopen(p)
  PROVE  IInv'
<1> DEFINE old == fds[p][Arg(p)]
<1>1. At(p, "reopen") /\ Advance(p) /\ UNCHANGED <<files, open_inodes, procVars, filesys_lock, panicked>>
  BY DEF Reopen
<1>2. Doing(p) = "reopen" /\ Head(todo[p]).do = "reopen" /\ Arg(p) \in Fd /\ old # NULL
  BY <1>1, AtCall DEF Typed, UsesStep
<1>3. Others(p) /\ Doing(p)' = "file_open"
  BY <1>1, <1>2, OnStep DEF Successor, Follows, LastOf, Locking
<1>4. old \in FileObj /\ Counted(old)
  BY <1>2, Parts, OpenCounted
<1>5. PICK i \in open_inodes :
        /\ i \in Ino /\ inodes[i] # NULL /\ inodes[i].open_cnt # 0
        /\ inodes' = Reopened(i) /\ reg' = [reg EXCEPT ![p] = [reg[p] EXCEPT !.inode = i]]
  BY <1>4, Parts, CountedOpen DEF Reopen, Local
<1>6. inodes' = [inodes EXCEPT ![i].open_cnt = @ + 1]
  BY <1>5 DEF Reopened
<1>7. /\ reg \in [Proc -> Regs] /\ reg[p] \in Regs /\ NULL \notin Ino
      /\ reg[p].inode = NULL /\ reg[p].file = NULL
  <2>1. reg[p].inode = NULL /\ reg[p].file = NULL
    BY <1>2, Idle DEF Busy, Holding
  <2>2. reg \in [Proc -> Regs]
    BY Parts DEF TypeInv
  <2>3. NULL \notin Ino
    BY DEF FileTableAssumption, Ino
  <2> QED
    BY <2>1, <2>2, <2>3
<1> DEFINE r == [reg[p] EXCEPT !.inode = i]
<1>8. r \in Regs /\ r.inode = i /\ r.file = NULL
  BY <1>5, <1>7 DEF Regs
<1>9. reg' = [reg EXCEPT ![p] = r]
  BY <1>5
<1> HIDE DEF r, old
<1>10. reg' \in [Proc -> Regs] /\ reg'[p] = r /\ \A q \in Proc \ {p} : reg'[q] = reg[q]
  BY <1>7, <1>8, <1>9
<1>11. NotFreeing(p)
  BY <1>2, <1>3, <1>10 DEF NotFreeing
<1>12. LinkInv' /\ CountInv' /\ inodes' \in [Ino -> Inode \cup {NULL}] /\ SameShape
  <2>1. reg[p].inode = NULL /\ reg'[p].inode = i /\ inodes[i].open_cnt # 0
    BY <1>5, <1>7, <1>8, <1>10
  <2>2. TypeInv /\ LinkInv /\ CountInv
    BY Parts
  <2> QED
    BY <1>1, <1>6, <1>11, <2>1, <2>2, HolderMore
<1>13. LocalInv'
  <2>1. inodes'[i] # NULL
    BY <1>5, <1>12 DEF SameShape
  <2>2. LocalOK(p)'
    BY <1>3, <1>5, <1>7, <1>8, <1>10, <2>1 DEF LocalOK, Holding
  <2> QED
    BY <1>3, <1>10, <1>12, <2>2, Parts, LocalSame
<1>14. PointerInv'
  <2>1. \A q \in Proc : pages'[q] \in {pages[q], NULL} /\ reg'[q].file \in {reg[q].file, NULL}
    BY <1>1, <1>8, <1>10 DEF procVars
  <2> QED
    BY <1>1, <2>1, Parts, PointersStay DEF procVars
<1>15. UseInv'
  BY <1>1, <1>2, Parts, AdvanceUses DEF procVars
<1> QED
  BY <1>1, <1>2, <1>10, <1>12, <1>13, <1>14, <1>15, Parts, Whole DEF procVars, TypeInv

LEMMA FileOpenKeeps ==
  ASSUME FileTableAssumption, NullAssumption, IInv, NEW p \in Proc, FileOpen(p)
  PROVE  IInv'
<1>1. /\ At(p, "file_open") /\ Advance(p) /\ FreeFiles # {}
      /\ UNCHANGED <<inodes, open_inodes, procVars, filesys_lock, panicked>>
  BY DEF FileOpen
<1>2. Doing(p) = "file_open" /\ Head(todo[p]).do = "file_open"
  BY <1>1, AtCall
<1>3. Others(p) /\ Doing(p)' \in Holding \ {"free"}
  BY <1>1, <1>2, OnStep DEF Successor, Follows, LastOf, Locking, Holding
<1>4. /\ reg \in [Proc -> Regs] /\ reg[p] \in Regs /\ NULL \notin FileObj
      /\ reg[p].inode # NULL /\ reg[p].file = NULL
  <2>1. reg[p].inode # NULL /\ reg[p].file = NULL
    BY <1>2, Parts DEF LocalInv, LocalOK, Holding
  <2>2. reg \in [Proc -> Regs]
    BY Parts DEF TypeInv
  <2>3. NULL \notin FileObj
    BY DEF FileTableAssumption, FileObj
  <2> QED
    BY <2>1, <2>2, <2>3
<1>5. PICK i \in open_inodes : i = reg[p].inode
  BY <1>2, <1>4, Parts DEF LocalInv, LocalOK, LinkInv, Regs
<1>6. PICK f \in FileObj :
        /\ files[f] = NULL
        /\ files' = [files EXCEPT ![f] = [inode |-> i, deny_write |-> FALSE]]
        /\ reg' = [reg EXCEPT ![p] = [reg[p] EXCEPT !.file = f, !.inode = NULL]]
  <2>1. (CHOOSE g \in FreeFiles : TRUE) \in FreeFiles
    BY <1>1
  <2> QED
    BY <1>5, <2>1 DEF FileOpen, Local, FreeFiles
<1> DEFINE r == [reg[p] EXCEPT !.file = f, !.inode = NULL]
<1>7. r \in Regs /\ r.inode = NULL /\ r.file = f
  BY <1>4 DEF Regs
<1>8. reg' = [reg EXCEPT ![p] = r]
  BY <1>6
<1> HIDE DEF r
<1>9. reg' \in [Proc -> Regs] /\ reg'[p] = r /\ \A q \in Proc \ {p} : reg'[q] = reg[q]
  BY <1>4, <1>7, <1>8
<1>10. NotFreeing(p)
  BY <1>2, <1>3, <1>9 DEF NotFreeing
<1>11. LinkInv' /\ CountInv' /\ SameShape
  BY <1>1, <1>5, <1>6, <1>7, <1>9, <1>10, Parts, FileOpenHeap
<1>12. /\ files' \in [FileObj -> File \cup {NULL}] /\ files'[f] # NULL
       /\ \A g \in FileObj : files[g] # NULL => files'[g] # NULL
  BY <1>5, <1>6, <1>10, Parts, FileNew
<1>13. LocalInv'
  <2>1. LocalOK(p)'
    BY <1>3, <1>4, <1>7, <1>9, HoldingOK
  <2> QED
    BY <1>3, <1>9, <1>11, <2>1, Parts, LocalSame
<1>14. PointerInv'
  BY <1>1, <1>6, <1>7, <1>9, <1>12, Parts, NewInReg DEF procVars
<1>15. UseInv'
  BY <1>1, <1>2, Parts, AdvanceUses DEF procVars
<1> QED
  BY <1>1, <1>2, <1>9, <1>11, <1>12, <1>13, <1>14, <1>15, Parts, Whole DEF procVars, TypeInv

LEMMA MapKeeps ==
  ASSUME FileTableAssumption, NullAssumption, IInv, NEW p \in Proc, Map(p)
  PROVE  IInv'
<1>1. /\ At(p, "map") /\ Advance(p) /\ FreeFiles # {}
      /\ UNCHANGED <<open_inodes, fds, program, state, filesys_lock, reg, panicked>>
  BY DEF Map
<1>2. Doing(p) = "map" /\ Head(todo[p]).do = "map"
  BY <1>1, AtCall
<1>3. Others(p) /\ Doing(p)' = "drop"
  BY <1>1, <1>2, OnStep DEF Successor, Follows, LastOf, Locking
<1>4. reg[p].inode = NULL /\ reg[p].file # NULL /\ reg[p].file \in FileObj /\ Counted(reg[p].file)
  BY <1>2, AtHolding DEF Holding
<1>5. PICK i \in open_inodes : i = files[reg[p].file].inode /\ i \in Ino /\ inodes[i] # NULL /\ inodes[i].open_cnt # 0
  BY <1>4, Parts, CountedOpen
<1>6. PICK f \in FileObj :
        /\ files[f] = NULL
        /\ files' = [files EXCEPT ![f] = [inode |-> i, deny_write |-> FALSE]]
        /\ inodes' = Reopened(i)
        /\ pages' = [pages EXCEPT ![p] = f]
  <2>1. (CHOOSE g \in FreeFiles : TRUE) \in FreeFiles
    BY <1>1
  <2> QED
    BY <1>5, <2>1 DEF Map, FreeFiles
<1>7. inodes' = [inodes EXCEPT ![i].open_cnt = @ + 1]
  BY <1>5, <1>6 DEF Reopened
<1>8. NotFreeing(p)
  BY <1>1, <1>2, <1>3 DEF NotFreeing
<1>9. LinkInv' /\ CountInv' /\ SameShape /\ inodes' \in [Ino -> Inode \cup {NULL}]
  BY <1>1, <1>5, <1>6, <1>7, <1>8, Parts, MapHeap
<1>10. /\ files' \in [FileObj -> File \cup {NULL}] /\ files'[f] # NULL
       /\ \A g \in FileObj : files[g] # NULL => files'[g] # NULL
  BY <1>5, <1>6, <1>8, Parts, FileNew
<1>11. LocalInv'
  <2>1. LocalOK(p)'
    BY <1>1, <1>3, <1>4, HoldingOK DEF Holding
  <2> QED
    BY <1>1, <1>3, <1>9, <2>1, Parts, LocalSame
<1>12. PointerInv'
  BY <1>1, <1>6, <1>10, Parts, NewInPages
<1>13. UseInv'
  BY <1>1, <1>2, Parts, AdvanceUses
<1>14. pages' \in [Proc -> FileObj \cup {NULL}]
  BY <1>6, Parts DEF TypeInv
<1> QED
  BY <1>1, <1>2, <1>9, <1>10, <1>11, <1>12, <1>13, <1>14, Parts, Whole DEF TypeInv


LEMMA DropKeeps ==
  ASSUME FileTableAssumption, NullAssumption, IInv, NEW p \in Proc, Drop(p)
  PROVE  IInv'
<1>1. At(p, "drop") /\ Advance(p) /\ UNCHANGED <<open_inodes, procVars, filesys_lock, panicked>>
  BY DEF Drop
<1>2. Doing(p) = "drop" /\ Head(todo[p]).do = "drop"
  BY <1>1, AtCall
<1>3. Others(p) /\ Doing(p)' = "free"
  BY <1>1, <1>2, OnStep DEF Successor, Follows, LastOf, Locking
<1>4. /\ reg[p].inode = NULL /\ reg[p].file # NULL /\ reg[p].file \in FileObj /\ Counted(reg[p].file)
      /\ reg \in [Proc -> Regs] /\ reg[p] \in Regs
  BY <1>2, AtHolding, Parts DEF Holding, TypeInv
<1>5. PICK f \in FileObj : f = reg[p].file /\ Counted(f)
  BY <1>4
<1>6. PICK i \in open_inodes : i = files[f].inode /\ i \in Ino /\ inodes[i] # NULL
  BY <1>5, Parts, CountedOpen
<1> DEFINE last == inodes'[i] # NULL /\ inodes'[i].open_cnt = 0
           r == [reg[p] EXCEPT !.last = last]
<1>7. /\ inodes' = [inodes EXCEPT ![i] = Uncount(@, files[f].deny_write)]
      /\ files' = [files EXCEPT ![f].deny_write = FALSE]
      /\ reg' = [reg EXCEPT ![p] = r]
  <2> DEFINE g == reg[p].file
             k == files[g].inode
  <2>1. /\ inodes' = IF inodes[k] = NULL THEN inodes
                     ELSE [inodes EXCEPT ![k] = Uncount(@, files[g].deny_write)]
        /\ files' = [files EXCEPT ![g].deny_write = FALSE]
        /\ Local(p, [reg[p] EXCEPT !.last = inodes'[k] # NULL /\ inodes'[k].open_cnt = 0])
    BY DEF Drop
  <2>2. g = f /\ k = i
    BY <1>5, <1>6
  <2>3. inodes' = [inodes EXCEPT ![i] = Uncount(@, files[f].deny_write)]
    BY <1>6, <2>1, <2>2
  <2>4. files' = [files EXCEPT ![f].deny_write = FALSE]
    BY <2>1, <2>2
  <2>5. reg' = [reg EXCEPT ![p] = r]
    BY <2>1, <2>2 DEF Local
  <2> QED
    BY <2>3, <2>4, <2>5
<1>9. r \in Regs /\ r.inode = NULL /\ r.file = f /\ (r.last <=> last)
  BY <1>4, <1>5 DEF Regs
<1> HIDE DEF last
<1>10. reg' = [reg EXCEPT ![p] = r]
  BY <1>7
<1> HIDE DEF r
<1>11. reg' \in [Proc -> Regs] /\ reg'[p] = r /\ \A q \in Proc \ {p} : reg'[q] = reg[q]
  BY <1>4, <1>9, <1>10
<1>12. /\ LinkInv' /\ CountInv'
       /\ files' \in [FileObj -> File \cup {NULL}] /\ inodes' \in [Ino -> Inode \cup {NULL}]
       /\ files'[f].inode = i /\ inodes'[i] # NULL
       /\ \A j \in Ino : inodes'[j] # NULL <=> inodes[j] # NULL
  <2>1. Doing(p) # "free" /\ Doing(p)' = "free" /\ UNCHANGED open_inodes
    BY <1>1, <1>2, <1>3
  <2>2. reg'[p].file = f /\ reg'[p].inode = reg[p].inode
    BY <1>4, <1>9, <1>11
  <2>3. /\ LinkInv' /\ CountInv'
        /\ files' \in [FileObj -> File \cup {NULL}] /\ inodes' \in [Ino -> Inode \cup {NULL}]
        /\ files'[f].inode = i /\ inodes'[i] # NULL
        /\ \A j \in Ino : inodes'[j] # NULL <=> inodes[j] # NULL
    BY <1>3, <1>5, <1>6, <1>7, <1>11, <2>1, <2>2, Parts, DropHeap
  <2> QED
    BY <2>3
<1>13. LocalInv'
  <2>1. LocalOK(p)'
    BY <1>3, <1>4, <1>5, <1>9, <1>11, <1>12 DEF LocalOK, Holding, last
  <2>2. \A q \in Proc \ {p} : reg[q].inode # NULL => inodes'[reg[q].inode] # NULL
    BY <1>12, Parts DEF LocalInv, LocalOK, TypeInv, Regs
  <2> QED
    BY <1>2, <1>3, <1>11, <2>1, <2>2, Parts, CriticalLocal DEF Critical
<1>14. PointerInv'
  <2>1. \A q \in Proc : pages'[q] \in {pages[q], NULL} /\ reg'[q].file \in {reg[q].file, NULL}
    BY <1>1, <1>5, <1>9, <1>11 DEF procVars
  <2>2. files'[f] # NULL
    <3>1. files'[f] = [files[f] EXCEPT !.deny_write = FALSE] /\ files[f] \in File
      BY <1>2, <1>5, <1>7, AtHolding, Parts DEF TypeInv, Holding
    <3>2. files'[f] \in File
      BY <3>1, AllowedFile
    <3> QED
      BY <3>2, NullAssumption
  <2>3. \A g \in FileObj : files[g] # NULL => files'[g] # NULL
    BY <1>7, <2>2, Parts DEF TypeInv
  <2> QED
    BY <1>1, <2>1, <2>3, Parts, PointersStay DEF procVars
<1>15. UseInv'
  BY <1>1, <1>2, Parts, AdvanceUses DEF procVars
<1> QED
  BY <1>1, <1>2, <1>11, <1>12, <1>13, <1>14, <1>15, Parts, Whole DEF procVars, TypeInv

LEMMA FreeKeeps ==
  ASSUME FileTableAssumption, NullAssumption, IInv, NEW p \in Proc, Free(p)
  PROVE  IInv'
<1>1. At(p, "free") /\ Advance(p) /\ Local(p, Locals) /\ UNCHANGED <<procVars, filesys_lock, panicked>>
  BY DEF Free
<1>2. Doing(p) = "free" /\ Head(todo[p]).do = "free"
  BY <1>1, AtCall
<1>3. Others(p) /\ Doing(p)' \notin Busy
  BY <1>1, <1>2, OnStep DEF Successor, Follows, Busy, Holding
<1>4. /\ reg[p].inode = NULL /\ reg[p].file # NULL /\ reg[p].file \in FileObj /\ files[reg[p].file] # NULL
  BY <1>2, AtHolding DEF Holding
<1>5. PICK f \in FileObj : f = reg[p].file /\ files[f] # NULL
  BY <1>4
<1>6. PICK i : i = files[f].inode
  OBVIOUS
<1>7. reg[p].last <=> inodes[i].open_cnt = 0
  BY <1>2, <1>5, <1>6, Parts DEF LocalInv, LocalOK
<1>8. /\ inodes' = IF reg[p].last THEN [inodes EXCEPT ![i] = NULL] ELSE inodes
      /\ open_inodes' = open_inodes \ (IF reg[p].last THEN {i} ELSE {})
      /\ files' = [files EXCEPT ![f] = NULL]
  BY <1>5, <1>6 DEF Free
<1>9. /\ reg' = [reg EXCEPT ![p] = Locals] /\ reg' \in [Proc -> Regs]
      /\ reg'[p].inode = NULL /\ reg'[p].file = NULL /\ \A q \in Proc \ {p} : reg'[q] = reg[q]
  BY <1>1, ResetLocals
<1>10. \A q \in Proc : Doing(q) = "free" => q = p
  BY <1>2, Parts, OneCritical DEF Critical
<1>11. /\ LinkInv' /\ CountInv'
       /\ files' \in [FileObj -> File \cup {NULL}] /\ inodes' \in [Ino -> Inode \cup {NULL}]
       /\ \A g \in FileObj : g # f => files'[g] = files[g]
       /\ \A q \in Proc : reg[q].inode # NULL => inodes'[reg[q].inode] = inodes[reg[q].inode]
  <2>1. Doing(p)' # "free"
    BY <1>3 DEF Busy, Holding
  <2> QED
    BY <1>2, <1>3, <1>4, <1>5, <1>6, <1>7, <1>8, <1>9, <1>10, <2>1, Parts, FreeHeap
<1>12. LocalInv'
  <2>1. LocalOK(p)'
    BY <1>3, <1>9, IdleOK
  <2>2. \A q \in Proc \ {p} : reg[q].inode # NULL => inodes'[reg[q].inode] # NULL
    BY <1>11, Parts DEF LocalInv, LocalOK
  <2> QED
    BY <1>2, <1>3, <1>9, <2>1, <2>2, Parts, CriticalLocal DEF Critical
<1>13. PointerInv'
  BY <1>1, <1>4, <1>5, <1>9, <1>11, Parts, RegFreed DEF procVars
<1>14. UseInv'
  BY <1>1, <1>2, Parts, AdvanceUses DEF procVars
<1> QED
  BY <1>1, <1>2, <1>9, <1>11, <1>12, <1>13, <1>14, Parts, Whole DEF procVars, TypeInv


-----------------------------------------------------------------------------
(* The first states.                                                       *)
LEMMA InitInv ==
  ASSUME FileTableAssumption, NullAssumption, Init
  PROVE  IInv
<1>1. PICK n \in Name :
        /\ files = [f \in FileObj |-> IF f <= 2 THEN [inode |-> 1, deny_write |-> f = 1] ELSE NULL]
        /\ inodes = [i \in Ino |-> IF i = 1 THEN [name |-> n, open_cnt |-> 2, deny_write_cnt |-> 1] ELSE NULL]
  BY DEF Init
<1>2. /\ fds = [p \in Proc |-> [d \in Fd |-> NULL]]
      /\ program = [p \in Proc \cup {Main} |-> IF p = Main THEN 1 ELSE NULL]
      /\ pages = [p \in Proc |-> IF p = First THEN 2 ELSE NULL]
      /\ open_inodes = {1} /\ filesys_lock = NULL
      /\ call = [p \in Proc |-> NULL] /\ todo = [p \in Proc |-> <<>>]
      /\ reg = [p \in Proc |-> Locals]
  BY DEF Init
<1>3. /\ 1 \in FileObj /\ 2 \in FileObj /\ 1 \in Ino /\ First \in Proc /\ Main \notin Proc
      /\ NULL \notin FileObj /\ NULL \notin Ino /\ NULL \notin Proc /\ NULL \notin Kind
      /\ \A f \in FileObj : f <= 2 <=> f = 1 \/ f = 2
  BY DEF FileTableAssumption, FileObj, Ino
<1> DEFINE node == [name |-> n, open_cnt |-> 2, deny_write_cnt |-> 1]
           file(f) == [inode |-> 1, deny_write |-> f = 1]
<1>4. node \in Inode /\ node # NULL /\ node.open_cnt = 2 /\ node.deny_write_cnt = 1
  BY NullAssumption DEF Inode
<1>5. \A f : file(f) \in File /\ file(f) # NULL /\ file(f).inode = 1 /\ (file(f).deny_write <=> f = 1)
  <2> TAKE f
  <2>1. (f = 1) \in BOOLEAN
    OBVIOUS
  <2>2. file(f) \in File
    BY <1>3, <2>1 DEF File
  <2>3. file(f).inode = 1 /\ (file(f).deny_write <=> f = 1)
    OBVIOUS
  <2> HIDE DEF file
  <2> QED
    BY <2>2, <2>3, NullAssumption
<1> HIDE DEF node, file
<1>6. /\ inodes[1] = node /\ \A i \in Ino : i # 1 => inodes[i] = NULL
      /\ \A f \in FileObj : files[f] = IF f = 1 \/ f = 2 THEN file(f) ELSE NULL
  BY <1>1, <1>3 DEF node, file
<1>7. \A p \in Proc : /\ Doing(p) = "nothing" /\ reg[p] = Locals /\ call[p] = NULL /\ todo[p] = <<>>
                      /\ reg[p].inode = NULL /\ reg[p].file = NULL
  BY <1>2, LocalsFree DEF Doing
<1>8. TypeInv
  <2>1. files \in [FileObj -> File \cup {NULL}]
    BY <1>1, <1>3, <1>5, <1>6
  <2>2. inodes \in [Ino -> Inode \cup {NULL}]
    BY <1>1, <1>3, <1>4, <1>6
  <2>3. program \in [Proc \cup {Main} -> FileObj \cup {NULL}] /\ pages \in [Proc -> FileObj \cup {NULL}]
    BY <1>2, <1>3
  <2>4. fds \in [Proc -> [Fd -> FileObj \cup {NULL}]]
    BY <1>2
  <2>5. reg \in [Proc -> Regs] /\ call \in [Proc -> Kind \cup {NULL}] /\ DOMAIN todo = Proc
    BY <1>2, LocalsFree
  <2> QED
    BY <2>1, <2>2, <2>3, <2>4, <2>5 DEF TypeInv
<1>9. ControlInv
  <2>1. CallInv
    BY <1>7 DEF CallInv
  <2>2. AloneInv
    BY <1>3, <1>7 DEF AloneInv, Kind
  <2>3. LockInv
    BY <1>2, <1>3, <1>7 DEF LockInv, Locking, Kind
  <2> QED
    BY <2>1, <2>2, <2>3 DEF ControlInv
<1>10. UseInv
  BY <1>7 DEF UseInv, Uses
<1>11. LocalInv
  BY <1>7 DEF LocalInv, LocalOK, Holding
<1>12. PointerInv
  <2>1. ASSUME NEW x \in Pointers, FileAt(x) # NULL
        PROVE  \/ x = <<"program", Main>> /\ FileAt(x) = 1
               \/ x = <<"pages", First>> /\ FileAt(x) = 2
    <3>1. CASE \E q \in Proc, d \in Fd : x = <<"fd", q, d>>
      BY <1>2, <2>1, <3>1, FileAtIs
    <3>2. CASE \E q \in Proc \cup {Main} : x = <<"program", q>>
      <4>1. PICK q \in Proc \cup {Main} : x = <<"program", q>>
        BY <3>2
      <4>2. FileAt(x) = program[q]
        BY <4>1, FileAtIs
      <4>3. program[q] = IF q = Main THEN 1 ELSE NULL
        BY <1>2
      <4>4. q = Main /\ FileAt(x) = 1
        BY <2>1, <4>2, <4>3
      <4> QED
        BY <4>1, <4>4
    <3>3. CASE \E q \in Proc : x = <<"pages", q>>
      <4>1. PICK q \in Proc : x = <<"pages", q>>
        BY <3>3
      <4>2. FileAt(x) = pages[q]
        BY <4>1, FileAtIs
      <4> QED
        BY <1>2, <2>1, <4>1, <4>2
    <3>4. CASE \E q \in Proc : x = <<"reg", q>>
      BY <1>7, <2>1, <3>4, FileAtIs
    <3> QED
      BY <3>1, <3>2, <3>3, <3>4, PointersAre
  <2>2. files[1] # NULL /\ files[2] # NULL
    BY <1>3, <1>5, <1>6
  <2> QED
    BY <1>3, <2>1, <2>2 DEF PointerInv
<1>13. LinkInv
  <2>1. \A f \in FileObj : files[f] # NULL => inodes[files[f].inode] # NULL
    BY <1>4, <1>5, <1>6
  <2>2. open_inodes = {i \in Ino : inodes[i] # NULL}
    BY <1>2, <1>3, <1>4, <1>6
  <2> QED
    BY <1>2, <2>1, <2>2 DEF LinkInv
<1>14. CountInv
  <2>1. \A f \in FileObj : Counted(f) <=> f = 1 \/ f = 2
    BY <1>5, <1>6, <1>7 DEF Counted
  <2>2. FilesOf(1) = {1, 2}
    BY <1>3, <1>5, <1>6, <2>1 DEF FilesOf
  <2>3. DeniedOf(1) = {1}
    BY <1>3, <1>5, <1>6, <2>2 DEF DeniedOf
  <2>4. Holders(1) = {}
    BY <1>3, <1>7 DEF Holders
  <2>5. Cardinality({1}) = 1 /\ Cardinality({}) = 0 /\ Cardinality({1, 2}) = 2
    <3>1. Cardinality({1}) = 1 /\ IsFiniteSet({1})
      BY FS_Singleton
    <3>2. {1, 2} = {1} \cup {2} /\ 2 \notin {1}
      OBVIOUS
    <3>3. Cardinality({1, 2}) = Cardinality({1}) + 1
      BY <3>1, <3>2, OneMore
    <3> QED
      BY <3>1, <3>3, FS_EmptySet
  <2> QED
    <3>1. /\ Cardinality(FilesOf(1)) = 2 /\ Cardinality(Holders(1)) = 0
          /\ Cardinality(DeniedOf(1)) = 1
      BY <2>2, <2>3, <2>4, <2>5, Zenon
    <3>2. inodes[1].open_cnt = 2 /\ inodes[1].deny_write_cnt = 1
      BY <1>4, <1>6
    <3> QED
      BY <1>2, <3>1, <3>2 DEF CountInv
<1> QED
  BY <1>8, <1>9, <1>10, <1>11, <1>12, <1>13, <1>14 DEF IInv, HeapInv

-----------------------------------------------------------------------------
LEMMA StutterInv ==
  ASSUME IInv, UNCHANGED vars
  PROVE  IInv'
<1>1. UNCHANGED <<fds, program, pages, files, inodes, open_inodes, filesys_lock, call, todo, reg>>
  BY DEF vars, fileVars, procVars
<1>2. \A p : Doing(p)' = Doing(p) /\ Arg(p)' = Arg(p)
  BY <1>1 DEF Doing, Arg
<1>3. TypeInv' /\ UseInv' /\ LocalInv' /\ LinkInv'
  BY <1>1, <1>2, Parts DEF TypeInv, UseInv, LocalInv, LocalOK, LinkInv
<1>4. ControlInv'
  BY <1>1, <1>2, Parts DEF ControlInv, CallInv, AloneInv, LockInv
<1>5. PointerInv'
  <2>1. \A x \in Pointers : FileAt(x)' = FileAt(x)
    BY <1>1, PointersAre, FileAtIs
  <2> QED
    BY <1>1, <2>1, Parts DEF PointerInv
<1>6. CountInv'
  <2>1. \A f : Counted(f)' <=> Counted(f)
    BY <1>1, <1>2 DEF Counted
  <2>2. \A i : FilesOf(i)' = FilesOf(i) /\ DeniedOf(i)' = DeniedOf(i) /\ Holders(i)' = Holders(i)
    BY <1>1, <2>1 DEF FilesOf, DeniedOf, Holders
  <2> QED
    BY <1>1, <2>2, Parts DEF CountInv
<1> QED
  BY <1>3, <1>4, <1>5, <1>6 DEF IInv, HeapInv

LEMMA NextInv ==
  ASSUME FileTableAssumption, NullAssumption, ExecAlone, IInv, [Next]_vars
  PROVE  IInv'
<1>1. ASSUME NEW p \in Proc, Open(p) \/ Use(p) \/ Dup2(p) \/ Fork(p) \/ Exec(p) \/ Exit(p) PROVE IInv'
  BY <1>1, FileTableAssumption, CallsKeep
<1>2. ASSUME NEW p \in Proc, LockStep(p) PROVE IInv'
  BY <1>2, FileTableAssumption, LockKeeps
<1>3. ASSUME NEW p \in Proc, UnlockStep(p) PROVE IInv'
  BY <1>3, FileTableAssumption, UnlockKeeps
<1>4. ASSUME NEW p \in Proc, Place(p) PROVE IInv'
  BY <1>4, FileTableAssumption, PlaceKeeps
<1>5. ASSUME NEW p \in Proc, Find(p) PROVE IInv'
  BY <1>5, FileTableAssumption, FindKeeps
<1>6. ASSUME NEW p \in Proc, Take(p) PROVE IInv'
  BY <1>6, FileTableAssumption, NullAssumption, TakeKeeps
<1>7. ASSUME NEW p \in Proc, Reopen(p) PROVE IInv'
  BY <1>7, FileTableAssumption, NullAssumption, ReopenKeeps
<1>8. ASSUME NEW p \in Proc, FileOpen(p) PROVE IInv'
  BY <1>8, FileTableAssumption, NullAssumption, FileOpenKeeps
<1>9. ASSUME NEW p \in Proc, Drop(p) PROVE IInv'
  BY <1>9, FileTableAssumption, NullAssumption, DropKeeps
<1>10. ASSUME NEW p \in Proc, Free(p) PROVE IInv'
  BY <1>10, FileTableAssumption, NullAssumption, FreeKeeps
<1>11. ASSUME NEW p \in Proc, Install(p) \/ Point(p) PROVE IInv'
  BY <1>11, FileTableAssumption, InstallKeeps
<1>12. ASSUME NEW p \in Proc, Clear(p) PROVE IInv'
  BY <1>12, FileTableAssumption, ClearKeeps
<1>13. ASSUME NEW p \in Proc, Check(p) PROVE IInv'
  BY <1>13, FileTableAssumption, CheckKeeps
<1>14. ASSUME NEW p \in Proc, Store(p) \/ Tell(p) \/ Start(p) \/ Gone(p) PROVE IInv'
  BY <1>14, FileTableAssumption, StoreKeeps
<1>15. ASSUME NEW p \in Proc, DupDeny(p) PROVE IInv'
  BY <1>15, FileTableAssumption, NullAssumption, DupDenyKeeps
<1>16. ASSUME NEW p \in Proc, Copy(p) PROVE IInv'
  BY <1>16, FileTableAssumption, CopyKeeps
<1>17. ASSUME NEW p \in Proc, Inherit(p) PROVE IInv'
  BY <1>17, FileTableAssumption, NullAssumption, InheritKeeps
<1>18. ASSUME NEW p \in Proc, Deny(p) PROVE IInv'
  BY <1>18, FileTableAssumption, NullAssumption, DenyKeeps
<1>19. ASSUME NEW p \in Proc, Map(p) PROVE IInv'
  BY <1>19, FileTableAssumption, NullAssumption, MapKeeps
<1>20. ASSUME NEW p \in Proc, ExitStep(p) PROVE IInv'
  BY <1>20, FileTableAssumption, ExitKeeps
<1>21. ASSUME NEW p \in Proc, Shut(p) PROVE IInv'
  BY <1>21, FileTableAssumption, ShutKeeps
<1>22. ASSUME NEW p \in Proc, ClearProgram(p) PROVE IInv'
  BY <1>22, FileTableAssumption, ClearProgramKeeps
<1>23. CASE UNCHANGED vars
  BY <1>23, StutterInv
<1> QED
  BY <1>1, <1>2, <1>3, <1>4, <1>5, <1>6, <1>7, <1>8, <1>9, <1>10, <1>11, <1>12, <1>13, <1>14, <1>15,
     <1>16, <1>17, <1>18, <1>19, <1>20, <1>21, <1>22, <1>23 DEF Next

(* What the descriptors, programs, pages and calls share: each struct file *)
(* that something points to is in use and has no other owner, an inode is  *)
(* open as long as a file is of it, and counts its files and those that    *)
(* deny writes exactly, at every switch (file.c, inode.c, syscall.c,       *)
(* process.c); provided that exec and exit meet no call that uses the list *)
(* of open inodes, for they use it without the lock.                       *)
THEOREM FilesAlwaysExact == {"exec", "exit"} \subseteq Alone => (Spec => []FilesExact)
<1> SUFFICES ASSUME ExecAlone PROVE Spec => []FilesExact
  BY DEF ExecAlone
<1>1. Init => IInv
  BY FileTableAssumption, NullAssumption, InitInv
<1>2. IInv /\ [Next]_vars => IInv'
  BY FileTableAssumption, NullAssumption, NextInv
<1>3. IInv => FilesExact
  BY Exact DEF IInv
<1> QED
  BY <1>1, <1>2, <1>3, PTL DEF Spec

-----------------------------------------------------------------------------
(* NoWritePasses: the file of a process's program denies writes.           *)
DenyInv == \A x \in Proc \cup {Main} : program[x] # NULL => files[program[x]].deny_write

(* Whoever denies writes goes on to, but for the file that p closes.       *)
StillDeny(p) ==
  \A f \in FileObj : files[f] # NULL /\ f # reg[p].file /\ files[f].deny_write => files'[f].deny_write

(* The steps of the calls.                                                 *)
Stepping(p) ==
  \/ LockStep(p) \/ UnlockStep(p)
  \/ Place(p) \/ Find(p) \/ Take(p) \/ Reopen(p) \/ FileOpen(p) \/ Drop(p) \/ Free(p)
  \/ Install(p) \/ Clear(p) \/ Check(p) \/ Store(p) \/ Tell(p)
  \/ DupDeny(p) \/ Point(p) \/ Copy(p) \/ Inherit(p) \/ Start(p)
  \/ Deny(p) \/ Map(p) \/ ExitStep(p) \/ Shut(p) \/ ClearProgram(p) \/ Gone(p)
Begins(p) == Open(p) \/ Use(p) \/ Dup2(p) \/ Fork(p) \/ Exec(p) \/ Exit(p)

LEMMA ProgramOwned ==
  ASSUME FileTableAssumption, IInv, NEW x \in Proc \cup {Main}, program[x] # NULL
  PROVE  /\ program[x] \in FileObj /\ files[program[x]] # NULL /\ Counted(program[x])
         /\ \A q \in Proc : reg[q].file # program[x]
<1> DEFINE a == <<"program", x>>
<1>1. a \in Pointers /\ FileAt(a) = program[x]
  BY PointersAre, FileAtIs
<1>2. program[x] \in FileObj /\ files[program[x]] # NULL
  BY <1>1, Parts, PointersTyped DEF PointerInv
<1>3. ASSUME NEW q \in Proc, reg[q].file = program[x] PROVE FALSE
  <2>1. <<"reg", q>> \in Pointers /\ FileAt(<<"reg", q>>) = reg[q].file /\ <<"reg", q>> # a
    BY PointersAre, FileAtIs
  <2> QED
    BY <1>1, <1>3, <2>1, Parts DEF PointerInv
<1> QED
  BY <1>2, <1>3 DEF Counted

LEMMA DenyWrite ==
  ASSUME IInv, NEW f \in FileObj, files[f] # NULL,
         file_deny_write(f) \/ UNCHANGED files
  PROVE  /\ \A g \in FileObj : files[g] # NULL /\ files[g].deny_write => files'[g].deny_write
         /\ file_deny_write(f) => files'[f].deny_write
<1>1. files \in [FileObj -> File \cup {NULL}]
  BY Parts DEF TypeInv
<1>2. files[f] \in File
  BY <1>1
<1>3. CASE UNCHANGED files
  BY <1>3, <1>1, <1>2 DEF file_deny_write, File
<1>4. CASE files' = [files EXCEPT ![f].deny_write = TRUE]
  <2>1. files'[f].deny_write /\ \A g \in FileObj : g # f => files'[g] = files[g]
    BY <1>1, <1>2, <1>4 DEF File
  <2> QED
    BY <2>1
<1> QED
  BY <1>3, <1>4 DEF file_deny_write

LEMMA DenyGoesOn ==
  ASSUME FileTableAssumption, IInv, NEW p \in Proc, Begins(p) \/ Stepping(p)
  PROVE  StillDeny(p)
<1>1. files \in [FileObj -> File \cup {NULL}]
  BY Parts DEF TypeInv
<1>2. CASE UNCHANGED files
  BY <1>2 DEF StillDeny
<1>3. CASE FileOpen(p) \/ Map(p)
  <2> DEFINE g == CHOOSE f \in FreeFiles : TRUE
  <2>1. g \in FreeFiles /\ \E x : files' = [files EXCEPT ![g] = x]
    BY <1>3 DEF FileOpen, Map
  <2> HIDE DEF g
  <2>2. \A f \in FileObj : files[f] # NULL => files'[f] = files[f]
    BY <1>1, <2>1 DEF FreeFiles
  <2> QED
    BY <2>2 DEF StillDeny
<1>4. CASE DupDeny(p) \/ Inherit(p) \/ Deny(p)
  <2>1. Doing(p) \in Holding
    BY <1>4 DEF DupDeny, Inherit, Deny, At, Holding
  <2>2. reg[p].file \in FileObj /\ files[reg[p].file] # NULL
    BY <2>1, AtHolding
  <2>3. file_deny_write(reg[p].file) \/ UNCHANGED files
    BY <1>4 DEF DupDeny, Inherit, Deny
  <2> QED
    BY <2>2, <2>3, DenyWrite DEF StillDeny
<1>5. CASE Drop(p) \/ Free(p)
  <2>1. \A f \in FileObj : f # reg[p].file => files'[f] = files[f]
    BY <1>1, <1>5 DEF Drop, Free
  <2> QED
    BY <2>1 DEF StillDeny
<1>6. CASE Begins(p)
  BY <1>2, <1>6 DEF Begins, Open, Use, Dup2, Fork, Exec, Exit, Begin, fileVars
<1> QED
  BY <1>2, <1>3, <1>4, <1>5, <1>6
  DEF Stepping, LockStep, UnlockStep, Place, Find, Take, Reopen, Install, Clear, Check, Store, Tell, Point,
      Copy, Start, ExitStep, Shut, ClearProgram, Gone, fileVars

LEMMA DenyKept ==
  ASSUME FileTableAssumption, IInv, DenyInv, NEW p \in Proc, Begins(p) \/ Stepping(p)
  PROVE  DenyInv'
<1>1. program \in [Proc \cup {Main} -> FileObj \cup {NULL}]
  BY Parts DEF TypeInv
<1>2. StillDeny(p)
  BY DenyGoesOn
<1>3. ASSUME NEW x \in Proc \cup {Main}, program[x] # NULL PROVE files'[program[x]].deny_write
  BY <1>2, <1>3, ProgramOwned DEF DenyInv, StillDeny
<1>4. CASE UNCHANGED program
  BY <1>3, <1>4 DEF DenyInv
<1>5. CASE Deny(p)
  <2>1. Doing(p) \in Holding
    BY <1>5 DEF Deny, At, Holding
  <2>2. reg[p].file \in FileObj /\ files[reg[p].file] # NULL
    BY <2>1, AtHolding
  <2>3. program' = [program EXCEPT ![p] = reg[p].file] /\ files'[reg[p].file].deny_write
    BY <1>5, <2>2, DenyWrite DEF Deny
  <2> QED
    BY <1>1, <1>3, <2>3 DEF DenyInv
<1>6. CASE ClearProgram(p)
  <2>1. program' = [program EXCEPT ![p] = NULL]
    BY <1>6 DEF ClearProgram
  <2> QED
    BY <1>1, <1>3, <2>1 DEF DenyInv
<1>7. CASE Begins(p)
  BY <1>4, <1>7 DEF Begins, Open, Use, Dup2, Fork, Exec, Exit, Begin
<1> QED
  BY <1>4, <1>5, <1>6, <1>7
  DEF Stepping, LockStep, UnlockStep, Place, Find, Take, Reopen, FileOpen, Drop, Free, Install, Clear, Check,
      Store, Tell, DupDeny, Point, Copy, Inherit, Start, Map, ExitStep, Shut, Gone, procVars

LEMMA NextDeny ==
  ASSUME FileTableAssumption, IInv, DenyInv, [Next]_vars
  PROVE  DenyInv'
<1>1. CASE UNCHANGED vars
  BY <1>1 DEF DenyInv, vars, fileVars, procVars
<1>2. CASE Next
  <2>1. PICK p \in Proc : Begins(p) \/ Stepping(p)
    BY <1>2 DEF Next, Begins, Stepping
  <2> QED
    BY <2>1, DenyKept
<1> QED
  BY <1>1, <1>2

LEMMA InitDeny ==
  ASSUME FileTableAssumption, NullAssumption, Init
  PROVE  DenyInv
<1>1. /\ program = [p \in Proc \cup {Main} |-> IF p = Main THEN 1 ELSE NULL]
      /\ files = [f \in FileObj |-> IF f <= 2 THEN [inode |-> 1, deny_write |-> f = 1] ELSE NULL]
  BY DEF Init
<1>2. Main \notin Proc /\ 1 \in FileObj /\ 1 <= 2
  BY DEF FileTableAssumption, FileObj
<1> DEFINE file == [inode |-> 1, deny_write |-> 1 = 1]
<1>3. files[1] = file
  BY <1>1, <1>2
<1>4. file.deny_write
  OBVIOUS
<1> HIDE DEF file
<1> QED
  BY <1>1, <1>2, <1>3, <1>4 DEF DenyInv

(* Only the step that checks lets a write through.                         *)
LEMMA Checks ==
  ASSUME FileTableAssumption, IInv, [Next]_vars, NEW p \in Proc, Doing(p) = "check", Doing(p)' = "store"
  PROVE  Check(p)
<1>1. DOMAIN todo = Proc /\ call[p] # NULL /\ todo'[p] # todo[p]
  <2>1. call[p] \in Kind
    BY Parts, InCall
  <2> QED
    BY <2>1, Parts DEF TypeInv, Doing, FileTableAssumption
<1>2. PICK q \in Proc : Begins(q) \/ Stepping(q)
  BY <1>1 DEF Next, Begins, Stepping, vars
<1>3. \E s : todo' = [todo EXCEPT ![q] = s]
  BY <1>2
  DEF Begins, Open, Use, Dup2, Fork, Exec, Exit, Begin,
      Stepping, LockStep, UnlockStep, Place, Find, Take, Reopen, FileOpen, Drop, Free, Install, Clear, Check,
      Store, Tell, DupDeny, Point, Copy, Inherit, Start, Deny, Map, ExitStep, Shut, ClearProgram, Gone,
      Advance, Then
<1>4. q = p
  BY <1>1, <1>3
<1>5. Stepping(p)
  BY <1>1, <1>2, <1>4 DEF Begins, Open, Use, Dup2, Fork, Exec, Exit, Begin
<1> QED
  BY <1>5
  DEF Stepping, At, LockStep, UnlockStep, Place, Find, Take, Reopen, FileOpen, Drop, Free, Install, Clear,
      Store, Tell, DupDeny, Point, Copy, Inherit, Start, Deny, Map, ExitStep, Shut, ClearProgram, Gone

(* deny_write_cnt tells whether somebody's program is the file.            *)
LEMMA CheckTells ==
  ASSUME FileTableAssumption, IInv, DenyInv, [Next]_vars,
         NEW x \in Proc \cup {Main}, NEW p \in Proc, InUse(x), Passes(p, Executable(x))
  PROVE  FALSE
<1>1. At(p, "check") /\ Doing(p) = "check" /\ Doing(p)' = "store"
  BY DEF Passes, At
<1>2. call[p] = "write" /\ Arg(p) \in Fd /\ fds[p][Arg(p)] # NULL
  <2>1. StepOf(call[p], "check") /\ Typed(Head(todo[p])) /\ UsesStep(fds[p], program[p], Head(todo[p]))
        /\ Head(todo[p]).do = "check" /\ Arg(p) = Head(todo[p]).arg
    BY <1>1, AtCall
  <2> QED
    BY <2>1 DEF StepOf, Typed, UsesStep
<1>3. Check(p)
  BY <1>1, Checks
<1>4. PICK i : i = files[fds[p][Arg(p)]].inode
  OBVIOUS
<1>5. i \in Ino /\ i \in open_inodes /\ inodes[i] \in Inode /\ inodes[i] # NULL
  BY <1>2, <1>4, Parts, OpenCounted, CountedOpen
<1>6. ~(inodes[i].deny_write_cnt > 0) /\ Local(p, [reg[p] EXCEPT !.found = i])
  <2> DEFINE s == Step("unlock", NULL)
  <2>1. s # <<>> /\ Head(s).do = "unlock"
    BY DEF Step
  <2> HIDE DEF s
  <2>2. Then(p, s) => Doing(p)' = "unlock"
    BY <2>1, Parts, ThenGoes DEF Goes
  <2> QED
    BY <1>1, <1>3, <1>4, <2>2 DEF Check, s
<1>7. reg'[p].found = i
  <2>1. reg[p] \in Regs /\ DOMAIN reg = Proc
    BY Parts DEF TypeInv
  <2> QED
    BY <1>6, <2>1 DEF Local, Regs
<1>8. PICK f \in FileObj : f = program[x] /\ Counted(f) /\ files[f].deny_write
  BY ProgramOwned DEF InUse, DenyInv
<1>9. PICK j \in open_inodes : j = files[f].inode
  BY <1>8, Parts, CountedOpen
<1>10. inodes[j].name = inodes[i].name
  BY <1>7, <1>8, <1>9 DEF Passes, Executable
<1>11. i = j
  BY <1>5, <1>10, Parts DEF LinkInv
<1>12. f \in DeniedOf(i)
  BY <1>8, <1>9, <1>11 DEF DeniedOf, FilesOf
<1>13. Cardinality(DeniedOf(i)) # 0
  BY <1>12, CountsFinite, FS_EmptySet
<1>14. inodes[i].deny_write_cnt = Cardinality(DeniedOf(i))
  BY <1>5, Parts DEF CountInv
<1> QED
  BY <1>6, <1>13, <1>14, CountsFinite

(* "Add code to deny writes to files in use as executables": from the time *)
(* process_exec, or process_execute for the first process, has opened the  *)
(* program until process_exit lets it go, no write of any process, its own *)
(* included, gets past the check of deny_write_cnt in inode_write_at,      *)
(* whatever open, close, dup2, fork, exec and exit of others do with the   *)
(* file in between (process.c, file.c, inode.c); provided that exec and    *)
(* exit meet no call that uses the list of open inodes.  They may meet a   *)
(* write: one that has passed the check before is not stopped.             *)
THEOREM NoWriteLetThrough == {"exec", "exit"} \subseteq Alone => (Spec => NoWritePasses)
<1> SUFFICES ASSUME ExecAlone PROVE Spec => NoWritePasses
  BY DEF ExecAlone
<1>1. Init => IInv /\ DenyInv
  BY FileTableAssumption, NullAssumption, InitInv, InitDeny
<1>2. IInv /\ DenyInv /\ [Next]_vars => IInv' /\ DenyInv'
  BY FileTableAssumption, NullAssumption, NextInv, NextDeny
<1>3. IInv /\ DenyInv /\ [Next]_vars =>
        [\A p \in Proc \cup {Main}, q \in Proc : InUse(p) => ~Passes(q, Executable(p))]_vars
  BY FileTableAssumption, CheckTells
<1> QED
  BY <1>1, <1>2, <1>3, PTL DEF Spec, NoWritePasses
==============================================================================
