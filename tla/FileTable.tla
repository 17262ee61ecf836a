------------------------------ MODULE FileTable ------------------------------
(***************************************************************************)
(* The open files of the processes of pintos2: userprog/syscall.c (open,   *)
(* close, read, write, filesize, tell, dup2, fork, exec), process.c where  *)
(* it opens programs and closes everything, and under them filesys/file.c  *)
(* and the open inodes of inode.c.                                         *)
(*                                                                         *)
(* A call is a sequence of steps, and a switch may come between any two.   *)
(* open, close, read, write, filesize and tell hold filesys_lock; dup2,    *)
(* fork, exec and the closing of files in exit do not.  What the steps do  *)
(* with the disk is in FileSys.                                            *)
(***************************************************************************)
EXTENDS Naturals, FiniteSetsExt, SequencesExt

CONSTANTS
  Proc, First,     \* the processes, and the one that process_execute starts
  Main,            \* the thread that runs process_execute, and waits
  Fds,             \* MAX_FD, without the console's
  Files, Inodes,   \* how many struct files and struct inodes there is memory for
  Name,            \* the files
  Alone,           \* calls kept apart from those that use the list of open inodes
  NULL

(* The calls.                                                              *)
Kind == {"open", "close", "write", "tell", "dup2", "fork", "exec", "exit"}
UsesList == {"open", "close", "exec", "exit"}

ASSUME FileTableAssumption ==
  /\ First \in Proc /\ Main \notin Proc
  /\ IsFiniteSet(Proc)
  /\ Fds \in Nat \ {0} /\ Files \in Nat \ {0, 1} /\ Inodes \in Nat \ {0}
  /\ Alone \subseteq {"exec", "exit"}
  /\ NULL \notin Nat \cup Proc \cup Name \cup Kind

VARIABLES
  fds,            \* each process's descriptors
  program,        \* struct thread's program
  pages,          \* the file that the pages of the program are read from
  files, inodes,  \* the struct files and struct inodes; NULL is free memory
  open_inodes,    \* the list
  filesys_lock,   \* its holder
  state,          \* "none", "new", "runs" or "gone"
  running,        \* the program that a process runs
  call, todo,     \* the call a process is in, and its steps to come
  reg,            \* the locals of the call
  panicked        \* an ASSERT has failed

fileVars == <<files, inodes, open_inodes>>
procVars == <<fds, program, pages, state, running>>
vars == <<fileVars, procVars, filesys_lock, call, todo, reg, panicked>>

Fd == 1 .. Fds
FileObj == 1 .. Files
Ino == 1 .. Inodes
File == [inode : Ino, deny_write : BOOLEAN]
Inode == [name : Name, open_cnt : Nat, deny_write_cnt : Nat]
ASSUME NullAssumption == NULL \notin File \cup Inode

Locals == [found |-> NULL, inode |-> NULL, file |-> NULL, last |-> FALSE]

(* process_execute has opened First's program, for Main, and load again,   *)
(* for its pages.                                                          *)
Init ==
  \E n \in Name :
    /\ fds = [p \in Proc |-> [d \in Fd |-> NULL]]
    /\ program = [p \in Proc \cup {Main} |-> IF p = Main THEN 1 ELSE NULL]
    /\ pages = [p \in Proc |-> IF p = First THEN 2 ELSE NULL]
    /\ files = [f \in FileObj |-> IF f <= 2 THEN [inode |-> 1, deny_write |-> f = 1] ELSE NULL]
    /\ inodes = [i \in Ino |-> IF i = 1 THEN [name |-> n, open_cnt |-> 2, deny_write_cnt |-> 1] ELSE NULL]
    /\ open_inodes = {1}
    /\ filesys_lock = NULL
    /\ state = [p \in Proc |-> IF p = First THEN "runs" ELSE "none"]
    /\ running = [p \in Proc \cup {Main} |-> IF p \in {First, Main} THEN n ELSE NULL]
    /\ call = [p \in Proc |-> NULL] /\ todo = [p \in Proc |-> <<>>]
    /\ reg = [p \in Proc |-> Locals]
    /\ panicked = FALSE

-----------------------------------------------------------------------------
(* The calls, as the steps they take.                                      *)
Step(name, x) == <<[do |-> name, arg |-> x]>>

Locked(steps) == Step("lock", NULL) \o steps \o Step("unlock", NULL)

inode_open(n) == Step("find", n) \o Step("take", n)

(* The root directory, which filesys_open opens and closes around this, is *)
(* left out.                                                               *)
filesys_open(n) == inode_open(n) \o Step("file_open", NULL)

file_close == Step("drop", NULL) \o Step("free", NULL)
file_reopen(d) == Step("reopen", d) \o Step("file_open", NULL)

open(n) == Step("lock", NULL) \o Step("place", n)
close(d) == Locked(Step("clear", d) \o file_close)
write(d) == Locked(Step("check", d) \o Step("store", d))
tell(d) == Locked(Step("tell", d))

dup2(old, new) == file_reopen(old) \o Step("dup_deny", old) \o Step("point", new)

OpenFds(p) == {d \in Fd : fds[p][d] # NULL}

fork(q) == Step("copy", [child |-> q, fd |-> 1])

(* process_exec opens the program to deny writes, and load opens it again. *)
(* When load fails the old address space is gone, and the process dies of  *)
(* the page fault it returns to.                                           *)
exec(n, loads) ==
  filesys_open(n) \o Step("deny", NULL) \o filesys_open(n)
    \o (IF loads THEN Step("map", n) \o file_close ELSE file_close \o Step("exit", NULL))

(* process_exit.  The files of the pages are never closed.                 *)
exit == Step("shut", 1)

-----------------------------------------------------------------------------
(* A bound: a call begins, and a step that allocates is taken, only if     *)
(* there is memory.  What a call does when there is none is left out.      *)
FreeFiles == {f \in FileObj : files[f] = NULL}
FreeInodes == {i \in Ino : inodes[i] = NULL}
Memory(n) == Cardinality(FreeFiles) >= n

(* exec and exit use the list of open inodes without the lock.  A call     *)
(* that is Alone does not begin while another one uses the list, nor the   *)
(* other way round; it may meet write, tell, dup2 and fork.                *)
Apart(k, l) == {k, l} \subseteq UsesList /\ {k, l} \cap Alone # {}

(* A call begins.                                                          *)
Begin(p, kind, steps) ==
  /\ ~panicked /\ state[p] = "runs" /\ call[p] = NULL
  /\ \A q \in Proc : ~Apart(kind, call[q])
  /\ call' = [call EXCEPT ![p] = kind]
  /\ todo' = [todo EXCEPT ![p] = steps]
  /\ UNCHANGED <<fileVars, fds, program, pages, running, filesys_lock, reg, panicked>>

Open(p) ==
  /\ Memory(1)
  /\ \E n \in Name : Begin(p, "open", open(n))
  /\ UNCHANGED state

(* read, filesize and tell of an open file change nothing here.            *)
Use(p) ==
  /\ \E d \in Fd :
       \/ fds[p][d] = NULL /\ Begin(p, "tell", tell(d))
       \/ /\ fds[p][d] # NULL
          /\ \/ Begin(p, "close", close(d))
             \/ Begin(p, "write", write(d))
  /\ UNCHANGED state

Dup2(p) ==
  /\ Memory(1)
  /\ \E old \in OpenFds(p), new \in Fd : Begin(p, "dup2", dup2(old, new))
  /\ UNCHANGED state

Fork(p) ==
  /\ Memory(Cardinality(OpenFds(p)))
  /\ \E q \in Proc :
       /\ state[q] = "none"
       /\ Begin(p, "fork", fork(q))
       /\ state' = [state EXCEPT ![q] = "new"]

Exec(p) ==
  /\ Memory(3)
  /\ \E n \in Name, loads \in BOOLEAN : Begin(p, "exec", exec(n, loads))
  /\ UNCHANGED state

Exit(p) == Begin(p, "exit", exit) /\ UNCHANGED state

-----------------------------------------------------------------------------
(* The steps.                                                              *)
Doing(p) == IF todo[p] = <<>> THEN "nothing" ELSE Head(todo[p]).do
At(p, step) == ~panicked /\ Doing(p) = step
Arg(p) == Head(todo[p]).arg

Then(p, steps) ==
  /\ todo' = [todo EXCEPT ![p] = steps]
  /\ call' = IF steps = <<>> THEN [call EXCEPT ![p] = NULL] ELSE call
Advance(p) == Then(p, Tail(todo[p]))

Local(p, locals) == reg' = [reg EXCEPT ![p] = locals]

LockStep(p) ==
  /\ At(p, "lock") /\ filesys_lock = NULL
  /\ filesys_lock' = p
  /\ Advance(p)
  /\ UNCHANGED <<fileVars, procVars, reg, panicked>>

UnlockStep(p) ==
  /\ At(p, "unlock")
  /\ filesys_lock' = NULL
  /\ Advance(p) /\ Local(p, Locals)
  /\ UNCHANGED <<fileVars, procVars, panicked>>

(* open takes the lowest descriptor that is free, if one is.               *)
Place(p) ==
  /\ At(p, "place")
  /\ IF OpenFds(p) = Fd THEN Then(p, Step("unlock", NULL))
     ELSE Then(p, filesys_open(Arg(p)) \o Step("install", Min(Fd \ OpenFds(p))) \o Step("unlock", NULL))
  /\ UNCHANGED <<fileVars, procVars, filesys_lock, reg, panicked>>

(* inode_open looks for the inode in the list ...                          *)
Find(p) ==
  /\ At(p, "find")
  /\ LET named == {i \in open_inodes : inodes[i] # NULL /\ inodes[i].name = Arg(p)}
     IN  \E i \in IF named = {} THEN {NULL} ELSE named : Local(p, [reg[p] EXCEPT !.found = i])
  /\ Advance(p)
  /\ UNCHANGED <<fileVars, procVars, filesys_lock, panicked>>

(* ... and opens it once more, or makes a new one.                         *)
Reopened(i) == IF inodes[i] = NULL THEN inodes ELSE [inodes EXCEPT ![i].open_cnt = @ + 1]

Take(p) ==
  /\ At(p, "take")
  /\ LET old == reg[p].found
         i == IF old = NULL THEN CHOOSE j \in FreeInodes : TRUE ELSE old
     IN  /\ old = NULL => FreeInodes # {}
         /\ inodes' = IF old # NULL THEN Reopened(i)
                      ELSE [inodes EXCEPT ![i] = [name |-> Arg(p), open_cnt |-> 1, deny_write_cnt |-> 0]]
         /\ open_inodes' = open_inodes \cup {i}
         /\ Local(p, [reg[p] EXCEPT !.inode = i, !.found = NULL])
  /\ Advance(p)
  /\ UNCHANGED <<files, procVars, filesys_lock, panicked>>

Reopen(p) ==
  /\ At(p, "reopen")
  /\ LET i == files[fds[p][Arg(p)]].inode
     IN  inodes' = Reopened(i) /\ Local(p, [reg[p] EXCEPT !.inode = i])
  /\ Advance(p)
  /\ UNCHANGED <<files, open_inodes, procVars, filesys_lock, panicked>>

FileOpen(p) ==
  /\ At(p, "file_open")
  /\ FreeFiles # {}
  /\ LET f == CHOOSE g \in FreeFiles : TRUE
     IN  /\ files' = [files EXCEPT ![f] = [inode |-> reg[p].inode, deny_write |-> FALSE]]
         /\ Local(p, [reg[p] EXCEPT !.file = f, !.inode = NULL])
  /\ Advance(p)
  /\ UNCHANGED <<inodes, open_inodes, procVars, filesys_lock, panicked>>

(* file_close allows writes; inode_close counts down ...                   *)
Uncount(inode, denied) ==
  [inode EXCEPT !.open_cnt = @ - 1, !.deny_write_cnt = IF denied THEN @ - 1 ELSE @]

(* FilesExact: closing a program's file does not allow writes again        *)
Drop_F(p) ==
  /\ At(p, "drop")
  /\ LET f == reg[p].file
         i == files[f].inode
     IN  /\ inodes' = IF inodes[i] = NULL THEN inodes ELSE [inodes EXCEPT ![i] = Uncount(@, FALSE)]
         /\ Local(p, [reg[p] EXCEPT !.last = inodes'[i] # NULL /\ inodes'[i].open_cnt = 0])
  /\ Advance(p)
  /\ UNCHANGED <<files, open_inodes, procVars, filesys_lock, panicked>>

Drop(p) ==
  /\ At(p, "drop")
  /\ LET f == reg[p].file
         i == files[f].inode
     IN  /\ inodes' = IF inodes[i] = NULL THEN inodes
                      ELSE [inodes EXCEPT ![i] = Uncount(@, files[f].deny_write)]
         /\ files' = [files EXCEPT ![f].deny_write = FALSE]
         /\ Local(p, [reg[p] EXCEPT !.last = inodes'[i] # NULL /\ inodes'[i].open_cnt = 0])
  /\ Advance(p)
  /\ UNCHANGED <<open_inodes, procVars, filesys_lock, panicked>>

(* ... and frees the inode if that was the last one, and then the file.    *)
Free(p) ==
  /\ At(p, "free")
  /\ LET f == reg[p].file
         i == files[f].inode
     IN  /\ inodes' = IF reg[p].last THEN [inodes EXCEPT ![i] = NULL] ELSE inodes
         /\ open_inodes' = open_inodes \ (IF reg[p].last THEN {i} ELSE {})
         /\ files' = [files EXCEPT ![f] = NULL]
  /\ Local(p, Locals)
  /\ Advance(p)
  /\ UNCHANGED <<procVars, filesys_lock, panicked>>

Install(p) ==
  /\ At(p, "install")
  /\ fds' = [fds EXCEPT ![p][Arg(p)] = reg[p].file]
  /\ Advance(p) /\ Local(p, Locals)
  /\ UNCHANGED <<fileVars, program, pages, state, running, filesys_lock, panicked>>

Clear(p) ==
  /\ At(p, "clear")
  /\ fds' = [fds EXCEPT ![p][Arg(p)] = NULL]
  /\ Advance(p) /\ Local(p, [reg[p] EXCEPT !.file = fds[p][Arg(p)]])
  /\ UNCHANGED <<fileVars, program, pages, state, running, filesys_lock, panicked>>

(* inode_write_at looks at deny_write_cnt before it writes.                *)
Check(p) ==
  /\ At(p, "check")
  /\ LET i == files[fds[p][Arg(p)]].inode
     IN  IF inodes[i].deny_write_cnt > 0
         THEN Then(p, Step("unlock", NULL)) /\ UNCHANGED reg
         ELSE Advance(p) /\ Local(p, [reg[p] EXCEPT !.found = i])
  /\ UNCHANGED <<fileVars, procVars, filesys_lock, panicked>>

(* The write itself: what is written is not kept.                          *)
Store(p) ==
  /\ At(p, "store")
  /\ Advance(p) /\ Local(p, Locals)
  /\ UNCHANGED <<fileVars, procVars, filesys_lock, panicked>>

(* file_tell asserts that there is a file.                                 *)
Tell(p) ==
  /\ At(p, "tell")
  /\ panicked' = (fds[p][Arg(p)] = NULL)
  /\ Advance(p)
  /\ UNCHANGED <<fileVars, procVars, filesys_lock, reg>>

file_deny_write(f) ==
  IF files[f].deny_write THEN UNCHANGED <<files, inodes, panicked>>
  ELSE LET i == files[f].inode
       IN  /\ files' = [files EXCEPT ![f].deny_write = TRUE]
           /\ inodes' = [inodes EXCEPT ![i].deny_write_cnt = @ + 1]
           /\ panicked' = (inodes'[i].deny_write_cnt > inodes[i].open_cnt)

(* dup2 allows writes to a new file if they are denied to the old one, and *)
(* denies them otherwise.                                                  *)
DupDeny(p) ==
  /\ At(p, "dup_deny")
  /\ IF files[fds[p][Arg(p)]].deny_write THEN UNCHANGED <<files, inodes, panicked>>
     ELSE file_deny_write(reg[p].file)
  /\ Advance(p)
  /\ UNCHANGED <<open_inodes, procVars, filesys_lock, reg>>

(* What the new descriptor stood for is not closed.                        *)
Point(p) ==
  /\ At(p, "point")
  /\ fds' = [fds EXCEPT ![p][Arg(p)] = reg[p].file]
  /\ Advance(p) /\ Local(p, Locals)
  /\ UNCHANGED <<fileVars, program, pages, state, running, filesys_lock, panicked>>

(* fork copies the descriptors one after the other.                        *)
Copy(p) ==
  /\ At(p, "copy")
  /\ LET q == Arg(p).child
         d == Arg(p).fd
         next == Step("copy", [child |-> q, fd |-> d + 1])
     IN  IF d > Fds THEN Then(p, Step("start", q))
         ELSE IF fds[p][d] = NULL THEN Then(p, next)
         ELSE Then(p, file_reopen(d) \o Step("inherit", [child |-> q, fd |-> d]) \o next)
  /\ UNCHANGED <<fileVars, procVars, filesys_lock, reg, panicked>>

(* FilesExact: the child's file denies writes, but is not counted          *)
Inherit_F(p) ==
  /\ At(p, "inherit")
  /\ LET old == fds[p][Arg(p).fd]
     IN  files' = [files EXCEPT ![reg[p].file].deny_write = files[old].deny_write]
  /\ fds' = [fds EXCEPT ![Arg(p).child][Arg(p).fd] = reg[p].file]
  /\ Advance(p) /\ Local(p, Locals)
  /\ UNCHANGED <<inodes, open_inodes, program, pages, state, running, filesys_lock, panicked>>

Inherit(p) ==
  /\ At(p, "inherit")
  /\ LET old == fds[p][Arg(p).fd]
     IN  IF files[old].deny_write THEN file_deny_write(reg[p].file)
         ELSE UNCHANGED <<files, inodes, panicked>>
  /\ fds' = [fds EXCEPT ![Arg(p).child][Arg(p).fd] = reg[p].file]
  /\ Advance(p) /\ Local(p, Locals)
  /\ UNCHANGED <<open_inodes, program, pages, state, running, filesys_lock>>

(* The child has the program in memory, and neither its file nor its pages.*)
Start(p) ==
  /\ At(p, "start")
  /\ state' = [state EXCEPT ![Arg(p)] = "runs"]
  /\ running' = [running EXCEPT ![Arg(p)] = running[p]]
  /\ Advance(p) /\ Local(p, Locals)
  /\ UNCHANGED <<fileVars, fds, program, pages, filesys_lock, panicked>>

(* NoWritePasses: writes are not denied                                    *)
Deny_F(p) ==
  /\ At(p, "deny")
  /\ program' = [program EXCEPT ![p] = reg[p].file]
  /\ Advance(p) /\ Local(p, Locals)
  /\ UNCHANGED <<fileVars, fds, pages, state, running, filesys_lock, panicked>>

(* The program that was run before is not closed.                          *)
Deny(p) ==
  /\ At(p, "deny")
  /\ program' = [program EXCEPT ![p] = reg[p].file]
  /\ file_deny_write(reg[p].file)
  /\ Advance(p) /\ Local(p, Locals)
  /\ UNCHANGED <<open_inodes, fds, pages, state, running, filesys_lock>>

(* load reopens the file for each page: one file stands for all.           *)
Map(p) ==
  /\ At(p, "map")
  /\ FreeFiles # {}
  /\ LET i == files[reg[p].file].inode
         g == CHOOSE f \in FreeFiles : TRUE
     IN  /\ inodes' = Reopened(i)
         /\ files' = [files EXCEPT ![g] = [inode |-> i, deny_write |-> FALSE]]
         /\ pages' = [pages EXCEPT ![p] = g]
  /\ running' = [running EXCEPT ![p] = Arg(p)]
  /\ Advance(p)
  /\ UNCHANGED <<open_inodes, fds, program, state, filesys_lock, reg, panicked>>

(* load has failed: the process dies.                                      *)
ExitStep(p) ==
  /\ At(p, "exit")
  /\ todo' = [todo EXCEPT ![p] = exit]
  /\ call' = [call EXCEPT ![p] = "exit"]
  /\ Local(p, Locals)
  /\ UNCHANGED <<fileVars, procVars, filesys_lock, panicked>>

(* process_exit closes the descriptors one after the other, and then the   *)
(* program.                                                                *)
Shut(p) ==
  /\ At(p, "shut")
  /\ LET d == Arg(p)
     IN  IF d <= Fds
         THEN IF fds[p][d] = NULL THEN Then(p, Step("shut", d + 1))
              ELSE Then(p, Step("clear", d) \o file_close \o Step("shut", d + 1))
         ELSE IF program[p] = NULL THEN Then(p, Step("gone", NULL))
              ELSE Then(p, Step("clear_program", NULL) \o file_close \o Step("gone", NULL))
  /\ UNCHANGED <<fileVars, procVars, filesys_lock, reg, panicked>>

ClearProgram(p) ==
  /\ At(p, "clear_program")
  /\ program' = [program EXCEPT ![p] = NULL]
  /\ running' = [running EXCEPT ![p] = NULL]
  /\ Advance(p) /\ Local(p, [reg[p] EXCEPT !.file = program[p]])
  /\ UNCHANGED <<fileVars, fds, pages, state, filesys_lock, panicked>>

Gone(p) ==
  /\ At(p, "gone")
  /\ state' = [state EXCEPT ![p] = "gone"]
  /\ running' = [running EXCEPT ![p] = NULL]
  /\ pages' = [pages EXCEPT ![p] = NULL]
  /\ Advance(p) /\ Local(p, Locals)
  /\ UNCHANGED <<fileVars, fds, program, filesys_lock, panicked>>

Next ==
  \E p \in Proc :
    \/ Open(p) \/ Use(p) \/ Dup2(p) \/ Fork(p) \/ Exec(p) \/ Exit(p)
    \/ LockStep(p) \/ UnlockStep(p)
    \/ Place(p) \/ Find(p) \/ Take(p) \/ Reopen(p) \/ FileOpen(p) \/ Drop(p) \/ Free(p)
    \/ Install(p) \/ Clear(p) \/ Check(p) \/ Store(p) \/ Tell(p)
    \/ DupDeny(p) \/ Point(p) \/ Copy(p) \/ Inherit(p) \/ Start(p)
    \/ Deny(p) \/ Map(p) \/ ExitStep(p) \/ Shut(p) \/ ClearProgram(p) \/ Gone(p)

Spec == Init /\ [][Next]_vars

(* Nothing distinguishes the names.                                        *)
NamesAlike == Permutations(Name)

-----------------------------------------------------------------------------
(* What points to struct files: descriptors, programs, pages and locals.   *)
Pointers ==
  ({"fd"} \X Proc \X Fd) \cup ({"program"} \X (Proc \cup {Main}))
    \cup ({"pages"} \X Proc) \cup ({"reg"} \X Proc)

FileAt(x) ==
  CASE x[1] = "fd" -> fds[x[2]][x[3]]
    [] x[1] = "program" -> program[x[2]]
    [] x[1] = "pages" -> pages[x[2]]
    [] x[1] = "reg" -> reg[x[2]].file

(* Between the two steps of inode_close the file is not counted any more.  *)
Counted(f) == files[f] # NULL /\ \A p \in Proc : Doing(p) = "free" => reg[p].file # f

(* A local may hold an inode open.                                         *)
Holders(i) == {p \in Proc : reg[p].inode = i}

(* No struct file has two owners, and none is used after it is freed, nor  *)
(* is an inode; and an inode counts who has it open and who denies writes. *)
FilesExact ==
  /\ \A x, y \in Pointers :
       FileAt(x) # NULL => files[FileAt(x)] # NULL /\ (FileAt(x) = FileAt(y) => x = y)
  /\ \A f \in FileObj : files[f] # NULL => inodes[files[f].inode] # NULL
  /\ open_inodes = {i \in Ino : inodes[i] # NULL}
  /\ \A i \in open_inodes :
       LET of_i == {f \in FileObj : Counted(f) /\ files[f].inode = i}
       IN  /\ inodes[i].open_cnt = Cardinality(of_i) + Cardinality(Holders(i))
           /\ inodes[i].deny_write_cnt = Cardinality({f \in of_i : files[f].deny_write})
           /\ \A j \in open_inodes : inodes[i].name = inodes[j].name => i = j

(* The program that p runs, once exec is over.                             *)
InUse(p) == program[p] # NULL /\ (p = Main \/ call[p] # "exec")
Executable(p) == inodes[files[program[p]].inode].name

(* "Add code to deny writes to files in use as executables": while a       *)
(* process has the file of its program open, or Main has that of the first *)
(* one, no write to it passes the check in inode_write_at.  A write that   *)
(* passed before exec denies writes goes on: see ProgramUnchanged.         *)
Passes(p, n) == At(p, "check") /\ Doing(p)' = "store" /\ inodes[reg'[p].found].name = n

NoWritePasses ==
  [][\A p \in Proc \cup {Main}, q \in Proc : InUse(p) => ~Passes(q, Executable(p))]_vars

-----------------------------------------------------------------------------
(* What does not hold.                                                     *)

(* userprog.texi:889: "Add code to deny writes to files in use as          *)
(* executables".  exec takes no lock: all of it may come between the check *)
(* of deny_write_cnt and the write, which then changes a program that its  *)
(* process has loaded and runs.                                            *)
Writes(p, n) == At(p, "store") /\ todo'[p] # todo[p] /\ inodes[reg[p].found].name = n

ProgramUnchanged ==
  [][\A p, q \in Proc :
       InUse(p) /\ call[p] # "exit" => ~Writes(q, Executable(p))]_vars

(* syscall.c:198: "copy over writeable bit from old file to new file".  No *)
(* descriptor but one made by dup2 ever denies writes.                     *)
DupKeepsDeny ==
  [][\A p \in Proc, d \in Fd :
       At(p, "dup_deny") /\ d = Arg(p) =>
         files'[reg[p].file].deny_write = files[fds[p][d]].deny_write]_vars

(* A forked child runs the program as well, and does not deny writes.      *)
RunningUnchanged ==
  [][\A p, q \in Proc : running[p] # NULL => ~Writes(q, running[p])]_vars

(* userprog.texi:873: "Nothing that a user program can do should ever      *)
(* cause the OS to crash, panic, fail an assertion".                       *)
Bulletproof == ~panicked
==============================================================================
