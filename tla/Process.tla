------------------------------- MODULE Process -------------------------------
(***************************************************************************)
(* Processes of pintos2: fork, wait and exit (userprog/syscall.c,          *)
(* process.c) and process_execute, with which the kernel's main thread     *)
(* runs one program after the other.  There is one thread per process; the *)
(* scheduler is preemptive and round robin, so that any process that is    *)
(* not blocked may take the next step.  sema_down and sema_up run with     *)
(* interrupts off; everything else here runs with interrupts on, and a     *)
(* step is one statement: the child lists are linked as in lib/kernel/     *)
(* list.c, and list_insert and list_remove write one link at a time.       *)
(***************************************************************************)
EXTENDS Integers, FiniteSets

CONSTANTS
  MaxProc,     \* the processes there may be, besides main: a page is used once
  MaxRuns,     \* the programs main runs
  ExitStatus,  \* the values processes exit with; -1 for one that is killed
  NULL

Main == 0            \* the kernel's initial thread
Proc == 0 .. MaxProc
End == -1            \* a list's tail, in the loop of process_exit
Garbage == -2        \* what a read of a freed page returns

(* The list elements: a process' child_list_elem, and the head and the     *)
(* tail of its child_list; each is on the page of the process it names.    *)
Elem(c) == <<c, "elem">>
HeadOf(p) == <<p, "head">>
TailOf(p) == <<p, "tail">>
Node == Proc \X {"elem", "head", "tail"}
Page(n) == n[1]
Entry(n) == IF n[2] = "elem" THEN n[1] ELSE End     \* list_entry

ASSUME ProcessAssumption ==
  /\ MaxProc \in Nat /\ MaxRuns \in Nat
  /\ ExitStatus \subseteq Nat \cup {-1}
  /\ NULL \notin Int \cup Node

VARIABLES
  mem,             \* the page of each struct thread: "unused", "live", "freed"
  pc,              \* where each process is: a frame
  parent,          \* struct thread's parent
  next, prev,      \* struct list_elem's links
  return_status,   \* struct thread's return_status
  wait_sema, wait_on_parent, load_sema,
  crashed,         \* the kernel used a struct thread that is not there
  forker, waited,  \* history: who made a process; whose wait was accepted
  torn             \* history: whose child_list two changed at the same time

links == <<next, prev>>
semaVars == <<wait_sema, wait_on_parent, load_sema>>
history == <<forker, waited, torn>>
vars == <<mem, pc, parent, links, return_status, semaVars, crashed, history>>

-----------------------------------------------------------------------------
At(l) == [at |-> l]
On(l, c) == [at |-> l, child |-> c]
In(p, l) == ~crashed /\ mem[p] = "live" /\ pc[p].at = l
Goto(p, f) == pc' = [pc EXCEPT ![p] = f]
Live(p) == mem[p] = "live"

Crash == crashed' = TRUE /\ UNCHANGED <<mem, pc, parent, links, return_status, semaVars, history>>

Init ==
  /\ mem = [p \in Proc |-> IF p = Main THEN "live" ELSE "unused"]
  /\ pc = [p \in Proc |-> At("user")]
  /\ parent = [p \in Proc |-> NULL]
  /\ next = [n \in Node |-> IF n[2] = "head" THEN TailOf(n[1]) ELSE NULL]
  /\ prev = [n \in Node |-> IF n[2] = "tail" THEN HeadOf(n[1]) ELSE NULL]
  /\ return_status = [p \in Proc |-> -1]
  /\ wait_sema = [p \in Proc |-> 0]
  /\ wait_on_parent = [p \in Proc |-> 0]
  /\ load_sema = [p \in Proc |-> 0]
  /\ crashed = FALSE
  /\ forker = [p \in Proc |-> NULL]
  /\ waited = [p \in Proc |-> {}]
  /\ torn = {}

(* The thread thread_create and create_child_thread make: the next page.    *)
NewThread == {c \in Proc : mem[c] = "unused" /\ \A d \in 0 .. c - 1 : mem[d] # "unused"}

(* Who is between two writes to the child_list of p, and what becomes of    *)
(* torn when another begins.                                               *)
Editing(p) ==
  {q \in Proc : \/ q = p /\ pc[q].at \in {"link", "link_back"}
                \/ forker[q] = p /\ pc[q].at = "unlink_back"}
Begin(p) == torn' = IF Editing(p) = {} THEN torn ELSE torn \cup {p}

(* Faulty variants (_F) of a definition stand before it: each is a slip    *)
(* that the property named with it must catch.                             *)

-----------------------------------------------------------------------------
(* fork: the child is blocked until it is on the parent's list and knows   *)
(* its parent.                                                             *)
Fork(p) ==
  /\ In(p, "user") /\ p # Main
  /\ \E c \in NewThread :
       /\ mem' = [mem EXCEPT ![c] = "live"]
       /\ pc' = [pc EXCEPT ![c] = At("new"), ![p] = On("insert", c)]
       /\ forker' = [forker EXCEPT ![c] = p]
  /\ UNCHANGED <<parent, links, return_status, semaVars, crashed, waited, torn>>

(* list_push_back, for fork and for process_execute: the new element's own *)
(* links, its predecessor's and the tail's; then the parent.               *)
Insert(p) ==
  /\ In(p, "insert")
  /\ LET c == pc[p].child
     IN  IF ~Live(c) THEN Crash
         ELSE /\ prev' = [prev EXCEPT ![Elem(c)] = prev[TailOf(p)]]
              /\ next' = [next EXCEPT ![Elem(c)] = TailOf(p)]
              /\ Begin(p)
              /\ Goto(p, On("link", c))
              /\ UNCHANGED <<mem, parent, return_status, semaVars, crashed, forker, waited>>

Link(p) ==
  /\ In(p, "link")
  /\ LET last == prev[TailOf(p)]
     IN  IF ~Live(Page(last)) THEN Crash
         ELSE /\ next' = [next EXCEPT ![last] = Elem(pc[p].child)]
              /\ Goto(p, On("link_back", pc[p].child))
              /\ UNCHANGED <<mem, parent, prev, return_status, semaVars, crashed, history>>

LinkBack(p) ==
  /\ In(p, "link_back")
  /\ prev' = [prev EXCEPT ![TailOf(p)] = Elem(pc[p].child)]
  /\ Goto(p, On("adopt", pc[p].child))
  /\ UNCHANGED <<mem, parent, next, return_status, semaVars, crashed, history>>

Adopt(p) ==
  /\ In(p, "adopt")
  /\ LET c == pc[p].child
     IN  IF ~Live(c) THEN Crash
         ELSE /\ parent' = [parent EXCEPT ![c] = p]
              /\ Goto(p, On(IF p = Main THEN "check" ELSE "start", c))
              /\ UNCHANGED <<mem, links, return_status, semaVars, crashed, history>>

Start(p) ==
  /\ In(p, "start")
  /\ pc' = [pc EXCEPT ![pc[p].child] = At("user"), ![p] = At("user")]
  /\ UNCHANGED <<mem, parent, links, return_status, semaVars, crashed, history>>

(* exit; a process that is killed leaves return_status as it was, at -1.   *)
Exit(p) ==
  /\ In(p, "user") /\ p # Main
  /\ \E st \in ExitStatus : return_status' = [return_status EXCEPT ![p] = st]
  /\ Goto(p, At("parent"))
  /\ UNCHANGED <<mem, parent, links, semaVars, crashed, history>>

(* process_exit: if there is a parent, leave its list (list_remove: the    *)
(* predecessor's link and the successor's), forget it, tell it, and wait   *)
(* for it to have read the status.                                         *)
ReadParent(p) ==
  /\ In(p, "parent")
  /\ Goto(p, IF parent[p] # NULL THEN At("unlink") ELSE At("orphan"))
  /\ UNCHANGED <<mem, parent, links, return_status, semaVars, crashed, history>>

Unlink(p) ==
  /\ In(p, "unlink")
  /\ LET n == prev[Elem(p)]
     IN  IF ~Live(Page(n)) THEN Crash
         ELSE /\ next' = [next EXCEPT ![n] = next[Elem(p)]]
              /\ Begin(forker[p])
              /\ Goto(p, At("unlink_back"))
              /\ UNCHANGED <<mem, parent, prev, return_status, semaVars, crashed, forker, waited>>

(* FamilyExact: the successor keeps its link to the removed element        *)
UnlinkBack_F(p) ==
  /\ In(p, "unlink_back")
  /\ Goto(p, At("forget"))
  /\ UNCHANGED <<mem, parent, links, return_status, semaVars, crashed, history>>

UnlinkBack(p) ==
  /\ In(p, "unlink_back")
  /\ LET n == next[Elem(p)]
     IN  IF ~Live(Page(n)) THEN Crash
         ELSE /\ prev' = [prev EXCEPT ![n] = prev[Elem(p)]]
              /\ Goto(p, At("forget"))
              /\ UNCHANGED <<mem, parent, next, return_status, semaVars, crashed, history>>

Forget(p) ==
  /\ In(p, "forget")
  /\ parent' = [parent EXCEPT ![p] = NULL]
  /\ Goto(p, At("tell"))
  /\ UNCHANGED <<mem, links, return_status, semaVars, crashed, history>>

(* ReapedAfterExit: it does not wait for wait_on_parent                    *)
Tell_F1(p) ==
  /\ In(p, "tell")
  /\ wait_sema' = [wait_sema EXCEPT ![p] = @ + 1]
  /\ Goto(p, At("orphan"))
  /\ UNCHANGED <<mem, parent, links, return_status, wait_on_parent, load_sema, crashed, history>>

(* WaitReturns: the parent is not told                                     *)
Tell_F2(p) ==
  /\ In(p, "tell")
  /\ Goto(p, At("await"))
  /\ UNCHANGED <<mem, parent, links, return_status, semaVars, crashed, history>>

Tell(p) ==
  /\ In(p, "tell")
  /\ wait_sema' = [wait_sema EXCEPT ![p] = @ + 1]
  /\ Goto(p, At("await"))
  /\ UNCHANGED <<mem, parent, links, return_status, wait_on_parent, load_sema, crashed, history>>

Await(p) ==
  /\ In(p, "await") /\ wait_on_parent[p] > 0
  /\ wait_on_parent' = [wait_on_parent EXCEPT ![p] = @ - 1]
  /\ Goto(p, At("orphan"))
  /\ UNCHANGED <<mem, parent, links, return_status, wait_sema, load_sema, crashed, history>>

(* Its loop over child_list: the child it has come to.                     *)
Orphan(p) ==
  /\ In(p, "orphan")
  /\ Goto(p, On("disown", Entry(next[HeadOf(p)])))
  /\ UNCHANGED <<mem, parent, links, return_status, semaVars, crashed, history>>

Disown(p) ==
  /\ In(p, "disown") /\ pc[p].child # End
  /\ IF ~Live(pc[p].child) THEN Crash
     ELSE /\ parent' = [parent EXCEPT ![pc[p].child] = NULL]
          /\ Goto(p, On("free_child", pc[p].child))
          /\ UNCHANGED <<mem, links, return_status, semaVars, crashed, history>>

FreeChild(p) ==
  /\ In(p, "free_child")
  /\ IF ~Live(pc[p].child) THEN Crash
     ELSE /\ wait_on_parent' = [wait_on_parent EXCEPT ![pc[p].child] = @ + 1]
          /\ Goto(p, On("next_child", pc[p].child))
          /\ UNCHANGED <<mem, parent, links, return_status, wait_sema, load_sema, crashed, history>>

NextChild(p) ==
  /\ In(p, "next_child")
  /\ IF ~Live(pc[p].child) THEN Crash
     ELSE /\ Goto(p, On("disown", Entry(next[Elem(pc[p].child)])))
          /\ UNCHANGED <<mem, parent, links, return_status, semaVars, crashed, history>>

(* The rest of thread_exit, and of schedule: the page is freed.            *)
Die(p) ==
  /\ In(p, "disown") /\ pc[p].child = End
  /\ mem' = [mem EXCEPT ![p] = "freed"]
  /\ UNCHANGED <<pc, parent, links, return_status, semaVars, crashed, history>>

-----------------------------------------------------------------------------
(* wait: process_wait.  Whether the thread exists and whether it is a      *)
(* child are looked at first; -1 is returned at once if not.  main waits   *)
(* for what process_execute returned.                                      *)
Wait(p) ==
  /\ In(p, "user")
  /\ \E c \in IF p = Main THEN waited[Main] ELSE Proc :
       Live(c) /\ Goto(p, On("check", c))
  /\ UNCHANGED <<mem, parent, links, return_status, semaVars, crashed, history>>

(* WaitedOnce: the test for being a child is dropped                       *)
Check_F(p) ==
  /\ In(p, "check")
  /\ Goto(p, On("down", pc[p].child))
  /\ waited' = [waited EXCEPT ![p] = @ \cup {pc[p].child}]
  /\ UNCHANGED <<mem, parent, links, return_status, semaVars, crashed, forker, torn>>

(* A freed page is nobody's child: palloc fills it with 0xcc.              *)
Check(p) ==
  /\ In(p, "check")
  /\ LET c == pc[p].child
     IN  IF Live(c) /\ parent[c] = p
         THEN Goto(p, On("down", c)) /\ waited' = [waited EXCEPT ![p] = @ \cup {c}]
         ELSE Goto(p, At("user")) /\ UNCHANGED waited
  /\ UNCHANGED <<mem, parent, links, return_status, semaVars, crashed, forker, torn>>

(* sema_down on wait_sema, then sema_up on wait_on_parent.  On a freed     *)
(* page the first reads the fill, which is not 0, and goes on.             *)
Down(p) ==
  /\ In(p, "down")
  /\ LET c == pc[p].child
     IN  IF Live(c) /\ wait_sema[c] = 0
         THEN Goto(p, On("blocked", c)) /\ UNCHANGED wait_sema
         ELSE /\ Goto(p, On("up", c))
              /\ IF Live(c) THEN wait_sema' = [wait_sema EXCEPT ![c] = @ - 1] ELSE UNCHANGED wait_sema
  /\ UNCHANGED <<mem, parent, links, return_status, wait_on_parent, load_sema, crashed, history>>

Wake(p) ==
  /\ In(p, "blocked") /\ Live(pc[p].child) /\ wait_sema[pc[p].child] > 0
  /\ wait_sema' = [wait_sema EXCEPT ![pc[p].child] = @ - 1]
  /\ Goto(p, On("up", pc[p].child))
  /\ UNCHANGED <<mem, parent, links, return_status, wait_on_parent, load_sema, crashed, history>>

Up(p) ==
  /\ In(p, "up")
  /\ IF ~Live(pc[p].child) THEN Crash
     ELSE /\ wait_on_parent' = [wait_on_parent EXCEPT ![pc[p].child] = @ + 1]
          /\ Goto(p, On("status", pc[p].child))
          /\ UNCHANGED <<mem, parent, links, return_status, wait_sema, load_sema, crashed, history>>

(* What wait returns, when it is at "status".                              *)
Status(c) == IF Live(c) THEN return_status[c] ELSE Garbage

Return(p) ==
  /\ In(p, "status")
  /\ Goto(p, At("user"))
  /\ UNCHANGED <<mem, parent, links, return_status, semaVars, crashed, history>>

-----------------------------------------------------------------------------
(* process_execute, by the kernel's main: it makes the thread, finds it    *)
(* again by its tid, waits for it to have loaded, adopts it and waits for  *)
(* it to exit.                                                             *)
Execute ==
  /\ In(Main, "user") /\ Cardinality({c \in Proc : forker[c] = Main}) < MaxRuns
  /\ \E c \in NewThread :
       /\ mem' = [mem EXCEPT ![c] = "live"]
       /\ pc' = [pc EXCEPT ![c] = At("load"), ![Main] = On("lookup", c)]
       /\ forker' = [forker EXCEPT ![c] = Main]
  /\ UNCHANGED <<parent, links, return_status, semaVars, crashed, waited, torn>>

(* start_process: load succeeds, or the thread exits.                      *)
Load(p) ==
  /\ In(p, "load")
  /\ load_sema' = [load_sema EXCEPT ![p] = @ + 1]
  /\ \E l \in {"user", "parent"} : Goto(p, At(l))
  /\ UNCHANGED <<mem, parent, links, return_status, wait_sema, wait_on_parent, crashed, history>>

Lookup ==
  /\ In(Main, "lookup")
  /\ IF Live(pc[Main].child)
     THEN /\ Goto(Main, On("loaded", pc[Main].child))
          /\ UNCHANGED <<mem, parent, links, return_status, semaVars, crashed, history>>
     ELSE Crash

Loaded ==
  /\ In(Main, "loaded")
  /\ LET c == pc[Main].child
     IN  IF ~Live(c) THEN Crash
         ELSE /\ load_sema[c] > 0
              /\ load_sema' = [load_sema EXCEPT ![c] = @ - 1]
              /\ Goto(Main, On("insert", c))
              /\ UNCHANGED <<mem, parent, links, return_status, wait_sema, wait_on_parent, crashed, history>>

-----------------------------------------------------------------------------
KernelStep(p) ==
  \/ Insert(p) \/ Link(p) \/ LinkBack(p) \/ Adopt(p) \/ Start(p)
  \/ ReadParent(p) \/ Unlink(p) \/ UnlinkBack(p) \/ Forget(p) \/ Tell(p) \/ Await(p)
  \/ Orphan(p) \/ Disown(p) \/ FreeChild(p) \/ NextChild(p) \/ Die(p)
  \/ Check(p) \/ Down(p) \/ Wake(p) \/ Up(p) \/ Return(p) \/ Load(p)
  \/ p = Main /\ (Lookup \/ Loaded)

Next ==
  \/ \E p \in Proc : Fork(p) \/ Exit(p) \/ Wait(p) \/ KernelStep(p)
  \/ Execute

(* Round robin with a time slice: whoever can take a step in the kernel    *)
(* does.  What a user program calls, and whether it exits, is its own.     *)
Spec == Init /\ [][Next]_vars /\ \A p \in Proc : WF_vars(KernelStep(p))

-----------------------------------------------------------------------------
Waiting(p, c) == Live(p) /\ pc[p].at \in {"down", "blocked", "up", "status"} /\ pc[p].child = c
Told(c) == pc[c].at \in {"await", "orphan", "disown", "free_child", "next_child"}
Exiting(c) == pc[c].at \in {"parent", "unlink", "unlink_back", "forget", "tell"} \/ Told(c)

(* A child made by fork is on its parent's list before it runs.  One that  *)
(* process_execute adopts late is not: see RunReturns.                     *)
Forked(c) == forker[c] \notin {NULL, Main}

(* The element of c is in a list: its predecessor leads to it.             *)
Joined(c) == prev[Elem(c)] # NULL /\ next[prev[Elem(c)]] = Elem(c)
Children(p) == {c \in Proc : forker[c] = p /\ Joined(c)}

ProcTypeOK ==
  /\ mem \in [Proc -> {"unused", "live", "freed"}]
  /\ parent \in [Proc -> Proc \cup {NULL}]
  /\ next \in [Node -> Node \cup {NULL}] /\ prev \in [Node -> Node \cup {NULL}]
  /\ return_status \in [Proc -> ExitStatus \cup {-1}]
  /\ \A s \in {wait_sema, load_sema} : s \in [Proc -> 0 .. 1]
  /\ wait_on_parent \in [Proc -> Nat]

(* "a process may wait for any given child at most once" (userprog.texi):  *)
(* no two calls of wait get past the test for the same child, one after    *)
(* the other or at the same time.                                          *)
WaitedOnce ==
  [][\A p, c \in Proc : ~Waiting(p, c) /\ Waiting(p, c)' =>
       /\ forker[c] = p
       /\ \A q \in Proc : ~Waiting(q, c) /\ c \notin waited[q]]_vars

(* wait reads the status of a child that has called exit, and no child is  *)
(* gone before its parent's wait for it has been told.                     *)
ReapedAfterExit ==
  \A p, c \in Proc : Waiting(p, c) /\ Forked(c) =>
    /\ pc[p].at \in {"up", "status"} => Told(c)
    /\ pc[p].at \in {"down", "up"} => mem[c] = "live"

(* The family of p: who has it for a parent is its own child and on its    *)
(* list, unless it is between leaving and forgetting; who is on the list   *)
(* has it for a parent, unless it has just been put there or p is exiting; *)
(* and while nobody is changing the list, forward and backward links agree *)
(* all along it.                                                           *)
Family(p) ==
  /\ \A c \in Proc : parent[c] = p =>
       forker[c] = p /\ (pc[c].at \in {"unlink_back", "forget"} \/ Joined(c))
  /\ \A c \in Children(p) : Live(p) /\ parent[c] # p =>
       \/ pc[p].at \in {"disown", "free_child", "next_child"}
       \/ pc[p].at \in {"link_back", "adopt"} /\ pc[p].child = c
  /\ Editing(p) = {} =>
       \A n \in {HeadOf(p)} \cup {Elem(c) : c \in Children(p)} :
         /\ next[n] \in {TailOf(p)} \cup {Elem(c) : c \in Children(p)}
         /\ prev[next[n]] = n

(* The list of children is exact, before, between and after the writes of  *)
(* fork, process_execute and exit: as long as no two of them were within   *)
(* the same list at the same time, which nothing excludes (ListsWhole).    *)
FamilyExact == ProcTypeOK /\ \A p \in Proc \ torn : Family(p)

(* Whoever waits for a process that is exiting returns, unless the kernel  *)
(* crashes.  (A child's page is taken after its parent's.)                 *)
WaitReturns ==
  \A p \in Proc \ {Main} : \A c \in p + 1 .. MaxProc :
    (Waiting(p, c) /\ Forked(c) /\ Exiting(c)) ~> (~Waiting(p, c) \/ crashed)

-----------------------------------------------------------------------------
(* What the manual and the comments promise.                               *)

(* userprog.texi: "It is perfectly legal for a parent process to wait for  *)
(* child processes that have already terminated by the time the parent     *)
(* calls wait": only a second wait for a child, or one for a process that  *)
(* is none, is refused.                                                    *)
WaitAccepted ==
  [][\A p \in Proc \ {Main}, c \in Proc :
       /\ pc[p].at = "check" /\ pc[p].child = c /\ pc'[p].at = "user"
       => forker[c] # p \/ c \in waited[p]]_vars

(* userprog.texi: "All of a process's resources, including its struct      *)
(* thread, must be freed whether its parent ever waits for it or not", at  *)
(* the latest when the parent is gone too.                                 *)
ExitFrees ==
  \A c \in Proc :
    (Forked(c) /\ Exiting(c) /\ mem[forker[c]] = "freed") ~> (mem[c] = "freed" \/ crashed)

(* userprog.texi: "regardless of whether the child exits before or after   *)
(* its parent", and process.c: "The new thread may be scheduled (and may   *)
(* even exit) before process_execute() returns": a struct thread is used   *)
(* by another process only while it is there.  The exit loop has its child *)
(* at hand, a child that leaves a list its parent, process_execute the     *)
(* process it started, and process_wait the one whose status it reads.     *)
ChildrenStay ==
  \A p \in Proc : Live(p) /\ pc[p].at \in {"free_child", "next_child"} => Live(pc[p].child)
ParentStays ==
  \A p \in Proc : Live(p) =>
    /\ pc[p].at = "unlink" => Live(Page(prev[Elem(p)]))
    /\ pc[p].at = "unlink_back" => Live(Page(next[Elem(p)]))
StartedStays == pc[Main].at \in {"lookup", "loaded", "insert", "adopt"} => Live(pc[Main].child)
ReapedStays ==
  \A p, c \in Proc : Waiting(p, c) /\ pc[p].at = "status" => Live(c)
NoneUsedAfterFree == ChildrenStay /\ ParentStays /\ StartedStays /\ ReapedStays

(* process.c: process_wait "Waits for thread TID to die and returns its    *)
(* exit status": main too, for a process that process_execute adopts.      *)
RunReturns ==
  \A c \in Proc : (Waiting(Main, c) /\ Exiting(c)) ~> (~Waiting(Main, c) \/ crashed)

(* Two children that leave a list at the same time, or one that leaves it  *)
(* while the parent forks, lose each other's links: list.c has no lock,    *)
(* and process.c and syscall.c take none around it.                        *)
ListsWhole == \A p \in Proc : Family(p)
==============================================================================
