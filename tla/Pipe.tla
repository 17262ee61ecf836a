-------------------------------- MODULE Pipe ---------------------------------
(***************************************************************************)
(* The pipes of pintos2 (userprog/syscall.c): a ring of characters for     *)
(* each, in a table that all processes share.  read, write and close work  *)
(* under filesys_lock; pipe looks for a free place in the table without    *)
(* it, with interrupts on.  Nothing blocks: a read of an empty pipe and a  *)
(* write to a full one move nothing.                                       *)
(***************************************************************************)
EXTENDS Integers, Sequences

CONSTANTS
  Proc,
  Makers,            \* the processes that call pipe
  MAX_PIPES,         \* places in the table
  PIPE_BUFFER_SIZE,
  Char, MaxIO,       \* what is written; the most that one call asks for
  BadPointers,       \* whether calls with an invalid buffer are made
  NULL

Slot == 0 .. MAX_PIPES - 1
Ends == {"read", "write"}

(* "open" stands for fd_read and fd_write not being -1.                    *)
pipe_buffer ==
  [buffer : [0 .. PIPE_BUFFER_SIZE - 1 -> Char],
   start : 0 .. PIPE_BUFFER_SIZE - 1, end : 0 .. PIPE_BUFFER_SIZE - 1,
   size : 0 .. PIPE_BUFFER_SIZE, open : SUBSET Ends]

ASSUME PipeAssumption ==
  /\ MAX_PIPES \in Nat \ {0} /\ PIPE_BUFFER_SIZE \in Nat \ {0} /\ MaxIO \in Nat
  /\ Makers \subseteq Proc /\ NULL \notin Proc /\ BadPointers \in BOOLEAN
  /\ Char # {} /\ NULL \notin pipe_buffer

VARIABLES
  pipe_buffer_array,   \* NULL, or struct pipe_buffer
  filesys_lock,        \* its holder
  pc,                  \* where each process is: a frame
  moved,               \* the data the last read or write moved
  panicked

vars == <<pipe_buffer_array, filesys_lock, pc, moved, panicked>>

-----------------------------------------------------------------------------
User == [at |-> "user"]
In(p, l) == ~panicked /\ pc[p].at = l
Goto(p, l) == pc' = [pc EXCEPT ![p].at = l]
Smaller(m, n) == IF m < n THEN m ELSE n
Buffer(p) == pipe_buffer_array[pc[p].slot]

Init ==
  /\ pipe_buffer_array = [i \in Slot |-> NULL]
  /\ filesys_lock = NULL
  /\ pc = [p \in Proc |-> User]
  /\ moved = <<>>
  /\ panicked = FALSE

(* Faulty variants (_F) of a definition stand before it: each is a slip    *)
(* that the property named with it must catch.                             *)

-----------------------------------------------------------------------------
(* pipe: it takes the first place it sees empty; calloc may fail.          *)
Pipe(p) ==
  /\ In(p, "user") /\ p \in Makers
  /\ pc' = [pc EXCEPT ![p] = [at |-> "scan", slot |-> 0]]
  /\ UNCHANGED <<pipe_buffer_array, filesys_lock, moved, panicked>>

(* PipeImplementsFifo: a pipe that is half closed is taken for free        *)
Scan_F(p) ==
  /\ In(p, "scan")
  /\ IF pc[p].slot = MAX_PIPES THEN pc' = [pc EXCEPT ![p] = User]
     ELSE IF Buffer(p) = NULL \/ "read" \notin Buffer(p).open THEN Goto(p, "calloc")
     ELSE pc' = [pc EXCEPT ![p].slot = @ + 1]
  /\ UNCHANGED <<pipe_buffer_array, filesys_lock, moved, panicked>>

Scan(p) ==
  /\ In(p, "scan")
  /\ IF pc[p].slot = MAX_PIPES THEN pc' = [pc EXCEPT ![p] = User]
     ELSE IF Buffer(p) = NULL THEN Goto(p, "calloc")
     ELSE pc' = [pc EXCEPT ![p].slot = @ + 1]
  /\ UNCHANGED <<pipe_buffer_array, filesys_lock, moved, panicked>>

CallocFails(p) ==
  /\ In(p, "calloc")
  /\ pc' = [pc EXCEPT ![p] = User]
  /\ UNCHANGED <<pipe_buffer_array, filesys_lock, moved, panicked>>

(* A buffer that was not checked, or whose pages were not all: the store   *)
(* or the load faults, and page_fault ends the process or the kernel.      *)
Fault(p) == BadPointers /\ Goto(p, "gone") /\ panicked' \in BOOLEAN

(* calloc clears the buffer, and pipe opens both ends; the descriptors go  *)
(* to the caller's array, which nobody has checked.                        *)
Zero == CHOOSE c \in Char : TRUE
Fresh == [buffer |-> [k \in 0 .. PIPE_BUFFER_SIZE - 1 |-> Zero],
          start |-> 0, end |-> 0, size |-> 0, open |-> Ends]

Store(p) ==
  /\ In(p, "calloc")
  /\ pipe_buffer_array' = [pipe_buffer_array EXCEPT ![pc[p].slot] = Fresh]
  /\ \/ pc' = [pc EXCEPT ![p] = User] /\ UNCHANGED panicked
     \/ Fault(p)
  /\ UNCHANGED <<filesys_lock, moved>>

-----------------------------------------------------------------------------
(* read, write and close of a pipe's end take the lock first.              *)
Calls(i, e) ==
  [at : {"read"}, slot : {i}, end : {e}, size : 0 .. MaxIO]
    \cup [at : {"write"}, slot : {i}, end : {e}, data : UNION {[1 .. n -> Char] : n \in 0 .. MaxIO}]
    \cup [at : {"close"}, slot : {i}, end : {e}]

Acquire(p) ==
  /\ In(p, "user") /\ filesys_lock = NULL
  /\ filesys_lock' = p
  /\ \E i \in Slot, e \in Ends : \E c \in Calls(i, e) : pc' = [pc EXCEPT ![p] = c]
  /\ UNCHANGED <<pipe_buffer_array, moved, panicked>>

Release(p) ==
  /\ In(p, "release")
  /\ filesys_lock' = NULL
  /\ pc' = [pc EXCEPT ![p] = User]
  /\ UNCHANGED <<pipe_buffer_array, moved, panicked>>

(* The buffer is reached through NULL: a fault in the kernel.              *)
Panic ==
  /\ panicked' = TRUE
  /\ UNCHANGED <<pipe_buffer_array, filesys_lock, pc, moved>>

(* LockComesBack: the lock is not released before the return               *)
WrongEnd_F(p) ==
  /\ \/ In(p, "read") /\ pc[p].end = "write"
     \/ In(p, "write") /\ pc[p].end = "read"
  /\ pc' = [pc EXCEPT ![p] = User]
  /\ UNCHANGED <<pipe_buffer_array, filesys_lock, moved, panicked>>

WrongEnd(p) ==
  /\ \/ In(p, "read") /\ pc[p].end = "write"
     \/ In(p, "write") /\ pc[p].end = "read"
  /\ Goto(p, "release")
  /\ UNCHANGED <<pipe_buffer_array, filesys_lock, moved, panicked>>

(* RingExact: the place to read from next is not kept                      *)
Get_F(p) ==
  LET b == Buffer(p)
      n == Smaller(pc[p].size, b.size)
  IN  /\ moved' = [k \in 1 .. n |-> b.buffer[(b.start + k - 1) % PIPE_BUFFER_SIZE]]
      /\ pipe_buffer_array' = [pipe_buffer_array EXCEPT ![pc[p].slot].size = @ - n]

Get(p) ==
  LET b == Buffer(p)
      n == Smaller(pc[p].size, b.size)
  IN  /\ moved' = [k \in 1 .. n |-> b.buffer[(b.start + k - 1) % PIPE_BUFFER_SIZE]]
      /\ pipe_buffer_array' = [pipe_buffer_array EXCEPT
           ![pc[p].slot].start = (@ + n) % PIPE_BUFFER_SIZE, ![pc[p].slot].size = @ - n]

Read(p) ==
  /\ In(p, "read") /\ pc[p].end = "read"
  /\ IF Buffer(p) = NULL THEN Panic
     ELSE Get(p) /\ Goto(p, "release") /\ UNCHANGED <<filesys_lock, panicked>>

(* Where the k-th character of a write goes, if it is one of the first n.  *)
Written(b, s, n) ==
  [j \in DOMAIN b.buffer |->
     LET k == ((j - b.end) % PIPE_BUFFER_SIZE) + 1 IN IF k <= n THEN s[k] ELSE b.buffer[j]]

Put(p) ==
  LET b == Buffer(p)
      n == Smaller(Len(pc[p].data), PIPE_BUFFER_SIZE - b.size)
  IN  /\ moved' = SubSeq(pc[p].data, 1, n)
      /\ pipe_buffer_array' = [pipe_buffer_array EXCEPT
           ![pc[p].slot].buffer = Written(b, pc[p].data, n),
           ![pc[p].slot].end = (@ + n) % PIPE_BUFFER_SIZE, ![pc[p].slot].size = @ + n]

Write(p) ==
  /\ In(p, "write") /\ pc[p].end = "write"
  /\ IF Buffer(p) = NULL THEN Panic
     ELSE Put(p) /\ Goto(p, "release") /\ UNCHANGED <<filesys_lock, panicked>>

(* The buffer is freed when both ends are closed.                          *)
Shut(p) ==
  LET open == Buffer(p).open \ {pc[p].end}
  IN  pipe_buffer_array' = [pipe_buffer_array EXCEPT
        ![pc[p].slot] = IF open = {} THEN NULL ELSE [@ EXCEPT !.open = open]]

Close(p) ==
  /\ In(p, "close")
  /\ IF Buffer(p) = NULL THEN Panic
     ELSE Shut(p) /\ Goto(p, "release") /\ UNCHANGED <<filesys_lock, moved, panicked>>

(* An invalid buffer: read releases the lock and exits, write just exits.  *)
(* Only the ends of the buffer are checked: the copy may still fault, with *)
(* the lock held and before the counters are set.                          *)
BadRead(p) ==
  /\ In(p, "read") /\ BadPointers
  /\ filesys_lock' = NULL
  /\ Goto(p, "gone")
  /\ UNCHANGED <<pipe_buffer_array, moved, panicked>>

BadWrite(p) ==
  /\ In(p, "write") /\ BadPointers
  /\ Goto(p, "gone")
  /\ UNCHANGED <<pipe_buffer_array, filesys_lock, moved, panicked>>

BadCopy(p) ==
  /\ \/ In(p, "read") /\ pc[p].end = "read" /\ Buffer(p) # NULL
        /\ Smaller(pc[p].size, Buffer(p).size) > 0
     \/ In(p, "write") /\ pc[p].end = "write" /\ Buffer(p) # NULL
        /\ Smaller(Len(pc[p].data), PIPE_BUFFER_SIZE - Buffer(p).size) > 0
  /\ Fault(p)
  /\ UNCHANGED <<pipe_buffer_array, filesys_lock, moved>>

(* exit closes the process' files, and leaves the pipes alone.             *)
Exit(p) ==
  /\ In(p, "user")
  /\ Goto(p, "gone")
  /\ UNCHANGED <<pipe_buffer_array, filesys_lock, moved, panicked>>

-----------------------------------------------------------------------------
Step(p) ==
  \/ Scan(p) \/ Store(p) \/ CallocFails(p)
  \/ WrongEnd(p) \/ Read(p) \/ Write(p) \/ Close(p) \/ Release(p)

Next ==
  \E p \in Proc :
    Pipe(p) \/ Acquire(p) \/ Step(p) \/ BadRead(p) \/ BadWrite(p) \/ BadCopy(p) \/ Exit(p)

(* The scheduler is round robin: a process inside a call goes on.          *)
Spec == Init /\ [][Next]_vars /\ \A p \in Proc : WF_vars(Step(p))

-----------------------------------------------------------------------------
(* A buffer's counters stay within it.                                     *)
PipeTypeOK ==
  /\ filesys_lock \in Proc \cup {NULL}
  /\ pipe_buffer_array \in [Slot -> pipe_buffer \cup {NULL}]

(* start, end and size, which read and write keep separately, agree.       *)
RingExact ==
  /\ PipeTypeOK
  /\ \A i \in Slot : pipe_buffer_array[i] # NULL =>
       LET b == pipe_buffer_array[i] IN b.end = (b.start + b.size) % PIPE_BUFFER_SIZE

(* A process that holds filesys_lock, and lives, releases it.              *)
LockComesBack ==
  filesys_lock # NULL ~>
    (filesys_lock = NULL \/ panicked \/ \E p \in Proc : filesys_lock = p /\ pc[p].at = "gone")

(* Whatever the table holds, reads and writes of each pipe are those of a  *)
(* bounded queue.                                                          *)
Data(b) == [k \in 1 .. b.size |-> b.buffer[(b.start + k - 1) % PIPE_BUFFER_SIZE]]
Chan ==
  [i \in Slot |->
     IF pipe_buffer_array[i] = NULL THEN [ends |-> {}, data |-> <<>>]
     ELSE [ends |-> pipe_buffer_array[i].open, data |-> Data(pipe_buffer_array[i])]]

Fifo == INSTANCE PipeSpec WITH chan <- Chan
PipeImplementsFifo == Fifo!Spec

-----------------------------------------------------------------------------
(* What the code's comments and the manual promise.                        *)

(* syscall.c, pipe: "found a spot to store our pipe": the place is empty   *)
(* when the pipe is stored, and the two descriptors are its caller's.      *)
StoredInEmptyPlace ==
  [][\A i \in Slot : pipe_buffer_array[i] # NULL =>
       pipe_buffer_array[i]' = NULL \/ pipe_buffer_array[i]'.open \subseteq pipe_buffer_array[i].open]_vars

(* userprog.texi: "Nothing that a user program can do should ever cause    *)
(* the OS to crash, panic, fail an assertion, or otherwise malfunction".   *)
Bulletproof == ~panicked

(* userprog.texi: "If you encounter an invalid user pointer afterward, you *)
(* must still be sure to release the lock".                                *)
GoneHoldsNothing == \A p \in Proc : pc[p].at = "gone" => filesys_lock # p

(* userprog.texi: "Exiting or terminating a process implicitly closes all  *)
(* its open file descriptors, as if by calling this function for each".    *)
ExitCloses ==
  (\A p \in Proc : pc[p].at = "gone") ~> (\A i \in Slot : pipe_buffer_array[i] = NULL)
==============================================================================
