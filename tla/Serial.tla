------------------------------- MODULE Serial -------------------------------
(***************************************************************************)
(* The serial port and the input buffer: devices/intq.c, input.c and       *)
(* serial.c, with the callers they have in pintos2: read of the keyboard,  *)
(* under filesys_lock, and the console, under console_lock.                *)
(*                                                                         *)
(* An interrupt queue may be used by threads and by interrupt handlers.    *)
(* Its functions run with interrupts off and are a step each, up to where  *)
(* a thread blocks.  In a loop that looks at the hardware each time around *)
(* the hardware may move on in between.                                    *)
(***************************************************************************)
EXTENDS Integers, FiniteSets

CONSTANTS
  Proc,
  Byte,
  Typed, Received,     \* the bytes that come from the keyboard and the UART
  Printed, Reported,   \* the bytes that threads print, and handlers
  INTQ_BUFSIZE,
  NULL

ASSUME SerialAssumption ==
  /\ INTQ_BUFSIZE \in Nat /\ INTQ_BUFSIZE >= 2
  /\ NULL \notin Proc \cup Byte /\ NULL \notin {"receiving", "transmitting", "printing"}
  /\ Typed \cup Received \cup Printed \cup Reported \subseteq Byte

VARIABLES
  buffer, txq,     \* struct intq: keys typed or received, bytes to be sent
  ier,             \* the interrupts enabled in the UART
  thr, rbr,        \* the byte the UART is to send, and the one it received
  off,             \* the handler that runs, with interrupts off: NULL, one that
                   \* prints, or serial_interrupt, in its first or second loop
  pc,              \* where each process is: a frame
  filesys_lock, console_lock,   \* their holders
  moved            \* history: the last byte read or sent

queues == <<buffer, txq>>
uart == <<ier, thr, rbr>>
locks == <<filesys_lock, console_lock>>
vars == <<queues, uart, off, pc, locks, moved>>

Index == 0 .. INTQ_BUFSIZE - 1

-----------------------------------------------------------------------------
(* Interrupt queues.  A waiter is a thread that has blocked.               *)
EmptyQueue ==
  [buf |-> [i \in Index |-> NULL], head |-> 0, tail |-> 0,
   not_full |-> NULL, not_empty |-> NULL, lock |-> NULL]

(* Faulty variants (_F) of a definition stand before it: each is a slip    *)
(* that the property named with it must catch.                             *)

next(pos) == (pos + 1) % INTQ_BUFSIZE

intq_empty(q) == q.head = q.tail

(* StreamsKeepOrder: no wrap                                               *)
intq_full_F(q) == q.head + 1 = q.tail

intq_full(q) == next(q.head) = q.tail

(* The queue after a byte has gone in or out, and the wakeup signal gives. *)
(* What lies in a place that is not in use matters to nobody.              *)
Added(q, c) ==
  [q EXCEPT !.buf[q.head] = c, !.head = next(@), !.not_empty = NULL]
Removed(q) == [q EXCEPT !.buf[q.tail] = NULL, !.tail = next(@), !.not_full = NULL]
First(q) == q.buf[q.tail]

(* WaitersServed: the waiter is cleared and not unblocked                  *)
signal_F(places, waiter) == places

signal(places, waiter) ==
  IF waiter = NULL THEN places ELSE [places EXCEPT ![waiter].at = "woken"]

-----------------------------------------------------------------------------
User == [at |-> "user"]
Getting == [at |-> "getc", what |-> "key"]
Putting(c) == [at |-> "putc", what |-> "byte", byte |-> c]

Init ==
  /\ buffer = EmptyQueue /\ txq = EmptyQueue
  /\ ier = {"RECV"} /\ thr = NULL /\ rbr = NULL
  /\ off = NULL
  /\ pc = [p \in Proc |-> User]
  /\ filesys_lock = NULL /\ console_lock = NULL
  /\ moved = NULL

Running == off = NULL
In(p, what) == Running /\ pc[p].at # "user" /\ pc[p].what = what
Goto(p, l) == pc' = [pc EXCEPT ![p].at = l]

(* write_ier, for the queues as they will be.                              *)
write_ier(keys, bytes) ==
  ier' = (IF intq_full(keys) THEN {} ELSE {"RECV"}) \cup (IF intq_empty(bytes) THEN {} ELSE {"XMIT"})

(* A thread that finds no byte, or no room, takes the queue's lock and     *)
(* waits, to look again when it is woken.  If it has to block for the lock *)
(* it is "locking": see NeverContended for why it goes no further.         *)
Await(p, q, waiter) ==
  IF q.lock = NULL
  THEN /\ Goto(p, "wait")
       /\ IF waiter = "not_empty"
          THEN buffer' = [q EXCEPT !.lock = p, !.not_empty = p] /\ UNCHANGED txq
          ELSE txq' = [q EXCEPT !.lock = p, !.not_full = p] /\ UNCHANGED buffer
  ELSE Goto(p, "locking") /\ UNCHANGED queues

(* A woken thread has the lock of the queue and releases it.               *)
Loops(p) == pc[p].at \in {"getc", "putc", "woken"}
Unlocked(q, p) == [q EXCEPT !.lock = IF pc[p].at = "woken" THEN NULL ELSE @]

-----------------------------------------------------------------------------
(* read of the keyboard: one input_getc for each byte, under filesys_lock. *)

Read(p) ==
  /\ Running /\ pc[p] = User
  /\ filesys_lock = NULL /\ filesys_lock' = p
  /\ pc' = [pc EXCEPT ![p] = Getting]
  /\ UNCHANGED <<queues, uart, off, console_lock, moved>>

(* QueuesExact: serial_notify is not called                                *)
input_getc_F(p) ==
  /\ In(p, "key") /\ Loops(p)
  /\ LET q == Unlocked(buffer, p)
     IN  /\ ~intq_empty(q)
         /\ buffer' = Removed(q)
         /\ moved' = First(q)
         /\ \E f \in {User, Getting} : pc' = signal([pc EXCEPT ![p] = f], q.not_full)
         /\ filesys_lock' = IF pc'[p] = User THEN NULL ELSE filesys_lock
  /\ UNCHANGED <<txq, uart, off, console_lock>>

input_getc(p) ==
  /\ In(p, "key") /\ Loops(p)
  /\ LET q == Unlocked(buffer, p)
     IN  \/ /\ ~intq_empty(q)
            /\ buffer' = Removed(q)
            /\ moved' = First(q)
            /\ write_ier(buffer', txq)
            /\ \E f \in {User, Getting} : pc' = signal([pc EXCEPT ![p] = f], q.not_full)
            /\ filesys_lock' = IF pc'[p] = User THEN NULL ELSE filesys_lock
            /\ UNCHANGED txq
         \/ /\ intq_empty(q)
            /\ Await(p, q, "not_empty")
            /\ UNCHANGED <<ier, filesys_lock, moved>>
  /\ UNCHANGED <<thr, rbr, off, console_lock>>

(* printf and the like: one serial_putc for each byte, under console_lock. *)
PutChar(p) ==
  /\ Running /\ pc[p] = User
  /\ console_lock = NULL /\ console_lock' = p
  /\ \E c \in Printed : pc' = [pc EXCEPT ![p] = Putting(c)]
  /\ UNCHANGED <<queues, uart, off, filesys_lock, moved>>

(* serial_putc, the queue being q before and with room.                    *)
Queues(q, c) ==
  /\ ~intq_full(q)
  /\ txq' = Added(q, c)
  /\ write_ier(buffer, txq')

serial_putc(p) ==
  /\ In(p, "byte") /\ Loops(p)
  /\ LET q == Unlocked(txq, p)
     IN  \/ /\ Queues(q, pc[p].byte)
            /\ \E f \in {User} \cup {Putting(c) : c \in Printed} :
                 pc' = signal([pc EXCEPT ![p] = f], q.not_empty)
            /\ console_lock' = IF pc'[p] = User THEN NULL ELSE console_lock
            /\ UNCHANGED buffer
         \/ /\ intq_full(q)
            /\ Await(p, q, "not_full")
            /\ UNCHANGED <<ier, console_lock>>
  /\ UNCHANGED <<thr, rbr, off, filesys_lock, moved>>

-----------------------------------------------------------------------------
(* Handlers.                                                               *)

(* input_putc: the queue is not full.                                      *)
input_putc(c) ==
  /\ ~intq_full(buffer)
  /\ buffer' = Added(buffer, c)
  /\ write_ier(buffer', txq)
  /\ pc' = signal(pc, buffer.not_empty)

(* The keyboard's handler; a key is lost when there is no room.            *)
KeyPressed ==
  /\ Running
  /\ \E c \in Typed : input_putc(c)
  /\ UNCHANGED <<txq, thr, rbr, off, locks, moved>>

(* A handler that prints, as for an unexpected interrupt: interrupts were  *)
(* off already, and when there is no room serial_putc sends the next byte  *)
(* itself, as soon as the UART takes one.                                  *)
Unexpected ==
  /\ Running
  /\ off' = "printing"
  /\ UNCHANGED <<queues, uart, pc, locks, moved>>

Sends ==
  /\ ~intq_empty(txq) /\ thr = NULL
  /\ txq' = Removed(txq)
  /\ thr' = First(txq) /\ moved' = First(txq)
  /\ pc' = signal(pc, txq.not_full)

PrintHandler ==
  /\ off = "printing"
  /\ \/ /\ intq_full(txq) /\ Sends
        /\ UNCHANGED <<ier, off>>
     \/ /\ \E c \in Reported : Queues(txq, c)
        /\ pc' = signal(pc, txq.not_empty)
        /\ off' \in {"printing", NULL}
        /\ UNCHANGED <<thr, moved>>
  /\ UNCHANGED <<buffer, rbr, locks>>

serial_interrupt ==
  /\ Running
  /\ ("XMIT" \in ier /\ thr = NULL) \/ ("RECV" \in ier /\ rbr # NULL)
  /\ off' = "receiving"
  /\ UNCHANGED <<queues, uart, pc, locks, moved>>

Receive ==
  /\ off = "receiving"
  /\ IF ~intq_full(buffer) /\ rbr # NULL
     THEN input_putc(rbr) /\ rbr' = NULL /\ UNCHANGED off
     ELSE off' = "transmitting" /\ UNCHANGED <<buffer, ier, rbr, pc>>
  /\ UNCHANGED <<txq, thr, locks, moved>>

Transmit ==
  /\ off = "transmitting"
  /\ IF ~intq_empty(txq) /\ thr = NULL
     THEN Sends /\ UNCHANGED <<ier, off>>
     ELSE write_ier(buffer, txq) /\ off' = NULL /\ UNCHANGED <<txq, thr, moved, pc>>
  /\ UNCHANGED <<buffer, rbr, locks>>

(* The UART: a byte leaves, a byte arrives.                                *)
ByteLeaves ==
  /\ thr # NULL /\ thr' = NULL
  /\ UNCHANGED <<queues, ier, rbr, off, pc, locks, moved>>

ByteArrives ==
  /\ rbr = NULL /\ \E c \in Received : rbr' = c
  /\ UNCHANGED <<queues, ier, thr, off, pc, locks, moved>>

-----------------------------------------------------------------------------
Step(p) == input_getc(p) \/ serial_putc(p)
Handler == Receive \/ Transmit \/ PrintHandler

Next ==
  \/ \E p \in Proc : Read(p) \/ PutChar(p) \/ Step(p)
  \/ KeyPressed \/ Unexpected \/ serial_interrupt \/ Handler
  \/ ByteLeaves \/ ByteArrives

(* Round robin: a process that can go on in the kernel does, and interrupts*)
(* are served.  The UART sends what it is given; nobody need type or print.*)
Spec ==
  /\ Init /\ [][Next]_vars
  /\ \A p \in Proc : SF_vars(Step(p))
  /\ SF_vars(serial_interrupt) /\ WF_vars(Handler) /\ WF_vars(ByteLeaves)

-----------------------------------------------------------------------------
QueueOK(q) ==
  /\ q.buf \in [Index -> Byte \cup {NULL}]
  /\ q.head \in Index /\ q.tail \in Index
  /\ {q.not_full, q.not_empty, q.lock} \subseteq Proc \cup {NULL}

SerialTypeOK ==
  /\ QueueOK(buffer) /\ QueueOK(txq)
  /\ ier \subseteq {"RECV", "XMIT"}
  /\ {thr, rbr, moved} \subseteq Byte \cup {NULL}
  /\ off \in {NULL, "receiving", "transmitting", "printing"}
  /\ \A p \in Proc : pc[p].at \in {"user", "getc", "putc", "locking", "wait", "woken"}
  /\ {filesys_lock, console_lock} \subseteq Proc \cup {NULL}

(* What is typed or received is read, and what is printed is sent: every   *)
(* byte once and in order, the ones a handler sends by polling too.        *)
Pending(q) ==
  [i \in 1 .. (q.head - q.tail) % INTQ_BUFSIZE |-> q.buf[(q.tail + i - 1) % INTQ_BUFSIZE]]
KeyStream == INSTANCE FifoSpec WITH
  Capacity <- INTQ_BUFSIZE - 1, pending <- Pending(buffer), last <- moved
ByteStream == INSTANCE FifoSpec WITH
  Capacity <- INTQ_BUFSIZE - 1, pending <- Pending(txq), last <- moved
StreamsKeepOrder == KeyStream!Stream /\ ByteStream!Stream

(* A queue has room for one waiter of each kind.  Its lock is there to keep*)
(* a second thread out, but a thread that blocks for it does not look at   *)
(* the queue again before it waits, which wait's ASSERT would not stand:   *)
(* that never happens because of the locks the callers hold.               *)
NeverContended == \A p \in Proc : pc[p].at # "locking"

(* The UART interrupts for a byte when there is room for it, and when it   *)
(* can take one if there is one to send: else input or output would stop.  *)
IerExact ==
  off = NULL =>
    /\ "RECV" \in ier <=> ~intq_full(buffer)
    /\ "XMIT" \in ier <=> ~intq_empty(txq)

(* Both, and every variable has its type.                                  *)
QueuesExact == SerialTypeOK /\ NeverContended /\ IerExact

(* Whoever waits in the middle of a loop, or has been woken to go round it *)
(* once more, for a key or for room for a byte.                            *)
Waits(p, what) == pc[p].at \in {"wait", "woken"} /\ pc[p].what = what

(* The loop is left: the key has been read, or the byte is in the queue.   *)
(* (The same process may go on with the next.)                             *)
Done(p) == pc[p].at \in {"user", "getc", "putc"}

(* Whoever waits for room is woken, and gets its byte into the queue unless *)
(* handlers print again and again, who may take the room before it runs;   *)
(* whoever waits for a key gets one if there is one and no handler prints   *)
(* for ever; what is queued is sent.                                       *)
WaitersServed ==
  /\ \A p \in Proc : Waits(p, "byte") /\ pc[p].at = "wait" ~> pc[p].at # "wait"
  /\ <>[](off # "printing") => \A p \in Proc : Waits(p, "byte") ~> Done(p)
  /\ []<>(off = NULL) => \A p \in Proc : Waits(p, "key") /\ ~intq_empty(buffer) ~> Done(p)
  /\ ~intq_empty(txq) /\ thr = NULL ~> thr # NULL
=============================================================================
