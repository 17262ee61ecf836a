--------------------------------- MODULE Ide ---------------------------------
(***************************************************************************)
(* One channel of devices/ide.c with its two disks, the threads that read  *)
(* and write sectors through devices/block.c, and the interrupt handler,   *)
(* on the threads, semaphores and locks of Stock.  Main runs ide_init      *)
(* first: it looks for disks, identifies them, registers each and reads    *)
(* its partition table.                                                    *)
(*                                                                         *)
(* Everything but sema_down and sema_up runs with interrupts on: a step is *)
(* an access to the channel, and the controller, its interrupt and the     *)
(* timer may come between any two.                                         *)
(***************************************************************************)
EXTENDS Stock

CONSTANTS
  channel_lock, completion_wait,   \* struct channel's lock and semaphore
  Sectors,   \* a disk's capacity
  Data,
  Faults     \* what the hardware may do: "error", a read or a command fails;
             \* "write_error", the data is not written; "slow", a disk takes
             \* longer than a wait; "spurious", an interrupt for nothing

ASSUME IdeAssumption ==
  /\ Sema = {channel_lock, completion_wait} /\ Lock = {channel_lock}
  /\ channel_lock # completion_wait
  /\ Sectors \in Nat \ {0}
  /\ NULL \notin Data
  /\ Faults \subseteq {"error", "write_error", "slow", "spurious"}

VARIABLES
  pc,                    \* where each thread is: a frame
  is_ata, registered,    \* of each disk: struct ata_disk's is_ata; its block
  probing,               \* the disk ide_init is at; 2 when it is done
  expecting_interrupt,
  panicked,
  selected, lba,         \* the channel's registers: the disk and the sector
  bsy, drq,              \* the status register
  irq,                   \* an interrupt is pending
  job,                   \* the command the controller is at
  buf,                   \* the sector in its buffer
  kind, platter          \* what the disks are, and what is on them

Disk == 0 .. 1
Sector == 0 .. Sectors - 1

driverVars == <<is_ata, registered, probing, expecting_interrupt>>
registers == <<selected, lba>>
controller == <<bsy, drq, irq, job, buf>>
hardware == <<registers, controller, kind, platter>>
vars == <<stockVars, pc, driverVars, panicked, hardware>>

Frame(at, op, d, s, v) == [at |-> at, op |-> op, disk |-> d, sec |-> s, data |-> v]
User == Frame("user", "none", 0, 0, NULL)

Init ==
  /\ StockInit
  /\ pc = [t \in Thread |-> User]
  /\ is_ata = [d \in Disk |-> FALSE] /\ registered = [d \in Disk |-> FALSE]
  /\ probing = -1
  /\ expecting_interrupt = FALSE
  /\ panicked = FALSE
  /\ selected = 0 /\ lba = 0
  /\ bsy = FALSE /\ drq = FALSE /\ irq = FALSE /\ job = NULL /\ buf = NULL
  /\ kind \in [Disk -> {"none", "ata", "big"}]
  /\ platter \in [Disk \X Sector -> Data]

Running == ~panicked /\ current # Idle
Me == pc[current]
At(l) == Running /\ Me.at = l
Goto(l) == pc' = [pc EXCEPT ![current].at = l]
Panic == panicked' = TRUE /\ UNCHANGED <<stockVars, pc, driverVars, hardware>>

-----------------------------------------------------------------------------
(* ide_init.                                                               *)

(* reset_channel and check_device_type: which disks answer as ATA disks.   *)
(* One that is still busy is taken for none, and may hide the other.       *)
Detect ==
  /\ At("user") /\ current = Main /\ probing = -1
  /\ \E found \in SUBSET {d \in Disk : kind[d] # "none"} :
       /\ "slow" \in Faults \/ found = {d \in Disk : kind[d] # "none"}
       /\ is_ata' = [d \in Disk |-> d \in found]
  /\ selected' \in Disk
  /\ probing' = 0
  /\ UNCHANGED <<stockVars, pc, registered, expecting_interrupt, panicked,
                 lba, controller, kind, platter>>

Probe ==
  /\ At("user") /\ current = Main /\ probing \in Disk
  /\ IF is_ata[probing]
     THEN /\ pc' = [pc EXCEPT ![Main] = Frame("idle", "identify", probing, 0, NULL)]
          /\ UNCHANGED probing
     ELSE probing' = probing + 1 /\ UNCHANGED pc
  /\ UNCHANGED <<stockVars, is_ata, registered, expecting_interrupt, panicked, hardware>>

(* identify_ata_device gives the disk up: it does not answer, or is too    *)
(* big to be a virtual one.                                                *)
Ignore ==
  /\ is_ata' = [is_ata EXCEPT ![probing] = FALSE]
  /\ probing' = probing + 1
  /\ pc' = [pc EXCEPT ![current] = User]
  /\ UNCHANGED <<stockVars, registered, expecting_interrupt, panicked, hardware>>

(* block_register; then partition_scan reads sector 0.                     *)
Register ==
  /\ At("identified")
  /\ \/ kind[Me.disk] = "big" /\ Ignore
     \/ /\ kind[Me.disk] # "big"
        /\ registered' = [registered EXCEPT ![Me.disk] = TRUE]
        /\ probing' = probing + 1
        /\ pc' = [pc EXCEPT ![current] = Frame("acquire", "read", Me.disk, 0, NULL)]
        /\ UNCHANGED <<stockVars, is_ata, expecting_interrupt, panicked, hardware>>

-----------------------------------------------------------------------------
(* block_read and block_write, ide_read and ide_write.                     *)

Request ==
  /\ At("user") /\ (current = Main => probing = 2)
  /\ \E d \in {e \in Disk : registered[e]}, s \in 0 .. Sectors, v \in Data \cup {NULL} :
       IF s \notin Sector THEN Panic     \* check_sector
       ELSE /\ pc' = [pc EXCEPT ![current] =
                        Frame("acquire", IF v = NULL THEN "read" ELSE "write", d, s, v)]
            /\ UNCHANGED <<stockVars, driverVars, panicked, hardware>>

Acquire ==
  /\ At("acquire")
  /\ sema_down(channel_lock)
  /\ Goto(IF Passes(channel_lock) THEN "own" ELSE "acquire")
  /\ UNCHANGED <<holder, driverVars, panicked, hardware>>

Own ==
  /\ At("own")
  /\ own(channel_lock)
  /\ Goto("idle")
  /\ UNCHANGED <<schedVars, semaVars, driverVars, panicked, hardware>>

(* wait_until_idle spins, with interrupts on, and gives up in the end.     *)
(* Reading the status register clears a pending interrupt.                 *)
WaitUntilIdle ==
  /\ At("idle")
  /\ (~bsy /\ ~drq) \/ "slow" \in Faults
  /\ irq' = FALSE
  /\ Goto("select")
  /\ UNCHANGED <<stockVars, driverVars, panicked, registers, bsy, drq, job, buf, kind, platter>>

(* DiskIsAtomic: the other disk may still be selected                      *)
Select_F ==
  /\ At("select")
  /\ lba' = Me.sec /\ irq' = FALSE
  /\ Goto("expect")
  /\ UNCHANGED <<stockVars, driverVars, panicked, selected, bsy, drq, job, buf, kind, platter>>

(* The rest of select_device_wait and of select_sector.                    *)
Select ==
  /\ At("select")
  /\ selected' = Me.disk
  /\ lba' = (IF Me.op = "identify" THEN lba ELSE Me.sec)
  /\ irq' = FALSE
  /\ Goto("expect")
  /\ UNCHANGED <<stockVars, driverVars, panicked, bsy, drq, job, buf, kind, platter>>

(* CommandEnds: an identify command goes without, as if it were polled     *)
Expect_F ==
  /\ At("expect")
  /\ expecting_interrupt' = (expecting_interrupt \/ Me.op # "identify")
  /\ Goto("command")
  /\ UNCHANGED <<stockVars, is_ata, registered, probing, panicked, hardware>>

(* issue_pio_command: first say that an interrupt will come, and then give *)
(* the command, which also clears a pending interrupt.                     *)
Expect ==
  /\ At("expect")
  /\ expecting_interrupt' = TRUE
  /\ Goto("command")
  /\ UNCHANGED <<stockVars, is_ata, registered, probing, panicked, hardware>>

Command ==
  /\ At("command")
  /\ job' = [op |-> Me.op, disk |-> selected, sec |-> lba]
  /\ bsy' = TRUE /\ drq' = FALSE /\ irq' = FALSE
  /\ Goto(IF Me.op = "write" THEN "busy" ELSE "complete")
  /\ UNCHANGED <<stockVars, driverVars, panicked, registers, buf, kind, platter>>

(* The wait for the interrupt: a read goes on to fetch the data, a write   *)
(* is done.                                                                *)
Complete ==
  /\ At("complete")
  /\ sema_down(completion_wait)
  /\ Goto(IF ~Passes(completion_wait) THEN "complete"
          ELSE IF Me.op = "write" THEN "disown" ELSE "busy")
  /\ UNCHANGED <<holder, driverVars, panicked, hardware>>

(* wait_while_busy sleeps a tick, which is to yield, before it looks       *)
(* again.  If there is no data, or the disk is too slow, the disk is not   *)
(* used or the kernel panics.                                              *)
WaitWhileBusy ==
  /\ At("busy")
  /\ \/ /\ ~bsy /\ drq
        /\ Goto(IF Me.op = "write" THEN "output" ELSE "input")
        /\ UNCHANGED <<stockVars, driverVars, panicked, hardware>>
     \/ /\ (~bsy /\ ~drq) \/ (bsy /\ "slow" \in Faults)
        /\ IF Me.op = "identify" THEN Ignore ELSE Panic
     \/ /\ bsy
        /\ thread_yield
        /\ UNCHANGED <<semaVars, holder, pc, driverVars, panicked, hardware>>

Input ==
  /\ At("input")
  /\ pc' = [pc EXCEPT ![current].data = buf,
                      ![current].at = IF Me.op = "identify" THEN "identified" ELSE "disown"]
  /\ drq' = FALSE /\ job' = NULL
  /\ UNCHANGED <<stockVars, driverVars, panicked, registers, bsy, irq, buf, kind, platter>>

Output ==
  /\ At("output")
  /\ buf' = Me.data
  /\ job' = [job EXCEPT !.op = "store"]
  /\ drq' = FALSE /\ bsy' = TRUE
  /\ Goto("complete")
  /\ UNCHANGED <<stockVars, driverVars, panicked, registers, irq, kind, platter>>

Disown ==
  /\ At("disown")
  /\ disown(channel_lock)
  /\ Goto("up")
  /\ UNCHANGED <<schedVars, semaVars, driverVars, panicked, hardware>>

Up ==
  /\ At("up")
  /\ sema_up(channel_lock)
  /\ pc' = [pc EXCEPT ![current] = User]
  /\ UNCHANGED <<holder, driverVars, panicked, hardware>>

-----------------------------------------------------------------------------
(* Threads begin and end; time passes; the idle thread.                    *)
Create ==
  /\ At("user") /\ current = Main /\ probing = 2
  /\ \E t \in Thread : thread_create(t)
  /\ UNCHANGED <<semaVars, holder, pc, driverVars, panicked, hardware>>

Exit ==
  /\ At("user") /\ current # Main
  /\ thread_exit
  /\ UNCHANGED <<semaVars, holder, pc, driverVars, panicked, hardware>>

Tick ==
  /\ ~panicked
  /\ thread_tick
  /\ UNCHANGED <<semaVars, holder, pc, driverVars, panicked, hardware>>

IdleLoop ==
  /\ ~panicked /\ current = Idle
  /\ thread_block
  /\ UNCHANGED <<semaVars, holder, pc, driverVars, panicked, hardware>>

-----------------------------------------------------------------------------
(* The controller.  It interrupts when a read has the data, when a write   *)
(* has taken the data, and when a command fails; not when it is ready to   *)
(* take the data.                                                          *)
Working(op) == ~panicked /\ bsy /\ job # NULL /\ job.op = op

Fetch ==
  /\ Working("read") \/ Working("identify")
  /\ buf' = IF job.op = "read" THEN platter[job.disk, job.sec] ELSE NULL
  /\ bsy' = FALSE /\ drq' = TRUE /\ irq' = TRUE
  /\ UNCHANGED <<job, platter>>

Take ==
  /\ Working("write")
  /\ bsy' = FALSE /\ drq' = TRUE
  /\ UNCHANGED <<irq, job, buf, platter>>

Store ==
  /\ Working("store")
  /\ platter' = [platter EXCEPT ![<<job.disk, job.sec>>] = buf]
  /\ bsy' = FALSE /\ irq' = TRUE /\ job' = NULL
  /\ UNCHANGED <<drq, buf>>

Fail ==
  /\ \/ Working("read") \/ Working("identify") \/ Working("write")
     \/ Working("store")
  /\ (IF job.op = "store" THEN "write_error" ELSE "error") \in Faults
  /\ bsy' = FALSE /\ irq' = TRUE /\ job' = NULL
  /\ UNCHANGED <<drq, buf, platter>>

Spurious ==
  /\ ~panicked /\ "spurious" \in Faults /\ job = NULL
  /\ irq' = TRUE
  /\ UNCHANGED <<bsy, drq, job, buf, platter>>

ControllerStep == Fetch \/ Take \/ Store \/ Fail
Controller ==
  /\ ControllerStep \/ Spurious
  /\ UNCHANGED <<stockVars, pc, driverVars, panicked, registers, kind>>

(* CompletionMine: the interrupt is not acknowledged                       *)
Interrupt_F ==
  /\ ~panicked /\ irq
  /\ irq' \in IF expecting_interrupt THEN BOOLEAN ELSE {FALSE}
  /\ IF expecting_interrupt THEN sema_up(completion_wait) ELSE UNCHANGED <<schedVars, semaVars>>
  /\ UNCHANGED <<holder, pc, driverVars, panicked, registers, bsy, drq, job, buf, kind, platter>>

(* interrupt_handler: unless no command was ever given, the interrupt is   *)
(* taken for a completion.                                                 *)
Interrupt ==
  /\ ~panicked /\ irq
  /\ irq' = FALSE
  /\ IF expecting_interrupt THEN sema_up(completion_wait) ELSE UNCHANGED <<schedVars, semaVars>>
  /\ UNCHANGED <<holder, pc, driverVars, panicked, registers, bsy, drq, job, buf, kind, platter>>

-----------------------------------------------------------------------------
KernelStep ==
  \/ Detect \/ Probe \/ Register
  \/ Acquire \/ Own \/ WaitUntilIdle \/ Select \/ Expect \/ Command
  \/ Complete \/ WaitWhileBusy \/ Input \/ Output \/ Disown \/ Up

Next == KernelStep \/ Request \/ Create \/ Exit \/ Tick \/ IdleLoop \/ Controller \/ Interrupt

(* The timer ticks; a thread that is scheduled again and again makes       *)
(* progress in the kernel (a slice is many instructions long); the         *)
(* controller ends its commands, and its interrupts are served.            *)
Spec ==
  /\ Init /\ [][Next]_vars
  /\ WF_vars(Tick) /\ WF_vars(IdleLoop) /\ WF_vars(Interrupt)
  /\ WF_vars(ControllerStep /\ Controller)
  /\ \A t \in Thread : SF_vars(current = t /\ KernelStep)

-----------------------------------------------------------------------------
(* A request is done when the disk has read the sector into its buffer, or *)
(* has taken the data from it.                                             *)
Done(t) ==
  LET f == pc[t]
  IN  \/ f.at \in {"disown", "up"}
      \/ f.op = "read" /\ f.at \in {"complete", "busy", "input"} /\ drq
      \/ f.op = "write" /\ f.at = "complete" /\ ~bsy

RequestOf(t) ==
  LET f == pc[t]
  IN  IF f.at = "user" \/ f.op = "identify" THEN NULL
      ELSE [op |-> f.op, disk |-> f.disk, sec |-> f.sec, done |-> Done(t),
            data |-> IF f.op = "read" /\ Done(t) /\ f.at \notin {"disown", "up"} THEN buf ELSE f.data]

Spec_ == INSTANCE DiskSpec
  WITH Disk <- Disk, Sector <- Sector, store <- platter,
       request <- [t \in Thread |-> RequestOf(t)]

(* NULL, for "no request", is none.                                        *)
ASSUME NullAssumption == NULL \notin Spec_!Request

(* block.h: "Internally synchronizes accesses to block devices, so         *)
(* external per-block device locking is unneeded", and a write "returns    *)
(* after the block device has acknowledged receiving the data": with two   *)
(* disks behind one set of registers, threads switched anywhere, and       *)
(* completions that come when they like, a request is an atomic read or    *)
(* write of its own sector.                                                *)
DiskIsAtomic == Spec_!Spec

(* Somebody has given a command and has not yet taken its completion.      *)
Awaits(t) == pc[t].at = "complete" \/ (pc[t].at = "busy" /\ pc[t].op = "write")

(* A completion is for the thread that waits for it: there is at most one, *)
(* as an interrupt or as the semaphore's value, and only while one thread  *)
(* has yet to take it and the controller has come to an end with the       *)
(* command.  One left over would let the next command go ahead too early.  *)
CompletionMine ==
  LET completions == value[completion_wait] + (IF irq THEN 1 ELSE 0)
  IN  completions > 0 =>
        completions = 1 /\ ~bsy /\ Cardinality({t \in Thread : Awaits(t)}) = 1

(* Whoever has the channel is done with it some time, unless the kernel    *)
(* panics: no completion is lost, not even the first one.                  *)
CommandEnds ==
  \A t \in Thread :
    (pc[t].at \in {"idle", "command", "complete"})
      ~> (pc[t].at \in {"user", "acquire"} \/ panicked)

-----------------------------------------------------------------------------
(* What does not hold.                                                     *)

(* ide.c:71, of expecting_interrupt: "True if an interrupt is expected,    *)
(* false if any interrupt would be spurious".  Nothing ever sets it false  *)
(* again, so that a spurious interrupt completes the next command.         *)
ExpectingExact ==
  expecting_interrupt => \E t \in Thread : pc[t].at = "command" \/ Awaits(t)
==============================================================================
