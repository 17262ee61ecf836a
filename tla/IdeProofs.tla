------------------------------ MODULE IdeProofs ------------------------------
(***************************************************************************)
(* Proofs about Ide and the threads of Stock it runs on, for any threads,  *)
(* sectors and data: the scheduler's and the semaphores' lists are exact,  *)
(* each completion is for the thread that waits for it, and a request is   *)
(* an atomic read or write of its sector.                                  *)
(***************************************************************************)
EXTENDS Ide, SequenceTheorems, FiniteSetTheorems, TLAPS

-----------------------------------------------------------------------------
(* The lists of threads.                                                   *)
AnyThread == Thread \cup {Idle}
Status == {"RUNNING", "READY", "BLOCKED", "FREE"}

On(t, s) == \E i \in 1 .. Len(s) : s[i] = t
Once(s) == \A i, j \in 1 .. Len(s) : s[i] = s[j] => i = j

QueueOf(ready, stat) ==
  /\ ready \in Seq(Thread) /\ Once(ready)
  /\ \A t \in Thread : On(t, ready) <=> stat[t] = "READY"

SchedOK ==
  /\ current \in AnyThread /\ status \in [AnyThread -> Status]
  /\ \A t \in AnyThread : status[t] = "RUNNING" <=> t = current
  /\ QueueOf(ready_list, status)

(* A blocked thread waits where it called sema_down.                       *)
Place(s) == IF s = channel_lock THEN "acquire" ELSE "complete"
WaitersOK ==
  /\ waiters \in [Sema -> Seq(Thread)] /\ \A s \in Sema : Once(waiters[s])
  /\ \A t \in Thread, s \in Sema :
       On(t, waiters[s]) <=> status[t] = "BLOCKED" /\ pc[t].at = Place(s)
  /\ \A t \in Thread : status[t] = "BLOCKED" => \E s \in Sema : pc[t].at = Place(s)

-----------------------------------------------------------------------------
(* The driver.                                                             *)
Commanding == {"idle", "select", "expect", "command", "complete", "busy", "input", "output"}
Frames ==
  [at : {"user", "acquire", "own", "identified", "disown", "up"} \cup Commanding,
   op : {"none", "read", "write", "identify"}, disk : Disk, sec : Sector, data : Data \cup {NULL}]

TypesOK ==
  /\ pc \in [Thread -> Frames]
  /\ value \in [Sema -> Nat] /\ holder \in [Lock -> Thread \cup {NULL}]
  /\ is_ata \in [Disk -> BOOLEAN] /\ registered \in [Disk -> BOOLEAN]
  /\ probing \in -1 .. 2
  /\ expecting_interrupt \in BOOLEAN /\ panicked \in BOOLEAN
  /\ selected \in Disk /\ lba \in Sector

(* What the controller is at has a meaning: it works, or holds data, for a *)
(* command, and stores what it was given.                                  *)
Jobs == [op : {"read", "write", "identify", "store"}, disk : Disk, sec : Sector]
HardwareOK ==
  /\ bsy \in BOOLEAN /\ drq \in BOOLEAN /\ irq \in BOOLEAN
  /\ buf \in Data \cup {NULL} /\ platter \in [Disk \X Sector -> Data]
  /\ bsy \/ drq => job \in Jobs
  /\ ~(bsy /\ drq)
  /\ bsy /\ job.op = "store" => buf \in Data
  /\ \A t \in Thread :
       /\ pc[t].at \in {"input", "output"} => drq
       /\ pc[t].at = "input" => pc[t].op # "write"
       /\ pc[t].at = "output" => pc[t].op = "write"
       /\ pc[t].op = "write" => pc[t].data \in Data

(* Whoever holds the channel's lock, or is about to say so, or to let      *)
(* another have it.                                                        *)
Holds(f) == f.op # "identify" /\ f.at \in Commanding \cup {"disown"}
Within(f) == Holds(f) \/ f.at \in {"own", "up"}
LockOK ==
  /\ value[channel_lock] \in {0, 1}
  /\ value[channel_lock] = 1 => \A t \in Thread : ~Within(pc[t])
  /\ value[channel_lock] = 0 => \E t \in Thread : Within(pc[t])
  /\ \A t, u \in Thread : Within(pc[t]) /\ Within(pc[u]) => t = u
  /\ \A t \in Thread : holder[channel_lock] = t <=> Holds(pc[t])

(* Main alone identifies the disks, before there are other threads.        *)
BootOK ==
  /\ \A t \in Thread :
       /\ pc[t].op = "identify" => /\ t = Main /\ probing \in Disk
                                   /\ pc[t].at \in Commanding \cup {"identified"}
       /\ pc[t].at = "identified" => pc[t].op = "identify"
       /\ pc[t].op = "none" <=> pc[t].at = "user"
       /\ status[t] = "FREE" => pc[t].at = "user"
       /\ probing # 2 /\ t # Main => status[t] = "FREE"
  /\ status[Main] # "FREE"

ThreadsInv == SchedOK /\ WaitersOK /\ TypesOK /\ HardwareOK /\ LockOK /\ BootOK

-----------------------------------------------------------------------------
(* The channel, when no wait is given up and no interrupt is spurious.     *)
None == value[completion_wait] = 0 /\ ~irq
One == \/ value[completion_wait] = 0 /\ irq
       \/ value[completion_wait] = 1 /\ ~irq

(* The controller is at the command of f, in the part op of it.            *)
Works(f, op) ==
  /\ bsy /\ ~drq /\ None
  /\ job.op = op /\ (op # "identify" => job.disk = f.disk /\ job.sec = f.sec)
Ready == ~bsy /\ drq
Resting == ~bsy /\ ~drq

Reads(f) == f.op \in {"read", "identify"}
Writes(f) == f.op = "write"

ChannelOf(f) ==
  /\ f.at \in {"own", "idle", "select", "expect", "command", "identified", "disown", "up"} =>
       Resting /\ None
  /\ f.at \in {"expect", "command"} => selected = f.disk /\ (f.op # "identify" => lba = f.sec)
  /\ f.at \in {"command", "complete", "busy", "input", "output"} => expecting_interrupt
  /\ f.at = "complete" /\ Reads(f) => Works(f, f.op) \/ (Ready /\ One) \/ (Resting /\ One)
  /\ f.at = "busy" /\ Reads(f) => (Ready \/ Resting) /\ None
  /\ f.at = "input" => Reads(f) /\ Ready /\ None
  /\ f.at = "busy" /\ Writes(f) =>
       Works(f, "write") \/ (Ready /\ None /\ job.disk = f.disk /\ job.sec = f.sec) \/ (Resting /\ One)
  /\ f.at = "output" => Writes(f) /\ Ready /\ None /\ job.disk = f.disk /\ job.sec = f.sec
  /\ f.at = "complete" /\ Writes(f) =>
       (Works(f, "store") /\ buf = f.data) \/ (Resting /\ One)

Driving(f) == f.at \notin {"user", "acquire"}
ChannelOK ==
  /\ \A t \in Thread : ChannelOf(pc[t])
  /\ (\A t \in Thread : ~Driving(pc[t])) => Resting /\ None

DriverInv == ThreadsInv /\ ChannelOK

-----------------------------------------------------------------------------
(* Queues of threads.                                                      *)
LEMMA AppendIs ==
  ASSUME NEW r \in Seq(Thread), Once(r), NEW t \in Thread, ~On(t, r)
  PROVE  /\ Append(r, t) \in Seq(Thread) /\ Once(Append(r, t))
         /\ \A u : On(u, Append(r, t)) <=> On(u, r) \/ u = t
<1> DEFINE q == Append(r, t)
<1>1. /\ q \in Seq(Thread) /\ Len(q) = Len(r) + 1 /\ Len(r) \in Nat
      /\ q[Len(r) + 1] = t /\ \A i \in 1 .. Len(r) : q[i] = r[i]
  BY AppendProperties, LenProperties
<1> HIDE DEF q
<1>2. \A i \in 1 .. Len(q) : i \in 1 .. Len(r) \/ i = Len(r) + 1
  BY <1>1
<1>3. Once(q)
  BY <1>1, <1>2 DEF Once, On
<1>4. ASSUME NEW u PROVE On(u, q) <=> On(u, r) \/ u = t
  <2>1. On(u, q) => On(u, r) \/ u = t
    BY <1>1, <1>2 DEF On
  <2>2. u = t => On(u, q)
    <3>1. Len(r) + 1 \in 1 .. Len(q)
      BY <1>1
    <3> QED
      BY <1>1, <3>1 DEF On
  <2>3. On(u, r) => On(u, q)
    <3>1. \A i \in 1 .. Len(r) : i \in 1 .. Len(q)
      BY <1>1
    <3> QED
      BY <1>1, <3>1 DEF On
  <2> QED
    BY <2>1, <2>2, <2>3
<1> QED
  BY <1>1, <1>3, <1>4 DEF q

LEMMA TailIs ==
  ASSUME NEW r \in Seq(Thread), Once(r), r # <<>>
  PROVE  /\ Head(r) \in Thread /\ On(Head(r), r) /\ Tail(r) \in Seq(Thread) /\ Once(Tail(r))
         /\ \A u : On(u, Tail(r)) <=> On(u, r) /\ u # Head(r)
<1> DEFINE q == Tail(r)
<1>1. /\ Len(r) \in Nat /\ Len(r) > 0 /\ Head(r) = r[1] /\ Head(r) \in Thread
      /\ q \in Seq(Thread) /\ Len(q) = Len(r) - 1 /\ \A i \in 1 .. Len(q) : q[i] = r[i + 1]
  BY HeadTailProperties, LenProperties, EmptySeq, ElementOfSeq
<1> HIDE DEF q
<1>2. \A i \in 1 .. Len(q) : i + 1 \in 1 .. Len(r) /\ i + 1 # 1
  BY <1>1
<1>3. 1 \in 1 .. Len(r)
  BY <1>1
<1>4. Once(q)
  <2> SUFFICES ASSUME NEW i \in 1 .. Len(q), NEW j \in 1 .. Len(q), q[i] = q[j] PROVE i = j
    BY DEF Once
  <2>1. i + 1 = j + 1
    BY <1>1, <1>2 DEF Once
  <2> QED
    BY <1>1, <2>1
<1>5. ASSUME NEW u PROVE On(u, q) <=> On(u, r) /\ u # r[1]
  <2>1. On(u, q) => On(u, r) /\ u # r[1]
    BY <1>1, <1>2, <1>3 DEF On, Once
  <2>2. ASSUME NEW i \in 1 .. Len(r), r[i] = u, u # r[1] PROVE On(u, q)
    <3>1. i - 1 \in 1 .. Len(q) /\ (i - 1) + 1 = i
      BY <1>1, <2>2
    <3> QED
      BY <1>1, <2>2, <3>1 DEF On
  <2> QED
    BY <2>1, <2>2 DEF On
<1>6. On(r[1], r)
  BY <1>3 DEF On
<1> QED
  BY <1>1, <1>4, <1>5, <1>6 DEF q

(* What the scheduler does to the caller's stat: the first ready thread    *)
(* runs, and a thread that dies is gone.                                   *)
Follows(old, new) ==
  \/ new = old
  \/ old = "READY" /\ new = "RUNNING"
  \/ old = "DYING" /\ new = "FREE"

LEMMA ScheduleIs ==
  ASSUME StockAssumption, current \in AnyThread,
         NEW ready, NEW stat \in [AnyThread -> Status \cup {"DYING"}], QueueOf(ready, stat),
         \A t \in AnyThread : stat[t] # "RUNNING",
         \A t \in AnyThread : stat[t] = "DYING" => t = current /\ t \in Thread \ {Main},
         schedule(ready, stat)
  PROVE  SchedOK' /\ \A t \in Thread : Follows(stat[t], status'[t])
<1> DEFINE next == next_thread_to_run(ready)
<1>1. /\ current' = next /\ ready_list' = (IF ready = <<>> THEN ready ELSE Tail(ready))
      /\ status' = [t \in AnyThread |->
                      IF t = next THEN "RUNNING"
                      ELSE IF t = current /\ stat[t] = "DYING" /\ t # Main THEN "FREE"
                      ELSE stat[t]]
  BY DEF schedule, thread_schedule_tail
<1>2. next \in AnyThread /\ (ready = <<>> => next = Idle)
      /\ (ready # <<>> => next = Head(ready) /\ next \in Thread /\ stat[next] = "READY")
  BY TailIs DEF next_thread_to_run, QueueOf, AnyThread
<1> HIDE DEF next
<1>3. \A t \in AnyThread : status'[t] = IF t = next THEN "RUNNING"
                                         ELSE IF stat[t] = "DYING" THEN "FREE" ELSE stat[t]
  BY <1>1
<1>4. status' \in [AnyThread -> Status]
  BY <1>1 DEF Status
<1>5. \A t \in AnyThread : status'[t] = "RUNNING" <=> t = current'
  BY <1>1, <1>3
<1>6. Idle \notin Thread /\ Thread \subseteq AnyThread
  BY DEF StockAssumption, AnyThread
<1>7. QueueOf(ready_list', status')
  <2>1. CASE ready = <<>>
    BY <1>1, <1>2, <1>3, <1>6, <2>1 DEF QueueOf
  <2>2. CASE ready # <<>>
    <3>1. ready_list' \in Seq(Thread) /\ Once(ready_list')
          /\ \A t \in Thread : On(t, ready_list') <=> On(t, ready) /\ t # next
      BY <1>1, <1>2, <2>2, TailIs DEF QueueOf
    <3>2. ASSUME NEW t \in Thread PROVE On(t, ready_list') <=> status'[t] = "READY"
      BY <1>3, <1>6, <3>1 DEF QueueOf
    <3> QED
      BY <3>1, <3>2 DEF QueueOf
  <2> QED
    BY <2>1, <2>2
<1>8. SchedOK'
  BY <1>1, <1>2, <1>4, <1>5, <1>7 DEF SchedOK, AnyThread
<1>9. \A t \in Thread : Follows(stat[t], status'[t])
  BY <1>2, <1>3, <1>6 DEF Follows
<1> QED
  BY <1>8, <1>9

(* A switch makes a running thread ready and a ready one run, no more.     *)
Live(st) == st \in {"RUNNING", "READY"}
Keeps(t) == status'[t] = status[t] \/ (Live(status[t]) /\ Live(status'[t]))

LEMMA BlockIs ==
  ASSUME StockAssumption, SchedOK, thread_block
  PROVE  /\ SchedOK' /\ \A t \in Thread : t # current => Keeps(t)
         /\ current \in Thread => status'[current] = "BLOCKED"
<1> DEFINE stat == [status EXCEPT ![current] = "BLOCKED"]
<1>1. /\ current \in AnyThread /\ stat \in [AnyThread -> Status \cup {"DYING"}]
      /\ \A t \in AnyThread : stat[t] = IF t = current THEN "BLOCKED" ELSE status[t]
      /\ \A t \in AnyThread : stat[t] # "RUNNING" /\ stat[t] # "DYING"
      /\ Thread \subseteq AnyThread
  BY DEF SchedOK, Status, AnyThread
<1>2. schedule(ready_list, stat)
  BY DEF thread_block
<1> HIDE DEF stat
<1>3. QueueOf(ready_list, stat)
  BY <1>1 DEF SchedOK, QueueOf
<1>4. SchedOK' /\ \A t \in Thread : Follows(stat[t], status'[t])
  BY <1>1, <1>2, <1>3, ScheduleIs
<1> QED
  BY <1>1, <1>4 DEF Follows, Keeps, Live

LEMMA YieldIs ==
  ASSUME StockAssumption, SchedOK, thread_yield
  PROVE  SchedOK' /\ \A t \in Thread : Keeps(t)
<1> DEFINE stat == [status EXCEPT ![current] = "READY"]
           ready == IF current = Idle THEN ready_list ELSE Append(ready_list, current)
<1>1. /\ current \in AnyThread /\ stat \in [AnyThread -> Status \cup {"DYING"}]
      /\ \A t \in AnyThread : stat[t] = IF t = current THEN "READY" ELSE status[t]
      /\ \A t \in AnyThread : stat[t] # "RUNNING" /\ stat[t] # "DYING"
      /\ Thread \subseteq AnyThread /\ status[current] = "RUNNING"
  BY DEF SchedOK, Status, AnyThread
<1>2. schedule(ready, stat)
  BY DEF thread_yield
<1>3. QueueOf(ready, stat)
  <2>1. CASE current = Idle
    BY <1>1, <2>1 DEF SchedOK, QueueOf, StockAssumption
  <2>2. CASE current # Idle
    <3>1. current \in Thread /\ ~On(current, ready_list) /\ ready_list \in Seq(Thread) /\ Once(ready_list)
      BY <1>1, <2>2 DEF SchedOK, QueueOf, AnyThread
    <3>2. /\ ready \in Seq(Thread) /\ Once(ready)
          /\ \A u : On(u, ready) <=> On(u, ready_list) \/ u = current
      BY <2>2, <3>1, AppendIs
    <3> HIDE DEF ready, stat
    <3> QED
      BY <1>1, <3>2 DEF SchedOK, QueueOf
  <2> QED
    BY <2>1, <2>2
<1> HIDE DEF stat, ready
<1>4. SchedOK' /\ \A t \in Thread : Follows(stat[t], status'[t])
  BY <1>1, <1>2, <1>3, ScheduleIs
<1> QED
  BY <1>1, <1>4 DEF Follows, Keeps, Live

LEMMA ExitIs ==
  ASSUME StockAssumption, SchedOK, thread_exit, current \in Thread \ {Main}
  PROVE  /\ SchedOK' /\ \A t \in Thread : t # current => Keeps(t)
         /\ status'[current] = "FREE"
<1> DEFINE stat == [status EXCEPT ![current] = "DYING"]
<1>1. /\ current \in AnyThread /\ stat \in [AnyThread -> Status \cup {"DYING"}]
      /\ \A t \in AnyThread : stat[t] = IF t = current THEN "DYING" ELSE status[t]
      /\ \A t \in AnyThread : stat[t] # "RUNNING" /\ (stat[t] = "DYING" => t = current)
      /\ Thread \subseteq AnyThread
  BY DEF SchedOK, Status, AnyThread
<1>2. schedule(ready_list, stat)
  BY DEF thread_exit
<1> HIDE DEF stat
<1>3. QueueOf(ready_list, stat)
  BY <1>1 DEF SchedOK, QueueOf
<1>4. SchedOK' /\ \A t \in Thread : Follows(stat[t], status'[t])
  BY <1>1, <1>2, <1>3, ScheduleIs
<1>5. status'[current] = "FREE"
  <2>1. status'[current] \in Status
    BY <1>1, <1>4 DEF SchedOK
  <2> QED
    BY <1>1, <1>4, <2>1 DEF Follows, Status
<1> QED
  BY <1>1, <1>4, <1>5 DEF Follows, Keeps, Live

LEMMA UnblockIs ==
  ASSUME StockAssumption, SchedOK, NEW t \in Thread, status[t] \in {"BLOCKED", "FREE"}, thread_unblock(t)
  PROVE  SchedOK' /\ status'[t] = "READY" /\ \A u \in Thread : u # t => status'[u] = status[u]
<1>1. /\ ready_list' = Append(ready_list, t) /\ current' = current
      /\ status' = [status EXCEPT ![t] = "READY"]
  BY DEF thread_unblock
<1>2. /\ ~On(t, ready_list) /\ ready_list \in Seq(Thread) /\ Once(ready_list)
      /\ Thread \subseteq AnyThread /\ status \in [AnyThread -> Status] /\ t # current
  BY DEF SchedOK, QueueOf, AnyThread
<1>3. /\ ready_list' \in Seq(Thread) /\ Once(ready_list')
      /\ \A u : On(u, ready_list') <=> On(u, ready_list) \/ u = t
  BY <1>1, <1>2, AppendIs
<1>4. status' \in [AnyThread -> Status]
      /\ \A u \in AnyThread : status'[u] = IF u = t THEN "READY" ELSE status[u]
  BY <1>1, <1>2 DEF Status
<1>5. QueueOf(ready_list', status')
  BY <1>2, <1>3, <1>4 DEF SchedOK, QueueOf
<1>6. SchedOK'
  BY <1>1, <1>2, <1>4, <1>5 DEF SchedOK
<1> QED
  BY <1>2, <1>4, <1>6

LEMMA TickIs ==
  ASSUME StockAssumption, SchedOK, thread_tick
  PROVE  SchedOK' /\ \A t \in Thread : Keeps(t)
<1>1. CASE thread_yield
  BY <1>1, YieldIs
<1>2. CASE UNCHANGED <<current, status, ready_list>>
  BY <1>2 DEF SchedOK, QueueOf, Keeps
<1> QED
  BY <1>1, <1>2 DEF thread_tick

-----------------------------------------------------------------------------
(* The semaphores' waiters.                                                *)

(* A step that blocks and wakes nobody.                                    *)
LEMMA WaitersKeep ==
  ASSUME WaitersOK, waiters' = waiters,
         \A t \in Thread : /\ status'[t] = "BLOCKED" <=> status[t] = "BLOCKED"
                           /\ status[t] = "BLOCKED" => pc'[t].at = pc[t].at
  PROVE  WaitersOK'
<1>1. ASSUME NEW t \in Thread, NEW s \in Sema
      PROVE  On(t, waiters'[s]) <=> status'[t] = "BLOCKED" /\ pc'[t].at = Place(s)
  <2>1. On(t, waiters[s]) <=> status[t] = "BLOCKED" /\ pc[t].at = Place(s)
    BY DEF WaitersOK
  <2> QED
    BY <2>1
<1>2. ASSUME NEW t \in Thread, status'[t] = "BLOCKED"
      PROVE  \E s \in Sema : pc'[t].at = Place(s)
  <2>1. PICK s \in Sema : pc[t].at = Place(s)
    BY <1>2 DEF WaitersOK
  <2> QED
    BY <1>2, <2>1
<1> QED
  BY <1>1, <1>2 DEF WaitersOK

(* sema_down, called from its place: the thread gets by, or waits there.   *)
LEMMA DownIs ==
  ASSUME StockAssumption, SchedOK, WaitersOK, current \in Thread, value \in [Sema -> Nat],
         NEW s \in Sema, pc[current].at = Place(s), sema_down(s),
         \A r \in Sema : Place(r) = Place(s) => r = s,
         \A t \in Thread : t # current \/ ~Passes(s) => pc'[t].at = pc[t].at
  PROVE  /\ SchedOK' /\ WaitersOK' /\ value' \in [Sema -> Nat]
         /\ \A t \in Thread : status'[t] = "FREE" <=> status[t] = "FREE"
         /\ ~Passes(s) => value' = value
         /\ Passes(s) => value[s] # 0 /\ value' = [value EXCEPT ![s] = @ - 1]
<1>1. status[current] = "RUNNING" /\ \A t \in Thread : t # current => status[t] # "RUNNING"
  BY DEF SchedOK, AnyThread
<1>2. CASE value[s] = 0
  <2>1. /\ waiters' = [waiters EXCEPT ![s] = Append(@, current)] /\ thread_block /\ value' = value
        /\ ~Passes(s)
    BY <1>2 DEF sema_down, Passes
  <2>2. /\ SchedOK' /\ \A t \in Thread : t # current => Keeps(t)
        /\ status'[current] = "BLOCKED"
    BY <2>1, BlockIs
  <2>3. \A t \in Thread : /\ status'[t] = "BLOCKED" <=> status[t] = "BLOCKED" \/ t = current
                          /\ status'[t] = "FREE" <=> status[t] = "FREE"
                          /\ pc'[t].at = pc[t].at
    BY <1>1, <2>1, <2>2 DEF Keeps, Live
  <2>4. /\ waiters[s] \in Seq(Thread) /\ Once(waiters[s]) /\ ~On(current, waiters[s])
    BY <1>1 DEF WaitersOK
  <2>5. /\ waiters'[s] \in Seq(Thread) /\ Once(waiters'[s])
        /\ \A u : On(u, waiters'[s]) <=> On(u, waiters[s]) \/ u = current
        /\ waiters' \in [Sema -> Seq(Thread)]
        /\ \A r \in Sema : r # s => waiters'[r] = waiters[r]
    <3>1. /\ Append(waiters[s], current) \in Seq(Thread) /\ Once(Append(waiters[s], current))
          /\ \A u : On(u, Append(waiters[s], current)) <=> On(u, waiters[s]) \/ u = current
      BY <2>4, AppendIs
    <3>2. waiters'[s] = Append(waiters[s], current)
      BY <2>1 DEF WaitersOK
    <3> QED
      BY <2>1, <3>1, <3>2 DEF WaitersOK
  <2>6. \A r \in Sema : Once(waiters'[r])
    BY <2>5 DEF WaitersOK
  <2>7. ASSUME NEW t \in Thread, NEW r \in Sema
        PROVE  On(t, waiters'[r]) <=> status'[t] = "BLOCKED" /\ pc'[t].at = Place(r)
    <3>1. On(t, waiters[r]) <=> status[t] = "BLOCKED" /\ pc[t].at = Place(r)
      BY DEF WaitersOK
    <3>2. t = current => (pc'[t].at = Place(r) <=> r = s)
      BY <2>3
    <3>3. On(t, waiters'[r]) <=> On(t, waiters[r]) \/ (r = s /\ t = current)
      BY <2>5
    <3>4. CASE t = current
      BY <1>1, <2>3, <3>1, <3>2, <3>3, <3>4
    <3>5. CASE t # current
      BY <2>3, <3>1, <3>3, <3>5
    <3> QED
      BY <3>4, <3>5
  <2>8. ASSUME NEW t \in Thread, status'[t] = "BLOCKED"
        PROVE  \E r \in Sema : pc'[t].at = Place(r)
    <3>1. CASE t = current
      BY <2>3, <3>1
    <3>2. CASE t # current
      <4>1. PICK r \in Sema : pc[t].at = Place(r)
        BY <2>3, <2>8, <3>2 DEF WaitersOK
      <4> QED
        BY <2>3, <4>1
    <3> QED
      BY <3>1, <3>2
  <2>9. WaitersOK'
    BY <2>5, <2>6, <2>7, <2>8 DEF WaitersOK
  <2>10. value' \in [Sema -> Nat]
    BY <2>1
  <2> QED
    BY <2>1, <2>2, <2>3, <2>9, <2>10
<1>3. CASE value[s] # 0
  <2>1. /\ value' = [value EXCEPT ![s] = @ - 1] /\ waiters' = waiters
        /\ current' = current /\ status' = status /\ ready_list' = ready_list
    BY <1>3 DEF sema_down, schedVars
  <2>2. SchedOK'
    BY <2>1 DEF SchedOK, QueueOf
  <2>3. Passes(s) /\ value' \in [Sema -> Nat]
    BY <1>3, <2>1 DEF Passes
  <2>4. WaitersOK'
    BY <1>1, <2>1, WaitersKeep
  <2> QED
    BY <1>3, <2>1, <2>2, <2>3, <2>4
<1> QED
  BY <1>2, <1>3

(* sema_up, by the current thread or by an interrupt handler: a waiter may *)
(* be ready again; he is still where he waited.                            *)
LEMMA UpIs ==
  ASSUME StockAssumption, SchedOK, WaitersOK, value \in [Sema -> Nat],
         NEW s \in Sema, sema_up(s),
         \A r \in Sema : Place(r) = Place(s) => r = s,
         \A t \in Thread : t # current => pc'[t].at = pc[t].at,
         \A t \in Thread : status[t] # "RUNNING" => pc'[t].at = pc[t].at
  PROVE  /\ SchedOK' /\ WaitersOK' /\ value' = [value EXCEPT ![s] = @ + 1]
         /\ value' \in [Sema -> Nat]
         /\ \A t \in Thread : status'[t] = "FREE" <=> status[t] = "FREE"
<1>1. value' = [value EXCEPT ![s] = @ + 1] /\ value' \in [Sema -> Nat]
  BY DEF sema_up
<1>2. CASE waiters[s] = <<>>
  <2>1. /\ waiters' = waiters
        /\ current' = current /\ status' = status /\ ready_list' = ready_list
    BY <1>2 DEF sema_up, schedVars
  <2>2. SchedOK'
    BY <2>1 DEF SchedOK, QueueOf
  <2>3. WaitersOK'
    BY <2>1, WaitersKeep
  <2> QED
    BY <1>1, <2>1, <2>2, <2>3
<1>3. CASE waiters[s] # <<>>
  <2> DEFINE h == Head(waiters[s])
  <2>1. thread_unblock(h) /\ waiters' = [waiters EXCEPT ![s] = Tail(@)]
    BY <1>3 DEF sema_up
  <2>2. waiters[s] \in Seq(Thread) /\ Once(waiters[s])
    BY DEF WaitersOK
  <2>3. /\ h \in Thread /\ On(h, waiters[s])
        /\ Tail(waiters[s]) \in Seq(Thread) /\ Once(Tail(waiters[s]))
        /\ \A u : On(u, Tail(waiters[s])) <=> On(u, waiters[s]) /\ u # h
    BY <1>3, <2>2, TailIs
  <2>4. waiters'[s] = Tail(waiters[s]) /\ waiters' \in [Sema -> Seq(Thread)]
        /\ \A r \in Sema : r # s => waiters'[r] = waiters[r]
    BY <2>1, <2>3 DEF WaitersOK
  <2> HIDE DEF h
  <2>5. status[h] = "BLOCKED" /\ pc[h].at = Place(s)
    BY <2>3 DEF WaitersOK
  <2>6. SchedOK' /\ status'[h] = "READY" /\ \A u \in Thread : u # h => status'[u] = status[u]
    BY <2>1, <2>3, <2>5, UnblockIs
  <2>7. \A t \in Thread : status[t] = "BLOCKED" => pc'[t].at = pc[t].at
    OBVIOUS
  <2>8. ASSUME NEW t \in Thread, NEW r \in Sema
        PROVE  On(t, waiters'[r]) <=> status'[t] = "BLOCKED" /\ pc'[t].at = Place(r)
    <3>1. On(t, waiters[r]) <=> status[t] = "BLOCKED" /\ pc[t].at = Place(r)
      BY DEF WaitersOK
    <3>2. CASE t = h
      <4>1. ~On(t, waiters'[r])
        BY <2>3, <2>4, <2>5, <3>1, <3>2
      <4> QED
        BY <2>6, <3>2, <4>1
    <3>3. CASE t # h
      <4>1. On(t, waiters'[r]) <=> On(t, waiters[r])
        BY <2>3, <2>4, <3>3
      <4> QED
        BY <2>6, <2>7, <3>1, <3>3, <4>1
    <3> QED
      BY <3>2, <3>3
  <2>9. \A r \in Sema : Once(waiters'[r])
    BY <2>3, <2>4 DEF WaitersOK
  <2>10. \A t \in Thread : status'[t] = "BLOCKED" => \E r \in Sema : pc'[t].at = Place(r)
    BY <2>6, <2>7 DEF WaitersOK
  <2>11. WaitersOK'
    BY <2>4, <2>8, <2>9, <2>10 DEF WaitersOK
  <2>12. \A t \in Thread : status'[t] = "FREE" <=> status[t] = "FREE"
    BY <2>5, <2>6
  <2> QED
    BY <1>1, <2>6, <2>11, <2>12
<1> QED
  BY <1>2, <1>3

-----------------------------------------------------------------------------
(* The current thread, and the frames it goes through.                     *)
Assumptions == StockAssumption /\ IdeAssumption

LEMMA PlaceIs ==
  ASSUME IdeAssumption
  PROVE  /\ channel_lock \in Sema /\ completion_wait \in Sema /\ channel_lock \in Lock
         /\ Place(channel_lock) = "acquire" /\ Place(completion_wait) = "complete"
         /\ \A r, s \in Sema : Place(r) = Place(s) => r = s
BY DEF IdeAssumption, Place

LEMMA HereIs ==
  ASSUME ThreadsInv, current # Idle
  PROVE  /\ current \in Thread /\ status[current] = "RUNNING" /\ pc[current] \in Frames
         /\ \A t \in Thread : t # current => status[t] # "RUNNING"
BY DEF ThreadsInv, SchedOK, TypesOK, AnyThread

LEMMA OneDrives ==
  ASSUME ThreadsInv, NEW t \in Thread, NEW u \in Thread, Driving(pc[t]), Driving(pc[u])
  PROVE  t = u
<1>1. \A w \in Thread : Driving(pc[w]) => Within(pc[w]) \/ pc[w].op = "identify"
  BY DEF ThreadsInv, TypesOK, BootOK, Driving, Within, Holds, Frames
<1>2. \A w \in Thread : pc[w].op = "identify" => w = Main /\ probing # 2
  BY DEF ThreadsInv, BootOK, Disk
<1>3. \A w \in Thread : probing # 2 /\ w # Main => ~Driving(pc[w])
  BY DEF ThreadsInv, BootOK, Driving
<1>4. \A w, x \in Thread : Within(pc[w]) /\ Within(pc[x]) => w = x
  BY DEF ThreadsInv, LockOK
<1> QED
  BY <1>1, <1>2, <1>3, <1>4

LEMMA FrameIs ==
  ASSUME ThreadsInv, current \in Thread, NEW f \in Frames, pc' = [pc EXCEPT ![current] = f]
  PROVE  /\ pc' \in [Thread -> Frames] /\ pc'[current] = f
         /\ \A t \in Thread : t # current => pc'[t] = pc[t]
BY DEF ThreadsInv, TypesOK

LEMMA GotoIs ==
  ASSUME ThreadsInv, current \in Thread, NEW l, Goto(l),
         l \in {"user", "acquire", "own", "identified", "disown", "up"} \cup Commanding
  PROVE  /\ pc' = [pc EXCEPT ![current] = [pc[current] EXCEPT !.at = l]]
         /\ [pc[current] EXCEPT !.at = l] \in Frames
BY DEF ThreadsInv, TypesOK, Goto, Frames

(* The current thread goes from a frame to another; no list and no lock    *)
(* has changed.                                                            *)
Onward(f, g) ==
  /\ g.op = f.op /\ f.at # "user" /\ g.at # "user"
  /\ Holds(g) <=> Holds(f)
  /\ Within(g) <=> Within(f)
  /\ g.at = "identified" => g.op = "identify"
  /\ g.op = "identify" => g.at \in Commanding \cup {"identified"}

LEMMA QuietIs ==
  ASSUME SchedOK, WaitersOK, UNCHANGED <<schedVars, waiters>>,
         \A t \in Thread : t # current => pc'[t] = pc[t]
  PROVE  SchedOK' /\ WaitersOK'
<1>1. UNCHANGED <<current, status, ready_list, waiters>>
  BY DEF schedVars
<1>2. SchedOK'
  BY <1>1 DEF SchedOK, QueueOf
<1>3. \A t \in Thread : status[t] = "BLOCKED" => t # current
  BY DEF SchedOK, AnyThread
<1>4. WaitersOK'
  BY <1>1, <1>3, WaitersKeep
<1> QED
  BY <1>2, <1>4

LEMMA OnwardIs ==
  ASSUME ThreadsInv, current \in Thread, NEW f \in Frames, pc' = [pc EXCEPT ![current] = f],
         UNCHANGED <<stockVars, probing>>, Onward(pc[current], f)
  PROVE  /\ SchedOK' /\ WaitersOK' /\ LockOK' /\ BootOK'
         /\ pc' \in [Thread -> Frames] /\ pc'[current] = f
         /\ \A t \in Thread : t # current => pc'[t] = pc[t]
<1>1. /\ pc' \in [Thread -> Frames] /\ pc'[current] = f
      /\ \A t \in Thread : t # current => pc'[t] = pc[t]
  BY FrameIs
<1>2. UNCHANGED <<schedVars, waiters, status, value, holder, probing>>
  BY DEF stockVars, semaVars, schedVars
<1>3. SchedOK' /\ WaitersOK'
  BY <1>1, <1>2, QuietIs DEF ThreadsInv
<1>4. \A t \in Thread : (Holds(pc'[t]) <=> Holds(pc[t])) /\ (Within(pc'[t]) <=> Within(pc[t]))
  BY <1>1 DEF Onward
<1>5. LockOK'
  BY <1>2, <1>4 DEF ThreadsInv, LockOK
<1>6. BootOK'
  BY <1>1, <1>2 DEF ThreadsInv, BootOK, Onward, Commanding
<1> QED
  BY <1>1, <1>3, <1>5, <1>6

(* What is asked of a frame with the controller's state as it was.         *)
Equipped(f) ==
  /\ f.at \in {"input", "output"} => drq
  /\ f.at = "input" => f.op # "write"
  /\ f.at = "output" => f.op = "write"
  /\ f.op = "write" => f.data \in Data

LEMMA HardwareKeeps ==
  ASSUME HardwareOK, UNCHANGED <<bsy, drq, job, buf, platter>>, irq' \in BOOLEAN,
         \A t \in Thread : pc'[t] = pc[t] \/ Equipped(pc'[t])
  PROVE  HardwareOK'
BY DEF HardwareOK, Equipped

-----------------------------------------------------------------------------
(* ThreadsInv, action by action.                                           *)
LEMMA PanicThreads ==
  ASSUME ThreadsInv, Panic
  PROVE  ThreadsInv'
<1>1. /\ UNCHANGED <<current, status, ready_list, value, waiters, holder, pc>>
      /\ UNCHANGED <<is_ata, registered, probing, expecting_interrupt, selected, lba>>
      /\ UNCHANGED <<bsy, drq, irq, job, buf, platter>> /\ panicked' = TRUE
  BY DEF Panic, stockVars, schedVars, semaVars, driverVars, hardware, registers, controller
<1> QED
  BY <1>1 DEF ThreadsInv, SchedOK, QueueOf, WaitersOK, TypesOK, HardwareOK, LockOK, BootOK

LEMMA DetectThreads ==
  ASSUME Assumptions, ThreadsInv, Detect
  PROVE  ThreadsInv'
<1>1. /\ UNCHANGED <<current, status, ready_list, value, waiters, holder, pc>>
      /\ UNCHANGED <<registered, expecting_interrupt, panicked, lba>>
      /\ UNCHANGED <<bsy, drq, irq, job, buf, platter>>
      /\ probing = -1 /\ probing' = 0 /\ selected' \in Disk
  BY DEF Detect, stockVars, schedVars, semaVars, controller
<1>2. is_ata' \in [Disk -> BOOLEAN]
  BY DEF Detect
<1>3. TypesOK'
  BY <1>1, <1>2 DEF ThreadsInv, TypesOK
<1>4. BootOK'
  <2>1. -1 \notin Disk /\ 0 \in Disk
    BY DEF Disk
  <2> QED
    BY <1>1, <2>1 DEF ThreadsInv, BootOK
<1> QED
  BY <1>1, <1>3, <1>4 DEF ThreadsInv, SchedOK, QueueOf, WaitersOK, HardwareOK, LockOK

(* Main goes from one disk to the next, or begins to identify one.         *)
LEMMA ProbeThreads ==
  ASSUME Assumptions, ThreadsInv, Probe
  PROVE  ThreadsInv'
<1>1. /\ UNCHANGED <<current, status, ready_list, value, waiters, holder, schedVars>>
      /\ UNCHANGED <<is_ata, registered, expecting_interrupt, panicked, selected, lba>>
      /\ UNCHANGED <<bsy, drq, irq, job, buf, platter>>
      /\ current = Main /\ probing \in Disk /\ pc[current].at = "user"
  BY DEF Probe, At, Me, stockVars, schedVars, semaVars, controller, hardware, registers
<1>2. /\ Main \in Thread /\ current \in Thread /\ 0 \in Sector
      /\ \A d \in Disk : d \in 0 .. 1 /\ d + 1 \in -1 .. 2
  BY <1>1 DEF Assumptions, StockAssumption, IdeAssumption, Sector, Disk
<1>3. CASE pc' = pc /\ probing' = probing + 1
  <2>1. TypesOK'
    BY <1>1, <1>2, <1>3 DEF ThreadsInv, TypesOK
  <2>2. \A t \in Thread : pc[t].op # "identify"
    BY <1>1 DEF ThreadsInv, BootOK, Commanding
  <2>3. BootOK'
    BY <1>1, <1>2, <1>3, <2>2 DEF ThreadsInv, BootOK, Disk
  <2> QED
    BY <1>1, <1>3, <2>1, <2>3 DEF ThreadsInv, SchedOK, QueueOf, WaitersOK, HardwareOK, LockOK
<1>4. CASE /\ probing' = probing
           /\ pc' = [pc EXCEPT ![Main] = Frame("idle", "identify", probing, 0, NULL)]
  <2> DEFINE f == Frame("idle", "identify", probing, 0, NULL)
  <2>1. f \in Frames /\ f.at = "idle" /\ f.op = "identify"
    BY <1>1, <1>2 DEF Frame, Frames, Commanding
  <2> HIDE DEF f
  <2>2. /\ pc' \in [Thread -> Frames] /\ pc'[current] = f
        /\ \A t \in Thread : t # current => pc'[t] = pc[t]
    BY <1>1, <1>2, <1>4, <2>1, FrameIs DEF f
  <2>3. SchedOK' /\ WaitersOK'
    BY <1>1, <2>2, QuietIs DEF ThreadsInv
  <2>4. TypesOK'
    BY <1>1, <1>4, <2>2 DEF ThreadsInv, TypesOK
  <2>5. HardwareOK'
    BY <1>1, <2>1, <2>2, HardwareKeeps DEF ThreadsInv, HardwareOK, Equipped
  <2>6. \A t \in Thread : (Holds(pc'[t]) <=> Holds(pc[t])) /\ (Within(pc'[t]) <=> Within(pc[t]))
    BY <1>1, <2>1, <2>2 DEF Within, Holds, Commanding
  <2>7. LockOK'
    BY <1>1, <2>6 DEF ThreadsInv, LockOK
  <2>8. BootOK'
    <3>1. status[Main] # "FREE" /\ f.at \in Commanding /\ f.at # "identified"
      BY <2>1 DEF ThreadsInv, BootOK, Commanding
    <3> QED
      BY <1>1, <1>4, <2>1, <2>2, <3>1 DEF ThreadsInv, BootOK
  <2> QED
    BY <2>3, <2>4, <2>5, <2>7, <2>8 DEF ThreadsInv
<1> QED
  BY <1>3, <1>4 DEF Probe

(* Main is done with a disk, one way or another.                           *)
LEMMA NextDisk ==
  ASSUME Assumptions, ThreadsInv, current \in Thread, pc[current].op = "identify",
         NEW f \in Frames, pc' = [pc EXCEPT ![current] = f], probing' = probing + 1,
         (f.at = "user" /\ f.op = "none") \/ (f.at = "acquire" /\ f.op = "read"),
         UNCHANGED <<stockVars, expecting_interrupt, panicked, hardware>>,
         is_ata' \in [Disk -> BOOLEAN], registered' \in [Disk -> BOOLEAN]
  PROVE  ThreadsInv'
<1>1. /\ UNCHANGED <<current, status, ready_list, value, waiters, holder, schedVars>>
      /\ UNCHANGED <<expecting_interrupt, panicked, selected, lba>>
      /\ UNCHANGED <<bsy, drq, irq, job, buf, platter>>
  BY DEF stockVars, schedVars, semaVars, controller, hardware, registers
<1>2. current = Main /\ probing \in Disk /\ probing' \in -1 .. 2
  BY DEF ThreadsInv, BootOK, Disk
<1>3. /\ pc' \in [Thread -> Frames] /\ pc'[current] = f
      /\ \A t \in Thread : t # current => pc'[t] = pc[t]
  BY FrameIs
<1>4. SchedOK' /\ WaitersOK'
  BY <1>1, <1>3, QuietIs DEF ThreadsInv
<1>5. TypesOK'
  BY <1>1, <1>2, <1>3 DEF ThreadsInv, TypesOK
<1>6. HardwareOK'
  BY <1>1, <1>3, HardwareKeeps DEF ThreadsInv, HardwareOK, Equipped
<1>7. \A t \in Thread : (Holds(pc'[t]) <=> Holds(pc[t])) /\ (Within(pc'[t]) <=> Within(pc[t]))
  BY <1>1, <1>2, <1>3 DEF Within, Holds, Commanding, ThreadsInv, BootOK
<1>8. LockOK'
  BY <1>1, <1>7 DEF ThreadsInv, LockOK
<1>9. BootOK'
  <2>1. \A t \in Thread : t # Main => pc[t].op # "identify" /\ status[t] = "FREE"
    BY <1>2 DEF ThreadsInv, BootOK, Disk
  <2> QED
    BY <1>1, <1>2, <1>3, <2>1 DEF ThreadsInv, BootOK
<1> QED
  BY <1>4, <1>5, <1>6, <1>8, <1>9 DEF ThreadsInv

LEMMA IgnoreThreads ==
  ASSUME Assumptions, ThreadsInv, current \in Thread, pc[current].op = "identify", Ignore
  PROVE  ThreadsInv'
<1>1. User \in Frames /\ User.at = "user" /\ User.op = "none"
  BY DEF User, Frame, Frames, Disk, Sector, Assumptions, IdeAssumption
<1>2. is_ata' \in [Disk -> BOOLEAN] /\ registered' \in [Disk -> BOOLEAN]
  BY DEF Ignore, ThreadsInv, TypesOK
<1>3. /\ pc' = [pc EXCEPT ![current] = User] /\ probing' = probing + 1
      /\ UNCHANGED <<stockVars, expecting_interrupt, panicked, hardware>>
  BY DEF Ignore
<1> HIDE DEF User
<1> QED
  BY <1>1, <1>2, <1>3, NextDisk

LEMMA RegisterThreads ==
  ASSUME Assumptions, ThreadsInv, Register
  PROVE  ThreadsInv'
<1>1. current \in Thread /\ pc[current] \in Frames /\ pc[current].op = "identify"
  <2>1. current # Idle /\ pc[current].at = "identified"
    BY DEF Register, At, Running, Me
  <2> QED
    BY <2>1, HereIs DEF ThreadsInv, BootOK
<1>2. CASE Ignore
  BY <1>1, <1>2, IgnoreThreads
<1>3. CASE /\ registered' = [registered EXCEPT ![Me.disk] = TRUE]
           /\ probing' = probing + 1
           /\ pc' = [pc EXCEPT ![current] = Frame("acquire", "read", Me.disk, 0, NULL)]
           /\ UNCHANGED <<stockVars, is_ata, expecting_interrupt, panicked, hardware>>
  <2> DEFINE f == Frame("acquire", "read", Me.disk, 0, NULL)
  <2>1. f \in Frames /\ f.at = "acquire" /\ f.op = "read"
    BY <1>1 DEF Frame, Frames, Sector, Assumptions, IdeAssumption, Me
  <2> HIDE DEF f
  <2>2. is_ata' \in [Disk -> BOOLEAN] /\ registered' \in [Disk -> BOOLEAN]
    BY <1>3 DEF ThreadsInv, TypesOK
  <2> QED
    BY <1>1, <1>3, <2>1, <2>2, NextDisk DEF f
<1> QED
  BY <1>2, <1>3 DEF Register

LEMMA RequestThreads ==
  ASSUME Assumptions, ThreadsInv, Request
  PROVE  ThreadsInv'
<1>1. CASE Panic
  BY <1>1, PanicThreads
<1>2. ASSUME NEW d \in Disk, NEW s \in Sector, NEW v \in Data \cup {NULL},
             pc' = [pc EXCEPT ![current] =
                      Frame("acquire", IF v = NULL THEN "read" ELSE "write", d, s, v)],
             UNCHANGED <<stockVars, driverVars, panicked, hardware>>
      PROVE  ThreadsInv'
  <2> DEFINE f == Frame("acquire", IF v = NULL THEN "read" ELSE "write", d, s, v)
  <2>1. /\ UNCHANGED <<current, status, ready_list, value, waiters, holder, schedVars>>
        /\ UNCHANGED <<is_ata, registered, probing, expecting_interrupt, panicked, selected, lba>>
        /\ UNCHANGED <<bsy, drq, irq, job, buf, platter>>
    BY <1>2 DEF stockVars, schedVars, semaVars, controller, hardware, registers, driverVars
  <2>2. /\ current \in Thread /\ pc[current].at = "user" /\ (current = Main => probing = 2)
        /\ status[current] = "RUNNING"
    BY HereIs DEF Request, At, Running, Me
  <2>3. /\ f \in Frames /\ f.at = "acquire" /\ f.op \in {"read", "write"}
        /\ f.op = "write" => f.data \in Data
    BY DEF Frame, Frames
  <2> HIDE DEF f
  <2>4. /\ pc' \in [Thread -> Frames] /\ pc'[current] = f
        /\ \A t \in Thread : t # current => pc'[t] = pc[t]
    BY <1>2, <2>2, <2>3, FrameIs DEF f
  <2>5. SchedOK' /\ WaitersOK'
    BY <2>1, <2>4, QuietIs DEF ThreadsInv
  <2>6. TypesOK'
    BY <2>1, <2>4 DEF ThreadsInv, TypesOK
  <2>7. HardwareOK'
    BY <2>1, <2>3, <2>4, HardwareKeeps DEF ThreadsInv, HardwareOK, Equipped
  <2>8. \A t \in Thread : (Holds(pc'[t]) <=> Holds(pc[t])) /\ (Within(pc'[t]) <=> Within(pc[t]))
    BY <2>2, <2>3, <2>4 DEF Within, Holds, Commanding
  <2>9. LockOK'
    BY <2>1, <2>8 DEF ThreadsInv, LockOK
  <2>10. BootOK'
    BY <2>1, <2>2, <2>3, <2>4 DEF ThreadsInv, BootOK
  <2> QED
    BY <2>5, <2>6, <2>7, <2>9, <2>10 DEF ThreadsInv
<1> QED
  BY <1>1, <1>2 DEF Request

(* sema_down(channel_lock): the lock is his as soon as he gets by.         *)
LEMMA AcquireThreads ==
  ASSUME Assumptions, ThreadsInv, Acquire
  PROVE  ThreadsInv'
<1> DEFINE l == IF Passes(channel_lock) THEN "own" ELSE "acquire"
           f == [pc[current] EXCEPT !.at = l]
<1>1. /\ current \in Thread /\ pc[current] \in Frames /\ pc[current].at = "acquire"
      /\ status[current] = "RUNNING"
  BY HereIs DEF Acquire, At, Running, Me
<1>2. /\ UNCHANGED <<holder, is_ata, registered, probing, expecting_interrupt, panicked>>
      /\ UNCHANGED <<selected, lba, bsy, drq, irq, job, buf, platter>>
      /\ sema_down(channel_lock) /\ Goto(l)
  BY DEF Acquire, controller, hardware, registers, driverVars
<1>3. /\ pc' = [pc EXCEPT ![current] = f] /\ f \in Frames /\ f.at = l /\ f.op = pc[current].op
      /\ f.data = pc[current].data
  BY <1>1, <1>2, GotoIs DEF Frames
<1> HIDE DEF f
<1>4. /\ pc' \in [Thread -> Frames] /\ pc'[current] = f
      /\ \A t \in Thread : t # current => pc'[t] = pc[t]
  BY <1>1, <1>3, FrameIs
<1>5. /\ channel_lock \in Sema /\ completion_wait \in Sema /\ channel_lock \in Lock
      /\ Place(channel_lock) = "acquire" /\ \A r, s \in Sema : Place(r) = Place(s) => r = s
  BY PlaceIs DEF Assumptions
<1>6. /\ SchedOK' /\ WaitersOK' /\ value' \in [Sema -> Nat]
      /\ \A t \in Thread : status'[t] = "FREE" <=> status[t] = "FREE"
      /\ ~Passes(channel_lock) => value' = value
      /\ Passes(channel_lock) =>
           value[channel_lock] # 0 /\ value' = [value EXCEPT ![channel_lock] = @ - 1]
  BY <1>1, <1>2, <1>3, <1>4, <1>5, DownIs DEF ThreadsInv, TypesOK, Assumptions
<1>7. TypesOK'
  BY <1>2, <1>4, <1>6 DEF ThreadsInv, TypesOK
<1>8. HardwareOK'
  BY <1>1, <1>2, <1>3, <1>4, HardwareKeeps DEF ThreadsInv, HardwareOK, Equipped
<1>9. pc[current].op \notin {"identify", "none"} /\ Main \in Thread
  BY <1>1 DEF ThreadsInv, BootOK, Commanding, Assumptions, StockAssumption
<1>10. BootOK'
  BY <1>2, <1>3, <1>4, <1>6, <1>9 DEF ThreadsInv, BootOK
<1>11. LockOK'
  <2>1. CASE ~Passes(channel_lock)
    <3>1. \A t \in Thread : (Holds(pc'[t]) <=> Holds(pc[t])) /\ (Within(pc'[t]) <=> Within(pc[t]))
      BY <1>1, <1>3, <1>4, <2>1 DEF Within, Holds, Commanding
    <3> QED
      BY <1>2, <1>6, <2>1, <3>1 DEF ThreadsInv, LockOK
  <2>2. CASE Passes(channel_lock)
    <3>1. /\ value[channel_lock] = 1 /\ value'[channel_lock] = 0
          /\ \A t \in Thread : ~Within(pc[t])
      BY <1>5, <1>6, <2>2 DEF ThreadsInv, LockOK, TypesOK
    <3>2. /\ Within(f) /\ ~Holds(f)
          /\ \A t \in Thread : ~Holds(pc[t])
      BY <1>3, <2>2, <3>1 DEF Within, Holds, Commanding
    <3> QED
      BY <1>1, <1>2, <1>4, <3>1, <3>2 DEF ThreadsInv, LockOK
  <2> QED
    BY <2>1, <2>2
<1> QED
  BY <1>6, <1>7, <1>8, <1>10, <1>11 DEF ThreadsInv

(* The holder is set while nobody else can have the lock, and reset before *)
(* anybody can.                                                            *)
LEMMA OwnerThreads ==
  ASSUME Assumptions, ThreadsInv, Own \/ Disown
  PROVE  ThreadsInv'
<1> DEFINE l == IF pc[current].at = "own" THEN "idle" ELSE "up"
           f == [pc[current] EXCEPT !.at = l]
<1>1. current \in Thread /\ pc[current] \in Frames /\ Main \in Thread
  BY HereIs DEF Own, Disown, At, Running, Me, Assumptions, StockAssumption
<1>2. /\ UNCHANGED <<is_ata, registered, probing, expecting_interrupt, panicked>>
      /\ UNCHANGED <<schedVars, status, value, waiters>>
      /\ UNCHANGED <<selected, lba, bsy, drq, irq, job, buf, platter>> /\ Goto(l)
  BY DEF Own, Disown, At, Me, controller, hardware, registers, driverVars, schedVars, semaVars
<1>3. /\ pc[current].at \in {"own", "disown"}
      /\ pc[current].at = "own" => holder' = [holder EXCEPT ![channel_lock] = current]
      /\ pc[current].at = "disown" => holder' = [holder EXCEPT ![channel_lock] = NULL]
  BY DEF Own, Disown, At, Me, own, disown
<1>4. /\ pc' = [pc EXCEPT ![current] = f] /\ f \in Frames /\ f.at = l /\ f.op = pc[current].op
      /\ f.data = pc[current].data
  BY <1>1, <1>2, GotoIs DEF Frames, Commanding
<1> HIDE DEF f
<1>5. /\ pc' \in [Thread -> Frames] /\ pc'[current] = f
      /\ \A t \in Thread : t # current => pc'[t] = pc[t]
  BY <1>1, <1>4, FrameIs
<1>6. SchedOK' /\ WaitersOK'
  BY <1>2, <1>5, QuietIs DEF ThreadsInv
<1>7. TypesOK'
  BY <1>1, <1>2, <1>3, <1>5 DEF ThreadsInv, TypesOK
<1>8. HardwareOK'
  BY <1>2, <1>3, <1>4, <1>5, HardwareKeeps DEF ThreadsInv, HardwareOK, Equipped
<1>9. pc[current].op \notin {"identify", "none"}
  BY <1>1, <1>3 DEF ThreadsInv, BootOK, Commanding
<1>10. BootOK'
  BY <1>2, <1>3, <1>4, <1>5, <1>9 DEF ThreadsInv, BootOK
<1>11. LockOK'
  <2>1. channel_lock \in Lock /\ NULL \notin Thread /\ holder \in [Lock -> Thread \cup {NULL}]
    BY PlaceIs DEF Assumptions, StockAssumption, ThreadsInv, TypesOK
  <2>2. /\ Within(pc[current]) /\ Within(f)
        /\ pc[current].at = "own" <=> Holds(f)
    BY <1>3, <1>4, <1>9 DEF Within, Holds, Commanding
  <2>3. \A t \in Thread : t # current => ~Within(pc[t]) /\ ~Holds(pc[t])
    BY <1>1, <2>2 DEF ThreadsInv, LockOK, Within
  <2>4. \A t \in Thread : holder'[channel_lock] = t <=> Holds(pc'[t])
    BY <1>1, <1>3, <1>5, <2>1, <2>2, <2>3
  <2> QED
    BY <1>1, <1>2, <1>5, <2>2, <2>3, <2>4 DEF ThreadsInv, LockOK
<1> QED
  BY <1>6, <1>7, <1>8, <1>10, <1>11 DEF ThreadsInv

(* sema_up(channel_lock): the way out.                                     *)
LEMMA UpThreads ==
  ASSUME Assumptions, ThreadsInv, Up
  PROVE  ThreadsInv'
<1>1. /\ current \in Thread /\ pc[current].at = "up" /\ status[current] = "RUNNING"
      /\ \A t \in Thread : t # current => status[t] # "RUNNING"
  BY HereIs DEF Up, At, Running, Me
<1>2. /\ UNCHANGED <<holder, is_ata, registered, probing, expecting_interrupt, panicked>>
      /\ UNCHANGED <<selected, lba, bsy, drq, irq, job, buf, platter>>
      /\ sema_up(channel_lock) /\ pc' = [pc EXCEPT ![current] = User]
  BY DEF Up, controller, hardware, registers, driverVars
<1>3. User \in Frames /\ User.at = "user" /\ User.op = "none"
  BY DEF User, Frame, Frames, Disk, Sector, Assumptions, IdeAssumption
<1>4. /\ pc' \in [Thread -> Frames] /\ pc'[current] = User
      /\ \A t \in Thread : t # current => pc'[t] = pc[t]
  BY <1>1, <1>2, <1>3, FrameIs
<1>5. /\ channel_lock \in Sema /\ channel_lock \in Lock
      /\ \A r, s \in Sema : Place(r) = Place(s) => r = s
  BY PlaceIs DEF Assumptions
<1>6. /\ SchedOK' /\ WaitersOK' /\ value' = [value EXCEPT ![channel_lock] = @ + 1]
      /\ value' \in [Sema -> Nat]
      /\ \A t \in Thread : status'[t] = "FREE" <=> status[t] = "FREE"
  BY <1>1, <1>2, <1>4, <1>5, UpIs DEF ThreadsInv, TypesOK, Assumptions
<1>7. TypesOK'
  BY <1>2, <1>4, <1>6 DEF ThreadsInv, TypesOK
<1>8. HardwareOK'
  BY <1>2, <1>3, <1>4, HardwareKeeps DEF ThreadsInv, HardwareOK, Equipped
<1>9. pc[current].op # "identify" /\ Main \in Thread
  BY <1>1 DEF ThreadsInv, BootOK, Commanding, Assumptions, StockAssumption
<1>10. BootOK'
  BY <1>1, <1>2, <1>3, <1>4, <1>6, <1>9 DEF ThreadsInv, BootOK
<1>11. LockOK'
  <2>1. Within(pc[current]) /\ ~Holds(pc[current]) /\ ~Within(User) /\ ~Holds(User)
    BY <1>1, <1>3 DEF Within, Holds, Commanding
  <2>2. \A t \in Thread : t # current => ~Within(pc[t])
    BY <1>1, <2>1 DEF ThreadsInv, LockOK
  <2>3. \A t \in Thread : ~Within(pc'[t]) /\ (Holds(pc'[t]) <=> Holds(pc[t]))
    BY <1>4, <2>1, <2>2
  <2>4. value[channel_lock] = 0
    BY <1>1, <2>1 DEF ThreadsInv, LockOK
  <2>5. value'[channel_lock] = 1
    BY <1>5, <1>6, <2>4 DEF ThreadsInv, TypesOK
  <2> QED
    BY <1>2, <2>3, <2>5 DEF ThreadsInv, LockOK
<1> QED
  BY <1>6, <1>7, <1>8, <1>10, <1>11 DEF ThreadsInv

(* The way to a command: no list, lock or controller has changed.          *)
LEMMA ApproachThreads ==
  ASSUME Assumptions, ThreadsInv, WaitUntilIdle \/ Select \/ Expect
  PROVE  ThreadsInv'
<1> DEFINE l == IF pc[current].at = "idle" THEN "select"
                ELSE IF pc[current].at = "select" THEN "expect" ELSE "command"
           f == [pc[current] EXCEPT !.at = l]
<1>1. current \in Thread /\ pc[current] \in Frames
  BY HereIs DEF WaitUntilIdle, Select, Expect, At, Running, Me
<1>2. /\ UNCHANGED <<stockVars, is_ata, registered, probing, panicked>>
      /\ UNCHANGED <<bsy, drq, job, buf, platter, value, holder>> /\ Goto(l)
      /\ pc[current].at \in {"idle", "select", "expect"}
      /\ expecting_interrupt' \in BOOLEAN /\ selected' \in Disk /\ lba' \in Sector /\ irq' \in BOOLEAN
  <2>1. CASE WaitUntilIdle
    BY <2>1 DEF WaitUntilIdle, At, Me, driverVars, registers, stockVars, semaVars, ThreadsInv, TypesOK
  <2>2. CASE Select
    <3>1. lba' = lba \/ lba' = pc[current].sec
      BY <2>2 DEF Select, Me
    <3> QED
      BY <1>1, <2>2, <3>1
         DEF Select, At, Me, driverVars, stockVars, semaVars, ThreadsInv, TypesOK, Frames
  <2>3. CASE Expect
    BY <2>3 DEF Expect, At, Me, hardware, registers, controller, stockVars, semaVars,
                ThreadsInv, TypesOK, HardwareOK
  <2> QED
    BY <2>1, <2>2, <2>3
<1>3. /\ pc' = [pc EXCEPT ![current] = f] /\ f \in Frames /\ f.at = l /\ f.op = pc[current].op
      /\ f.data = pc[current].data
  BY <1>1, <1>2, GotoIs DEF Frames, Commanding
<1> HIDE DEF f
<1>4. Onward(pc[current], f)
  BY <1>2, <1>3 DEF Onward, Holds, Within, Commanding
<1>5. /\ SchedOK' /\ WaitersOK' /\ LockOK' /\ BootOK'
      /\ pc' \in [Thread -> Frames] /\ pc'[current] = f
      /\ \A t \in Thread : t # current => pc'[t] = pc[t]
  BY <1>1, <1>2, <1>3, <1>4, OnwardIs
<1>6. TypesOK'
  BY <1>2, <1>5 DEF ThreadsInv, TypesOK
<1>7. HardwareOK'
  BY <1>1, <1>2, <1>3, <1>5, HardwareKeeps DEF ThreadsInv, HardwareOK, Equipped
<1> QED
  BY <1>5, <1>6, <1>7 DEF ThreadsInv

(* What a step at the controller leaves: the others are not at it.         *)
LEMMA OthersAway ==
  ASSUME ThreadsInv, current \in Thread, Driving(pc[current])
  PROVE  \A t \in Thread : t # current => pc[t].at \in {"user", "acquire"}
BY OneDrives DEF Driving

(* The command is given.                                                   *)
LEMMA CommandThreads ==
  ASSUME Assumptions, ThreadsInv, Command
  PROVE  ThreadsInv'
<1> DEFINE l == IF pc[current].op = "write" THEN "busy" ELSE "complete"
           f == [pc[current] EXCEPT !.at = l]
<1>1. current \in Thread /\ pc[current] \in Frames /\ pc[current].at = "command"
  BY HereIs DEF Command, At, Running, Me
<1>2. /\ UNCHANGED <<stockVars, is_ata, registered, probing, expecting_interrupt, panicked>>
      /\ UNCHANGED <<selected, lba, buf, platter, value, holder>> /\ Goto(l)
      /\ job' = [op |-> pc[current].op, disk |-> selected, sec |-> lba]
      /\ bsy' = TRUE /\ drq' = FALSE /\ irq' = FALSE
  BY DEF Command, Me, driverVars, registers, stockVars, semaVars
<1>3. /\ pc' = [pc EXCEPT ![current] = f] /\ f \in Frames /\ f.at = l /\ f.op = pc[current].op
      /\ f.data = pc[current].data
  BY <1>1, <1>2, GotoIs DEF Frames, Commanding
<1> HIDE DEF f
<1>4. Onward(pc[current], f)
  BY <1>1, <1>3 DEF Onward, Holds, Within, Commanding
<1>5. /\ SchedOK' /\ WaitersOK' /\ LockOK' /\ BootOK'
      /\ pc' \in [Thread -> Frames] /\ pc'[current] = f
      /\ \A t \in Thread : t # current => pc'[t] = pc[t]
  BY <1>1, <1>2, <1>3, <1>4, OnwardIs
<1>6. TypesOK'
  BY <1>2, <1>5 DEF ThreadsInv, TypesOK
<1>7. job' \in Jobs /\ job'.op # "store"
  <2>1. pc[current].op \in {"read", "write", "identify"}
    BY <1>1 DEF ThreadsInv, BootOK, Frames
  <2> QED
    BY <1>2, <2>1 DEF Jobs, ThreadsInv, TypesOK
<1>8. HardwareOK'
  <2>1. \A t \in Thread : t # current => pc[t].at \in {"user", "acquire"}
    BY <1>1, OthersAway DEF Driving
  <2> QED
    BY <1>2, <1>3, <1>5, <1>7, <2>1 DEF ThreadsInv, HardwareOK
<1> QED
  BY <1>5, <1>6, <1>8 DEF ThreadsInv

(* sema_down(completion_wait).                                             *)
LEMMA CompleteThreads ==
  ASSUME Assumptions, ThreadsInv, Complete
  PROVE  ThreadsInv'
<1> DEFINE l == IF ~Passes(completion_wait) THEN "complete"
                ELSE IF pc[current].op = "write" THEN "disown" ELSE "busy"
           f == [pc[current] EXCEPT !.at = l]
<1>1. /\ current \in Thread /\ pc[current] \in Frames /\ pc[current].at = "complete"
      /\ status[current] = "RUNNING"
  BY HereIs DEF Complete, At, Running, Me
<1>2. /\ UNCHANGED <<holder, is_ata, registered, probing, expecting_interrupt, panicked>>
      /\ UNCHANGED <<selected, lba, bsy, drq, irq, job, buf, platter>>
      /\ sema_down(completion_wait) /\ Goto(l)
  BY DEF Complete, Me, controller, hardware, registers, driverVars
<1>3. /\ pc' = [pc EXCEPT ![current] = f] /\ f \in Frames /\ f.at = l /\ f.op = pc[current].op
      /\ f.data = pc[current].data
  BY <1>1, <1>2, GotoIs DEF Frames, Commanding
<1> HIDE DEF f
<1>4. /\ pc' \in [Thread -> Frames] /\ pc'[current] = f
      /\ \A t \in Thread : t # current => pc'[t] = pc[t]
  BY <1>1, <1>3, FrameIs
<1>5. /\ channel_lock \in Sema /\ completion_wait \in Sema /\ channel_lock # completion_wait
      /\ Place(completion_wait) = "complete"
      /\ \A r, s \in Sema : Place(r) = Place(s) => r = s
  BY PlaceIs DEF Assumptions, IdeAssumption
<1>6. /\ SchedOK' /\ WaitersOK' /\ value' \in [Sema -> Nat]
      /\ \A t \in Thread : status'[t] = "FREE" <=> status[t] = "FREE"
      /\ ~Passes(completion_wait) => value' = value
      /\ Passes(completion_wait) =>
           value[completion_wait] # 0 /\ value' = [value EXCEPT ![completion_wait] = @ - 1]
  BY <1>1, <1>2, <1>3, <1>4, <1>5, DownIs DEF ThreadsInv, TypesOK, Assumptions
<1>7. TypesOK'
  BY <1>2, <1>4, <1>6 DEF ThreadsInv, TypesOK
<1>8. HardwareOK'
  BY <1>1, <1>2, <1>3, <1>4, HardwareKeeps DEF ThreadsInv, HardwareOK, Equipped
<1>9. Main \in Thread /\ pc[current].op # "none"
  BY <1>1 DEF ThreadsInv, BootOK, Assumptions, StockAssumption
<1>10. BootOK'
  BY <1>1, <1>2, <1>3, <1>4, <1>6, <1>9 DEF ThreadsInv, BootOK, Commanding
<1>11. LockOK'
  <2>1. value'[channel_lock] = value[channel_lock]
    BY <1>5, <1>6 DEF ThreadsInv, TypesOK
  <2>2. \A t \in Thread : (Holds(pc'[t]) <=> Holds(pc[t])) /\ (Within(pc'[t]) <=> Within(pc[t]))
    BY <1>1, <1>3, <1>4 DEF Within, Holds, Commanding
  <2> QED
    BY <1>2, <2>1, <2>2 DEF ThreadsInv, LockOK
<1> QED
  BY <1>6, <1>7, <1>8, <1>10, <1>11 DEF ThreadsInv

(* Another thread runs; nobody has moved.                                  *)
LEMMA SwitchThreads ==
  ASSUME Assumptions, ThreadsInv, SchedOK',
         UNCHANGED <<semaVars, holder, pc, driverVars, panicked, hardware>>,
         \A t \in Thread : status'[t] = "BLOCKED" <=> status[t] = "BLOCKED",
         \A t \in Thread : status'[t] = "FREE" => status[t] = "FREE" \/ pc[t].at = "user",
         \A t \in Thread : status[t] = "FREE" => status'[t] = "FREE" \/ probing = 2,
         status'[Main] # "FREE"
  PROVE  ThreadsInv'
<1>1. /\ UNCHANGED <<value, waiters, holder, pc>>
      /\ UNCHANGED <<is_ata, registered, probing, expecting_interrupt, panicked, selected, lba>>
      /\ UNCHANGED <<bsy, drq, irq, job, buf, platter>>
  BY DEF semaVars, driverVars, hardware, registers, controller
<1>2. WaitersOK'
  BY <1>1, WaitersKeep DEF ThreadsInv
<1>3. BootOK'
  BY <1>1 DEF ThreadsInv, BootOK
<1>4. TypesOK' /\ HardwareOK' /\ LockOK'
  BY <1>1 DEF ThreadsInv, TypesOK, HardwareOK, LockOK
<1> QED
  BY <1>2, <1>3, <1>4 DEF ThreadsInv

LEMMA KeepsThreads ==
  ASSUME Assumptions, ThreadsInv, SchedOK', \A t \in Thread : Keeps(t),
         UNCHANGED <<semaVars, holder, pc, driverVars, panicked, hardware>>
  PROVE  ThreadsInv'
<1>1. \A t \in Thread : /\ status'[t] = "BLOCKED" <=> status[t] = "BLOCKED"
                        /\ status'[t] = "FREE" <=> status[t] = "FREE"
  BY DEF Keeps, Live
<1>2. status[Main] # "FREE" /\ Main \in Thread
  BY DEF ThreadsInv, BootOK, Assumptions, StockAssumption
<1> QED
  BY <1>1, <1>2, SwitchThreads

LEMMA TickThreads ==
  ASSUME Assumptions, ThreadsInv, Tick
  PROVE  ThreadsInv'
<1>1. thread_tick /\ UNCHANGED <<semaVars, holder, pc, driverVars, panicked, hardware>>
  BY DEF Tick
<1> QED
  BY <1>1, TickIs, KeepsThreads DEF ThreadsInv, Assumptions

LEMMA IdleThreads ==
  ASSUME Assumptions, ThreadsInv, IdleLoop
  PROVE  ThreadsInv'
<1>1. /\ thread_block /\ current = Idle
      /\ UNCHANGED <<semaVars, holder, pc, driverVars, panicked, hardware>>
  BY DEF IdleLoop
<1>2. \A t \in Thread : t # current
  BY <1>1 DEF Assumptions, StockAssumption
<1> QED
  BY <1>1, <1>2, BlockIs, KeepsThreads DEF ThreadsInv, Assumptions

LEMMA CreateThreads ==
  ASSUME Assumptions, ThreadsInv, Create
  PROVE  ThreadsInv'
<1>1. PICK t \in Thread : thread_create(t)
  BY DEF Create
<1>2. /\ status[t] = "FREE" /\ thread_unblock(t) /\ probing = 2
      /\ UNCHANGED <<semaVars, holder, pc, driverVars, panicked, hardware>>
  BY <1>1 DEF Create, thread_create
<1>3. SchedOK' /\ status'[t] = "READY" /\ \A u \in Thread : u # t => status'[u] = status[u]
  BY <1>2, UnblockIs DEF ThreadsInv, Assumptions
<1>4. /\ \A u \in Thread : /\ status'[u] = "BLOCKED" <=> status[u] = "BLOCKED"
                           /\ status'[u] = "FREE" => status[u] = "FREE"
      /\ status'[Main] # "FREE"
  BY <1>2, <1>3 DEF ThreadsInv, BootOK, Assumptions, StockAssumption
<1> QED
  BY <1>2, <1>3, <1>4, SwitchThreads

LEMMA ExitThreads ==
  ASSUME Assumptions, ThreadsInv, Exit
  PROVE  ThreadsInv'
<1>1. /\ thread_exit /\ current \in Thread \ {Main} /\ pc[current].at = "user"
      /\ status[current] = "RUNNING"
      /\ UNCHANGED <<semaVars, holder, pc, driverVars, panicked, hardware>>
  BY HereIs DEF Exit, At, Running, Me
<1>2. /\ SchedOK' /\ \A t \in Thread : t # current => Keeps(t)
      /\ status'[current] = "FREE"
  BY <1>1, ExitIs DEF ThreadsInv, Assumptions
<1>3. \A t \in Thread : /\ status'[t] = "BLOCKED" <=> status[t] = "BLOCKED"
                        /\ status'[t] = "FREE" => status[t] = "FREE" \/ pc[t].at = "user"
                        /\ status[t] = "FREE" => status'[t] = "FREE"
  BY <1>1, <1>2 DEF Keeps, Live
<1>4. status'[Main] # "FREE"
  BY <1>1, <1>2 DEF ThreadsInv, BootOK, Keeps, Live, Assumptions, StockAssumption
<1> QED
  BY <1>1, <1>2, <1>3, <1>4, SwitchThreads

(* wait_while_busy, and the transfers.                                     *)
LEMMA BusyThreads ==
  ASSUME Assumptions, ThreadsInv, WaitWhileBusy
  PROVE  ThreadsInv'
<1>1. current \in Thread /\ pc[current] \in Frames /\ pc[current].at = "busy"
  BY HereIs DEF WaitWhileBusy, At, Running, Me
<1>2. CASE /\ ~bsy /\ drq
           /\ Goto(IF Me.op = "write" THEN "output" ELSE "input")
           /\ UNCHANGED <<stockVars, driverVars, panicked, hardware>>
  <2> DEFINE l == IF pc[current].op = "write" THEN "output" ELSE "input"
             f == [pc[current] EXCEPT !.at = l]
  <2>1. /\ UNCHANGED <<stockVars, is_ata, registered, probing, expecting_interrupt, panicked>>
        /\ UNCHANGED <<selected, lba, bsy, drq, irq, job, buf, platter, value, holder>>
        /\ Goto(l) /\ drq = TRUE
    BY <1>2 DEF Me, driverVars, registers, stockVars, semaVars, hardware, controller,
                ThreadsInv, HardwareOK
  <2>2. /\ pc' = [pc EXCEPT ![current] = f] /\ f \in Frames /\ f.at = l /\ f.op = pc[current].op
        /\ f.data = pc[current].data
    BY <1>1, <2>1, GotoIs DEF Frames, Commanding
  <2> HIDE DEF f
  <2>3. Onward(pc[current], f)
    BY <1>1, <2>2 DEF Onward, Holds, Within, Commanding
  <2>4. /\ SchedOK' /\ WaitersOK' /\ LockOK' /\ BootOK'
        /\ pc' \in [Thread -> Frames] /\ pc'[current] = f
        /\ \A t \in Thread : t # current => pc'[t] = pc[t]
    BY <1>1, <2>1, <2>2, <2>3, OnwardIs
  <2>5. TypesOK'
    BY <2>1, <2>4 DEF ThreadsInv, TypesOK
  <2>6. HardwareOK'
    BY <1>1, <2>1, <2>2, <2>4, HardwareKeeps DEF ThreadsInv, HardwareOK, Equipped
  <2> QED
    BY <2>4, <2>5, <2>6 DEF ThreadsInv
<1>3. CASE IF Me.op = "identify" THEN Ignore ELSE Panic
  BY <1>1, <1>3, IgnoreThreads, PanicThreads DEF Me
<1>4. CASE thread_yield /\ UNCHANGED <<semaVars, holder, pc, driverVars, panicked, hardware>>
  BY <1>4, YieldIs, KeepsThreads DEF ThreadsInv, Assumptions
<1> QED
  BY <1>2, <1>3, <1>4 DEF WaitWhileBusy

LEMMA InputThreads ==
  ASSUME Assumptions, ThreadsInv, Input
  PROVE  ThreadsInv'
<1> DEFINE l == IF pc[current].op = "identify" THEN "identified" ELSE "disown"
           f == [pc[current] EXCEPT !.data = buf, !.at = l]
<1>1. current \in Thread /\ pc[current] \in Frames /\ pc[current].at = "input"
  BY HereIs DEF Input, At, Running, Me
<1>2. /\ UNCHANGED <<stockVars, is_ata, registered, probing, expecting_interrupt, panicked>>
      /\ UNCHANGED <<selected, lba, bsy, irq, buf, platter, value, holder>>
      /\ drq' = FALSE /\ job' = NULL
  BY DEF Input, driverVars, registers, stockVars, semaVars
<1>3. pc' = [pc EXCEPT ![current] = f]
  BY <1>1 DEF Input, Me, ThreadsInv, TypesOK
<1>4. /\ f \in Frames /\ f.at = l /\ f.op = pc[current].op /\ f.data = buf
  BY <1>1 DEF Frames, Commanding, ThreadsInv, HardwareOK
<1> HIDE DEF f
<1>5. Onward(pc[current], f)
  BY <1>1, <1>4 DEF Onward, Holds, Within, Commanding
<1>6. /\ SchedOK' /\ WaitersOK' /\ LockOK' /\ BootOK'
      /\ pc' \in [Thread -> Frames] /\ pc'[current] = f
      /\ \A t \in Thread : t # current => pc'[t] = pc[t]
  BY <1>1, <1>2, <1>3, <1>4, <1>5, OnwardIs
<1>7. TypesOK'
  BY <1>2, <1>6 DEF ThreadsInv, TypesOK
<1>8. HardwareOK'
  <2>1. \A t \in Thread : t # current => pc[t].at \in {"user", "acquire"}
    BY <1>1, OthersAway DEF Driving
  <2>2. pc[current].op # "write" /\ drq /\ ~bsy /\ bsy' = FALSE
    BY <1>1, <1>2 DEF ThreadsInv, HardwareOK
  <2> QED
    BY <1>2, <1>4, <1>6, <2>1, <2>2 DEF ThreadsInv, HardwareOK
<1> QED
  BY <1>6, <1>7, <1>8 DEF ThreadsInv

LEMMA OutputThreads ==
  ASSUME Assumptions, ThreadsInv, Output
  PROVE  ThreadsInv'
<1> DEFINE f == [pc[current] EXCEPT !.at = "complete"]
<1>1. current \in Thread /\ pc[current] \in Frames /\ pc[current].at = "output"
  BY HereIs DEF Output, At, Running, Me
<1>2. /\ UNCHANGED <<stockVars, is_ata, registered, probing, expecting_interrupt, panicked>>
      /\ UNCHANGED <<selected, lba, irq, platter, value, holder>>
      /\ drq' = FALSE /\ bsy' = TRUE /\ Goto("complete")
      /\ buf' = pc[current].data /\ job' = [job EXCEPT !.op = "store"]
  BY DEF Output, Me, driverVars, registers, stockVars, semaVars
<1>3. /\ pc' = [pc EXCEPT ![current] = f] /\ f \in Frames /\ f.at = "complete"
      /\ f.op = pc[current].op /\ f.data = pc[current].data
  BY <1>1, <1>2, GotoIs DEF Frames, Commanding
<1> HIDE DEF f
<1>4. Onward(pc[current], f)
  BY <1>1, <1>3 DEF Onward, Holds, Within, Commanding
<1>5. /\ SchedOK' /\ WaitersOK' /\ LockOK' /\ BootOK'
      /\ pc' \in [Thread -> Frames] /\ pc'[current] = f
      /\ \A t \in Thread : t # current => pc'[t] = pc[t]
  BY <1>1, <1>2, <1>3, <1>4, OnwardIs
<1>6. TypesOK'
  BY <1>2, <1>5 DEF ThreadsInv, TypesOK
<1>7. job' \in Jobs
  BY <1>1, <1>2 DEF ThreadsInv, HardwareOK, Jobs
<1>8. HardwareOK'
  <2>1. \A t \in Thread : t # current => pc[t].at \in {"user", "acquire"}
    BY <1>1, OthersAway DEF Driving
  <2>2. pc[current].data \in Data
    BY <1>1 DEF ThreadsInv, HardwareOK
  <2> QED
    BY <1>2, <1>3, <1>5, <1>7, <2>1, <2>2 DEF ThreadsInv, HardwareOK
<1> QED
  BY <1>5, <1>6, <1>8 DEF ThreadsInv

(* The controller, and its interrupt.                                      *)
LEMMA ControllerThreads ==
  ASSUME Assumptions, ThreadsInv, Controller
  PROVE  ThreadsInv'
<1>1. /\ UNCHANGED <<current, status, ready_list, value, waiters, holder, pc>>
      /\ UNCHANGED <<is_ata, registered, probing, expecting_interrupt, panicked, selected, lba>>
  BY DEF Controller, stockVars, schedVars, semaVars, driverVars, registers
<1>2. HardwareOK'
  <2>1. CASE Fetch
    <3>1. job \in Jobs /\ bsy /\ ~drq
      BY <2>1 DEF Fetch, Working, ThreadsInv, HardwareOK
    <3>2. platter[job.disk, job.sec] \in Data
      BY <3>1 DEF Jobs, ThreadsInv, HardwareOK
    <3> QED
      BY <1>1, <2>1, <3>1, <3>2 DEF Fetch, ThreadsInv, HardwareOK
  <2>2. CASE Take
    BY <1>1, <2>2 DEF Take, Working, ThreadsInv, HardwareOK
  <2>3. CASE Store
    <3>1. job \in Jobs /\ bsy /\ ~drq /\ buf \in Data
      BY <2>3 DEF Store, Working, ThreadsInv, HardwareOK
    <3>2. platter' \in [Disk \X Sector -> Data]
      BY <2>3, <3>1 DEF Store, ThreadsInv, HardwareOK
    <3> QED
      BY <1>1, <2>3, <3>1, <3>2 DEF Store, ThreadsInv, HardwareOK
  <2>4. CASE Fail
    BY <1>1, <2>4 DEF Fail, Working, ThreadsInv, HardwareOK
  <2>5. CASE Spurious
    BY <1>1, <2>5 DEF Spurious, ThreadsInv, HardwareOK
  <2> QED
    BY <2>1, <2>2, <2>3, <2>4, <2>5 DEF Controller, ControllerStep
<1>3. SchedOK' /\ WaitersOK'
  BY <1>1 DEF ThreadsInv, SchedOK, QueueOf, WaitersOK
<1>4. TypesOK' /\ LockOK' /\ BootOK'
  BY <1>1 DEF ThreadsInv, TypesOK, LockOK, BootOK
<1> QED
  BY <1>2, <1>3, <1>4 DEF ThreadsInv

LEMMA InterruptThreads ==
  ASSUME Assumptions, ThreadsInv, Interrupt
  PROVE  ThreadsInv'
<1>1. /\ UNCHANGED <<holder, pc, is_ata, registered, probing, expecting_interrupt, panicked>>
      /\ UNCHANGED <<selected, lba, bsy, drq, job, buf, platter>> /\ irq' = FALSE
  BY DEF Interrupt, driverVars, registers
<1>2. /\ channel_lock \in Sema /\ completion_wait \in Sema /\ channel_lock # completion_wait
      /\ \A r, s \in Sema : Place(r) = Place(s) => r = s
  BY PlaceIs DEF Assumptions, IdeAssumption
<1>3. /\ SchedOK' /\ WaitersOK' /\ value' \in [Sema -> Nat]
      /\ value'[channel_lock] = value[channel_lock]
      /\ \A t \in Thread : status'[t] = "FREE" <=> status[t] = "FREE"
  <2>1. CASE expecting_interrupt
    <3>1. sema_up(completion_wait)
      BY <2>1 DEF Interrupt
    <3>2. /\ SchedOK' /\ WaitersOK' /\ value' = [value EXCEPT ![completion_wait] = @ + 1]
          /\ value' \in [Sema -> Nat]
          /\ \A t \in Thread : status'[t] = "FREE" <=> status[t] = "FREE"
      BY <1>1, <1>2, <3>1, UpIs DEF ThreadsInv, TypesOK, Assumptions
    <3> QED
      BY <1>2, <3>2 DEF ThreadsInv, TypesOK
  <2>2. CASE ~expecting_interrupt
    <3>1. UNCHANGED <<current, status, ready_list, value, waiters>>
      BY <2>2 DEF Interrupt, schedVars, semaVars
    <3> QED
      BY <1>1, <3>1 DEF ThreadsInv, TypesOK, SchedOK, QueueOf, WaitersOK
  <2> QED
    BY <2>1, <2>2
<1>4. TypesOK' /\ HardwareOK'
  BY <1>1, <1>3 DEF ThreadsInv, TypesOK, HardwareOK
<1>5. Main \in Thread
  BY DEF Assumptions, StockAssumption
<1>6. LockOK' /\ BootOK'
  BY <1>1, <1>3, <1>5 DEF ThreadsInv, LockOK, BootOK
<1> QED
  BY <1>3, <1>4, <1>6 DEF ThreadsInv

LEMMA ThreadsStep ==
  ASSUME Assumptions, ThreadsInv, [Next]_vars
  PROVE  ThreadsInv'
<1>1. CASE UNCHANGED vars
  <2>1. /\ UNCHANGED <<current, status, ready_list, value, waiters, holder, pc>>
        /\ UNCHANGED <<is_ata, registered, probing, expecting_interrupt, panicked, selected, lba>>
        /\ UNCHANGED <<bsy, drq, irq, job, buf, platter>>
    BY <1>1 DEF vars, stockVars, schedVars, semaVars, driverVars, hardware, registers, controller
  <2> QED
    BY <2>1 DEF ThreadsInv, SchedOK, QueueOf, WaitersOK, TypesOK, HardwareOK, LockOK, BootOK
<1>2. CASE KernelStep
  BY <1>2, DetectThreads, ProbeThreads, RegisterThreads, AcquireThreads, OwnerThreads,
     ApproachThreads, CommandThreads, CompleteThreads, BusyThreads, InputThreads, OutputThreads,
     UpThreads
     DEF KernelStep
<1>3. CASE Request \/ Create \/ Exit \/ Tick \/ IdleLoop \/ Controller \/ Interrupt
  BY <1>3, RequestThreads, CreateThreads, ExitThreads, TickThreads, IdleThreads,
     ControllerThreads, InterruptThreads
<1> QED
  BY <1>1, <1>2, <1>3 DEF Next

LEMMA ThreadsInit ==
  ASSUME Assumptions, Init
  PROVE  ThreadsInv
<1>1. /\ Main \in Thread /\ Idle \notin Thread /\ NULL \notin Thread /\ Thread \subseteq AnyThread
      /\ Lock = {channel_lock} /\ Sema = {channel_lock, completion_wait} /\ Lock \subseteq Sema
      /\ 0 \in Disk /\ 0 \in Sector /\ -1 \in -1 .. 2 /\ -1 \notin Disk
  BY DEF Assumptions, StockAssumption, IdeAssumption, AnyThread, Disk, Sector
<1>2. /\ current = Main
      /\ status = [t \in AnyThread |->
                     IF t = Main THEN "RUNNING" ELSE IF t = Idle THEN "BLOCKED" ELSE "FREE"]
      /\ ready_list = <<>> /\ value = [s \in Sema |-> IF s \in Lock THEN 1 ELSE 0]
      /\ waiters = [s \in Sema |-> <<>>] /\ holder = [l \in Lock |-> NULL]
  BY DEF Init, StockInit, AnyThread
<1>3. User \in Frames /\ User.at = "user" /\ User.op = "none"
  BY <1>1 DEF User, Frame, Frames
<1>4. pc \in [Thread -> Frames] /\ \A t \in Thread : pc[t] = User
  BY <1>3 DEF Init
<1>5. SchedOK
  <2>1. ready_list \in Seq(Thread) /\ Len(ready_list) = 0
    BY <1>2
  <2>2. QueueOf(ready_list, status)
    BY <1>1, <1>2, <2>1 DEF QueueOf, Once, On
  <2> QED
    BY <1>1, <1>2, <2>2 DEF SchedOK, AnyThread, Status
<1>6. WaitersOK
  <2>1. /\ waiters \in [Sema -> Seq(Thread)] /\ \A s \in Sema : Len(waiters[s]) = 0
        /\ \A t \in Thread : status[t] # "BLOCKED"
    BY <1>1, <1>2
  <2> QED
    BY <2>1 DEF WaitersOK, Once, On
<1>7. TypesOK
  BY <1>1, <1>2, <1>4 DEF Init, TypesOK
<1>8. HardwareOK
  BY <1>3, <1>4 DEF Init, HardwareOK
<1>9. LockOK
  <2>1. value[channel_lock] = 1 /\ holder[channel_lock] = NULL
    BY <1>1, <1>2
  <2>2. \A t \in Thread : ~Within(pc[t]) /\ ~Holds(pc[t])
    BY <1>3, <1>4 DEF Within, Holds, Commanding
  <2> QED
    BY <1>1, <2>1, <2>2 DEF LockOK
<1>10. BootOK
  <2>1. probing = -1
    BY DEF Init
  <2> QED
    BY <1>1, <1>2, <1>3, <1>4, <2>1 DEF BootOK, AnyThread
<1> QED
  BY <1>5, <1>6, <1>7, <1>8, <1>9, <1>10 DEF ThreadsInv

(* The lists of the scheduler and of the semaphores, the lock and where    *)
(* each thread is, whatever the hardware does.                             *)
THEOREM ThreadsInvariance == Spec => []ThreadsInv
<1> USE StockAssumption, IdeAssumption DEF Assumptions
<1>1. Init => ThreadsInv
  BY ThreadsInit
<1>2. ThreadsInv /\ [Next]_vars => ThreadsInv'
  BY ThreadsStep
<1> QED
  BY <1>1, <1>2, PTL DEF Spec

-----------------------------------------------------------------------------
(* StockExact.                                                             *)
LEMMA OnceCounts ==
  ASSUME NEW r \in Seq(Thread), Once(r), NEW t
  PROVE  Cardinality(OnList(t, r)) = IF On(t, r) THEN 1 ELSE 0
<1>1. DOMAIN r = 1 .. Len(r)
  BY LenProperties
<1>2. CASE On(t, r)
  <2>1. PICK i \in 1 .. Len(r) : r[i] = t
    BY <1>2 DEF On
  <2>2. OnList(t, r) = {i}
    BY <1>1, <2>1 DEF OnList, Once
  <2> QED
    BY <1>2, <2>2, FS_Singleton
<1>3. CASE ~On(t, r)
  <2>1. OnList(t, r) = {}
    BY <1>1, <1>3 DEF OnList, On
  <2> QED
    BY <1>3, <2>1, FS_EmptySet
<1> QED
  BY <1>2, <1>3

LEMMA ListsExact ==
  ASSUME Assumptions, ThreadsInv
  PROVE  StockExact
<1>1. /\ Idle \notin Thread /\ NULL \notin Thread /\ Thread \subseteq AnyThread
      /\ Lock = {channel_lock} /\ channel_lock \in Sema /\ completion_wait \in Sema
      /\ Place(channel_lock) = "acquire" /\ \A r, s \in Sema : Place(r) = Place(s) => r = s
  BY PlaceIs DEF Assumptions, StockAssumption, IdeAssumption, AnyThread
<1>2. /\ ready_list \in Seq(Thread) /\ Once(ready_list)
      /\ \A s \in Sema : waiters[s] \in Seq(Thread) /\ Once(waiters[s])
  BY DEF ThreadsInv, SchedOK, QueueOf, WaitersOK
<1>3. \A t : \A r \in Seq(Thread) : OnList(t, r) # {} <=> On(t, r)
  BY LenProperties DEF OnList, On
<1>4. ASSUME NEW t \in Thread
      PROVE  Cardinality(OnList(t, ready_list)) = IF status[t] = "READY" THEN 1 ELSE 0
  <2>1. On(t, ready_list) <=> status[t] = "READY"
    BY DEF ThreadsInv, SchedOK, QueueOf
  <2> QED
    BY <1>2, <2>1, OnceCounts
<1>5. ASSUME NEW t \in Thread
      PROVE  Cardinality({s \in Sema : OnList(t, waiters[s]) # {}})
               = IF status[t] = "BLOCKED" THEN 1 ELSE 0
  <2> DEFINE W == {s \in Sema : OnList(t, waiters[s]) # {}}
  <2>1. \A s \in Sema : s \in W <=> status[t] = "BLOCKED" /\ pc[t].at = Place(s)
    <3> TAKE s \in Sema
    <3>1. On(t, waiters[s]) <=> status[t] = "BLOCKED" /\ pc[t].at = Place(s)
      BY DEF ThreadsInv, WaitersOK
    <3> QED
      BY <1>2, <1>3, <3>1
  <2>2. W \subseteq Sema
    OBVIOUS
  <2> HIDE DEF W
  <2>3. CASE status[t] = "BLOCKED"
    <3>1. PICK s \in Sema : pc[t].at = Place(s)
      BY <2>3 DEF ThreadsInv, WaitersOK
    <3>2. W = {s}
      BY <1>1, <2>1, <2>2, <2>3, <3>1
    <3> QED
      BY <2>3, <3>2, FS_Singleton DEF W
  <2>4. CASE status[t] # "BLOCKED"
    <3>1. W = {}
      BY <2>1, <2>2, <2>4
    <3> QED
      BY <2>4, <3>1, FS_EmptySet DEF W
  <2> QED
    BY <2>3, <2>4
<1>6. ASSUME NEW t \in Thread, NEW s \in Sema
      PROVE  Cardinality(OnList(t, waiters[s])) <= 1
  BY <1>2, OnceCounts
<1>7. \A t \in Thread : status[t] = "RUNNING" <=> t = current
  BY <1>1 DEF ThreadsInv, SchedOK
<1>8. \A r \in Seq(Thread) : OnList(Idle, r) = {}
  <2> TAKE r \in Seq(Thread)
  <2>1. \A i \in DOMAIN r : r[i] \in Thread
    BY LenProperties, ElementOfSeq
  <2> QED
    BY <1>1, <2>1 DEF OnList
<1>9. ASSUME NEW l \in Lock
      PROVE  /\ value[l] \in 0 .. 1
             /\ holder[l] # NULL => value[l] = 0 /\ status[holder[l]] \notin {"FREE", "DYING"}
  <2>1. l = channel_lock /\ value[l] \in {0, 1}
    BY <1>1 DEF ThreadsInv, LockOK
  <2>2. ASSUME holder[l] # NULL
        PROVE  value[l] = 0 /\ status[holder[l]] \notin {"FREE", "DYING"}
    <3>1. holder[l] \in Thread /\ Holds(pc[holder[l]])
      BY <2>1, <2>2 DEF ThreadsInv, LockOK, TypesOK
    <3>2. Within(pc[holder[l]]) /\ pc[holder[l]].at # "user"
      BY <3>1 DEF Within, Holds, Commanding
    <3>3. status[holder[l]] \in Status /\ status[holder[l]] # "FREE"
      BY <1>1, <3>1, <3>2 DEF ThreadsInv, SchedOK, BootOK
    <3> QED
      BY <2>1, <3>1, <3>2, <3>3 DEF ThreadsInv, LockOK, Status
  <2> QED
    BY <2>1, <2>2
<1> QED
  BY <1>2, <1>4, <1>5, <1>6, <1>7, <1>8, <1>9 DEF StockExact

(* The elem of a thread of pintos2 is in the ready list if it is ready, in *)
(* one semaphore's list if it is blocked, and in none otherwise, and no    *)
(* lock is free while it has an owner: list_push_back never puts an elem   *)
(* into two lists, and palloc_free_page in thread_schedule_tail frees no   *)
(* page that something points to.                                          *)
THEOREM ListsAlwaysExact == Spec => []StockExact
<1> USE StockAssumption, IdeAssumption DEF Assumptions
<1>1. ThreadsInv => StockExact
  BY ListsExact
<1> QED
  BY <1>1, ThreadsInvariance, PTL

-----------------------------------------------------------------------------
(* The channel.                                                            *)
Prompt == Faults \cap {"slow", "spurious"} = {}

LEMMA GoesIs ==
  ASSUME ThreadsInv, NEW t \in Thread, t = current, NEW l, Goto(l)
  PROVE  /\ pc'[t].at = l /\ pc'[t].op = pc[t].op /\ pc'[t].disk = pc[t].disk
         /\ pc'[t].sec = pc[t].sec /\ pc'[t].data = pc[t].data
         /\ \A u \in Thread : u # t => pc'[u] = pc[u]
BY DEF ThreadsInv, TypesOK, Goto, Frames

(* One thread drives the channel.                                          *)
LEMMA DriverStep ==
  ASSUME NEW t \in Thread, \A u \in Thread : u # t => ~Driving(pc'[u]),
         ChannelOf(pc[t])', ~Driving(pc'[t]) => Resting' /\ None'
  PROVE  ChannelOK'
<1>1. ASSUME NEW u \in Thread, u # t PROVE ChannelOf(pc[u])'
  <2>1. pc'[u].at \in {"user", "acquire"}
    BY <1>1 DEF Driving
  <2> QED
    BY <2>1 DEF ChannelOf
<1>2. \A u \in Thread : ChannelOf(pc[u])'
  BY <1>1
<1>3. (\A u \in Thread : ~Driving(pc[u])') => Resting' /\ None'
  BY DEF Driving
<1> QED
  BY <1>2, <1>3 DEF ChannelOK

(* Nobody who drives the channel takes part in the step.                   *)
LEMMA ChannelKeeps ==
  ASSUME ChannelOK, UNCHANGED <<bsy, drq, irq, job, buf, selected, lba, expecting_interrupt>>,
         value'[completion_wait] = value[completion_wait],
         \A t \in Thread : pc'[t] = pc[t] \/ (~Driving(pc[t]) /\ ~Driving(pc'[t]))
  PROVE  ChannelOK'
<1>1. (None <=> None') /\ (One <=> One') /\ (Ready <=> Ready') /\ (Resting <=> Resting')
  BY DEF None, One, Ready, Resting
<1>2. ASSUME NEW t \in Thread PROVE ChannelOf(pc[t])'
  <2>1. CASE ~Driving(pc'[t])
    <3>1. pc'[t].at \in {"user", "acquire"}
      BY <2>1 DEF Driving
    <3> QED
      BY <3>1 DEF ChannelOf
  <2>2. CASE pc'[t] = pc[t]
    <3>1. ChannelOf(pc[t])
      BY DEF ChannelOK
    <3> QED
      BY <1>1, <2>2, <3>1 DEF ChannelOf, Works
  <2> QED
    BY <2>1, <2>2
<1>3. (\A t \in Thread : ~Driving(pc[t])') => Resting' /\ None'
  BY <1>1 DEF ChannelOK, Driving
<1> QED
  BY <1>2, <1>3 DEF ChannelOK

LEMMA PanicChannel ==
  ASSUME DriverInv, Panic
  PROVE  ChannelOK'
BY ChannelKeeps DEF DriverInv, Panic, stockVars, semaVars, driverVars, hardware, registers, controller

(* Threads that switch, and a panic, leave the channel alone.              *)
LEMMA AwayChannel ==
  ASSUME DriverInv, UNCHANGED <<semaVars, holder, pc, driverVars, panicked, hardware>>
  PROVE  ChannelOK'
BY ChannelKeeps DEF DriverInv, semaVars, driverVars, hardware, registers, controller

LEMMA BootChannel ==
  ASSUME Assumptions, DriverInv, Detect \/ Probe
  PROVE  ChannelOK'
<1>1. /\ Main \in Thread /\ current = Main /\ pc[Main].at = "user" /\ probing \in -1 .. 1
      /\ UNCHANGED <<bsy, drq, irq, job, buf, lba, value>>
  BY DEF Detect, Probe, At, Me, Assumptions, StockAssumption, Disk, controller, hardware, registers,
         stockVars, semaVars
<1>2. \A t \in Thread : ~Driving(pc[t])
  BY <1>1 DEF DriverInv, ThreadsInv, BootOK, Driving
<1>3. Resting /\ None
  BY <1>2 DEF DriverInv, ChannelOK
<1>4. Resting' /\ None'
  BY <1>1, <1>3 DEF Resting, None
<1>5. CASE pc' = pc
  BY <1>1, <1>2, <1>4, <1>5, DriverStep DEF Driving, ChannelOf
<1>6. CASE pc' = [pc EXCEPT ![Main] = Frame("idle", "identify", probing, 0, NULL)]
  <2>1. pc'[Main].at = "idle" /\ \A u \in Thread : u # Main => pc'[u] = pc[u]
    BY <1>1, <1>6 DEF DriverInv, ThreadsInv, TypesOK, Frame
  <2>2. ChannelOf(pc[Main])'
    BY <1>4, <2>1 DEF ChannelOf
  <2> QED
    BY <1>1, <1>2, <1>4, <2>1, <2>2, DriverStep
<1> QED
  BY <1>5, <1>6 DEF Detect, Probe

(* The end of a command that leaves the channel at rest.                   *)
LEMMA LeaveChannel ==
  ASSUME DriverInv, NEW t \in Thread, Driving(pc[t]), Resting, None,
         UNCHANGED <<bsy, drq, irq>>, value'[completion_wait] = value[completion_wait],
         pc'[t].at \in {"user", "acquire"}, \A u \in Thread : u # t => pc'[u] = pc[u]
  PROVE  ChannelOK'
<1>1. \A u \in Thread : u # t => ~Driving(pc'[u])
  BY OneDrives DEF DriverInv
<1>2. Resting' /\ None'
  BY DEF Resting, None
<1>3. ChannelOf(pc[t])'
  BY DEF ChannelOf
<1> QED
  BY <1>1, <1>2, <1>3, DriverStep

LEMMA IgnoreChannel ==
  ASSUME Assumptions, DriverInv, Ignore, current \in Thread, Driving(pc[current]), Resting, None
  PROVE  ChannelOK'
<1>1. /\ UNCHANGED <<bsy, drq, irq, value>>
      /\ pc' = [pc EXCEPT ![current] = User]
  BY DEF Ignore, stockVars, semaVars, hardware, controller
<1>2. pc'[current].at = "user" /\ \A u \in Thread : u # current => pc'[u] = pc[u]
  BY <1>1 DEF DriverInv, ThreadsInv, TypesOK, User, Frame
<1> QED
  BY <1>1, <1>2, LeaveChannel

LEMMA RegisterChannel ==
  ASSUME Assumptions, DriverInv, Register
  PROVE  ChannelOK'
<1>1. current \in Thread /\ pc[current].at = "identified"
  BY HereIs DEF DriverInv, Register, At, Running, Me
<1>2. Driving(pc[current]) /\ Resting /\ None
  BY <1>1 DEF Driving, DriverInv, ChannelOK, ChannelOf
<1>3. CASE Ignore
  BY <1>1, <1>2, <1>3, IgnoreChannel
<1>4. CASE /\ pc' = [pc EXCEPT ![current] = Frame("acquire", "read", Me.disk, 0, NULL)]
           /\ UNCHANGED <<stockVars, is_ata, expecting_interrupt, panicked, hardware>>
  <2>1. pc'[current].at = "acquire" /\ \A u \in Thread : u # current => pc'[u] = pc[u]
    BY <1>1, <1>4 DEF DriverInv, ThreadsInv, TypesOK, Frame
  <2>2. UNCHANGED <<bsy, drq, irq, value>>
    BY <1>4 DEF stockVars, semaVars, hardware, controller
  <2> QED
    BY <1>1, <1>2, <2>1, <2>2, LeaveChannel
<1> QED
  BY <1>3, <1>4 DEF Register

LEMMA RequestChannel ==
  ASSUME Assumptions, DriverInv, Request
  PROVE  ChannelOK'
<1>1. CASE Panic
  BY <1>1, PanicChannel
<1>2. ASSUME NEW d \in Disk, NEW s \in Sector, NEW v \in Data \cup {NULL},
             pc' = [pc EXCEPT ![current] =
                      Frame("acquire", IF v = NULL THEN "read" ELSE "write", d, s, v)],
             UNCHANGED <<stockVars, driverVars, panicked, hardware>>
      PROVE  ChannelOK'
  <2>1. current \in Thread /\ pc[current].at = "user"
    BY HereIs DEF DriverInv, Request, At, Running, Me
  <2>2. pc'[current].at = "acquire" /\ \A u \in Thread : u # current => pc'[u] = pc[u]
    BY <1>2, <2>1 DEF DriverInv, ThreadsInv, TypesOK, Frame
  <2>3. UNCHANGED <<bsy, drq, irq, job, buf, selected, lba, expecting_interrupt, value>>
    BY <1>2 DEF stockVars, semaVars, driverVars, hardware, registers, controller
  <2> QED
    BY <2>1, <2>2, <2>3, ChannelKeeps DEF DriverInv, Driving
<1> QED
  BY <1>1, <1>2 DEF Request

(* Whoever gets the lock finds the channel at rest.                        *)
LEMMA AcquireChannel ==
  ASSUME Assumptions, DriverInv, Acquire
  PROVE  ChannelOK'
<1> DEFINE l == IF Passes(channel_lock) THEN "own" ELSE "acquire"
<1>1. current \in Thread /\ pc[current].at = "acquire" /\ status[current] = "RUNNING"
  BY HereIs DEF DriverInv, Acquire, At, Running, Me
<1>2. /\ Goto(l) /\ sema_down(channel_lock)
      /\ UNCHANGED <<bsy, drq, irq, job, buf, selected, lba, expecting_interrupt>>
  BY DEF Acquire, driverVars, hardware, registers, controller
<1>3. pc'[current].at = l /\ \A u \in Thread : u # current => pc'[u] = pc[u]
  BY <1>1, <1>2, GoesIs DEF DriverInv
<1>4. /\ channel_lock \in Sema /\ completion_wait \in Sema /\ channel_lock # completion_wait
  BY PlaceIs DEF Assumptions, IdeAssumption
<1>5. value'[completion_wait] = value[completion_wait]
  BY <1>2, <1>4 DEF sema_down, DriverInv, ThreadsInv, TypesOK
<1>6. CASE ~Passes(channel_lock)
  <2>1. ~Driving(pc[current]) /\ ~Driving(pc'[current])
    BY <1>1, <1>3, <1>6 DEF Driving
  <2> QED
    BY <1>2, <1>3, <1>5, <2>1, ChannelKeeps DEF DriverInv
<1>7. CASE Passes(channel_lock)
  <2>1. \A t \in Thread : ~Within(pc[t])
    BY <1>4, <1>7 DEF Passes, DriverInv, ThreadsInv, LockOK, TypesOK
  <2>2. \A t \in Thread : pc[t].op # "identify"
    BY <1>1 DEF DriverInv, ThreadsInv, BootOK, Disk, Commanding
  <2>3. \A t \in Thread : ~Driving(pc[t])
    BY <2>1, <2>2
       DEF DriverInv, ThreadsInv, TypesOK, BootOK, Driving, Within, Holds, Frames
  <2>4. Resting /\ None
    BY <2>3 DEF DriverInv, ChannelOK
  <2>5. Resting' /\ None'
    BY <1>2, <1>5, <2>4 DEF Resting, None
  <2>6. ChannelOf(pc[current])'
    <3>1. SUFFICES ASSUME NEW t \in Thread, t = current PROVE ChannelOf(pc[t])'
      <4>1. current \in Thread /\ current' = current
        BY <1>1, <1>2, <1>7 DEF sema_down, Passes, schedVars
      <4> QED
        BY <3>1, <4>1
    <3> QED
      BY <1>3, <1>7, <2>5, <3>1 DEF ChannelOf
  <2>7. current' = current
    BY <1>2, <1>7 DEF sema_down, Passes, schedVars
  <2> QED
    BY <1>1, <1>3, <2>3, <2>5, <2>6, <2>7, DriverStep
<1> QED
  BY <1>6, <1>7

(* Before the command, and after the completion.                           *)
LEMMA RestingChannel ==
  ASSUME Assumptions, DriverInv, Own \/ Disown \/ WaitUntilIdle \/ Select \/ Expect
  PROVE  ChannelOK'
<1>1. current \in Thread /\ pc[current].at \in {"own", "disown", "idle", "select", "expect"}
  BY HereIs DEF DriverInv, Own, Disown, WaitUntilIdle, Select, Expect, At, Running, Me
<1>2. SUFFICES ASSUME NEW t \in Thread, t = current PROVE ChannelOK'
  BY <1>1
<1>3. \A u \in Thread : u # t => ~Driving(pc[u])
  BY <1>1, <1>2, OneDrives DEF DriverInv, Driving
<1>4. ChannelOf(pc[t]) /\ Resting /\ None
  BY <1>1, <1>2 DEF DriverInv, ChannelOK, ChannelOf
<1>5. UNCHANGED <<bsy, drq, job, buf, value>> /\ (irq' = FALSE \/ irq' = irq)
  BY DEF Own, Disown, WaitUntilIdle, Select, Expect, hardware, controller, stockVars, semaVars
<1>6. Resting' /\ None'
  BY <1>4, <1>5 DEF Resting, None
<1>7. CASE Own \/ Disown
  <2>1. Goto("idle") \/ Goto("up")
    BY <1>7 DEF Own, Disown
  <2>2. pc'[t].at \in {"idle", "up"} /\ \A u \in Thread : u # t => pc'[u] = pc[u]
    BY <1>2, <2>1, GoesIs DEF DriverInv
  <2> QED
    BY <1>3, <1>6, <2>2, DriverStep DEF ChannelOf
<1>8. CASE WaitUntilIdle
  <2>1. Goto("select")
    BY <1>8 DEF WaitUntilIdle
  <2>2. pc'[t].at = "select" /\ \A u \in Thread : u # t => pc'[u] = pc[u]
    BY <1>2, <2>1, GoesIs DEF DriverInv
  <2> QED
    BY <1>3, <1>6, <2>2, DriverStep DEF ChannelOf
<1>9. CASE Select
  <2>1. /\ Goto("expect") /\ selected' = pc[t].disk
        /\ lba' = IF pc[t].op = "identify" THEN lba ELSE pc[t].sec
    BY <1>2, <1>9 DEF Select, Me
  <2>2. /\ pc'[t].at = "expect" /\ pc'[t].op = pc[t].op /\ pc'[t].disk = pc[t].disk
        /\ pc'[t].sec = pc[t].sec /\ \A u \in Thread : u # t => pc'[u] = pc[u]
    BY <1>2, <2>1, GoesIs DEF DriverInv
  <2> QED
    BY <1>3, <1>6, <2>1, <2>2, DriverStep DEF ChannelOf
<1>10. CASE Expect
  <2>1. Goto("command") /\ UNCHANGED <<selected, lba>> /\ expecting_interrupt' = TRUE
        /\ pc[t].at = "expect"
    BY <1>2, <1>10 DEF Expect, hardware, registers, At, Me
  <2>2. /\ pc'[t].at = "command" /\ pc'[t].op = pc[t].op /\ pc'[t].disk = pc[t].disk
        /\ pc'[t].sec = pc[t].sec /\ \A u \in Thread : u # t => pc'[u] = pc[u]
    BY <1>2, <2>1, GoesIs DEF DriverInv
  <2>3. ChannelOf(pc[t])'
    BY <1>4, <1>6, <2>1, <2>2 DEF ChannelOf
  <2> QED
    BY <1>3, <1>6, <2>2, <2>3, DriverStep
<1> QED
  BY <1>7, <1>8, <1>9, <1>10

LEMMA CommandChannel ==
  ASSUME Assumptions, DriverInv, Command
  PROVE  ChannelOK'
<1>1. SUFFICES ASSUME NEW t \in Thread, t = current PROVE ChannelOK'
  BY HereIs DEF DriverInv, Command, At, Running
<1>2. /\ pc[t].at = "command" /\ Goto(IF pc[t].op = "write" THEN "busy" ELSE "complete")
      /\ job' = [op |-> pc[t].op, disk |-> selected, sec |-> lba]
      /\ bsy' = TRUE /\ drq' = FALSE /\ irq' = FALSE /\ UNCHANGED <<value, expecting_interrupt>>
  BY <1>1 DEF Command, At, Me, stockVars, semaVars, driverVars
<1>3. \A u \in Thread : u # t => ~Driving(pc[u])
  BY <1>2, OneDrives DEF DriverInv, Driving
<1>4. ChannelOf(pc[t])
  BY DEF DriverInv, ChannelOK
<1>5. /\ pc'[t].at = (IF pc[t].op = "write" THEN "busy" ELSE "complete")
      /\ pc'[t].op = pc[t].op /\ pc'[t].disk = pc[t].disk
      /\ pc'[t].sec = pc[t].sec /\ \A u \in Thread : u # t => pc'[u] = pc[u]
  BY <1>1, <1>2, GoesIs DEF DriverInv
<1>6. None' /\ Works(pc[t], pc[t].op)' /\ expecting_interrupt'
  BY <1>2, <1>4, <1>5 DEF ChannelOf, Works, None
<1>7. ChannelOf(pc[t])'
  BY <1>2, <1>5, <1>6 DEF ChannelOf, Reads, Writes
<1> QED
  BY <1>3, <1>5, <1>7, DriverStep DEF Driving

(* The completion that lets the thread by is the one of its command.       *)
LEMMA CompleteChannel ==
  ASSUME Assumptions, DriverInv, Complete
  PROVE  ChannelOK'
<1>1. SUFFICES ASSUME NEW t \in Thread, t = current PROVE ChannelOK'
  BY HereIs DEF DriverInv, Complete, At, Running
<1> DEFINE l == IF ~Passes(completion_wait) THEN "complete"
                ELSE IF pc[t].op = "write" THEN "disown" ELSE "busy"
<1>2. /\ pc[t].at = "complete" /\ Goto(l) /\ sema_down(completion_wait)
      /\ UNCHANGED <<bsy, drq, irq, job, buf, selected, lba, expecting_interrupt>>
  BY <1>1 DEF Complete, At, Me, driverVars, hardware, registers, controller
<1>3. \A u \in Thread : u # t => ~Driving(pc[u])
  BY <1>2, OneDrives DEF DriverInv, Driving
<1>4. ChannelOf(pc[t]) /\ pc[t].op \in {"read", "write", "identify"}
  BY <1>2 DEF DriverInv, ChannelOK, ThreadsInv, BootOK, TypesOK, Frames
<1>5. /\ pc'[t].at = l /\ pc'[t].op = pc[t].op /\ pc'[t].disk = pc[t].disk
      /\ pc'[t].sec = pc[t].sec /\ pc'[t].data = pc[t].data
      /\ \A u \in Thread : u # t => pc'[u] = pc[u]
  BY <1>1, <1>2, GoesIs DEF DriverInv
<1>6. completion_wait \in Sema /\ value \in [Sema -> Nat]
  BY PlaceIs DEF Assumptions, DriverInv, ThreadsInv, TypesOK
<1>7. CASE ~Passes(completion_wait)
  <2>1. UNCHANGED value
    BY <1>2, <1>6, <1>7 DEF sema_down, Passes
  <2>2. (None <=> None') /\ (One <=> One') /\ (Ready <=> Ready') /\ (Resting <=> Resting')
    BY <1>2, <2>1 DEF None, One, Ready, Resting
  <2>3. Works(pc[t], pc[t].op)' <=> Works(pc[t], pc[t].op)
    BY <1>2, <1>5, <2>2 DEF Works
  <2>4. Works(pc[t], "store")' <=> Works(pc[t], "store")
    BY <1>2, <1>5, <2>2 DEF Works
  <2>5. ChannelOf(pc[t])'
    BY <1>2, <1>4, <1>5, <1>7, <2>2, <2>3, <2>4 DEF ChannelOf, Reads, Writes
  <2> QED
    BY <1>3, <1>5, <1>7, <2>5, DriverStep DEF Driving
<1>8. CASE Passes(completion_wait)
  <2>1. value[completion_wait] # 0
        /\ value' = [value EXCEPT ![completion_wait] = value[completion_wait] - 1]
    BY <1>2, <1>6, <1>8 DEF sema_down, Passes
  <2>2. ~None /\ (One => value[completion_wait] = 1 /\ ~irq)
    BY <2>1 DEF None, One
  <2>3. One /\ (Ready \/ Resting) /\ (Writes(pc[t]) => Resting)
    BY <1>2, <1>4, <2>2 DEF ChannelOf, Works, Reads, Writes
  <2>4. None' /\ (Ready' <=> Ready) /\ (Resting' <=> Resting)
    BY <1>2, <1>6, <2>1, <2>2, <2>3 DEF None, Ready, Resting
  <2>5. ChannelOf(pc[t])'
    BY <1>2, <1>4, <1>5, <1>8, <2>3, <2>4 DEF ChannelOf, Reads, Writes
  <2> QED
    BY <1>3, <1>5, <1>8, <2>5, DriverStep DEF Driving
<1> QED
  BY <1>7, <1>8

LEMMA BusyChannel ==
  ASSUME Assumptions, Prompt, DriverInv, WaitWhileBusy
  PROVE  ChannelOK'
<1>1. SUFFICES ASSUME NEW t \in Thread, t = current PROVE ChannelOK'
  BY HereIs DEF DriverInv, WaitWhileBusy, At, Running
<1>2. pc[t].at = "busy"
  BY <1>1 DEF WaitWhileBusy, At, Me
<1>3. Driving(pc[t]) /\ \A u \in Thread : u # t => ~Driving(pc[u])
  BY <1>2, OneDrives DEF DriverInv, Driving
<1>4. ChannelOf(pc[t]) /\ pc[t].op \in {"read", "write", "identify"}
  BY <1>2 DEF DriverInv, ChannelOK, ThreadsInv, BootOK, TypesOK, Frames
<1>5. CASE /\ ~bsy /\ drq
           /\ Goto(IF Me.op = "write" THEN "output" ELSE "input")
           /\ UNCHANGED <<stockVars, driverVars, panicked, hardware>>
  <2>1. /\ pc'[t].at = (IF pc[t].op = "write" THEN "output" ELSE "input")
        /\ pc'[t].op = pc[t].op /\ pc'[t].disk = pc[t].disk
        /\ pc'[t].sec = pc[t].sec /\ \A u \in Thread : u # t => pc'[u] = pc[u]
    BY <1>1, <1>5, GoesIs DEF DriverInv, Me
  <2>2. UNCHANGED <<bsy, drq, irq, job, expecting_interrupt, value>>
    BY <1>5 DEF stockVars, semaVars, driverVars, hardware, controller
  <2>3. /\ Ready /\ None /\ expecting_interrupt
        /\ Writes(pc[t]) => job.disk = pc[t].disk /\ job.sec = pc[t].sec
    BY <1>2, <1>4, <1>5 DEF ChannelOf, Works, Ready, Resting, Reads, Writes
  <2>4. Ready' /\ None' /\ expecting_interrupt'
    BY <2>2, <2>3 DEF Ready, None
  <2>5. ChannelOf(pc[t])'
    BY <1>4, <2>1, <2>2, <2>3, <2>4 DEF ChannelOf, Reads, Writes
  <2> QED
    BY <1>3, <2>1, <2>5, DriverStep DEF Driving
<1>6. CASE /\ (~bsy /\ ~drq) \/ (bsy /\ "slow" \in Faults)
           /\ IF Me.op = "identify" THEN Ignore ELSE Panic
  <2>1. CASE Panic
    BY <2>1, PanicChannel
  <2>2. CASE Me.op = "identify" /\ Ignore
    <3>1. ~bsy /\ ~drq
      BY <1>6 DEF Prompt
    <3>2. Resting /\ None
      BY <1>1, <1>2, <1>4, <2>2, <3>1 DEF ChannelOf, Resting, Reads, Me
    <3> QED
      BY <1>1, <1>3, <2>2, <3>2, IgnoreChannel
  <2> QED
    BY <1>6, <2>1, <2>2
<1>7. CASE UNCHANGED <<semaVars, holder, pc, driverVars, panicked, hardware>>
  BY <1>7, AwayChannel
<1> QED
  BY <1>5, <1>6, <1>7 DEF WaitWhileBusy

LEMMA InputChannel ==
  ASSUME Assumptions, DriverInv, Input
  PROVE  ChannelOK'
<1>1. SUFFICES ASSUME NEW t \in Thread, t = current PROVE ChannelOK'
  BY HereIs DEF DriverInv, Input, At, Running
<1>2. /\ pc[t].at = "input" /\ drq' = FALSE /\ UNCHANGED <<bsy, irq, value>>
  BY <1>1 DEF Input, At, Me, stockVars, semaVars
<1>3. \A u \in Thread : u # t => ~Driving(pc[u])
  BY <1>2, OneDrives DEF DriverInv, Driving
<1>4. Ready /\ None
  BY <1>2 DEF DriverInv, ChannelOK, ChannelOf
<1>5. /\ pc'[t].at \in {"identified", "disown"}
      /\ \A u \in Thread : u # t => pc'[u] = pc[u]
  BY <1>1 DEF Input, Me, DriverInv, ThreadsInv, TypesOK, Frames
<1>6. Resting' /\ None'
  BY <1>2, <1>4 DEF Ready, Resting, None
<1>7. ChannelOf(pc[t])'
  BY <1>5, <1>6 DEF ChannelOf
<1> QED
  BY <1>3, <1>5, <1>6, <1>7, DriverStep

LEMMA OutputChannel ==
  ASSUME Assumptions, DriverInv, Output
  PROVE  ChannelOK'
<1>1. SUFFICES ASSUME NEW t \in Thread, t = current PROVE ChannelOK'
  BY HereIs DEF DriverInv, Output, At, Running
<1>2. /\ pc[t].at = "output" /\ drq' = FALSE /\ bsy' = TRUE /\ Goto("complete")
      /\ buf' = pc[t].data /\ job' = [job EXCEPT !.op = "store"]
      /\ UNCHANGED <<irq, value, expecting_interrupt>>
  BY <1>1 DEF Output, At, Me, stockVars, semaVars, driverVars
<1>3. \A u \in Thread : u # t => ~Driving(pc[u])
  BY <1>2, OneDrives DEF DriverInv, Driving
<1>4. /\ Writes(pc[t]) /\ Ready /\ None /\ job.disk = pc[t].disk /\ job.sec = pc[t].sec
      /\ expecting_interrupt
  BY <1>2 DEF DriverInv, ChannelOK, ChannelOf
<1>5. job \in Jobs
  BY <1>4 DEF Ready, DriverInv, ThreadsInv, HardwareOK
<1>6. /\ pc'[t].at = "complete" /\ pc'[t].op = pc[t].op /\ pc'[t].disk = pc[t].disk
      /\ pc'[t].sec = pc[t].sec /\ pc'[t].data = pc[t].data
      /\ \A u \in Thread : u # t => pc'[u] = pc[u]
  BY <1>1, <1>2, GoesIs DEF DriverInv
<1>7. None'
  BY <1>2, <1>4 DEF None
<1>8. job'.op = "store" /\ job'.disk = job.disk /\ job'.sec = job.sec
  BY <1>2, <1>5 DEF Jobs
<1>9. Works(pc[t], "store")' /\ buf' = pc'[t].data
  BY <1>2, <1>4, <1>6, <1>7, <1>8 DEF Works
<1>10. ChannelOf(pc[t])'
  BY <1>2, <1>4, <1>6, <1>9 DEF ChannelOf, Reads, Writes
<1> QED
  BY <1>3, <1>6, <1>10, DriverStep DEF Driving

LEMMA UpChannel ==
  ASSUME Assumptions, DriverInv, Up
  PROVE  ChannelOK'
<1>1. current \in Thread /\ pc[current].at = "up"
  BY HereIs DEF DriverInv, Up, At, Running, Me
<1>2. /\ UNCHANGED <<bsy, drq, irq>> /\ sema_up(channel_lock)
      /\ pc' = [pc EXCEPT ![current] = User]
  BY DEF Up, hardware, controller
<1>3. pc'[current].at = "user" /\ \A u \in Thread : u # current => pc'[u] = pc[u]
  BY <1>1, <1>2 DEF DriverInv, ThreadsInv, TypesOK, User, Frame
<1>4. channel_lock # completion_wait /\ completion_wait \in Sema
  BY PlaceIs DEF Assumptions, IdeAssumption
<1>5. value'[completion_wait] = value[completion_wait]
  BY <1>2, <1>4 DEF sema_up, DriverInv, ThreadsInv, TypesOK
<1>6. Driving(pc[current]) /\ Resting /\ None
  BY <1>1 DEF DriverInv, ChannelOK, ChannelOf, Driving
<1> QED
  BY <1>1, <1>2, <1>3, <1>5, <1>6, LeaveChannel

(* The controller works for the one thread that drives the channel.        *)
LEMMA ControllerChannel ==
  ASSUME Assumptions, Prompt, DriverInv, Controller
  PROVE  ChannelOK'
<1>1. /\ UNCHANGED <<pc, value, expecting_interrupt, selected, lba>> /\ ~Spurious
  BY DEF Controller, stockVars, semaVars, driverVars, registers, Spurious, Prompt
<1>2. bsy /\ (Fetch \/ Take \/ Store \/ Fail)
  BY <1>1 DEF Controller, ControllerStep, Fetch, Take, Store, Fail, Working
<1>3. PICK t \in Thread : Driving(pc[t])
  BY <1>2 DEF DriverInv, ChannelOK, Resting
<1>4. \A u \in Thread : u # t => ~Driving(pc[u])
  BY <1>3, OneDrives DEF DriverInv
<1>5. ChannelOf(pc[t]) /\ pc[t].op \in {"none", "read", "write", "identify"}
  BY DEF DriverInv, ChannelOK, ThreadsInv, TypesOK, Frames
<1>6. /\ expecting_interrupt /\ None
      /\ \/ pc[t].at = "complete" /\ Reads(pc[t]) /\ Works(pc[t], pc[t].op)
         \/ pc[t].at = "busy" /\ Writes(pc[t]) /\ Works(pc[t], "write")
         \/ pc[t].at = "complete" /\ Writes(pc[t]) /\ Works(pc[t], "store") /\ buf = pc[t].data
  <2>1. /\ pc[t].at \in {"own", "identified", "disown", "up"} \cup Commanding
        /\ pc[t].op # "none"
    BY <1>3 DEF DriverInv, ThreadsInv, TypesOK, BootOK, Frames, Driving
  <2> QED
    BY <1>2, <1>5, <2>1 DEF ChannelOf, Works, Ready, Resting, Reads, Writes, Commanding
<1>7. CASE Fetch
  <2>1. /\ job.op \in {"read", "identify"} /\ bsy' = FALSE /\ drq' = TRUE /\ irq' = TRUE
    BY <1>7 DEF Fetch, Working
  <2>2. Ready' /\ One' /\ pc[t].at = "complete" /\ Reads(pc[t])
    BY <1>1, <1>6, <2>1 DEF Works, Ready, One, None, Reads, Writes
  <2>3. ChannelOf(pc[t])'
    BY <1>1, <1>6, <2>2 DEF ChannelOf, Reads, Writes
  <2> QED
    BY <1>1, <1>3, <1>4, <2>3, DriverStep
<1>8. CASE Take
  <2>1. job.op = "write" /\ bsy' = FALSE /\ drq' = TRUE /\ UNCHANGED <<irq, job>>
    BY <1>8 DEF Take, Working
  <2>2. /\ Ready' /\ None' /\ pc[t].at = "busy" /\ Writes(pc[t])
        /\ job.disk = pc[t].disk /\ job.sec = pc[t].sec
    BY <1>1, <1>6, <2>1 DEF Works, Ready, None, Reads, Writes
  <2>3. ChannelOf(pc[t])'
    BY <1>1, <1>6, <2>1, <2>2 DEF ChannelOf, Reads, Writes
  <2> QED
    BY <1>1, <1>3, <1>4, <2>3, DriverStep
<1>9. CASE Store \/ Fail
  <2>1. bsy' = FALSE /\ irq' = TRUE /\ drq' = drq
    BY <1>9 DEF Store, Fail
  <2>2. Resting' /\ One'
    BY <1>1, <1>6, <2>1 DEF Works, Resting, One, None
  <2>3. Store => job.op = "store"
    BY DEF Store, Working
  <2>4. ChannelOf(pc[t])'
    BY <1>1, <1>6, <2>2 DEF ChannelOf, Reads, Writes
  <2> QED
    BY <1>1, <1>3, <1>4, <2>4, DriverStep
<1> QED
  BY <1>2, <1>7, <1>8, <1>9

(* The interrupt becomes the completion.                                   *)
LEMMA InterruptChannel ==
  ASSUME Assumptions, DriverInv, Interrupt
  PROVE  ChannelOK'
<1>1. /\ irq /\ irq' = FALSE
      /\ UNCHANGED <<pc, expecting_interrupt, selected, lba, bsy, drq, job, buf>>
  BY DEF Interrupt, driverVars, registers
<1>2. PICK t \in Thread : Driving(pc[t])
  BY <1>1 DEF DriverInv, ChannelOK, None
<1>3. \A u \in Thread : u # t => ~Driving(pc[u])
  BY <1>2, OneDrives DEF DriverInv
<1>4. ChannelOf(pc[t]) /\ pc[t].at \in {"own", "identified", "disown", "up"} \cup Commanding
      /\ pc[t].op \in {"read", "write", "identify"}
  BY <1>2 DEF DriverInv, ChannelOK, ThreadsInv, TypesOK, BootOK, Frames, Driving
<1>5. /\ One /\ expecting_interrupt /\ (Ready \/ Resting)
      /\ \/ pc[t].at = "complete" /\ (Writes(pc[t]) => Resting)
         \/ pc[t].at = "busy" /\ Writes(pc[t]) /\ Resting
  BY <1>1, <1>4 DEF ChannelOf, Works, None, Reads, Writes, Commanding
<1>6. completion_wait \in Sema /\ value \in [Sema -> Nat]
  BY PlaceIs DEF Assumptions, DriverInv, ThreadsInv, TypesOK
<1>7. value[completion_wait] = 0 /\ value'[completion_wait] = 1
  BY <1>1, <1>5, <1>6 DEF Interrupt, sema_up, One
<1>8. One' /\ (Ready' <=> Ready) /\ (Resting' <=> Resting)
  BY <1>1, <1>7 DEF One, Ready, Resting
<1>9. ChannelOf(pc[t])'
  BY <1>1, <1>4, <1>5, <1>8 DEF ChannelOf, Reads, Writes
<1> QED
  BY <1>1, <1>2, <1>3, <1>9, DriverStep

LEMMA ChannelStep ==
  ASSUME Assumptions, Prompt, DriverInv, [Next]_vars
  PROVE  ChannelOK'
<1>1. CASE UNCHANGED vars
  BY <1>1, ChannelKeeps
     DEF DriverInv, vars, stockVars, semaVars, driverVars, hardware, registers, controller
<1>2. CASE KernelStep
  BY <1>2, BootChannel, RegisterChannel, AcquireChannel, RestingChannel, CommandChannel,
     CompleteChannel, BusyChannel, InputChannel, OutputChannel, UpChannel
     DEF KernelStep
<1>3. CASE Request \/ Controller \/ Interrupt
  BY <1>3, RequestChannel, ControllerChannel, InterruptChannel
<1>4. CASE Create \/ Exit \/ Tick \/ IdleLoop
  BY <1>4, AwayChannel DEF Create, Exit, Tick, IdleLoop
<1> QED
  BY <1>1, <1>2, <1>3, <1>4 DEF Next

LEMMA ChannelInit ==
  ASSUME Assumptions, Init
  PROVE  ChannelOK
<1>1. \A t \in Thread : pc[t].at = "user"
  BY DEF Init, User, Frame
<1>2. value[completion_wait] = 0
  BY PlaceIs DEF Assumptions, IdeAssumption, Init, StockInit
<1>3. Resting /\ None
  BY <1>2 DEF Init, Resting, None
<1> QED
  BY <1>1, <1>3 DEF ChannelOK, ChannelOf

(* When the driver's waits are long enough and no interrupt comes for      *)
(* nothing, the channel is at the command of the thread that drives it.    *)
THEOREM DriverInvariance == ASSUME Prompt PROVE Spec => []DriverInv
<1> USE StockAssumption, IdeAssumption, Prompt DEF Assumptions
<1>1. Init => DriverInv
  BY ThreadsInit, ChannelInit DEF DriverInv
<1>2. DriverInv /\ [Next]_vars => DriverInv'
  BY ThreadsStep, ChannelStep DEF DriverInv
<1> QED
  BY <1>1, <1>2, PTL DEF Spec

-----------------------------------------------------------------------------
(* CompletionMine.                                                         *)
LEMMA ChannelMine ==
  ASSUME Assumptions, DriverInv
  PROVE  CompletionMine
<1>1. value[completion_wait] \in Nat /\ irq \in BOOLEAN
  BY PlaceIs DEF Assumptions, DriverInv, ThreadsInv, TypesOK, HardwareOK
<1>2. ASSUME value[completion_wait] + (IF irq THEN 1 ELSE 0) > 0
      PROVE  /\ value[completion_wait] + (IF irq THEN 1 ELSE 0) = 1 /\ ~bsy
             /\ Cardinality({t \in Thread : Awaits(t)}) = 1
  <2>1. ~None
    BY <1>1, <1>2 DEF None
  <2>2. PICK t \in Thread : Driving(pc[t])
    BY <2>1 DEF DriverInv, ChannelOK
  <2>3. ChannelOf(pc[t]) /\ pc[t].at \in {"own", "identified", "disown", "up"} \cup Commanding
        /\ pc[t].op \in {"read", "write", "identify"}
    BY <2>2 DEF DriverInv, ChannelOK, ThreadsInv, TypesOK, BootOK, Frames, Driving
  <2>4. One /\ ~bsy /\ Awaits(t)
    BY <2>1, <2>3 DEF ChannelOf, Works, Ready, Resting, Reads, Writes, Commanding, Awaits
  <2>5. value[completion_wait] + (IF irq THEN 1 ELSE 0) = 1
    BY <2>4 DEF One
  <2>6. \A u \in Thread : Awaits(u) => u = t
    BY <2>2, OneDrives DEF DriverInv, Awaits, Driving
  <2>7. {u \in Thread : Awaits(u)} = {t}
    BY <2>4, <2>6
  <2> QED
    BY <2>4, <2>5, <2>7, FS_Singleton
<1> QED
  BY <1>2 DEF CompletionMine

(* With disks that answer in time, there is at most one completion, as an  *)
(* interrupt or as completion_wait's value, and only for the one thread    *)
(* that waits for it in ide_read, ide_write or identify_ata_device.        *)
THEOREM CompletionsMine == ASSUME Prompt PROVE Spec => []CompletionMine
<1> USE StockAssumption, IdeAssumption, Prompt DEF Assumptions
<1>1. DriverInv => CompletionMine
  BY ChannelMine
<1> QED
  BY <1>1, DriverInvariance, PTL

-----------------------------------------------------------------------------
(* DiskIsAtomic.                                                           *)
Honest == Faults \subseteq {"error"}
Requests == [t \in Thread |-> RequestOf(t)]
AtomicStep == [Spec_!Next]_<<platter, Requests>>

LEMMA RequestIs ==
  ASSUME NEW t \in Thread, pc[t].at # "user", pc[t].op # "identify"
  PROVE  RequestOf(t) =
           [op |-> pc[t].op, disk |-> pc[t].disk, sec |-> pc[t].sec, done |-> Done(t),
            data |-> IF pc[t].op = "read" /\ Done(t) /\ pc[t].at \notin {"disown", "up"}
                     THEN buf ELSE pc[t].data]
BY DEF RequestOf

LEMMA NoRequest ==
  ASSUME NEW t \in Thread, pc[t].at = "user" \/ pc[t].op = "identify"
  PROVE  RequestOf(t) = NULL
BY DEF RequestOf

(* Whoever is not at the channel has not been served, or asks nothing.     *)
LEMMA AwayRequest ==
  ASSUME NEW t \in Thread, pc'[t] = pc[t], ~Driving(pc[t])
  PROVE  RequestOf(t)' = RequestOf(t)
<1>1. CASE pc[t].at = "user"
  BY <1>1 DEF RequestOf
<1>2. CASE pc[t].at = "acquire"
  <2>1. ~Done(t) /\ ~Done(t)'
    BY <1>2 DEF Done
  <2>2. Done(t) = FALSE /\ Done(t)' = FALSE
    BY <2>1 DEF Done
  <2> QED
    BY <1>2, <2>2 DEF RequestOf
<1> QED
  BY <1>1, <1>2 DEF Driving

(* A step that serves nobody.                                              *)
LEMMA SameRequest ==
  ASSUME NEW t \in Thread, pc'[t].op = pc[t].op, pc'[t].disk = pc[t].disk, pc'[t].sec = pc[t].sec,
         pc[t].at # "user", pc'[t].at # "user", Done(t)' <=> Done(t),
         pc[t].op = "read" /\ Done(t) =>
           (IF pc'[t].at \notin {"disown", "up"} THEN buf' ELSE pc'[t].data)
             = (IF pc[t].at \notin {"disown", "up"} THEN buf ELSE pc[t].data),
         pc'[t].data = pc[t].data \/ (pc[t].op = "read" /\ Done(t)) \/ pc[t].op = "identify"
  PROVE  RequestOf(t)' = RequestOf(t)
<1>1. Done(t)' = Done(t)
  BY DEF Done
<1>2. CASE pc[t].op = "identify"
  BY <1>2 DEF RequestOf
<1>3. CASE pc[t].op # "identify"
  BY <1>1, <1>3 DEF RequestOf
<1> QED
  BY <1>2, <1>3

LEMMA StutterIs ==
  ASSUME \A t \in Thread : RequestOf(t)' = RequestOf(t), platter' = platter
  PROVE  AtomicStep
<1>1. Requests' = Requests
  BY DEF Requests
<1> QED
  BY <1>1 DEF AtomicStep

LEMMA CallIs ==
  ASSUME NullAssumption, NEW t \in Thread, NEW d \in Disk, NEW s \in Sector, NEW v \in Data \cup {NULL},
         NEW op, op = (IF v = NULL THEN "read" ELSE "write"),
         \A u \in Thread : u # t => RequestOf(u)' = RequestOf(u), platter' = platter,
         RequestOf(t) = NULL,
         RequestOf(t)' = [op |-> op, disk |-> d, sec |-> s, done |-> FALSE, data |-> v]
  PROVE  AtomicStep
<1> DEFINE r == [op |-> op, disk |-> d, sec |-> s, data |-> v, done |-> FALSE]
<1>1. RequestOf(t)' = r
  OBVIOUS
<1>2. Requests' = [Requests EXCEPT ![t] = r] /\ Requests[t] = NULL
  BY <1>1 DEF Requests
<1>3. Spec_!Call(t, d, s)
  <2>1. CASE v = NULL
    BY <1>2, <2>1 DEF Spec_!Call, Requests
  <2>2. CASE v # NULL
    BY <1>2, <2>2 DEF Spec_!Call, Requests
  <2> QED
    BY <2>1, <2>2
<1> QED
  BY <1>3 DEF AtomicStep, Spec_!Next

LEMMA ReturnIs ==
  ASSUME NullAssumption, NEW t \in Thread,
         \A u \in Thread : u # t => RequestOf(u)' = RequestOf(u), platter' = platter,
         RequestOf(t) \in Spec_!Request, RequestOf(t).done, RequestOf(t)' = NULL
  PROVE  AtomicStep
<1>1. Requests' = [Requests EXCEPT ![t] = NULL] /\ Requests[t] = RequestOf(t)
  BY DEF Requests
<1>2. Spec_!Return(t)
  BY <1>1 DEF Spec_!Return, Requests, NullAssumption
<1> QED
  BY <1>2 DEF AtomicStep, Spec_!Next

LEMMA ReadIs ==
  ASSUME NullAssumption, NEW t \in Thread,
         \A u \in Thread : u # t => RequestOf(u)' = RequestOf(u), platter' = platter,
         RequestOf(t) \in Spec_!Request, ~RequestOf(t).done, RequestOf(t).op = "read",
         RequestOf(t)' = [RequestOf(t) EXCEPT
                            !.done = TRUE, !.data = platter[RequestOf(t).disk, RequestOf(t).sec]]
  PROVE  AtomicStep
<1> DEFINE r == RequestOf(t)
           d == platter[r.disk, r.sec]
<1>1. Requests[t] = r /\ Requests \in [Thread -> {RequestOf(u) : u \in Thread}]
  BY DEF Requests
<1>2. Requests' = [Requests EXCEPT ![t] = [r EXCEPT !.done = TRUE, !.data = d]]
  BY DEF Requests
<1>3. Requests' = [Requests EXCEPT ![t].done = TRUE, ![t].data = d]
  BY <1>1, <1>2
<1>4. Spec_!Read(t)
  BY <1>1, <1>3 DEF Spec_!Read, Spec_!Pending, Requests, NullAssumption
<1> QED
  BY <1>4 DEF AtomicStep, Spec_!Next

LEMMA WriteIs ==
  ASSUME NullAssumption, NEW t \in Thread,
         \A u \in Thread : u # t => RequestOf(u)' = RequestOf(u),
         RequestOf(t) \in Spec_!Request, ~RequestOf(t).done, RequestOf(t).op = "write",
         platter' = [platter EXCEPT ![<<RequestOf(t).disk, RequestOf(t).sec>>] = RequestOf(t).data],
         RequestOf(t)' = [RequestOf(t) EXCEPT !.done = TRUE]
  PROVE  AtomicStep
<1> DEFINE r == RequestOf(t)
<1>1. Requests[t] = r /\ Requests \in [Thread -> {RequestOf(u) : u \in Thread}]
  BY DEF Requests
<1>2. Requests' = [Requests EXCEPT ![t] = [r EXCEPT !.done = TRUE]]
  BY DEF Requests
<1>3. Requests' = [Requests EXCEPT ![t].done = TRUE]
  BY <1>1, <1>2
<1>4. Spec_!Write(t)
  BY <1>1, <1>3 DEF Spec_!Write, Spec_!Pending, Requests, NullAssumption
<1> QED
  BY <1>4 DEF AtomicStep, Spec_!Next

LEMMA TypedRequest ==
  ASSUME DriverInv, NEW t \in Thread, pc[t].at # "user", pc[t].op # "identify"
  PROVE  RequestOf(t) \in Spec_!Request
<1>1. /\ pc[t] \in Frames /\ pc[t].op \in {"read", "write"} /\ buf \in Data \cup {NULL}
      /\ Done(t) \in BOOLEAN
  BY DEF DriverInv, ThreadsInv, TypesOK, HardwareOK, BootOK, Frames, Done
<1> QED
  BY <1>1, RequestIs DEF Spec_!Request, Frames

LEMMA FieldsIs ==
  ASSUME NEW t \in Thread, pc[t].at # "user", pc[t].op # "identify"
  PROVE  /\ RequestOf(t).op = pc[t].op /\ RequestOf(t).disk = pc[t].disk
         /\ RequestOf(t).sec = pc[t].sec /\ RequestOf(t).done = Done(t)
         /\ pc[t].op # "read" => RequestOf(t).data = pc[t].data
<1>1. RequestOf(t).op = pc[t].op
  BY DEF RequestOf
<1>2. RequestOf(t).disk = pc[t].disk
  BY DEF RequestOf
<1>3. RequestOf(t).sec = pc[t].sec
  BY DEF RequestOf
<1>4. RequestOf(t).done = Done(t)
  BY DEF RequestOf
<1>5. pc[t].op # "read" => RequestOf(t).data = pc[t].data
  BY DEF RequestOf
<1> QED
  BY <1>1, <1>2, <1>3, <1>4, <1>5

(* Threads that switch, the timer, and a panic.                            *)
LEMMA AwayAtomic ==
  ASSUME UNCHANGED <<pc, bsy, drq, buf, platter>>
  PROVE  AtomicStep
<1>1. \A t \in Thread : RequestOf(t)' = RequestOf(t)
  BY DEF RequestOf, Done
<1> QED
  BY <1>1, StutterIs

LEMMA PanicAtomic ==
  ASSUME Panic
  PROVE  AtomicStep
BY AwayAtomic DEF Panic, hardware, controller

(* The disks are identified before anybody asks for anything.              *)
LEMMA BootAtomic ==
  ASSUME Assumptions, DriverInv, Detect \/ Probe
  PROVE  AtomicStep
<1>1. UNCHANGED <<bsy, drq, buf, platter>> /\ (pc' = pc \/ Probe)
  BY DEF Detect, Probe, controller, hardware
<1>2. CASE pc' = pc
  BY <1>1, <1>2, AwayAtomic
<1>3. CASE /\ pc' = [pc EXCEPT ![Main] = Frame("idle", "identify", probing, 0, NULL)]
           /\ Main \in Thread /\ pc[Main].at = "user"
  <2>1. pc'[Main].op = "identify" /\ \A u \in Thread : u # Main => pc'[u] = pc[u]
    BY <1>3 DEF DriverInv, ThreadsInv, TypesOK, Frame
  <2>2. RequestOf(Main)' = RequestOf(Main)
    BY <1>3, <2>1 DEF RequestOf
  <2>3. \A u \in Thread : u # Main => RequestOf(u)' = RequestOf(u)
    BY <1>1, <2>1 DEF RequestOf, Done
  <2> QED
    BY <1>1, <2>2, <2>3, StutterIs
<1> QED
  BY <1>1, <1>2, <1>3 DEF Probe, At, Me, Assumptions, StockAssumption

LEMMA IgnoreAtomic ==
  ASSUME Assumptions, DriverInv, Ignore, current \in Thread, pc[current].op = "identify"
  PROVE  AtomicStep
<1>1. UNCHANGED <<bsy, drq, buf, platter>> /\ pc' = [pc EXCEPT ![current] = User]
  BY DEF Ignore, hardware, controller
<1>2. pc'[current].at = "user" /\ \A u \in Thread : u # current => pc'[u] = pc[u]
  BY <1>1 DEF DriverInv, ThreadsInv, TypesOK, User, Frame
<1>3. \A u \in Thread : u # current => RequestOf(u)' = RequestOf(u)
  BY <1>1, <1>2 DEF RequestOf, Done
<1>4. ASSUME NEW t \in Thread, t = current PROVE RequestOf(t)' = RequestOf(t)
  BY <1>2, <1>4 DEF RequestOf
<1> QED
  BY <1>1, <1>3, <1>4, StutterIs

(* block_read and block_write are called: by partition_scan for sector 0,  *)
(* or by whoever likes.                                                    *)
LEMMA AskAtomic ==
  ASSUME NullAssumption, DriverInv, NEW t \in Thread, RequestOf(t) = NULL,
         NEW d \in Disk, NEW s \in Sector, NEW v \in Data \cup {NULL},
         pc' = [pc EXCEPT ![t] = Frame("acquire", IF v = NULL THEN "read" ELSE "write", d, s, v)],
         UNCHANGED <<bsy, drq, buf, platter>>
  PROVE  AtomicStep
<1> DEFINE op == IF v = NULL THEN "read" ELSE "write"
<1>1. /\ pc'[t].at = "acquire" /\ pc'[t].op = op /\ pc'[t].disk = d /\ pc'[t].sec = s
      /\ pc'[t].data = v /\ \A u \in Thread : u # t => pc'[u] = pc[u]
  BY DEF DriverInv, ThreadsInv, TypesOK, Frame
<1>2. \A u \in Thread : u # t => RequestOf(u)' = RequestOf(u)
  BY <1>1 DEF RequestOf, Done
<1>3. Done(t)' = FALSE
  BY <1>1 DEF Done
<1>4. RequestOf(t)' = [op |-> op, disk |-> d, sec |-> s, done |-> FALSE, data |-> v]
  <2>1. pc'[t].at \notin {"user", "disown", "up"} /\ pc'[t].op # "identify"
    BY <1>1
  <2> HIDE DEF op
  <2>2. RequestOf(t)' = [op |-> pc'[t].op, disk |-> pc'[t].disk, sec |-> pc'[t].sec,
                         done |-> Done(t)', data |-> pc'[t].data]
    BY <1>3, <2>1 DEF RequestOf
  <2> QED
    BY <1>1, <1>3, <2>2
<1> QED
  BY <1>2, <1>4, CallIs

LEMMA RegisterAtomic ==
  ASSUME Assumptions, NullAssumption, DriverInv, Register
  PROVE  AtomicStep
<1>1. /\ current \in Thread /\ pc[current] \in Frames /\ pc[current].op = "identify"
      /\ 0 \in Sector
  BY HereIs DEF DriverInv, ThreadsInv, BootOK, Register, At, Running, Me,
                Sector, Assumptions, IdeAssumption
<1>2. CASE Ignore
  BY <1>1, <1>2, IgnoreAtomic
<1>3. CASE /\ pc' = [pc EXCEPT ![current] = Frame("acquire", "read", Me.disk, 0, NULL)]
           /\ UNCHANGED <<stockVars, is_ata, expecting_interrupt, panicked, hardware>>
  <2>1. UNCHANGED <<bsy, drq, buf, platter>> /\ Me.disk \in Disk
    BY <1>1, <1>3 DEF hardware, controller, Me, Frames
  <2>2. RequestOf(current) = NULL
    BY <1>1, NoRequest
  <2> QED
    BY <1>1, <1>3, <2>1, <2>2, AskAtomic
<1> QED
  BY <1>2, <1>3 DEF Register

LEMMA RequestAtomic ==
  ASSUME Assumptions, NullAssumption, DriverInv, Request
  PROVE  AtomicStep
<1>1. CASE Panic
  BY <1>1, PanicAtomic
<1>2. ASSUME NEW d \in Disk, NEW s \in Sector, NEW v \in Data \cup {NULL},
             pc' = [pc EXCEPT ![current] =
                      Frame("acquire", IF v = NULL THEN "read" ELSE "write", d, s, v)],
             UNCHANGED <<stockVars, driverVars, panicked, hardware>>
      PROVE  AtomicStep
  <2>1. current \in Thread /\ pc[current].at = "user"
    BY HereIs DEF DriverInv, Request, At, Running, Me
  <2>2. UNCHANGED <<bsy, drq, buf, platter>> /\ RequestOf(current) = NULL
    BY <1>2, <2>1, NoRequest DEF hardware, controller
  <2> QED
    BY <1>2, <2>1, <2>2, AskAtomic
<1> QED
  BY <1>1, <1>2 DEF Request

LEMMA AcquireAtomic ==
  ASSUME DriverInv, Acquire
  PROVE  AtomicStep
<1> DEFINE l == IF Passes(channel_lock) THEN "own" ELSE "acquire"
<1>1. SUFFICES ASSUME NEW t \in Thread, t = current PROVE AtomicStep
  BY HereIs DEF DriverInv, Acquire, At, Running
<1>2. pc[t].at = "acquire" /\ Goto(l) /\ UNCHANGED <<bsy, drq, buf, platter>>
  BY <1>1 DEF Acquire, At, Me, hardware, controller
<1>3. /\ pc'[t].at = l /\ pc'[t].op = pc[t].op /\ pc'[t].disk = pc[t].disk
      /\ pc'[t].sec = pc[t].sec /\ pc'[t].data = pc[t].data
      /\ \A u \in Thread : u # t => pc'[u] = pc[u]
  BY <1>1, <1>2, GoesIs DEF DriverInv
<1>4. \A u \in Thread : u # t => RequestOf(u)' = RequestOf(u)
  BY <1>2, <1>3 DEF RequestOf, Done
<1>5. ~Done(t) /\ ~Done(t)'
  BY <1>2, <1>3 DEF Done
<1>6. RequestOf(t)' = RequestOf(t)
  BY <1>2, <1>3, <1>5, SameRequest
<1> QED
  BY <1>2, <1>4, <1>6, StutterIs

(* The steps at the channel that serve nobody yet, or serve him no further.*)
LEMMA DriverAtomic ==
  ASSUME DriverInv, NEW t \in Thread, Driving(pc[t]), \A u \in Thread : u # t => pc'[u] = pc[u],
         RequestOf(t)' = RequestOf(t), platter' = platter
  PROVE  AtomicStep
<1>1. \A u \in Thread : u # t => RequestOf(u)' = RequestOf(u)
  BY OneDrives, AwayRequest DEF DriverInv
<1> QED
  BY <1>1, StutterIs

LEMMA MoveAtomic ==
  ASSUME DriverInv, Own \/ Disown \/ WaitUntilIdle \/ Select \/ Expect
  PROVE  AtomicStep
<1>1. SUFFICES ASSUME NEW t \in Thread, t = current PROVE AtomicStep
  BY HereIs DEF DriverInv, Own, Disown, WaitUntilIdle, Select, Expect, At, Running
<1>2. /\ pc[t].at \in {"own", "disown", "idle", "select", "expect"}
      /\ UNCHANGED <<bsy, drq, buf, platter>>
  BY <1>1 DEF Own, Disown, WaitUntilIdle, Select, Expect, At, Me, hardware, controller
<1> DEFINE l == CASE pc[t].at = "own" -> "idle" [] pc[t].at = "disown" -> "up"
                  [] pc[t].at = "idle" -> "select" [] pc[t].at = "select" -> "expect"
                  [] pc[t].at = "expect" -> "command"
<1>3. Goto(l)
  BY <1>1 DEF Own, Disown, WaitUntilIdle, Select, Expect, At, Me
<1>4. /\ pc'[t].at = l /\ pc'[t].op = pc[t].op /\ pc'[t].disk = pc[t].disk
      /\ pc'[t].sec = pc[t].sec /\ pc'[t].data = pc[t].data
      /\ \A u \in Thread : u # t => pc'[u] = pc[u]
  BY <1>1, <1>3, GoesIs DEF DriverInv
<1>5. /\ pc[t].at = "disown" => pc'[t].at = "up"
      /\ pc[t].at # "disown" => pc'[t].at \in {"idle", "select", "expect", "command"}
  BY <1>2, <1>4
<1> HIDE DEF l
<1>6. Done(t) <=> pc[t].at = "disown"
  BY <1>2 DEF Done
<1>7. Done(t)' <=> pc[t].at = "disown"
  BY <1>5 DEF Done
<1>8. RequestOf(t)' = RequestOf(t)
  BY <1>2, <1>4, <1>5, <1>6, <1>7, SameRequest
<1> QED
  BY <1>2, <1>4, <1>8, DriverAtomic DEF Driving

LEMMA CommandAtomic ==
  ASSUME DriverInv, Command
  PROVE  AtomicStep
<1>1. SUFFICES ASSUME NEW t \in Thread, t = current PROVE AtomicStep
  BY HereIs DEF DriverInv, Command, At, Running
<1>2. /\ pc[t].at = "command" /\ Goto(IF pc[t].op = "write" THEN "busy" ELSE "complete")
      /\ bsy' = TRUE /\ drq' = FALSE /\ UNCHANGED <<buf, platter>>
  BY <1>1 DEF Command, At, Me
<1>3. /\ pc'[t].at = (IF pc[t].op = "write" THEN "busy" ELSE "complete")
      /\ pc'[t].op = pc[t].op /\ pc'[t].disk = pc[t].disk
      /\ pc'[t].sec = pc[t].sec /\ pc'[t].data = pc[t].data
      /\ \A u \in Thread : u # t => pc'[u] = pc[u]
  BY <1>1, <1>2, GoesIs DEF DriverInv
<1>4. ~Done(t) /\ ~Done(t)'
  BY <1>2, <1>3 DEF Done
<1>5. RequestOf(t)' = RequestOf(t)
  BY <1>2, <1>3, <1>4, SameRequest
<1> QED
  BY <1>2, <1>3, <1>5, DriverAtomic DEF Driving

LEMMA CompleteAtomic ==
  ASSUME Assumptions, DriverInv, Complete
  PROVE  AtomicStep
<1>1. SUFFICES ASSUME NEW t \in Thread, t = current PROVE AtomicStep
  BY HereIs DEF DriverInv, Complete, At, Running
<1> DEFINE l == IF ~Passes(completion_wait) THEN "complete"
                ELSE IF pc[t].op = "write" THEN "disown" ELSE "busy"
<1>2. /\ pc[t].at = "complete" /\ Goto(l) /\ UNCHANGED <<bsy, drq, buf, platter>>
  BY <1>1 DEF Complete, At, Me, hardware, controller
<1>3. /\ pc'[t].at = l /\ pc'[t].op = pc[t].op /\ pc'[t].disk = pc[t].disk
      /\ pc'[t].sec = pc[t].sec /\ pc'[t].data = pc[t].data
      /\ \A u \in Thread : u # t => pc'[u] = pc[u]
  BY <1>1, <1>2, GoesIs DEF DriverInv
<1>4. ChannelOf(pc[t])
  BY DEF DriverInv, ChannelOK
<1>5. Passes(completion_wait) /\ pc[t].op = "write" => ~bsy
  BY <1>2, <1>4 DEF ChannelOf, Works, Resting, None, Passes, Writes
<1>6. Done(t)' <=> Done(t)
  BY <1>2, <1>3, <1>5 DEF Done
<1>7. pc[t].op = "read" => pc'[t].at \notin {"disown", "up"}
  BY <1>3
<1>8. RequestOf(t)' = RequestOf(t)
  BY <1>2, <1>3, <1>6, <1>7, SameRequest
<1> QED
  BY <1>2, <1>3, <1>8, DriverAtomic DEF Driving

LEMMA BusyAtomic ==
  ASSUME Assumptions, DriverInv, WaitWhileBusy
  PROVE  AtomicStep
<1>1. SUFFICES ASSUME NEW t \in Thread, t = current PROVE AtomicStep
  BY HereIs DEF DriverInv, WaitWhileBusy, At, Running
<1>2. pc[t].at = "busy"
  BY <1>1 DEF WaitWhileBusy, At, Me
<1>3. CASE /\ ~bsy /\ drq
           /\ Goto(IF Me.op = "write" THEN "output" ELSE "input")
           /\ UNCHANGED <<stockVars, driverVars, panicked, hardware>>
  <2>1. UNCHANGED <<bsy, drq, buf, platter>>
    BY <1>3 DEF hardware, controller
  <2>2. /\ pc'[t].at = (IF pc[t].op = "write" THEN "output" ELSE "input")
        /\ pc'[t].op = pc[t].op /\ pc'[t].disk = pc[t].disk
        /\ pc'[t].sec = pc[t].sec /\ pc'[t].data = pc[t].data
        /\ \A u \in Thread : u # t => pc'[u] = pc[u]
    BY <1>1, <1>3, GoesIs DEF DriverInv, Me
  <2>3. Done(t)' <=> Done(t)
    BY <1>2, <2>1, <2>2 DEF Done
  <2>4. RequestOf(t)' = RequestOf(t)
    BY <1>2, <2>1, <2>2, <2>3, SameRequest
  <2> QED
    BY <1>2, <2>1, <2>2, <2>4, DriverAtomic DEF Driving
<1>4. CASE IF Me.op = "identify" THEN Ignore ELSE Panic
  BY <1>1, <1>4, IgnoreAtomic, PanicAtomic DEF Me
<1>5. CASE UNCHANGED <<semaVars, holder, pc, driverVars, panicked, hardware>>
  BY <1>5, AwayAtomic DEF hardware, controller
<1> QED
  BY <1>3, <1>4, <1>5 DEF WaitWhileBusy

(* The data goes from the controller's buffer to the caller, and from the  *)
(* caller to the buffer.                                                   *)
LEMMA InputAtomic ==
  ASSUME DriverInv, Input
  PROVE  AtomicStep
<1>1. SUFFICES ASSUME NEW t \in Thread, t = current PROVE AtomicStep
  BY HereIs DEF DriverInv, Input, At, Running
<1>2. pc[t].at = "input" /\ UNCHANGED <<buf, platter>>
  BY <1>1 DEF Input, At, Me
<1>3. /\ pc'[t].at = (IF pc[t].op = "identify" THEN "identified" ELSE "disown")
      /\ pc'[t].op = pc[t].op /\ pc'[t].disk = pc[t].disk /\ pc'[t].sec = pc[t].sec
      /\ pc'[t].data = buf /\ \A u \in Thread : u # t => pc'[u] = pc[u]
  BY <1>1 DEF Input, Me, DriverInv, ThreadsInv, TypesOK, Frames
<1>4. drq /\ pc[t].op \in {"read", "identify"}
  BY <1>2 DEF DriverInv, ChannelOK, ChannelOf, Ready, Reads
<1>5. CASE pc[t].op = "read"
  <2>1. Done(t) /\ Done(t)'
    BY <1>2, <1>3, <1>4, <1>5 DEF Done
  <2>2. RequestOf(t)' = RequestOf(t)
    BY <1>2, <1>3, <1>5, <2>1, SameRequest
  <2> QED
    BY <1>2, <1>3, <2>2, DriverAtomic DEF Driving
<1>6. CASE pc[t].op = "identify"
  <2>1. RequestOf(t)' = RequestOf(t)
    BY <1>3, <1>6 DEF RequestOf
  <2> QED
    BY <1>2, <1>3, <2>1, DriverAtomic DEF Driving
<1> QED
  BY <1>4, <1>5, <1>6

LEMMA OutputAtomic ==
  ASSUME DriverInv, Output
  PROVE  AtomicStep
<1>1. SUFFICES ASSUME NEW t \in Thread, t = current PROVE AtomicStep
  BY HereIs DEF DriverInv, Output, At, Running
<1>2. pc[t].at = "output" /\ bsy' = TRUE /\ Goto("complete") /\ UNCHANGED platter
  BY <1>1 DEF Output, At, Me
<1>3. /\ pc'[t].at = "complete" /\ pc'[t].op = pc[t].op /\ pc'[t].disk = pc[t].disk
      /\ pc'[t].sec = pc[t].sec /\ pc'[t].data = pc[t].data
      /\ \A u \in Thread : u # t => pc'[u] = pc[u]
  BY <1>1, <1>2, GoesIs DEF DriverInv
<1>4. pc[t].op = "write"
  BY <1>2 DEF DriverInv, ThreadsInv, HardwareOK
<1>5. ~Done(t) /\ ~Done(t)'
  BY <1>2, <1>3, <1>4 DEF Done
<1>6. RequestOf(t)' = RequestOf(t)
  BY <1>2, <1>3, <1>5, SameRequest
<1> QED
  BY <1>2, <1>3, <1>6, DriverAtomic DEF Driving

LEMMA UpAtomic ==
  ASSUME Assumptions, NullAssumption, DriverInv, Up
  PROVE  AtomicStep
<1>1. SUFFICES ASSUME NEW t \in Thread, t = current PROVE AtomicStep
  BY HereIs DEF DriverInv, Up, At, Running
<1>2. pc[t].at = "up" /\ pc' = [pc EXCEPT ![t] = User] /\ UNCHANGED platter
  BY <1>1 DEF Up, At, Me, hardware
<1>3. pc'[t].at = "user" /\ \A u \in Thread : u # t => pc'[u] = pc[u]
  BY <1>2 DEF DriverInv, ThreadsInv, TypesOK, User, Frame
<1>4. pc[t].op # "identify" /\ Driving(pc[t])
  BY <1>2 DEF DriverInv, ThreadsInv, BootOK, Commanding, Driving
<1>5. RequestOf(t) \in Spec_!Request
  BY <1>2, <1>4, TypedRequest
<1>6. RequestOf(t).done
  <2>1. Done(t)
    BY <1>2 DEF Done
  <2>2. RequestOf(t).done = Done(t)
    BY <1>2, <1>4, RequestIs
  <2> QED
    BY <2>1, <2>2
<1>7. RequestOf(t)' = NULL
  BY <1>3 DEF RequestOf
<1>8. \A u \in Thread : u # t => RequestOf(u)' = RequestOf(u)
  BY <1>3, <1>4, OneDrives, AwayRequest DEF DriverInv
<1> QED
  BY <1>2, <1>5, <1>6, <1>7, <1>8, ReturnIs

LEMMA ServedIs ==
  ASSUME NEW r \in Spec_!Request, NEW w \in Data \cup {NULL}, NEW q,
         q = [op |-> r.op, disk |-> r.disk, sec |-> r.sec, done |-> TRUE, data |-> w]
  PROVE  /\ q = [r EXCEPT !.done = TRUE, !.data = w]
         /\ w = r.data => q = [r EXCEPT !.done = TRUE]
<1>1. q \in Spec_!Request
  BY DEF Spec_!Request
<1>2. q.op = r.op /\ q.disk = r.disk /\ q.sec = r.sec /\ q.data = w
  OBVIOUS
<1>3. q.done = TRUE
  OBVIOUS
<1>4. q = [r EXCEPT !.done = TRUE, !.data = w]
  <2> DEFINE x == [r EXCEPT !.done = TRUE, !.data = w]
  <2>1. x \in Spec_!Request
    BY DEF Spec_!Request
  <2>2. x.op = r.op /\ x.disk = r.disk /\ x.sec = r.sec /\ x.data = w /\ x.done = TRUE
    BY DEF Spec_!Request
  <2> HIDE DEF x
  <2>3. q = x
    BY <1>1, <1>2, <1>3, <2>1, <2>2 DEF Spec_!Request
  <2> QED
    BY <2>3 DEF x
<1>5. ASSUME w = r.data PROVE q = [r EXCEPT !.done = TRUE]
  <2> DEFINE x == [r EXCEPT !.done = TRUE]
  <2>1. x \in Spec_!Request
    BY DEF Spec_!Request
  <2>2. x.op = r.op /\ x.disk = r.disk /\ x.sec = r.sec /\ x.data = w /\ x.done = TRUE
    BY <1>5 DEF Spec_!Request
  <2> HIDE DEF x
  <2>3. q = x
    BY <1>1, <1>2, <1>3, <2>1, <2>2 DEF Spec_!Request
  <2> QED
    BY <2>3 DEF x
<1> QED
  BY <1>4, <1>5

(* The controller serves the request of the one thread that drives the     *)
(* channel: when it has read the sector, or has written it.                *)
LEMMA ControllerAtomic ==
  ASSUME Assumptions, NullAssumption, Honest, DriverInv, Controller
  PROVE  AtomicStep
<1>1. UNCHANGED pc /\ ~Spurious
  BY DEF Controller, Spurious, Honest
<1>2. bsy /\ (Fetch \/ Take \/ Store \/ Fail)
  BY <1>1 DEF Controller, ControllerStep, Fetch, Take, Store, Fail, Working
<1>3. PICK t \in Thread : Driving(pc[t])
  BY <1>2 DEF DriverInv, ChannelOK, Resting
<1>4. \A u \in Thread : u # t => RequestOf(u)' = RequestOf(u)
  BY <1>1, <1>3, OneDrives, AwayRequest DEF DriverInv
<1>5. ChannelOf(pc[t]) /\ pc[t].at \in {"own", "identified", "disown", "up"} \cup Commanding
      /\ pc[t].op \in {"read", "write", "identify"}
  BY <1>3 DEF DriverInv, ChannelOK, ThreadsInv, TypesOK, BootOK, Frames, Driving
<1>6. /\ ~drq
      /\ \/ pc[t].at = "complete" /\ Reads(pc[t]) /\ Works(pc[t], pc[t].op)
         \/ pc[t].at = "busy" /\ Writes(pc[t]) /\ Works(pc[t], "write")
         \/ pc[t].at = "complete" /\ Writes(pc[t]) /\ Works(pc[t], "store") /\ buf = pc[t].data
  BY <1>2, <1>5 DEF ChannelOf, Works, Ready, Resting, Reads, Writes, Commanding
<1>7. CASE pc[t].op = "identify"
  <2>1. RequestOf(t)' = RequestOf(t)
    BY <1>1, <1>7 DEF RequestOf
  <2>2. job.op = "identify"
    BY <1>6, <1>7 DEF Works, Reads, Writes
  <2>3. platter' = platter
    BY <1>2, <2>2 DEF Fetch, Take, Store, Fail, Working
  <2> QED
    BY <1>1, <1>3, <2>1, <2>3, DriverAtomic
<1>8. CASE Fetch /\ pc[t].op # "identify"
  <2>1. /\ job.op \in {"read", "identify"} /\ bsy' = FALSE /\ drq' = TRUE /\ platter' = platter
        /\ buf' = IF job.op = "read" THEN platter[job.disk, job.sec] ELSE NULL
    BY <1>8 DEF Fetch, Working
  <2>2. /\ pc[t].at = "complete" /\ pc[t].op = "read"
        /\ buf' = platter[pc[t].disk, pc[t].sec]
    BY <1>6, <1>8, <2>1 DEF Works, Reads, Writes
  <2>3. Done(t) = FALSE /\ Done(t)' = TRUE
    BY <1>1, <1>6, <2>1, <2>2 DEF Done
  <2>4. /\ RequestOf(t) \in Spec_!Request /\ RequestOf(t).op = "read"
        /\ RequestOf(t).disk = pc[t].disk /\ RequestOf(t).sec = pc[t].sec
    BY <2>2, TypedRequest, FieldsIs
  <2>5. ~RequestOf(t).done
    <3>1. RequestOf(t).done = Done(t)
      BY <2>2, FieldsIs
    <3> QED
      BY <2>3, <3>1
  <2>6. RequestOf(t)' = [op |-> pc[t].op, disk |-> pc[t].disk, sec |-> pc[t].sec, done |-> TRUE,
                         data |-> buf']
    BY <1>1, <2>2, <2>3 DEF RequestOf
  <2>7. buf' \in Data \cup {NULL}
    BY <2>2 DEF DriverInv, ThreadsInv, TypesOK, HardwareOK, Frames
  <2>8. RequestOf(t)' = [RequestOf(t) EXCEPT !.done = TRUE, !.data = buf']
    <3>1. PICK r \in Spec_!Request : r = RequestOf(t)
      BY <2>4
    <3>2. PICK w \in Data \cup {NULL} : w = buf'
      BY <2>7
    <3>3. RequestOf(t)' = [op |-> r.op, disk |-> r.disk, sec |-> r.sec, done |-> TRUE, data |-> w]
      BY <2>2, <2>4, <2>6, <3>1, <3>2
    <3> QED
      BY <3>1, <3>2, <3>3, ServedIs
  <2>9. buf' = platter[RequestOf(t).disk, RequestOf(t).sec]
    BY <2>2, <2>4
  <2> QED
    BY <1>4, <2>1, <2>4, <2>5, <2>8, <2>9, ReadIs
<1>9. CASE Store /\ pc[t].op # "identify"
  <2>1. /\ job.op = "store" /\ bsy' = FALSE
        /\ platter' = [platter EXCEPT ![<<job.disk, job.sec>>] = buf]
    BY <1>9 DEF Store, Working
  <2>2. /\ pc[t].at = "complete" /\ pc[t].op = "write" /\ bsy
        /\ platter' = [platter EXCEPT ![<<pc[t].disk, pc[t].sec>>] = pc[t].data]
    BY <1>6, <1>9, <2>1 DEF Works, Reads, Writes
  <2>3. Done(t) = FALSE /\ Done(t)' = TRUE
    BY <1>1, <2>1, <2>2 DEF Done
  <2>4. /\ RequestOf(t) \in Spec_!Request /\ RequestOf(t).op = "write"
        /\ RequestOf(t).disk = pc[t].disk /\ RequestOf(t).sec = pc[t].sec
        /\ RequestOf(t).data = pc[t].data /\ pc[t].data \in Data \cup {NULL}
    BY <2>2, TypedRequest, FieldsIs DEF DriverInv, ThreadsInv, HardwareOK
  <2>5. ~RequestOf(t).done
    <3>1. RequestOf(t).done = Done(t)
      BY <2>2, FieldsIs
    <3> QED
      BY <2>3, <3>1
  <2>6. RequestOf(t)' = [op |-> pc[t].op, disk |-> pc[t].disk, sec |-> pc[t].sec, done |-> TRUE,
                         data |-> pc[t].data]
    BY <1>1, <2>2, <2>3 DEF RequestOf
  <2>7. RequestOf(t)' = [RequestOf(t) EXCEPT !.done = TRUE]
    <3>1. RequestOf(t)' = [op |-> RequestOf(t).op, disk |-> RequestOf(t).disk,
                           sec |-> RequestOf(t).sec, done |-> TRUE, data |-> RequestOf(t).data]
      BY <2>2, <2>4, <2>6
    <3>2. RequestOf(t).data \in Data \cup {NULL}
      BY <2>4
    <3> QED
      BY <2>4, <3>1, <3>2, ServedIs
  <2>8. platter' = [platter EXCEPT ![<<RequestOf(t).disk, RequestOf(t).sec>>] = RequestOf(t).data]
    BY <2>2, <2>4
  <2> QED
    BY <1>4, <2>4, <2>5, <2>7, <2>8, WriteIs
<1>10. CASE (Take \/ Fail) /\ pc[t].op # "identify"
  <2>1. buf' = buf /\ platter' = platter /\ bsy' = FALSE
    BY <1>10 DEF Take, Fail
  <2>2. pc[t].op = "write" => pc[t].at = "busy"
    BY <1>6, <1>10 DEF Take, Fail, Working, Works, Reads, Writes, Honest
  <2>3. pc[t].op = "read" => drq' = drq
    BY <1>6, <1>10 DEF Take, Fail, Working, Works, Reads, Writes
  <2>4. ~Done(t) /\ ~Done(t)'
    BY <1>1, <1>5, <1>6, <1>10, <2>2, <2>3 DEF Done
  <2>5. pc[t].at # "user"
    BY <1>3 DEF Driving
  <2>6. RequestOf(t)' = RequestOf(t)
    BY <1>1, <2>1, <2>4, <2>5, SameRequest
  <2> QED
    BY <1>1, <1>3, <2>1, <2>6, DriverAtomic
<1> QED
  BY <1>2, <1>7, <1>8, <1>9, <1>10

LEMMA AtomicNext ==
  ASSUME Assumptions, NullAssumption, Honest, DriverInv, [Next]_vars
  PROVE  AtomicStep
<1>1. CASE UNCHANGED vars
  BY <1>1, AwayAtomic DEF vars, hardware, controller
<1>2. CASE KernelStep
  BY <1>2, BootAtomic, RegisterAtomic, AcquireAtomic, MoveAtomic, CommandAtomic, CompleteAtomic,
     BusyAtomic, InputAtomic, OutputAtomic, UpAtomic
     DEF KernelStep
<1>3. CASE Create \/ Exit \/ Tick \/ IdleLoop
  BY <1>3, AwayAtomic DEF Create, Exit, Tick, IdleLoop, hardware, controller
<1>4. CASE Interrupt
  BY <1>4, AwayAtomic DEF Interrupt
<1>5. CASE Request \/ Controller
  BY <1>5, RequestAtomic, ControllerAtomic
<1> QED
  BY <1>1, <1>2, <1>3, <1>4, <1>5 DEF Next

(* "Internally synchronizes accesses to block devices": while the disks    *)
(* answer in time and keep what they are given, block_read and block_write *)
(* of any number of threads, on the two disks of a channel, are atomic     *)
(* reads and writes of their sectors.                                      *)
THEOREM DisksAreAtomic == ASSUME Honest PROVE Spec => DiskIsAtomic
<1> USE StockAssumption, IdeAssumption, NullAssumption, Honest DEF Assumptions
<1>1. Prompt
  BY DEF Prompt, Honest
<1>2. Init => Spec_!Init
  <2>1. Init => Requests = [t \in Thread |-> NULL]
    BY DEF Init, Requests, RequestOf, User, Frame
  <2> QED
    BY <2>1 DEF Init, Spec_!Init, Requests
<1>3. DriverInv /\ [Next]_vars => [Spec_!Next]_<<platter, [t \in Thread |-> RequestOf(t)]>>
  BY AtomicNext DEF AtomicStep, Requests
<1>4. Spec => []DriverInv
  BY <1>1, DriverInvariance
<1> QED
  BY <1>2, <1>3, <1>4, PTL DEF Spec, DiskIsAtomic, Spec_!Spec
=============================================================================
