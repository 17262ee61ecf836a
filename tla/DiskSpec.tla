------------------------------- MODULE DiskSpec -------------------------------
(***************************************************************************)
(* What devices/block.h promises of the disks: whoever reads or writes a   *)
(* sector needs no lock of his own, a read returns what was last written,  *)
(* and a write returns when the disk has the data.  A request takes effect *)
(* at one moment between its call and its return.                          *)
(***************************************************************************)
EXTENDS Naturals

CONSTANTS Thread, Disk, Sector, Data, NULL

VARIABLES
  store,     \* what is on the disks
  request    \* each thread's request: what, where, and whether it is done

Request ==
  [op : {"read", "write"}, disk : Disk, sec : Sector, data : Data \cup {NULL}, done : BOOLEAN]

Init == store \in [Disk \X Sector -> Data] /\ request = [t \in Thread |-> NULL]

Call(t, d, s) ==
  /\ request[t] = NULL
  /\ \/ \E v \in Data :
          request' = [request EXCEPT ![t] =
                        [op |-> "write", disk |-> d, sec |-> s, data |-> v, done |-> FALSE]]
     \/ request' = [request EXCEPT ![t] =
                      [op |-> "read", disk |-> d, sec |-> s, data |-> NULL, done |-> FALSE]]
  /\ UNCHANGED store

Pending(t) == request[t] # NULL /\ ~request[t].done

Read(t) ==
  /\ Pending(t) /\ request[t].op = "read"
  /\ request' = [request EXCEPT ![t].done = TRUE,
                                ![t].data = store[request[t].disk, request[t].sec]]
  /\ UNCHANGED store

Write(t) ==
  /\ Pending(t) /\ request[t].op = "write"
  /\ store' = [store EXCEPT ![<<request[t].disk, request[t].sec>>] = request[t].data]
  /\ request' = [request EXCEPT ![t].done = TRUE]

Return(t) ==
  /\ request[t] # NULL /\ request[t].done
  /\ request' = [request EXCEPT ![t] = NULL]
  /\ UNCHANGED store

Next ==
  \E t \in Thread :
    \/ \E d \in Disk, s \in Sector : Call(t, d, s)
    \/ Read(t) \/ Write(t) \/ Return(t)

Spec == Init /\ [][Next]_<<store, request>>
===============================================================================
