------------------------------ MODULE MCMonitor ------------------------------
(***************************************************************************)
(* Small instances of Monitor: three threads of different priorities, and  *)
(* two of the same.                                                        *)
(***************************************************************************)
EXTENDS Monitor

CONSTANTS t1, t2, l1, w0, w1, w2

Falling == [t \in Thread |-> IF t = Main THEN 2 ELSE IF t = t1 THEN 1 ELSE 0]
OneEach == [t \in Thread |-> IF t = Main THEN w0 ELSE IF t = t1 THEN w1 ELSE w2]

Ranked ==
  [started |-> {Main, t1, t2}, priority |-> Falling, locks |-> {l1}, levels |-> Priority, ops |-> {"lock"}]
Equal ==
  [started |-> {Main, t1}, priority |-> [t \in Thread |-> 0], locks |-> {l1}, levels |-> {0}, ops |-> {"lock"}]

RankedClients == {Ranked}
EqualClients == {Equal}
==============================================================================
