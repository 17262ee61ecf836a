------------------------------- MODULE MCSynch -------------------------------
(***************************************************************************)
(* Small instances of Synch: clients with one lock and three priorities,   *)
(* with two locks and changing priorities, and with threads that come and  *)
(* go.                                                                     *)
(***************************************************************************)
EXTENDS Synch

CONSTANTS t1, t2, l1, l2

Falling == [t \in Thread |-> IF t = Main THEN 2 ELSE IF t = t1 THEN 1 ELSE 0]
Equal == [t \in Thread |-> 0]

OneLock ==
  [started |-> {Main, t1, t2}, priority |-> Falling, locks |-> {l1}, levels |-> Priority,
   ops |-> {"lock", "down", "up"}]
TwoLocks ==
  [started |-> {Main, t1}, priority |-> Equal, locks |-> {l1, l2}, levels |-> {0, 1},
   ops |-> {"lock", "set_priority", "down", "up", "intr_up", "try_down"}]
Comings ==
  [started |-> {Main}, priority |-> Equal, locks |-> {l1}, levels |-> {0, 1},
   ops |-> {"create", "exit", "lock"}]
Arriving == [Comings EXCEPT !.ops = {"create", "lock"}]
BothLocks == [OneLock EXCEPT !.locks = {l1, l2}]
Leaving == [OneLock EXCEPT !.ops = @ \cup {"exit"}]
Alone ==
  [started |-> {Main}, priority |-> Falling, locks |-> {l1}, levels |-> Priority,
   ops |-> {"lock", "set_priority"}]
SetAndExit ==
  [started |-> {Main, t1}, priority |-> Equal, locks |-> {}, levels |-> {0, 1},
   ops |-> {"set_priority", "exit"}]

AllClients == {OneLock, TwoLocks, Comings, Arriving, Leaving}
KeepingClients == {BothLocks}
LeavingClients == {Leaving}
OneLockClients == {OneLock}
SettingClients == {Alone, SetAndExit}
==============================================================================
