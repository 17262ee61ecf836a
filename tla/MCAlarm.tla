------------------------------- MODULE MCAlarm -------------------------------
(* Small instances of AlarmClock.                                           *)
EXTENDS AlarmClock

CONSTANTS t1

Equal == [t \in Thread |-> 0]
Falling == [t \in Thread |-> IF t = Main THEN 2 ELSE IF t = t1 THEN 1 ELSE 0]
==============================================================================
