------------------------------ MODULE AlarmSpec ------------------------------
(* What timer_sleep promises: a thread asks at some time to sleep for so    *)
(* many ticks, falls asleep some time later, and the first tick at or after *)
(* the time it asked for wakes it: never an earlier one, never a later one, *)
(* however many threads sleep.                                              *)
EXTENDS Integers

CONSTANTS Thread, MaxTicks

VARIABLES now, due, asleep
specVars == <<now, due, asleep>>

SpecInit == now = 0 /\ due = [t \in Thread |-> 0] /\ asleep = {}

Ask(t) ==
  /\ t \notin asleep
  /\ \E d \in now .. MaxTicks : due' = [due EXCEPT ![t] = d]
  /\ UNCHANGED <<now, asleep>>

FallAsleep(t) ==
  /\ t \notin asleep
  /\ asleep' = asleep \cup {t}
  /\ UNCHANGED <<now, due>>

(* Time stands still at the horizon MaxTicks, where everybody is due.       *)
TickAll ==
  /\ now' = IF now < MaxTicks THEN now + 1 ELSE now
  /\ asleep' = {t \in asleep : due[t] > now'}
  /\ UNCHANGED due

SpecNext == TickAll \/ \E t \in Thread : Ask(t) \/ FallAsleep(t)
AlarmSpec == SpecInit /\ [][SpecNext]_specVars
==============================================================================
