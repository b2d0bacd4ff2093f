----------------------------- MODULE MCScheduler -----------------------------
(* Instances of Scheduler for TLC.                                          *)
EXTENDS Scheduler

CONSTANTS a, b, c

\* Task a matches every second, or every other one; the rest are @reboot tasks.
EverySecond == [t \in Task |-> IF t = a THEN Time ELSE {}]
EveryOther == [t \in Task |-> IF t = a THEN {o \in Time : o % 2 = 0} ELSE {}]

\* Either the cron task, for all seconds, or the @reboot tasks, for one.
CronOrBoot == [all \in {{a}, {b, c}} |-> IF all = {a} THEN MaxTime ELSE 1]
OnlyA == [all \in {{a}} |-> MaxTime]

=============================================================================
