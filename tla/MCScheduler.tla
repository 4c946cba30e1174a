---------------------------- MODULE MCScheduler ----------------------------
(* Scheduler for TLC. *)
EXTENDS Scheduler

CONSTANT ekantipur

\* An interval of two ticks: the first backoff takes four, the next six.
TwoTicks == [s \in Source |-> 2]
NoStagger == [s \in Source |-> 0]
=============================================================================
