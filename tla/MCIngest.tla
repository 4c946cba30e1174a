------------------------------ MODULE MCIngest ------------------------------
(* Two outlets, of which one files the same story twice, and another one too. *)
EXTENDS Ingest

CONSTANTS worker, cron, a1, a2, a3, b1

Filed     == [i \in {a1, a2, a3, b1} |-> IF i = b1 THEN "b" ELSE "a"]
SameStory == [i \in {a1, a2, a3, b1} |-> IF i = a3 THEN "t" ELSE "s"]
\* Races within a poll and across outlets and pollers, three entries at a time.
FeedsUsed == {[p \in {worker, cron} |-> IF p = worker THEN {a1, a2} ELSE {a1}],
              [p \in {worker, cron} |-> IF p = worker THEN {a1, a2} ELSE {b1}],
              [p \in {worker, cron} |-> IF p = worker THEN {a1, b1} ELSE {a1}],
              [p \in {worker, cron} |-> IF p = worker THEN {a1, a2, a3} ELSE {}]}

\* The long-lived worker alone, with one entry of each outlet.
OnePass == {[p \in {worker, cron} |-> IF p = worker THEN {a1, b1} ELSE {}]}

\* One entry of one outlet, read by both.
OneEntry == {[p \in {worker, cron} |-> {a1}]}
=============================================================================
