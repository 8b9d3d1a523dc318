------------------------- MODULE MCScheduledProcess -------------------------
(* Schedules and a view for the run of ScheduledProcess. *)
EXTENDS ScheduledProcess, TLC

CONSTANTS s1, n1

Daily == [kind |-> "cron", times |-> {1}]
Hourly == [kind |-> "cron", times |-> {1, 2}]
OneShot == [kind |-> "at", times |-> {1}]
SmallSchedules == {Daily, Hourly, OneShot}

SmallInputs ==
    {[schedule |-> Hourly, enabled |-> TRUE, target |-> TRUE],
     [schedule |-> OneShot, enabled |-> TRUE, target |-> TRUE],
     [schedule |-> Hourly, enabled |-> TRUE, target |-> FALSE],
     [schedule |-> Hourly, enabled |-> FALSE, target |-> FALSE]}

\* Nothing, or one task.
StoredTasks ==
    {<<>>, s1 :> [name |-> n1, schedule |-> Daily, enabled |-> TRUE, target |-> TRUE, created |-> 0]}

\* Of a run that is over nothing matters any more but that it is in the table,
\* and that what was recorded of it is right; it can only begin again after it
\* was admitted again, which the table does not allow.
Busy(k) == k \in DOMAIN work
View == <<defs, gone, now, startedAt, ticker, live, faults, work, phase, boots, calls, DOMAIN runs,
          Restrict(runs, DOMAIN work \cap DOMAIN runs),
          Restrict(deliveries, DOMAIN work \cap DOMAIN deliveries),
          begun \cap DOMAIN work, shown \cap DOMAIN work, sent \cap DOMAIN work,
          {k \in broke : Busy(k) \/ Busy(<<k[1], k[2], 2>>)},
          ReportsAreRecorded>>

=============================================================================
