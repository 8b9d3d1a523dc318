-------------------------- MODULE ScheduledTables --------------------------
(***************************************************************************)
(* The tables scheduled_tasks, scheduled_task_runs and                     *)
(* scheduled_task_deliveries (store/sqlite/store.go, migrations) with the  *)
(* statements on them, and the schedules (app/scheduled_schedule.go).      *)
(*                                                                         *)
(* Time is a count of seconds up to MaxTime.  The key of a run is its task,*)
(* the time it is for and its attempt, which the table keeps unique.       *)
(* Deleting a task takes its runs and deliveries with it (ON DELETE        *)
(* CASCADE), and a run or delivery needs its parent (foreign_keys = ON).   *)
(***************************************************************************)
EXTENDS Integers, FiniteSets, FiniteSetsExt, Functions

CONSTANTS Ids,            \* ids of scheduled tasks, each used once
          Names,          \* their names
          Schedules,      \* what schedule_kind and schedule_expr can say
          Inputs,         \* the columns a tool call may ask for: schedule, enabled, target
          DefaultTarget,  \* whether CLAW_SCHEDULED_REPORT_TARGET is set
          Stored,         \* what an earlier process may have left in scheduled_tasks
          MaxTime,        \* bound: the clock stops here
          None

Times == 0..MaxTime
Attempts == 1..2
Keys == Ids \X Times \X Attempts

Definition == [name : Names, schedule : Schedules, enabled : BOOLEAN, target : BOOLEAN, created : Times]

Columns == [schedule : Schedules, enabled : BOOLEAN, target : BOOLEAN]

\* The report target of a definition, or of the instance.
ResolvesTarget(d) == d.target \/ DefaultTarget

\* ValidateScheduledTaskDefinition; names, prompts and expressions are valid here.
Valid(d) == d.enabled => ResolvesTarget(d)

\* cron: any set of times; at: one.
ASSUME MaxTimeAssumption == MaxTime \in Nat
ASSUME SchedulesAssumption ==
    \A s \in Schedules : /\ s.kind \in {"cron", "at"}
                         /\ s.times \subseteq Times
                         /\ s.kind = "at" => Cardinality(s.times) = 1
ASSUME InputsAssumption == Inputs \subseteq Columns
ASSUME TargetAssumption == DefaultTarget \in BOOLEAN
ASSUME StoredAssumption ==
    \A f \in Stored :
        /\ DOMAIN f \subseteq Ids
        /\ \A t \in DOMAIN f : f[t] \in Definition /\ f[t].created = 0 /\ Valid(f[t])
        /\ \A t, u \in DOMAIN f : f[t].name = f[u].name => t = u
ASSUME NoneIsNoId == None \notin Ids

VARIABLES
    defs,         \* scheduled_tasks: id -> definition
    gone,         \* ids of deleted tasks; ULIDs are not used again
    runs,         \* scheduled_task_runs: key -> status
    deliveries,   \* scheduled_task_deliveries: key of the run -> status
    now           \* the clock

tables == <<defs, gone, runs, deliveries>>

\* f with x mapped to y.
With(f, x, y) == [z \in DOMAIN f \cup {x} |-> IF z = x THEN y ELSE f[z]]

Terminal == {"succeeded", "failed", "canceled"}
RunStatuses == {"pending", "running"} \cup Terminal
DeliveryStatuses == {"pending", "succeeded", "failed", "skipped"}

TablesInit ==
    /\ defs \in Stored
    /\ gone = {}
    /\ runs = <<>>
    /\ deliveries = <<>>
    /\ now = 0

-----------------------------------------------------------------------------
(* Schedules *)

\* What repeated calls of Next, from anchor on, find up to now.
Due(d, anchor, at) == {t \in d.schedule.times : anchor < t /\ t <= at}

-----------------------------------------------------------------------------
(* Statements *)

Enabled == {t \in DOMAIN defs : defs[t].enabled}
ByName(n) == {t \in DOMAIN defs : defs[t].name = n}

\* The name is UNIQUE.
InsertTask(t, d) ==
    /\ ByName(d.name) = {}
    /\ defs' = With(defs, t, d)
    /\ UNCHANGED <<gone, runs, deliveries>>

\* Every column but created_at; an error when there is no such row any more.
UpdateTask(t, d) ==
    /\ t \in DOMAIN defs
    /\ defs' = [defs EXCEPT ![t] = d]
    /\ UNCHANGED <<gone, runs, deliveries>>

DeleteTask(t) ==
    /\ defs' = Restrict(defs, DOMAIN defs \ {t})
    /\ gone' = gone \cup {t}
    /\ runs' = Restrict(runs, {k \in DOMAIN runs : k[1] # t})
    /\ deliveries' = Restrict(deliveries, {k \in DOMAIN deliveries : k[1] # t})

\* GetLatestScheduledTaskRunForTask: the time the latest run is for, or none.
LatestRun(t) == {k[2] : k \in {r \in DOMAIN runs : r[1] = t}}

AdmitRun(k) ==
    /\ k[1] \in DOMAIN defs
    /\ k \notin DOMAIN runs
    /\ runs' = With(runs, k, "pending")
    /\ UNCHANGED <<defs, gone, deliveries>>

UpdateRun(k, status) ==
    /\ k \in DOMAIN runs
    /\ runs' = [runs EXCEPT ![k] = status]
    /\ UNCHANGED <<defs, gone, deliveries>>

CreateDelivery(k, status) ==
    /\ k \in DOMAIN runs
    /\ deliveries' = With(deliveries, k, status)
    /\ UNCHANGED <<defs, gone, runs>>

UpdateDelivery(k, status) ==
    /\ k \in DOMAIN deliveries
    /\ deliveries' = [deliveries EXCEPT ![k] = status]
    /\ UNCHANGED <<defs, gone, runs>>

-----------------------------------------------------------------------------

\* The rows keep their types; names are unique, no row is without its parent,
\* a retry is beside its first attempt, and what is enabled has a target
\* although tool calls write back rows they read before.
TablesTypeOK ==
    /\ DOMAIN defs \cup gone \subseteq Ids
    /\ DOMAIN defs \cap gone = {}
    /\ \A t \in DOMAIN defs : defs[t] \in Definition /\ Valid(defs[t])
    /\ \A t, u \in DOMAIN defs : defs[t].name = defs[u].name => t = u
    /\ DOMAIN runs \subseteq Keys
    /\ \A k \in DOMAIN runs :
          /\ k[1] \in DOMAIN defs
          /\ runs[k] \in RunStatuses
          /\ k[3] = 2 => <<k[1], k[2], 1>> \in DOMAIN runs
    /\ DOMAIN deliveries \subseteq DOMAIN runs
    /\ \A k \in DOMAIN deliveries : deliveries[k] \in DeliveryStatuses
    /\ now \in Times

=============================================================================
