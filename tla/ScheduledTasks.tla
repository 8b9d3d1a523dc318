--------------------------- MODULE ScheduledTasks ---------------------------
(***************************************************************************)
(* The scheduled task service (app/scheduled_task_service.go): the loop    *)
(* whose ticks admit what is due, and the execution of a run, from its     *)
(* temporary worktree over the Codex turn to the report and the retry.     *)
(*                                                                         *)
(* A run executes under the context of the loop, or under that of the tool *)
(* call that asked for it (execute-now); live is the set of the contexts   *)
(* that are not canceled.  Every call of the store may fail, and does under*)
(* a canceled context.                                                     *)
(***************************************************************************)
EXTENDS ScheduledTables

CONSTANTS Calls,       \* tool calls, whose contexts execute-now uses
          Loop,        \* the context of the loop
          MaxFaults    \* bound: failures of the store, of Discord and of clients, and crashes

Contexts == Calls \cup {Loop}

ASSUME LoopAssumption == Loop \notin Calls
ASSUME MaxFaultsAssumption == MaxFaults \in Nat

VARIABLES
    startedAt,  \* when the loop was started
    ticker,     \* where its tick stands
    live,       \* contexts that are not canceled
    faults,     \* failures so far
    work,       \* executions: key of the run -> where executeRun stands
    begun,      \* history: runs whose Codex turn was begun
    broke,      \* history: runs that failed, and were not canceled
    shown,      \* history: runs of whose report something may be in the channel
    sent        \* history: runs whose report went out whole and was acknowledged

executions == <<work, begun, broke, shown, sent>>
service == <<tables, now, startedAt, ticker, live, faults, executions>>

\* at is the tick's time, seen the list it read, todo what it has not looked
\* at, task and due the occurrence it is about to admit.  The last two are
\* history: tasks changed since the list was read, and tasks dealt with.
Off == [pc |-> "off", at |-> 0, seen |-> <<>>, todo |-> {}, task |-> None, due |-> 0,
        stale |-> {}, sound |-> {}]
Idle == [Off EXCEPT !.pc = "idle"]

WorkStates == {"admitted", "queued", "turn", "retry", "deliver", "posting", "posted", "unposted"}

ServiceInit ==
    /\ TablesInit
    /\ startedAt = 0
    /\ ticker = Off
    /\ live = {}
    /\ faults = 0
    /\ work = <<>>
    /\ begun = {} /\ broke = {} /\ shown = {} /\ sent = {}

-----------------------------------------------------------------------------
(* tick *)

\* Something goes wrong, of itself unless it had to.
Failure(hadTo) == IF hadTo THEN UNCHANGED faults ELSE faults < MaxFaults /\ faults' = faults + 1

\* A statement that takes effect, or fails with an error that is logged.
Try(statement, possible) ==
    \/ possible /\ statement /\ UNCHANGED faults
    \/ Failure(~possible) /\ UNCHANGED tables

TickList ==
    /\ ticker.pc = "idle"
    /\ Loop \in live
    /\ ticker' = [Idle EXCEPT !.pc = "look", !.at = now,
                              !.seen = Restrict(defs, Enabled), !.todo = Enabled]
    /\ UNCHANGED <<tables, now, startedAt, live, faults, executions>>

\* DEFECT: what passed while the scheduler was down is due as well.
AnchorBackfills(t) ==
    IF LatestRun(t) # {} THEN Max(LatestRun(t)) ELSE ticker.seen[t].created - 1

\* DEFECT: nothing that passed while the scheduler was down is due.
AnchorFloorsAll(t) ==
    Max({IF LatestRun(t) # {} THEN Max(LatestRun(t)) ELSE ticker.seen[t].created - 1,
         startedAt - 1})

\* Occurrences up to here are settled: those up to the latest run, or from
\* before the task was created; for cron also those from before the start.
Anchor(t) ==
    LET d == ticker.seen[t]
        last == IF LatestRun(t) # {} THEN Max(LatestRun(t)) ELSE d.created - 1
    IN  IF d.schedule.kind = "cron" THEN Max({last, startedAt - 1}) ELSE last

TickLoad(t) ==
    /\ ticker.pc = "look"
    /\ Loop \in live
    /\ t \in ticker.todo
    /\ LET due == Due(ticker.seen[t], Anchor(t), ticker.at)
       IN  ticker' = IF due = {}
                     THEN [ticker EXCEPT !.todo = @ \ {t}, !.sound = @ \cup {t}]
                     ELSE [ticker EXCEPT !.pc = "admit", !.task = t, !.due = Max(due)]
    /\ UNCHANGED <<tables, now, startedAt, live, faults, executions>>

TickLoadFails(t) ==
    /\ ticker.pc = "look"
    /\ t \in ticker.todo
    /\ Failure(Loop \notin live)
    /\ ticker' = [ticker EXCEPT !.todo = @ \ {t}]
    /\ UNCHANGED <<tables, now, startedAt, live, executions>>

DueRun == <<ticker.task, ticker.due, 1>>
TickNext(sound) ==
    ticker' = [ticker EXCEPT !.pc = "look", !.todo = @ \ {ticker.task},
                             !.sound = @ \cup sound, !.task = None, !.due = 0]

TickAdmit ==
    /\ ticker.pc = "admit"
    /\ Loop \in live
    /\ AdmitRun(DueRun)
    /\ ticker' = [ticker EXCEPT !.pc = "spawn"]
    /\ UNCHANGED <<now, startedAt, live, faults, executions>>

\* The occurrence has a run (execute-now at that very time), the task is
\* deleted, or the store fails.
TickAdmitFails ==
    /\ ticker.pc = "admit"
    /\ Failure(Loop \notin live \/ DueRun \in DOMAIN runs \/ ticker.task \notin DOMAIN defs)
    /\ TickNext({ticker.task} \cap {k[1] : k \in DOMAIN runs \cap {DueRun}})
    /\ UNCHANGED <<tables, now, startedAt, live, executions>>

Execute(k, d, context) ==
    work' = With(work, k, [pc |-> "queued", target |-> ResolvesTarget(d), context |-> context])

TickSpawn ==
    /\ ticker.pc = "spawn"
    /\ Execute(DueRun, ticker.seen[ticker.task], Loop)
    /\ TickNext({ticker.task})
    /\ UNCHANGED <<tables, now, startedAt, live, faults, begun, broke, shown, sent>>

TickEnds ==
    /\ ticker.pc = "look"
    /\ ticker.todo = {}
    /\ ticker' = Idle
    /\ UNCHANGED <<tables, now, startedAt, live, faults, executions>>

LoopEnds ==
    /\ ticker.pc = "idle"
    /\ Loop \notin live
    /\ ticker' = Off
    /\ UNCHANGED <<tables, now, startedAt, live, faults, executions>>

TickStep ==
    \/ TickList \/ TickAdmit \/ TickAdmitFails \/ TickSpawn \/ TickEnds \/ LoopEnds
    \/ \E t \in Ids : TickLoad(t) \/ TickLoadFails(t)

-----------------------------------------------------------------------------
(* executeRun, failRun and deliverRunResult *)

At(k, s) == k \in DOMAIN work /\ work[k].pc = s
Reach(k, s) == work' = [work EXCEPT ![k].pc = s]
Over(k) == work' = Restrict(work, DOMAIN work \ {k})
InTime(k) == work[k].context \in live
Recordable(k) == InTime(k) /\ k \in DOMAIN runs

Aside == <<now, startedAt, ticker, live>>

\* The run is marked as running; then come the worktree and RunTurn.
BeginTurn(k) ==
    /\ At(k, "queued")
    /\ Recordable(k)
    /\ UpdateRun(k, "running")
    /\ begun' = begun \cup {k}
    /\ Reach(k, "turn")
    /\ UNCHANGED <<Aside, faults, broke, shown, sent>>

\* It cannot be marked, and is given up as it is.
BeginTurnFails(k) ==
    /\ At(k, "queued")
    /\ Failure(~Recordable(k))
    /\ Over(k)
    /\ UNCHANGED <<Aside, tables, begun, broke, shown, sent>>

\* DEFECT: a success that cannot be recorded counts as a failure.
TurnSucceedsOrIsRetried(k) ==
    /\ At(k, "turn")
    /\ Try(UpdateRun(k, "succeeded"), Recordable(k))
    /\ Reach(k, IF runs' # runs THEN "deliver" ELSE "retry")
    /\ UNCHANGED <<Aside, begun, broke, shown, sent>>

\* A success that cannot be recorded is reported nevertheless.
TurnSucceeds(k) ==
    /\ At(k, "turn")
    /\ Try(UpdateRun(k, "succeeded"), Recordable(k))
    /\ Reach(k, "deliver")
    /\ UNCHANGED <<Aside, begun, broke, shown, sent>>

\* The context ended, and with it the turn or the worktree's preparation.  This
\* and a failure are recorded under a context of their own.
TurnCanceled(k) ==
    /\ At(k, "turn")
    /\ ~InTime(k)
    /\ Try(UpdateRun(k, "canceled"), k \in DOMAIN runs)
    /\ Over(k)
    /\ UNCHANGED <<Aside, begun, broke, shown, sent>>

\* The worktree could not be made, or the turn failed: there is one more try.
TurnFails(k) ==
    /\ At(k, "turn")
    /\ InTime(k)
    /\ Try(UpdateRun(k, "failed"), k \in DOMAIN runs)
    /\ broke' = broke \cup {k}
    /\ IF k[3] < 2 THEN Reach(k, "retry") ELSE Over(k)
    /\ UNCHANGED <<Aside, begun, shown, sent>>

\* The retry runs under the context of the first attempt, which is over.
Retry(k) ==
    /\ At(k, "retry")
    /\ LET again == <<k[1], k[2], 2>>
       IN  /\ AdmitRun(again)
           /\ work' = With(Restrict(work, DOMAIN work \ {k}), again, [work[k] EXCEPT !.pc = "queued"])
    /\ UNCHANGED <<Aside, faults, begun, broke, shown, sent>>

RetryFails(k) ==
    /\ At(k, "retry")
    /\ Failure(k[1] \notin DOMAIN defs)
    /\ Over(k)
    /\ UNCHANGED <<Aside, tables, begun, broke, shown, sent>>

\* DEFECT: the report goes out without a delivery that says so.
OpenDeliveryAnyway(k) ==
    /\ At(k, "deliver")
    /\ work[k].target
    /\ Try(CreateDelivery(k, "pending"), Recordable(k))
    /\ Reach(k, "posting")
    /\ UNCHANGED <<Aside, begun, broke, shown, sent>>

\* The delivery is opened; then the report is sent.
OpenDelivery(k) ==
    /\ At(k, "deliver")
    /\ work[k].target
    /\ Recordable(k)
    /\ CreateDelivery(k, "pending")
    /\ Reach(k, "posting")
    /\ UNCHANGED <<Aside, faults, begun, broke, shown, sent>>

\* Every message of the report goes out and Discord says so.
PostReport(k) ==
    /\ At(k, "posting")
    /\ InTime(k)
    /\ shown' = shown \cup {k}
    /\ sent' = sent \cup {k}
    /\ Reach(k, "posted")
    /\ UNCHANGED <<Aside, tables, faults, begun, broke>>

\* An error, of a message behind others or of one that went out nevertheless:
\* the report may be in the channel in part, or all of it.  Nothing is sent
\* under a canceled context.
PostReportFails(k) ==
    /\ At(k, "posting")
    /\ Failure(~InTime(k))
    /\ \/ UNCHANGED shown
       \/ InTime(k) /\ shown' = shown \cup {k}
    /\ Reach(k, "unposted")
    /\ UNCHANGED <<Aside, tables, begun, broke, sent>>

\* Nobody to report to.
SkipDelivery(k) ==
    /\ At(k, "deliver")
    /\ ~work[k].target
    /\ Try(CreateDelivery(k, "skipped"), Recordable(k))
    /\ Over(k)
    /\ UNCHANGED <<Aside, begun, broke, shown, sent>>

\* Without a delivery there is no report.
OpenDeliveryFails(k) ==
    /\ At(k, "deliver")
    /\ work[k].target
    /\ Failure(~Recordable(k))
    /\ Over(k)
    /\ UNCHANGED <<Aside, tables, begun, broke, shown, sent>>

\* The last write before the worktree is removed.
CloseDelivery(k) ==
    /\ At(k, "posted") \/ At(k, "unposted")
    /\ Try(UpdateDelivery(k, IF At(k, "posted") THEN "succeeded" ELSE "failed"),
           InTime(k) /\ k \in DOMAIN deliveries)
    /\ Over(k)
    /\ UNCHANGED <<Aside, begun, broke, shown, sent>>

ExecuteRun(k) ==
    \/ BeginTurn(k) \/ BeginTurnFails(k) \/ TurnSucceeds(k) \/ TurnCanceled(k) \/ TurnFails(k)
    \/ Retry(k) \/ RetryFails(k)
    \/ OpenDelivery(k) \/ PostReport(k) \/ PostReportFails(k)
    \/ SkipDelivery(k) \/ OpenDeliveryFails(k) \/ CloseDelivery(k)

-----------------------------------------------------------------------------
(* What must hold *)

\* The service's own state keeps its types.
ServiceTypeOK ==
    /\ startedAt \in Times
    /\ ticker.pc \in {"off", "idle", "look", "admit", "spawn"}
    /\ ticker.todo \cup ticker.sound \subseteq DOMAIN ticker.seen
    /\ ticker.pc \in {"admit", "spawn"} => ticker.task \in ticker.todo /\ DueRun \in Keys
    /\ live \subseteq Contexts
    /\ faults \in 0..MaxFaults
    /\ \A k \in DOMAIN work :
          /\ k \in Keys
          /\ work[k].pc \in WorkStates /\ work[k].target \in BOOLEAN /\ work[k].context \in Contexts
    /\ begun \cup broke \cup shown \cup sent \subseteq Keys

Begins(k) == ~At(k, "turn") /\ At(k, "turn")'

\* An attempt at an occurrence gets one Codex turn, whatever crashes, restarts
\* and tool calls come in between, and a second attempt only follows one that
\* failed: a run that succeeded, was canceled or was cut off is not repeated.
RetryOnlyAfterFailure ==
    [][\A k \in DOMAIN work' :
          Begins(k) => k \notin begun /\ (k[3] = 2 => <<k[1], k[2], 1>> \in broke)]_service

\* What a tick admits is due: the task is enabled, the time is one of its
\* schedule and has come, it is not from before the task, nor for cron from
\* before the start, and it is the latest such; or the task was changed during the tick.
AdmittedRunsAreDue ==
    [][(ticker.pc = "admit" /\ ticker'.pc = "spawn") =>
          LET d == defs[ticker.task]
          IN  \/ ticker.task \in ticker.stale
              \/ /\ d.enabled
                 /\ ticker.due \in d.schedule.times
                 /\ d.created <= ticker.due
                 /\ d.schedule.kind = "cron" => startedAt <= ticker.due
                 /\ \A o \in d.schedule.times : o <= ticker.at => o <= ticker.due]_service

\* A tick leaves nothing behind: an occurrence that has come, of a task it was
\* able to evaluate, has a run, or a later one in its place.  That includes
\* one-shots whose time passed while the process was down.
NothingDueIsLeft ==
    [][(ticker.pc = "look" /\ ticker'.pc = "idle") =>
          \A t \in ticker.sound \ gone :
             LET d == ticker.seen[t]
             IN  \A o \in d.schedule.times :
                    /\ d.created <= o /\ o <= ticker.at
                    /\ d.schedule.kind = "cron" => startedAt <= o
                    => \E k \in DOMAIN runs : k[1] = t /\ o <= k[2]]_service

\* A report of which anything may have gone out has a delivery that was opened,
\* unless its task was deleted; one that went out whole and was acknowledged is
\* never put down as failed, and a delivery that says it succeeded is of such a
\* one.  And only a run that had its answer is reported.
ReportsAreRecorded ==
    /\ \A k \in shown : \/ k[1] \in gone
                        \/ /\ k \in DOMAIN deliveries
                           /\ deliveries[k] \in {"pending", "succeeded", "failed"}
                           /\ k \in sent => deliveries[k] # "failed"
    /\ \A k \in DOMAIN deliveries :
          /\ deliveries[k] = "succeeded" => k \in sent
          /\ k \in begun
          /\ runs[k] \in {"running", "succeeded"}

=============================================================================
