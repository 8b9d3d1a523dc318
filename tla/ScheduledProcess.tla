-------------------------- MODULE ScheduledProcess --------------------------
(***************************************************************************)
(* The scheduled task service in its process: the MCP tools that edit the  *)
(* definitions (scheduled/mcp_server.go, http_mcp_server.go), and the start*)
(* and shutdown of the parts (cmd/39claw/main.go), with crashes.           *)
(*                                                                         *)
(* A tool reads the task by its name, and writes the whole row or inserts  *)
(* or deletes it in a later statement.                                     *)
(***************************************************************************)
EXTENDS ScheduledTasks

CONSTANTS MaxBoots,   \* bound: how often the process is started
          NowCalls    \* the tool calls that are execute-now

ASSUME MaxBootsAssumption == MaxBoots \in Nat
ASSUME NowCallsAssumption == NowCalls \subseteq Calls

VARIABLES
    phase,   \* of the process
    boots,   \* how often it was started
    calls    \* tool call -> where it stands

processVars == <<service, phase, boots, calls>>

Phases == {"down", "serving", "started", "closing", "closed"}

\* row is what a call will write, run what execute-now admits.
NewCall == [pc |-> "idle", task |-> None, row |-> None, run |-> None]

ProcessInit ==
    /\ ServiceInit
    /\ phase = "down"
    /\ boots = 0
    /\ calls = [c \in Calls |-> NewCall]

-----------------------------------------------------------------------------
(* Start and shutdown *)

\* OpenDB, Migrate, and the MCP server, which answers from here on.
Boot ==
    /\ phase = "down"
    /\ boots < MaxBoots
    /\ boots' = boots + 1
    /\ phase' = "serving"
    /\ UNCHANGED <<service, calls>>

\* SetExecutor, the runtime, and the loop with its first tick.
Start ==
    /\ phase = "serving"
    /\ phase' = "started"
    /\ startedAt' = now
    /\ ticker' = Idle
    /\ live' = live \cup {Loop}
    /\ UNCHANGED <<tables, now, faults, executions, boots, calls>>

\* The context of the process ends, and with it the loop's and, by way of
\* BaseContext, that of every request.
Terminate ==
    /\ phase = "started"
    /\ phase' = "closing"
    /\ live' = {}
    /\ UNCHANGED <<tables, now, startedAt, ticker, faults, executions, boots, calls>>

Counted == {k \in DOMAIN work : work[k].pc # "admitted"}

\* DEFECT: the runs are waited for, the loop is not.
CloseRunsOnly ==
    /\ phase = "closing"
    /\ Counted = {}
    /\ phase' = "closed"
    /\ UNCHANGED <<service, boots, calls>>

\* Close of the service: loopWG, then runWG.
Close ==
    /\ phase = "closing"
    /\ ticker.pc = "off"
    /\ Counted = {}
    /\ phase' = "closed"
    /\ UNCHANGED <<service, boots, calls>>

\* What was only in memory is lost.
Vanish ==
    /\ phase' = "down"
    /\ startedAt' = 0
    /\ ticker' = Off
    /\ live' = {}
    /\ work' = <<>>
    /\ calls' = [c \in Calls |-> IF calls[c].pc = "idle" THEN NewCall ELSE [NewCall EXCEPT !.pc = "done"]]
    /\ UNCHANGED <<tables, now, begun, broke, shown, sent, boots>>

\* The deadline of Close passes: the rest of the shutdown is skipped.
CloseTimesOut == phase = "closing" /\ Failure(FALSE) /\ Vanish

\* The runtime and the MCP server are closed.
Exit == phase = "closed" /\ UNCHANGED faults /\ Vanish

Crash == phase \in {"serving", "started"} /\ Failure(FALSE) /\ Vanish

Pass ==
    /\ now < MaxTime
    /\ now' = now + 1
    /\ UNCHANGED <<tables, startedAt, ticker, live, faults, executions, phase, boots, calls>>

-----------------------------------------------------------------------------
(* Tools *)

\* A request is taken while the process lives; its context is its own.
Request(c) == calls[c].pc = "idle" /\ phase \in {"serving", "started"} /\ live' = live \cup {c}
Goto(c, call) == calls' = [calls EXCEPT ![c] = call]
Answered(c) == Goto(c, [NewCall EXCEPT !.pc = "done"]) /\ live' = live \ {c}
Pending(c, s) == calls[c].pc = s /\ c \in live

\* The tick has the row it listed.
NoteEdit(t) ==
    ticker' = IF ticker.pc \in {"off", "idle"} THEN ticker ELSE [ticker EXCEPT !.stale = @ \cup {t}]

Row(n, x, time) ==
    [name |-> n, schedule |-> x.schedule, enabled |-> x.enabled, target |-> x.target, created |-> time]

CreateTask(c) ==
    /\ Request(c)
    /\ \E n \in Names, x \in Inputs :
          LET d == Row(n, x, 0)
          IN  /\ Valid(d)
              /\ ByName(n) = {}
              /\ Goto(c, [NewCall EXCEPT !.pc = "insert", !.row = d])
    /\ UNCHANGED <<tables, now, startedAt, ticker, faults, executions, phase, boots>>

CreateScheduledTask(c) ==
    /\ Pending(c, "insert")
    /\ \E t \in Ids \ (DOMAIN defs \cup gone) :
          InsertTask(t, [calls[c].row EXCEPT !.created = now])
    /\ Answered(c)
    /\ UNCHANGED <<now, startedAt, ticker, faults, executions, phase, boots>>

\* DEFECT: what was there is not validated together with what is new.
EditTaskUnchecked(c) ==
    /\ Request(c)
    /\ \E t \in DOMAIN defs, x \in Inputs :
          LET d == Row(defs[t].name, x, defs[t].created)
          IN  Goto(c, [NewCall EXCEPT !.pc = "write", !.task = t, !.row = d])
    /\ UNCHANGED <<tables, now, startedAt, ticker, faults, executions, phase, boots>>

\* update, and enable and disable, which change one column of it.
EditTask(c) ==
    /\ Request(c)
    /\ \E t \in DOMAIN defs, x \in Inputs :
          LET d == Row(defs[t].name, x, defs[t].created)
          IN  /\ Valid(d)
              /\ Goto(c, [NewCall EXCEPT !.pc = "write", !.task = t, !.row = d])
    /\ UNCHANGED <<tables, now, startedAt, ticker, faults, executions, phase, boots>>

UpdateScheduledTask(c) ==
    /\ Pending(c, "write")
    /\ UpdateTask(calls[c].task, calls[c].row)
    /\ NoteEdit(calls[c].task)
    /\ Answered(c)
    /\ UNCHANGED <<now, startedAt, faults, executions, phase, boots>>

RemoveTask(c) ==
    /\ Request(c)
    /\ \E t \in DOMAIN defs : Goto(c, [NewCall EXCEPT !.pc = "delete", !.task = t])
    /\ UNCHANGED <<tables, now, startedAt, ticker, faults, executions, phase, boots>>

DeleteScheduledTask(c) ==
    /\ Pending(c, "delete")
    /\ DeleteTask(calls[c].task)
    /\ NoteEdit(calls[c].task)
    /\ Answered(c)
    /\ UNCHANGED <<now, startedAt, faults, executions, phase, boots>>

\* Not before SetExecutor; also for tasks that are disabled.
ExecuteTaskNow(c) ==
    /\ phase = "started"
    /\ Request(c)
    /\ \E t \in DOMAIN defs :
          Goto(c, [NewCall EXCEPT !.pc = "admit", !.task = t, !.row = defs[t], !.run = <<t, now, 1>>])
    /\ UNCHANGED <<tables, now, startedAt, ticker, faults, executions, phase, boots>>

AdmitNow(c) ==
    /\ Pending(c, "admit")
    /\ LET k == calls[c].run
       IN  /\ AdmitRun(k)
           /\ work' = With(work, k, [pc |-> "admitted", target |-> ResolvesTarget(calls[c].row),
                                     context |-> c])
    /\ Goto(c, [NewCall EXCEPT !.pc = "running", !.run = calls[c].run])
    /\ UNCHANGED <<now, startedAt, ticker, live, faults, begun, broke, shown, sent, phase, boots>>

\* runWG counts the execution from here on.
CountNow(c) ==
    /\ calls[c].pc = "running"
    /\ At(calls[c].run, "admitted")
    /\ Reach(calls[c].run, "queued")
    /\ UNCHANGED <<Aside, tables, faults, begun, broke, shown, sent, phase, boots, calls>>

\* The answer ends the request's context, also for a retry that still runs.
ExecuteReturns(c) ==
    /\ calls[c].pc = "running"
    /\ calls[c].run \notin DOMAIN work
    /\ Answered(c)
    /\ UNCHANGED <<tables, now, startedAt, ticker, faults, executions, phase, boots>>

\* The store fails, or the row or the name it relied on is gone or taken.
ToolFails(c) ==
    /\ calls[c].pc \in {"insert", "write", "delete", "admit"}
    /\ Failure(\/ c \notin live
               \/ calls[c].pc = "insert" /\ ByName(calls[c].row.name) # {}
               \/ calls[c].pc \in {"write", "admit"} /\ calls[c].task \notin DOMAIN defs
               \/ calls[c].pc = "admit" /\ calls[c].run \in DOMAIN runs)
    /\ Answered(c)
    /\ UNCHANGED <<tables, now, startedAt, ticker, executions, phase, boots>>

\* The client goes away while execute-now is at work.
ClientLeaves(c) ==
    /\ Pending(c, "running")
    /\ Failure(FALSE)
    /\ live' = live \ {c}
    /\ UNCHANGED <<tables, now, startedAt, ticker, executions, phase, boots, calls>>

Edit(c) ==
    \/ CreateTask(c) \/ CreateScheduledTask(c) \/ EditTask(c) \/ UpdateScheduledTask(c)
    \/ RemoveTask(c) \/ DeleteScheduledTask(c)

ExecuteNow(c) ==
    \/ ExecuteTaskNow(c) \/ AdmitNow(c) \/ CountNow(c) \/ ExecuteReturns(c) \/ ClientLeaves(c)

-----------------------------------------------------------------------------

ProcessNext ==
    \/ Boot \/ Start \/ Terminate \/ Close \/ CloseTimesOut \/ Exit \/ Crash \/ Pass
    \/ TickStep /\ UNCHANGED <<phase, boots, calls>>
    \/ \E k \in DOMAIN work : ExecuteRun(k) /\ UNCHANGED <<phase, boots, calls>>
    \/ \E c \in Calls \ NowCalls : Edit(c)
    \/ \E c \in NowCalls : ExecuteNow(c)
    \/ \E c \in Calls : ToolFails(c)

ProcessSpec == ProcessInit /\ [][ProcessNext]_processVars

\* The rows, the service and the process keep their types.
ProcessTypeOK ==
    /\ TablesTypeOK
    /\ ServiceTypeOK
    /\ phase \in Phases
    /\ boots \in 0..MaxBoots
    /\ \A c \in Calls :
          /\ calls[c].pc \in {"idle", "insert", "write", "delete", "admit", "running", "done"}
          /\ calls[c].row \in Definition \cup {None}
          /\ calls[c].run \in Keys \cup {None}

\* When Close says that the scheduler has stopped, no tick is under way and no run
\* is anywhere near a Codex turn or a report.
CloseWaitsForRuns ==
    phase = "closed" =>
        /\ ticker.pc = "off"
        /\ \A k \in DOMAIN work : work[k].pc \in {"admitted", "queued"}

=============================================================================
