--------------------------- MODULE TaskWorktrees ---------------------------
(***************************************************************************)
(* The rows of the tables tasks and active_tasks (store/sqlite/store.go)   *)
(* and the Git worktrees behind them (app/task_workspace.go), around the   *)
(* message service in mode thread.  A key is the id of a task.             *)
(*                                                                         *)
(* A turn needs its task's worktree: EnsureReady creates it under the lock *)
(* of the managed repository.  PruneClosed, which every close command ends *)
(* with, removes those of the tasks closed longest ago.  Both write back   *)
(* the whole row they read before they took the lock, and so does the      *)
(* update of last_used_at that follows a turn.                             *)
(*                                                                         *)
(* One user; neither /stop nor a shutdown, which MessageService has.       *)
(***************************************************************************)
EXTENDS MessageService

CONSTANTS Names,      \* names users give to tasks
          Commands,   \* task commands the users issue
          Retention,  \* worktrees of closed tasks that are kept; 15 in the code
          Stored,     \* the rows an earlier process left, a map from task ids
          StoredActive   \* and the task it left selected, or None

WorktreeStatuses == {"pending", "ready", "failed", "pruned"}

\* One row of tasks.  closedAt is 0 for NULL, and a count instead of a date;
\* a ready row has its path, which no statement takes away again.
Row == [name : Names, open : BOOLEAN, closedAt : Nat, worktree : WorktreeStatuses]

ASSUME TaskModeAssumption == ThreadMode = TRUE
ASSUME RetentionAssumption == Retention \in Nat \ {0}
ASSUME TaskActorsAssumption == Commands \cap Messages = {} /\ None \notin Commands
\* What was ready has its worktree, open tasks have different names, and what
\* is closed was closed before.
ASSUME StoredAssumption ==
    /\ DOMAIN Stored \subseteq Keys
    /\ IsFiniteSet(DOMAIN Stored)
    /\ StoredActive \in DOMAIN Stored \cup {None}
    /\ \A t \in DOMAIN Stored :
          /\ Stored[t] \in Row
          /\ Stored[t].open <=> Stored[t].closedAt = 0
          /\ Stored[t].closedAt <= Cardinality(DOMAIN Stored)
          /\ \A u \in DOMAIN Stored :
                /\ Stored[t].open /\ Stored[u].open /\ Stored[t].name = Stored[u].name => t = u
                /\ Stored[t].worktree = "ready" /\ Stored[u].worktree = "ready"
                       /\ Stored[t].name = Stored[u].name => t = u

VARIABLES
    tasks,      \* the table tasks
    active,     \* the user's row in active_tasks
    closings,   \* the clock of closed_at: tasks closed so far
    worktrees,  \* task worktrees registered in the managed repository
    repoLock,   \* who holds managedRepositoryLocks
    row,        \* the row a message has read
    step,       \* where the task side of a message's turn stands
    doomed,     \* what a command's PruneClosed still has to remove: id -> row
    overtaken   \* history: messages whose task was closed, and their step then

worktreeVars == <<tasks, closings, worktrees, repoLock, row, step, doomed, overtaken>>

\* In these steps a message holds a row it may write back.
RowInHand == {"loaded", "locked", "added", "broken", "read"}
Steps == {"none", "ready", "refused", "touch", "over"} \cup RowInHand

NoRow == [name |-> None, open |-> FALSE, closedAt |-> 0, worktree |-> "pending"]

WorktreesInit ==
    /\ tasks = Stored
    /\ active = StoredActive
    /\ closings = Cardinality(DOMAIN Stored)
    /\ worktrees = {t \in DOMAIN Stored : Stored[t].worktree = "ready"}
    /\ repoLock = None
    /\ row = [m \in Messages |-> NoRow]
    /\ step = [m \in Messages |-> "none"]
    /\ doomed = [c \in Commands |-> <<>>]
    /\ overtaken = {}

OpenTasks == {t \in DOMAIN tasks : tasks[t].open}

At(m, s) == pc[m] = "registered" /\ step[m] = s
Reach(m, s) == step' = [step EXCEPT ![m] = s]

-----------------------------------------------------------------------------
(* ensureTaskReady and EnsureReady, between RegisterInFlight and the turn *)

\* DEFECT: a closed task is not refused.
LoadTaskAnyStatus(m) ==
    /\ At(m, "none")
    /\ row' = [row EXCEPT ![m] = tasks[key[m]]]
    /\ Reach(m, "loaded")
    /\ UNCHANGED <<vars, tasks, active, closings, worktrees, repoLock, doomed, overtaken>>

\* GetTask at the start of the execution.
LoadTask(m) ==
    /\ At(m, "none")
    /\ tasks[key[m]].open
    /\ row' = [row EXCEPT ![m] = tasks[key[m]]]
    /\ Reach(m, "loaded")
    /\ UNCHANGED <<vars, tasks, active, closings, worktrees, repoLock, doomed, overtaken>>

\* The task was closed while the message was on its way, or GetTask fails.
LoadTaskFails(m) ==
    /\ At(m, "none")
    /\ \/ ~tasks[key[m]].open /\ SetUpRefused(m)
       \/ SetUpFails(m)
    /\ Reach(m, "refused")
    /\ UNCHANGED <<tasks, active, closings, worktrees, repoLock, row, doomed, overtaken>>

\* The worktree is there already, says the row.
AlreadyReady(m) ==
    /\ At(m, "loaded")
    /\ row[m].worktree = "ready"
    /\ SetUp(m)
    /\ Reach(m, "ready")
    /\ UNCHANGED <<tasks, active, closings, worktrees, repoLock, row, doomed, overtaken>>

LockForSetUp(m) ==
    /\ At(m, "loaded")
    /\ row[m].worktree # "ready"
    /\ repoLock = None
    /\ repoLock' = m
    /\ Reach(m, "locked")
    /\ UNCHANGED <<vars, tasks, active, closings, worktrees, row, doomed, overtaken>>

\* Git checks a branch out in one worktree only; a task's branch is named
\* after its name, so that two tasks of one name share it.
BranchTaken(t) == \E u \in worktrees \ {t} : tasks[u].name = tasks[t].name

\* prepareWorktreePath removes what is at the path, `git worktree add` creates it.
AddWorktree(m) ==
    /\ At(m, "locked")
    /\ ~BranchTaken(key[m])
    /\ worktrees' = worktrees \cup {key[m]}
    /\ Reach(m, "added")
    /\ UNCHANGED <<vars, tasks, active, closings, repoLock, row, doomed, overtaken>>

\* Git fails after or before the path was cleared, for whatever reason.
AddWorktreeFails(m) ==
    /\ At(m, "locked")
    /\ worktrees' \in {worktrees, worktrees \ {key[m]}}
    /\ Reach(m, "broken")
    /\ UNCHANGED <<vars, tasks, active, closings, repoLock, row, doomed, overtaken>>

\* UpdateTask writes every column of the row but its id.
Write(t, r) == tasks' = [tasks EXCEPT ![t] = r]

MarkReady(m) ==
    /\ At(m, "added")
    /\ SetUp(m)
    /\ Write(key[m], [row[m] EXCEPT !.worktree = "ready"])
    /\ repoLock' = None
    /\ Reach(m, "ready")
    /\ UNCHANGED <<active, closings, worktrees, row, doomed, overtaken>>

\* DEFECT: the row says ready before the worktree is known to be there.
MarkFailedReady(m) ==
    /\ At(m, "broken")
    /\ SetUpRefused(m)
    /\ Write(key[m], [row[m] EXCEPT !.worktree = "ready"])
    /\ repoLock' = None
    /\ Reach(m, "refused")
    /\ UNCHANGED <<active, closings, worktrees, row, doomed, overtaken>>

\* markTaskWorktreeFailed; the user is told to retry.
MarkFailed(m) ==
    /\ At(m, "broken")
    /\ SetUpRefused(m)
    /\ Write(key[m], [row[m] EXCEPT !.worktree = "failed"])
    /\ repoLock' = None
    /\ Reach(m, "refused")
    /\ UNCHANGED <<active, closings, worktrees, row, doomed, overtaken>>

\* The store fails: neither result is recorded, and the turn is refused.
MarkFails(m) ==
    /\ At(m, "added") \/ At(m, "broken")
    /\ SetUpRefused(m)
    /\ repoLock' = None
    /\ Reach(m, "refused")
    /\ UNCHANGED <<tasks, active, closings, worktrees, row, doomed, overtaken>>

-----------------------------------------------------------------------------
(* touchTaskLastUsed, after the binding was saved *)

Touching(m, s) == pc[m] = "returned" /\ step[m] = s

\* DEFECT: the row that was read before the turn is written.
TouchLoadNothing(m) ==
    /\ Touching(m, "touch")
    /\ Reach(m, "read")
    /\ UNCHANGED <<vars, tasks, active, closings, worktrees, repoLock, row, doomed, overtaken>>

TouchLoad(m) ==
    /\ Touching(m, "touch")
    /\ row' = [row EXCEPT ![m] = tasks[key[m]]]
    /\ Reach(m, "read")
    /\ UNCHANGED <<vars, tasks, active, closings, worktrees, repoLock, doomed, overtaken>>

TouchWrite(m) ==
    /\ Touching(m, "read")
    /\ Write(key[m], row[m])
    /\ Reach(m, "over")
    /\ UNCHANGED <<vars, active, closings, worktrees, repoLock, row, doomed, overtaken>>

\* Errors are only logged.
TouchFails(m) ==
    /\ Touching(m, "touch") \/ Touching(m, "read")
    /\ Reach(m, "over")
    /\ UNCHANGED <<vars, tasks, active, closings, worktrees, repoLock, row, doomed, overtaken>>

-----------------------------------------------------------------------------
(* PruneClosed: the operators a close command steps through *)

\* ListClosedReadyTasks, most recently closed first.
ClosedReady == {t \in DOMAIN tasks : ~tasks[t].open /\ tasks[t].worktree = "ready"}
ClosedAfter(t) == {u \in ClosedReady : tasks[u].closedAt > tasks[t].closedAt}

\* DEFECT: one worktree too many is removed.
SurplusOffByOne == {t \in ClosedReady : Cardinality(ClosedAfter(t)) >= Retention - 1}

\* Those behind the first Retention of the list.
Surplus == {t \in ClosedReady : Cardinality(ClosedAfter(t)) >= Retention}

PruneList(c) == doomed' = [doomed EXCEPT ![c] = [t \in Surplus |-> tasks[t]]]

PruneLock(c) == repoLock = None /\ repoLock' = c
PruneUnlock(c) == repoLock = c /\ repoLock' = None

\* The next of the list.
NextDoomed(c) ==
    {t \in DOMAIN doomed[c] :
        \A u \in DOMAIN doomed[c] : doomed[c][u].closedAt <= doomed[c][t].closedAt}

Undoom(c, t) == doomed' = [doomed EXCEPT ![c] = [u \in DOMAIN @ \ {t} |-> @[u]]]

\* Removed, and recorded unless the store fails.
PruneOne(c, t) ==
    /\ repoLock = c
    /\ t \in NextDoomed(c)
    /\ t \in worktrees
    /\ worktrees' = worktrees \ {t}
    /\ \/ Write(t, [doomed[c][t] EXCEPT !.worktree = "pruned"])
       \/ UNCHANGED tasks
    /\ Undoom(c, t)

\* Git fails, also because there is no such worktree any more: logged.
PruneSkips(c, t) ==
    /\ repoLock = c
    /\ t \in NextDoomed(c)
    /\ Undoom(c, t)
    /\ UNCHANGED <<tasks, worktrees>>

=============================================================================
