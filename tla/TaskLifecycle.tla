--------------------------- MODULE TaskLifecycle ---------------------------
(***************************************************************************)
(* The task commands (app/task_service.go) and the resolution of messages  *)
(* to tasks (thread/policy.go), against the turns and the worktrees of the *)
(* same tasks.  Each call of the store is a step; CloseTask is a           *)
(* transaction, so one step too.  The commands that only show something    *)
(* (current task, list) change no state and are left out.                  *)
(***************************************************************************)
EXTENDS TaskWorktrees

VARIABLE commands   \* progress of each task command

taskVars == <<worktreeVars, active, commands>>
lifecycleVars == <<vars, taskVars>>

\* The last four are history variables: ids inserted under the command's name
\* since it listed the names, the messages not admitted yet when reset-context
\* looked at the coordinator, those whose task it then reset, and whether the
\* task it closed was closed already.
NoCommand == [pc |-> "idle", name |-> None, task |-> None,
              missed |-> {}, outside |-> {}, cut |-> {}, again |-> FALSE]
CommandStates ==
    [pc : {"idle", "named", "activate", "closing", "listing", "pruning", "removing",
           "resetting", "deleting", "done"},
     name : Names \cup {None}, task : Keys \cup {None},
     missed : SUBSET Keys, outside : SUBSET Messages, cut : SUBSET Messages,
     again : BOOLEAN]

TaskInit ==
    /\ Init
    /\ WorktreesInit
    /\ commands = [c \in Commands |-> NoCommand]

Named(n) == {t \in OpenTasks : tasks[t].name = n}

-----------------------------------------------------------------------------
(* prepareMessage in thread mode *)

\* The active task, whatever its status; or the one open task of the name in
\* `task:<name>`.  Everything else is refused.
ResolveTask(m) ==
    /\ PrepareMessage(m)
    /\ \/ key'[m] = active
       \/ \E n \in Names : Named(n) = {key'[m]}
    /\ UNCHANGED taskVars

ResolveTaskFails(m) == HandleUnadmitted(m) /\ UNCHANGED taskVars

-----------------------------------------------------------------------------
(* Commands *)

InStep(c, from, to) ==
    /\ commands[c].pc = from
    /\ commands' = [commands EXCEPT ![c].pc = to]

\* DEFECT: the names of the open tasks are not looked at.
CreateListNothing(c) ==
    /\ commands[c].pc = "idle"
    /\ \E n \in Names : commands' = [commands EXCEPT ![c].pc = "named", ![c].name = n]
    /\ UNCHANGED <<vars, worktreeVars, active>>

\* CreateTask: no open task has the name.
CreateList(c) ==
    /\ commands[c].pc = "idle"
    /\ \E n \in Names :
          /\ Named(n) = {}
          /\ commands' = [commands EXCEPT ![c].pc = "named", ![c].name = n]
    /\ UNCHANGED <<vars, worktreeVars, active>>

\* DEFECT: the task is selected before it is inserted.
CreateActivatesFirst(c) ==
    /\ commands[c].pc = "named"
    /\ Keys \ DOMAIN tasks # {}
    /\ LET t == CHOOSE k \in Keys : k \notin DOMAIN tasks
       IN  /\ active' = t
           /\ commands' = [commands EXCEPT ![c].pc = "activate", ![c].task = t]
    /\ UNCHANGED <<vars, worktreeVars>>

\* The store's CreateTask under a fresh id; other creations of that name that
\* have listed the names already do not see it.
CreateInsert(c) ==
    /\ commands[c].pc = "named"
    /\ Keys \ DOMAIN tasks # {}
    /\ LET t == CHOOSE k \in Keys : k \notin DOMAIN tasks
           n == commands[c].name
       IN  /\ tasks' = Put(tasks, t, [name |-> n, open |-> TRUE, closedAt |-> 0,
                                      worktree |-> "pending"])
           /\ commands' = [d \in Commands |->
                IF d = c THEN [commands[c] EXCEPT !.pc = "activate", !.task = t]
                ELSE IF commands[d].pc = "named" /\ commands[d].name = n
                     THEN [commands[d] EXCEPT !.missed = @ \cup {t}]
                     ELSE commands[d]]
    /\ UNCHANGED <<vars, active, closings, worktrees, repoLock, row, step, doomed, overtaken>>

\* SwitchTask loads an open task, by its id or by a name that is not ambiguous.
SwitchLoad(c) ==
    /\ commands[c].pc = "idle"
    /\ \E t \in OpenTasks :
          commands' = [commands EXCEPT ![c].pc = "activate", ![c].task = t]
    /\ UNCHANGED <<vars, worktreeVars, active>>

\* SetActiveTask, the last step of create and of switch.
Activate(c) ==
    /\ InStep(c, "activate", "done")
    /\ active' = commands[c].task
    /\ UNCHANGED <<vars, worktreeVars>>

CloseLoad(c) ==
    /\ commands[c].pc = "idle"
    /\ \E t \in OpenTasks :
          commands' = [commands EXCEPT ![c].pc = "closing", ![c].task = t]
    /\ UNCHANGED <<vars, worktreeVars, active>>

\* The store's CloseTask, which does not look at the status again.
Close(c) ==
    /\ commands[c].pc = "closing"
    /\ LET t == commands[c].task
       IN  /\ commands' = [commands EXCEPT ![c].pc = "listing", ![c].again = ~tasks[t].open]
           /\ Write(t, [tasks[t] EXCEPT !.open = FALSE, !.closedAt = closings + 1])
           /\ active' = IF active = t THEN None ELSE active
           /\ overtaken' = overtaken \cup
                 {<<m, step[m]>> : m \in {n \in Holders(t) : step[n] # "none"}}
    /\ closings' = closings + 1
    /\ UNCHANGED <<vars, worktrees, repoLock, row, step, doomed>>

PruneNeeded(c) ==
    /\ InStep(c, "listing", "pruning")
    /\ Surplus # {}
    /\ PruneList(c)
    /\ UNCHANGED <<vars, tasks, active, closings, worktrees, repoLock, row, step, overtaken>>

PruneNotNeeded(c) ==
    /\ InStep(c, "listing", "done")
    /\ Surplus = {}
    /\ UNCHANGED <<vars, worktreeVars, active>>

PruneStarts(c) ==
    /\ InStep(c, "pruning", "removing")
    /\ PruneLock(c)
    /\ UNCHANGED <<vars, tasks, active, closings, worktrees, row, step, doomed, overtaken>>

PruneStep(c) ==
    /\ commands[c].pc = "removing"
    /\ \E t \in Keys : PruneOne(c, t) \/ PruneSkips(c, t)
    /\ UNCHANGED <<vars, active, commands, closings, repoLock, row, step, overtaken>>

\* The list is exhausted, or the managed repository cannot be set up; a list
\* left half done by the other failures looks the same.
PruneEnds(c) ==
    /\ InStep(c, "removing", "done")
    /\ PruneUnlock(c)
    /\ UNCHANGED <<vars, tasks, active, closings, worktrees, row, step, doomed, overtaken>>

\* ResetContext loads the active task, and does not look at its status.
ResetLoad(c) ==
    /\ commands[c].pc = "idle"
    /\ active # None
    /\ commands' = [commands EXCEPT ![c].pc = "resetting", ![c].task = active]
    /\ UNCHANGED <<vars, worktreeVars, active>>

ResetRejected(c) ==
    /\ InStep(c, "resetting", "done")
    /\ Busy(commands[c].task)
    /\ UNCHANGED <<vars, worktreeVars, active>>

\* DEFECT: only a running turn counts, not the messages behind it or before it.
ResetGoesAheadAnyway(c) ==
    /\ commands[c].pc = "resetting"
    /\ commands' = [commands EXCEPT ![c].pc = "deleting",
                       ![c].outside = {m \in Messages : pc[m] \in {"new", "prepared"}}]
    /\ UNCHANGED <<vars, worktreeVars, active>>

ResetGoesAhead(c) ==
    /\ commands[c].pc = "resetting"
    /\ ~Busy(commands[c].task)
    /\ commands' = [commands EXCEPT ![c].pc = "deleting",
                       ![c].outside = {m \in Messages : pc[m] \in {"new", "prepared"}}]
    /\ UNCHANGED <<vars, worktreeVars, active>>

\* Messages that are served, or wait to be, on a task.
EngagedOn(t) == Holders(t) \cup {m \in Messages : pc[m] = "waiting" /\ key[m] = t}

\* DeleteThreadBinding.
ResetDelete(c) ==
    /\ commands[c].pc = "deleting"
    /\ binding' = [binding EXCEPT ![commands[c].task] = None]
    /\ commands' = [commands EXCEPT ![c].pc = "done", ![c].cut = EngagedOn(commands[c].task)]
    /\ UNCHANGED <<entries, pc, key, queued, ack, thread, outcome, stopped, cleanups, reply,
                   inFlight, queueWG, canceled, stops>>
    /\ UNCHANGED <<worktreeVars, active>>

\* The selection is refused, or a call of the store fails.
CommandFails(c) ==
    /\ commands[c].pc \notin {"removing", "done"}
    /\ commands' = [commands EXCEPT ![c].pc = "done"]
    /\ UNCHANGED <<vars, worktreeVars, active>>

Command(c) ==
    \/ CreateList(c) \/ CreateInsert(c) \/ SwitchLoad(c) \/ Activate(c)
    \/ CloseLoad(c) \/ Close(c)
    \/ PruneNeeded(c) \/ PruneNotNeeded(c) \/ PruneStarts(c) \/ PruneStep(c) \/ PruneEnds(c)
    \/ ResetLoad(c) \/ ResetRejected(c) \/ ResetGoesAhead(c) \/ ResetDelete(c)
    \/ CommandFails(c)

-----------------------------------------------------------------------------

TaskSetUp(m) ==
    /\ \/ LoadTask(m) \/ LoadTaskFails(m) \/ AlreadyReady(m) \/ LockForSetUp(m)
       \/ AddWorktree(m) \/ AddWorktreeFails(m) \/ MarkReady(m) \/ MarkFailed(m) \/ MarkFails(m)
    /\ UNCHANGED commands

Touch(m) == (TouchLoad(m) \/ TouchWrite(m) \/ TouchFails(m)) /\ UNCHANGED commands

\* The other steps of the message service.  A turn that was answered has its
\* task's last use recorded before it is unregistered.
ServiceStep(m) ==
    /\ Process(m) \/ Turn(m) \/ PresentAck(m)
    /\ pc[m] = "registered" => pc'[m] = "registered"
    /\ pc[m] = "returned" /\ step[m] \in {"touch", "read"} => pc'[m] = "returned"
    /\ IF pc[m] = "turned" /\ outcome'[m] = "answer" THEN Reach(m, "touch") ELSE UNCHANGED step
    /\ UNCHANGED <<tasks, active, closings, worktrees, repoLock, row, doomed, overtaken, commands>>

TaskQuiet ==
    /\ Quiet
    /\ \A c \in Commands : commands[c].pc = "done"
    /\ UNCHANGED taskVars

TaskNext ==
    \/ \E m \in Messages : \/ ResolveTask(m) \/ ResolveTaskFails(m)
                           \/ TaskSetUp(m) \/ Touch(m) \/ ServiceStep(m)
    \/ \E c \in Commands : Command(c)
    \/ TaskQuiet

TaskSpec == TaskInit /\ [][TaskNext]_lifecycleVars

-----------------------------------------------------------------------------
(* Safety *)

\* The tables, the lock and the commands keep their types.
TaskTypeOK ==
    /\ DOMAIN tasks \subseteq Keys
    /\ \A t \in DOMAIN tasks : tasks[t] \in Row
    /\ active \in DOMAIN tasks \cup {None}
    /\ closings \in Nat
    /\ worktrees \subseteq DOMAIN tasks
    /\ repoLock \in Messages \cup Commands \cup {None}
    /\ row \in [Messages -> Row \cup {NoRow}]
    /\ step \in [Messages -> Steps]
    /\ \A c \in Commands : DOMAIN doomed[c] \subseteq DOMAIN tasks
    /\ overtaken \subseteq Messages \X Steps
    /\ commands \in [Commands -> CommandStates]

Overtaken(t, S) == \E m \in Messages, s \in S : key[m] = t /\ <<m, s>> \in overtaken

\* A closed task stays closed, whatever row is written back late: only a
\* message that had read the row of its task when the task was closed under
\* it, and was about to write it back, can reopen it.
IdleCloseIsFinal ==
    [][\A t \in DOMAIN tasks :
          ~tasks[t].open /\ tasks'[t].open => Overtaken(t, RowInHand)]_lifecycleVars

\* A closed task gets no turn: neither a message that waited in the queue
\* while it was closed, nor one that comes later by way of a stale selection
\* of the active task, but only one that was past the look at its status.  The
\* exception is a task that a late row reopened, which a pruning closes again.
ClosedTasksGetNoTurn ==
    \A m \in Messages :
        pc[m] = "turn" /\ ~tasks[key[m]].open =>
            (\E s \in Steps : <<m, s>> \in overtaken) \/ Overtaken(key[m], RowInHand)

\* A turn runs in a worktree that is there, unless the task, or the row some
\* message wrote back, was overtaken by a close command and then pruned.
TurnHasWorktree ==
    \A m \in Messages :
        pc[m] = "turn" /\ key[m] \notin worktrees => Overtaken(key[m], Steps)

\* Pruning, also by several close commands with lists of their own, never
\* takes the worktree of one of the Retention tasks closed last that still
\* have theirs; unless a task was closed twice, by commands that both found it
\* open, so that a list has the date of the first time, or a row was written
\* back late.
PruneKeepsRecent ==
    [][\A t \in worktrees \ worktrees' :
          repoLock \in Commands =>
             \/ Cardinality({u \in worktrees : ~tasks[u].open /\ tasks[u].closedAt > tasks[t].closedAt})
                    >= Retention
             \/ \E c \in Commands : commands[c].again
             \/ \E u \in Keys : Overtaken(u, RowInHand)]_lifecycleVars

\* Work the coordinator had accepted when reset-context looked at it does not
\* have its conversation forgotten under it.
ResetSparesAdmitted == \A c \in Commands : commands[c].cut \subseteq commands[c].outside

\* Two open tasks share a name only if they were created at the same time, or
\* one of them was brought back by a row written late.
NamesCollideOnlyByOverlap ==
    \A t, u \in OpenTasks :
        t # u /\ tasks[t].name = tasks[u].name =>
            \/ \E c \in Commands : commands[c].task \in {t, u} /\ commands[c].missed \cap {t, u} # {}
            \/ Overtaken(t, RowInHand) \/ Overtaken(u, RowInHand)

=============================================================================
