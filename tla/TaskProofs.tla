------------------------------ MODULE TaskProofs ------------------------------
(***************************************************************************)
(* Proofs about task commands and worktrees, for any number of messages,   *)
(* commands, tasks and names and any retention: where turns and commands   *)
(* stand, what rows and copies of rows there are, and which of them say    *)
(* that a task is open.                                                    *)
(*                                                                         *)
(* A turn and a command of the same task meet in a row that one of them    *)
(* read before the other wrote it.  The invariants say what such copies    *)
(* still agree on with the table as long as no close command has overtaken *)
(* a message on that task.                                                 *)
(***************************************************************************)
EXTENDS TaskLifecycle, MessageServiceProofs, FiniteSetTheorems

-----------------------------------------------------------------------------
(* The service under task commands is the service, but for reset-context *)

\* Only reset-context does what the service does not: it deletes a binding.
Forgets ==
    /\ UNCHANGED <<entries, pc, key, queued, ack, thread, outcome, stopped, cleanups, reply,
                   inFlight, queueWG, canceled, stops>>
    /\ \E k : binding' = [binding EXCEPT ![k] = None]

LEMMA ServiceStepOrForgets == [TaskNext]_lifecycleVars => [Next]_vars \/ Forgets
<1> SUFFICES ASSUME [TaskNext]_lifecycleVars PROVE [Next]_vars \/ Forgets
  OBVIOUS
<1>1. ASSUME NEW m \in Messages, ResolveTask(m) \/ ResolveTaskFails(m) PROVE Next
  BY <1>1 DEF ResolveTask, ResolveTaskFails, Next, Arrive
<1>2. ASSUME NEW m \in Messages, TaskSetUp(m) PROVE [Next]_vars
  <2>1. SettingUp(m) \/ UNCHANGED vars
    BY <1>2 DEF TaskSetUp, LoadTask, LoadTaskFails, AlreadyReady, LockForSetUp, AddWorktree,
       AddWorktreeFails, MarkReady, MarkFailed, MarkFails, SettingUp
  <2>2. QED
    BY <2>1 DEF Next, Process
<1>3. ASSUME NEW m \in Messages, Touch(m) PROVE UNCHANGED vars
  BY <1>3 DEF Touch, TouchLoad, TouchWrite, TouchFails
<1>4. ASSUME NEW m \in Messages, ServiceStep(m) PROVE Next
  BY <1>4 DEF ServiceStep, Next
<1>5. ASSUME NEW c \in Commands, Command(c) PROVE UNCHANGED vars \/ Forgets
  <2>1. CASE ResetDelete(c)
    BY <2>1 DEF ResetDelete, Forgets
  <2>2. CASE ~ResetDelete(c)
    BY <1>5, <2>2 DEF Command, CreateList, CreateInsert, SwitchLoad, Activate, CloseLoad, Close,
       PruneNeeded, PruneNotNeeded, PruneStarts, PruneStep, PruneEnds, ResetLoad, ResetRejected,
       ResetGoesAhead, CommandFails
  <2>3. QED
    BY <2>1, <2>2
<1>6. CASE TaskQuiet \/ UNCHANGED lifecycleVars
  BY <1>6 DEF TaskQuiet, Next, lifecycleVars
<1>7. QED
  BY <1>1, <1>2, <1>3, <1>4, <1>5, <1>6 DEF TaskNext

LEMMA TaskStep == [TaskNext]_lifecycleVars => [Next]_vars \/ UNCHANGED <<entries, pc, key>>
BY ServiceStepOrForgets DEF Forgets

LEMMA TaskQueueStep == QueueInv /\ [TaskNext]_lifecycleVars => QueueInv'
BY TaskStep, QueueInvStep, IdleKeeps

\* Task commands leave the queue alone: what is proved of the slots and the
\* waiting lists holds among them.
THEOREM TaskQueueAlways == TaskSpec => []QueueInv
<1>1. TaskInit => QueueInv
  BY QueueInvInit DEF TaskInit
<1>2. QED
  BY <1>1, TaskQueueStep, PTL DEF TaskSpec

-----------------------------------------------------------------------------
(* Where a turn stands, on both sides *)

\* The states of the service up to a turn's end are entered in one order.
Before == [new |-> {}, prepared |-> {"new"}, waiting |-> {"prepared"},
           claimed |-> {"prepared", "waiting"}, registered |-> {"claimed"},
           ready |-> {"registered"}, turn |-> {"ready"}, turned |-> {"turn"}]

LEMMA Order ==
  ASSUME QueueInv, [Next]_vars, NEW n \in Messages
  PROVE  /\ pc'[n] \in DOMAIN Before => pc[n] = pc'[n] \/ pc[n] \in Before[pc'[n]]
         /\ pc[n] = "registered" => pc'[n] \in {"registered", "ready", "returned"}
<1> DEFINE Goal == /\ pc'[n] \in DOMAIN Before => pc[n] = pc'[n] \/ pc[n] \in Before[pc'[n]]
                   /\ pc[n] = "registered" => pc'[n] \in {"registered", "ready", "returned"}
<1>0. pc \in [Messages -> States]
  BY DEF QueueInv
<1> USE <1>0 DEF Before, work, shared, Goto, SlotStates
<1>1. ASSUME NEW m \in Messages, Arrive(m) \/ HandleExecuteNow(m) \/ HandleQueued(m)
             \/ HandleQueueFull(m) \/ RegisterInFlight(m) \/ PresentAck(m) \/ SettingUp(m)
             \/ Unregister(m) \/ Delivering(m) \/ Responding(m)
      PROVE  Goal
  BY <1>1 DEF Arrive, HandleUnadmitted, PrepareMessage, HandleExecuteNow, HandleQueued,
     HandleQueueFull, RegisterInFlight, PresentAck, SettingUp, SetUp, SetUpRefused, SetUpFails,
     Return, Unregister, Delivering, DropDeferred, CheckDeferred, SendDeferred, Responding,
     Respond, RespondFails
<1>2. ASSUME NEW m \in Messages, Loading(m) \/ Turn(m) \/ TurnCanceled(m) \/ Persisting(m)
      PROVE  Goal
  BY <1>2 DEF Loading, StartTurn, LoadBindingFails, Turn, TurnSucceeds, TurnFails, TurnCanceled,
     Persisting, PersistBinding, PersistFails, Return
<1>3. ASSUME NEW m \in Messages, CompleteAndRelease(m) PROVE Goal
  BY <1>3 DEF CompleteAndRelease, AfterComplete
<1>4. ASSUME NEW m \in Messages, CompleteAndDrain(m) PROVE Goal
  <2>1. /\ key[m] \in DOMAIN entries
        /\ entries[key[m]].waiting \in Seq(Messages)
        /\ Len(entries[key[m]].waiting) > 0
    BY <1>4 DEF CompleteAndDrain, CompleteNext, Waiting, QueueInv, QueueTypeOK, Entry
  <2>2. /\ Head(Waiting(key[m])) \in Messages
        /\ pc[Head(Waiting(key[m]))] = "waiting"
    BY <2>1 DEF QueueInv, ListedWait, Waiting
  <2>3. QED
    BY <1>4, <2>2 DEF CompleteAndDrain, AfterComplete
<1>5. ASSUME NEW s \in Stops, Stopping(s) PROVE Goal
  <2>1. \A k \in Keys : \A i \in 1..Len(Waiting(k)) : pc[Waiting(k)[i]] = "waiting"
    BY DEF QueueInv, ListedWait, Waiting
  <2>2. QED
    BY <1>5, <2>1 DEF Stopping, StopUnresolved, StopDropQueued, StopInFlight
<1>6. CASE CancelLifecycle \/ Quiet \/ UNCHANGED vars
  BY <1>6 DEF CancelLifecycle, Quiet, vars
<1>7. QED
  BY <1>1, <1>2, <1>3, <1>4, <1>5, <1>6 DEF Next, Process, Admission, Completing

\* A message's own steps move no other message but the one it hands over to.
LEMMA OthersKeep ==
  ASSUME QueueInv, NEW m \in Messages, Process(m) \/ Turn(m) \/ PresentAck(m),
         NEW n \in Messages, n # m
  PROVE  pc'[n] = pc[n] \/ pc[n] = "waiting"
<1>0. pc \in [Messages -> States]
  BY DEF QueueInv
<1> USE <1>0 DEF work, shared, Goto
<1>1. CASE Admission(m) \/ RegisterInFlight(m) \/ PresentAck(m) \/ SettingUp(m)
           \/ Unregister(m) \/ Delivering(m) \/ Responding(m)
  BY <1>1 DEF Admission, HandleExecuteNow, HandleQueued, HandleQueueFull, RegisterInFlight,
     PresentAck, SettingUp, SetUp, SetUpRefused, SetUpFails, Return, Unregister, Delivering,
     DropDeferred, CheckDeferred, SendDeferred, Responding, Respond, RespondFails
<1>2. CASE Loading(m) \/ Turn(m) \/ TurnCanceled(m) \/ Persisting(m)
  BY <1>2 DEF Loading, StartTurn, LoadBindingFails, Turn, TurnSucceeds, TurnFails, TurnCanceled,
     Persisting, PersistBinding, PersistFails, Return
<1>3. CASE CompleteAndRelease(m)
  BY <1>3 DEF CompleteAndRelease
<1>4. CASE CompleteAndDrain(m)
  <2>1. /\ key[m] \in DOMAIN entries
        /\ entries[key[m]].waiting \in Seq(Messages)
        /\ Len(entries[key[m]].waiting) > 0
    BY <1>4 DEF CompleteAndDrain, CompleteNext, Waiting, QueueInv, QueueTypeOK, Entry
  <2>2. /\ Head(Waiting(key[m])) \in Messages
        /\ pc[Head(Waiting(key[m]))] = "waiting"
    BY <2>1 DEF QueueInv, ListedWait, Waiting
  <2>3. QED
    BY <1>4, <2>2 DEF CompleteAndDrain
<1>5. QED
  BY <1>1, <1>2, <1>3, <1>4 DEF Process, Completing

SetUpSteps == {"loaded", "locked", "added", "broken"}

\* Which steps of the task side go with which state of the service.
StepFits(m) ==
    /\ pc[m] \in {"new", "prepared", "waiting", "claimed"} => step[m] = "none"
    /\ pc[m] = "registered" => step[m] \in {"none"} \cup SetUpSteps
    /\ pc[m] \in {"ready", "turn"} => step[m] = "ready"
    /\ pc[m] = "turned" => step[m] \in {"ready", "touch"}
    /\ step[m] \in SetUpSteps => pc[m] = "registered"
    /\ step[m] \in {"touch", "read"} => pc[m] \in {"turned", "returned"}

Phases ==
    /\ step \in [Messages -> Steps]
    /\ \A m \in Messages : StepFits(m)
    /\ overtaken \subseteq Messages \X Steps
    /\ \A m \in Messages, s \in Steps : <<m, s>> \in overtaken => pc[m] # "new"

\* What a step of the model does to the task side of the turns.
StepKept ==
    /\ UNCHANGED step
    /\ \A m \in Messages :
          /\ pc[m] = "registered" => pc'[m] = "registered"
          /\ step[m] \in {"touch", "read"} /\ pc[m] \in {"turned", "returned"}
             => pc'[m] \in {"turned", "returned"}

StepMade(m) ==
    /\ \A n \in Messages \ {m} : pc'[n] = pc[n] \/ pc[n] = "waiting"
    /\ \E to \in Steps :
          /\ step' = [step EXCEPT ![m] = to]
          /\ \/ pc[m] = "registered" /\ pc'[m] = "registered" /\ to \in SetUpSteps
             \/ pc[m] = "registered" /\ pc'[m] = "ready" /\ to = "ready"
             \/ pc[m] = "registered" /\ pc'[m] = "returned" /\ to = "refused"
             \/ pc[m] = "turned" /\ pc'[m] \in {"turned", "returned"} /\ to = "touch"
             \/ pc[m] = "returned" /\ pc'[m] = "returned" /\ to \in {"read", "over"}

LEMMA StepMoves ==
  ASSUME QueueInv, Phases, [TaskNext]_lifecycleVars
  PROVE  StepKept \/ \E m \in Messages : StepMade(m)
<1>0. pc \in [Messages -> States] /\ step \in [Messages -> Steps]
  BY DEF QueueInv, Phases
<1>1. ASSUME NEW m \in Messages, ResolveTask(m) \/ ResolveTaskFails(m) PROVE StepKept
  BY <1>0, <1>1 DEF ResolveTask, ResolveTaskFails, PrepareMessage, HandleUnadmitted, Goto, taskVars,
     worktreeVars, StepKept
<1>2. ASSUME NEW m \in Messages, TaskSetUp(m) PROVE StepMade(m)
  <2>1. CASE \E s \in SetUpSteps : pc[m] = "registered" /\ UNCHANGED vars /\ Reach(m, s)
    BY <1>0, <2>1 DEF vars, Reach, SetUpSteps, Steps, RowInHand, StepMade
  <2>2. CASE SetUp(m) /\ Reach(m, "ready")
    BY <1>0, <2>2 DEF SetUp, Goto, Reach, Steps, StepMade
  <2>3. CASE (SetUpRefused(m) \/ SetUpFails(m)) /\ Reach(m, "refused")
    BY <1>0, <2>3 DEF SetUpRefused, SetUpFails, Return, Goto, Reach, Steps, StepMade
  <2>4. QED
    BY <1>2, <2>1, <2>2, <2>3 DEF TaskSetUp, LoadTask, LoadTaskFails, AlreadyReady, LockForSetUp,
       AddWorktree, AddWorktreeFails, MarkReady, MarkFailed, MarkFails, At, SetUpSteps
<1>3. ASSUME NEW m \in Messages, Touch(m) PROVE StepMade(m)
  <2>1. pc[m] = "returned" /\ UNCHANGED vars /\ \E s \in {"read", "over"} : Reach(m, s)
    BY <1>3 DEF Touch, TouchLoad, TouchWrite, TouchFails, Touching
  <2>2. QED
    BY <1>0, <2>1 DEF vars, Reach, Steps, RowInHand, StepMade
<1>4. ASSUME NEW m \in Messages, ServiceStep(m) PROVE StepKept \/ StepMade(m)
  <2>1. \A n \in Messages \ {m} : pc'[n] = pc[n] \/ pc[n] = "waiting"
    BY <1>4, OthersKeep DEF ServiceStep
  <2>2. [Next]_vars
    BY <1>4 DEF ServiceStep, Next
  <2>3. CASE UNCHANGED step
    <3>1. \A n \in Messages \ {m} :
             /\ pc[n] = "registered" => pc'[n] = "registered"
             /\ pc[n] \in {"turned", "returned"} => pc'[n] = pc[n]
      BY <2>1
    <3>2. pc[m] = "turned" /\ pc'[m] # "turned" => pc'[m] = "returned"
      BY <1>0, <1>4 DEF ServiceStep, Process, Admission, HandleExecuteNow, HandleQueued,
         HandleQueueFull, RegisterInFlight, PresentAck, SettingUp, SetUp, SetUpRefused,
         SetUpFails, Return, Unregister, Delivering, DropDeferred, CheckDeferred, SendDeferred,
         Responding, Respond, RespondFails, Loading, StartTurn, LoadBindingFails, Turn,
         TurnSucceeds, TurnFails, TurnCanceled, Persisting, PersistBinding, PersistFails,
         Completing, CompleteAndDrain, CompleteAndRelease, Goto, shared
    <3>3. QED
      BY <1>4, <2>3, <3>1, <3>2 DEF ServiceStep, StepKept
  <2>4. CASE pc[m] = "turned" /\ outcome'[m] = "answer" /\ Reach(m, "touch")
    <3>1. pc'[m] \in {"turned", "returned"}
      BY <1>0, <1>4, <2>4 DEF ServiceStep, Process, Admission, HandleExecuteNow, HandleQueued,
         HandleQueueFull, RegisterInFlight, PresentAck, SettingUp, SetUp, SetUpRefused,
         SetUpFails, Return, Unregister, Delivering, DropDeferred, CheckDeferred, SendDeferred,
         Responding, Respond, RespondFails, Loading, StartTurn, LoadBindingFails, Turn,
         TurnSucceeds, TurnFails, TurnCanceled, Persisting, PersistBinding, PersistFails,
         Completing, CompleteAndDrain, CompleteAndRelease, Goto, shared
    <3>2. QED
      BY <2>1, <2>4, <3>1 DEF Reach, StepMade, Steps
  <2>5. QED
    BY <1>4, <2>3, <2>4 DEF ServiceStep
<1>5. ASSUME NEW c \in Commands, Command(c) PROVE UNCHANGED <<pc, step>>
  BY <1>5 DEF Command, CreateList, CreateInsert, SwitchLoad, Activate, CloseLoad, Close,
     PruneNeeded, PruneNotNeeded, PruneStarts, PruneStep, PruneEnds, ResetLoad, ResetRejected,
     ResetGoesAhead, ResetDelete, CommandFails, vars, worktreeVars
<1>6. CASE TaskQuiet \/ UNCHANGED lifecycleVars
  BY <1>6 DEF TaskQuiet, Quiet, taskVars, worktreeVars, lifecycleVars, vars, StepKept
<1>7. ASSUME UNCHANGED <<pc, step>> PROVE StepKept
  BY <1>7 DEF StepKept
<1>8. QED
  BY <1>1, <1>2, <1>3, <1>4, <1>5, <1>6, <1>7 DEF TaskNext

LEMMA PhasesStep ==
  ASSUME QueueInv, Phases, [TaskNext]_lifecycleVars
  PROVE  step' \in [Messages -> Steps] /\ \A m \in Messages : StepFits(m)'
<1>1. ASSUME NEW n \in Messages
      PROVE  /\ pc'[n] \in DOMAIN Before => pc[n] = pc'[n] \/ pc[n] \in Before[pc'[n]]
             /\ pc[n] = "registered" => pc'[n] \in {"registered", "ready", "returned"}
  <2>1. CASE [Next]_vars
    BY <2>1, Order
  <2>2. CASE UNCHANGED pc
    BY <2>2
  <2>3. QED
    BY <2>1, <2>2, TaskStep
<1>2. CASE StepKept
  <2>1. step' \in [Messages -> Steps]
    BY <1>2 DEF StepKept, Phases
  <2>2. ASSUME NEW n \in Messages PROVE StepFits(n)'
    BY <1>1, <1>2 DEF StepKept, Phases, StepFits, Before, SetUpSteps
  <2>3. QED
    BY <2>1, <2>2
<1>3. ASSUME NEW m \in Messages, StepMade(m)
      PROVE  step' \in [Messages -> Steps] /\ \A n \in Messages : StepFits(n)'
  <2>1. step' \in [Messages -> Steps]
    BY <1>3 DEF StepMade, Phases
  <2>2. ASSUME NEW n \in Messages \ {m} PROVE StepFits(n)'
    <3>1. step'[n] = step[n] /\ (pc'[n] = pc[n] \/ pc[n] = "waiting")
      BY <1>3 DEF StepMade, Phases
    <3>2. QED
      BY <1>1, <3>1 DEF Phases, StepFits, Before, SetUpSteps
  <2>3. StepFits(m)'
    <3>1. \/ pc'[m] = "registered" /\ step'[m] \in SetUpSteps
          \/ pc'[m] = "ready" /\ step'[m] = "ready"
          \/ pc'[m] = "returned" /\ step'[m] = "refused"
          \/ pc'[m] \in {"turned", "returned"} /\ step'[m] = "touch"
          \/ pc'[m] = "returned" /\ step'[m] \in {"read", "over"}
      BY <1>3 DEF StepMade, Phases
    <3>2. QED
      BY <3>1 DEF StepFits, SetUpSteps
  <2>4. QED
    BY <2>1, <2>2, <2>3
<1>4. QED
  BY <1>2, <1>3, StepMoves

-----------------------------------------------------------------------------
(* What a step does to the rows and their copies *)

rows == <<tasks, worktrees, row, doomed, overtaken>>

\* The rows stay; a message may go on, or let go of its copy.
StepOnly(n) ==
    \/ step'[n] = step[n]
    \/ step'[n] \in {"refused", "over"}
    \/ pc[n] = "turned" /\ step'[n] = "touch"
    \/ step[n] = "loaded" /\ row[n].worktree # "ready" /\ step'[n] = "locked"
    \/ step[n] = "loaded" /\ row[n].worktree = "ready" /\ step'[n] = "ready"

Still == UNCHANGED rows /\ \A n \in Messages : StepOnly(n)

\* A message takes a copy of the row of its task.
Reads(m) ==
    /\ \/ pc[m] = "registered" /\ tasks[key[m]].open /\ Reach(m, "loaded")
       \/ pc[m] = "returned" /\ step[m] = "touch" /\ Reach(m, "read")
    /\ row' = [row EXCEPT ![m] = tasks[key[m]]]
    /\ UNCHANGED <<pc, key, tasks, worktrees, doomed, overtaken>>

\* Git is called for it.
Adds(m) ==
    /\ At(m, "locked")
    /\ \/ worktrees' = worktrees \cup {key[m]} /\ Reach(m, "added")
       \/ worktrees' \in {worktrees, worktrees \ {key[m]}} /\ Reach(m, "broken")
    /\ UNCHANGED <<pc, key, tasks, row, doomed, overtaken>>

\* It writes its copy back, with another status of the worktree perhaps.
Writes(m) ==
    /\ \/ /\ At(m, "added") /\ pc'[m] = "ready" /\ Reach(m, "ready")
          /\ Write(key[m], [row[m] EXCEPT !.worktree = "ready"])
       \/ /\ At(m, "broken") /\ pc'[m] = "returned" /\ Reach(m, "refused")
          /\ Write(key[m], [row[m] EXCEPT !.worktree = "failed"])
       \/ /\ Touching(m, "read") /\ pc'[m] = "returned" /\ Reach(m, "over")
          /\ Write(key[m], row[m])
    /\ \A n \in Messages \ {m} : pc'[n] = pc[n]
    /\ UNCHANGED <<key, worktrees, row, doomed, overtaken>>

RowShapes ==
    \/ Still
    \/ \E m \in Messages : Reads(m) \/ Adds(m) \/ Writes(m)
    \/ \E c \in Commands : \/ CreateInsert(c) \/ Close(c) \/ PruneNeeded(c)
                           \/ PruneStep(c)

LEMMA StepRows ==
  ASSUME QueueInv, Phases, row \in [Messages -> Row \cup {NoRow}], [TaskNext]_lifecycleVars
  PROVE  RowShapes
<1>0. /\ pc \in [Messages -> States] /\ step \in [Messages -> Steps]
      /\ row \in [Messages -> Row \cup {NoRow}]
  BY DEF QueueInv, Phases
<1>1. ASSUME NEW m \in Messages, NEW s \in {"locked", "ready", "refused", "over", "touch"}, UNCHANGED rows,
             step' = [step EXCEPT ![m] = s],
             s = "locked" => step[m] = "loaded" /\ row[m].worktree # "ready",
             s = "ready" => step[m] = "loaded" /\ row[m].worktree = "ready",
             s = "touch" => pc[m] = "turned"
      PROVE  Still
  BY <1>0, <1>1 DEF Still, StepOnly
<1>2. ASSUME UNCHANGED <<rows, step>> PROVE Still
  BY <1>2 DEF Still, StepOnly, rows
<1> USE DEF RowShapes
<1>3. ASSUME NEW m \in Messages, ResolveTask(m) \/ ResolveTaskFails(m) PROVE Still
  BY <1>2, <1>3 DEF ResolveTask, ResolveTaskFails, taskVars, worktreeVars, rows
<1>4. ASSUME NEW m \in Messages, LoadTask(m) \/ TouchLoad(m) PROVE Reads(m)
  BY <1>4 DEF LoadTask, TouchLoad, Reads, At, Touching, vars
<1>5. ASSUME NEW m \in Messages, \/ LoadTaskFails(m) \/ AlreadyReady(m) \/ LockForSetUp(m)
                                 \/ MarkFails(m) \/ TouchFails(m)
      PROVE  Still
  BY <1>1, <1>5 DEF LoadTaskFails, AlreadyReady, LockForSetUp, MarkFails, TouchFails, At, Reach, rows
<1>6. ASSUME NEW m \in Messages, AddWorktree(m) \/ AddWorktreeFails(m) PROVE Adds(m)
  BY <1>6 DEF AddWorktree, AddWorktreeFails, Adds, At, vars
<1>7. ASSUME NEW m \in Messages, MarkReady(m) \/ MarkFailed(m) PROVE Writes(m)
  <2>1. /\ key' = key /\ UNCHANGED <<worktrees, row, doomed, overtaken>>
        /\ \E to \in {"ready", "returned"} : pc' = [pc EXCEPT ![m] = to]
    BY <1>7 DEF MarkReady, MarkFailed, SetUp, SetUpRefused, Return, Goto, work
  <2>2. \/ At(m, "added") /\ pc' = [pc EXCEPT ![m] = "ready"] /\ Reach(m, "ready")
           /\ Write(key[m], [row[m] EXCEPT !.worktree = "ready"])
        \/ At(m, "broken") /\ pc' = [pc EXCEPT ![m] = "returned"] /\ Reach(m, "refused")
           /\ Write(key[m], [row[m] EXCEPT !.worktree = "failed"])
    BY <1>7, Zenon DEF MarkReady, MarkFailed, SetUp, SetUpRefused, Return, Goto
  <2> HIDE DEF Write, Reach, At, Touching
  <2>3. QED
    BY <1>0, <2>1, <2>2 DEF Writes
<1>8. ASSUME NEW m \in Messages, TouchWrite(m) PROVE Writes(m)
  BY <1>8 DEF TouchWrite, Touching, Writes, vars
<1>9. ASSUME NEW m \in Messages, ServiceStep(m) PROVE Still
  BY <1>1, <1>2, <1>9 DEF ServiceStep, Reach, rows
<1>10. ASSUME NEW c \in Commands, Command(c)
       PROVE  Still \/ CreateInsert(c) \/ Close(c) \/ PruneNeeded(c) \/ PruneStep(c)
  <2>1. CASE CreateList(c) \/ SwitchLoad(c) \/ Activate(c) \/ CloseLoad(c) \/ PruneNotNeeded(c)
             \/ PruneStarts(c) \/ PruneEnds(c)
    BY <1>2, <2>1 DEF CreateList, SwitchLoad, Activate, CloseLoad, PruneNotNeeded, PruneStarts,
       PruneEnds, worktreeVars, rows
  <2>2. CASE ResetLoad(c) \/ ResetRejected(c) \/ ResetGoesAhead(c) \/ ResetDelete(c)
             \/ CommandFails(c)
    BY <1>2, <2>2 DEF ResetLoad, ResetRejected, ResetGoesAhead, ResetDelete, CommandFails,
       worktreeVars, rows
  <2>3. QED
    BY <1>10, <2>1, <2>2 DEF Command
<1>11. CASE TaskQuiet \/ UNCHANGED lifecycleVars
  BY <1>2, <1>11 DEF TaskQuiet, lifecycleVars, taskVars, worktreeVars, rows
<1>12. QED
  BY <1>3, <1>4, <1>5, <1>6, <1>7, <1>8, <1>9, <1>10, <1>11 DEF TaskNext, TaskSetUp, Touch

-----------------------------------------------------------------------------
(* Types of the rows and their copies, and their names *)

LEMMA RowMarked ==
  ASSUME NEW r \in Row, NEW w \in WorktreeStatuses
  PROVE  LET s == [r EXCEPT !.worktree = w]
         IN  /\ s \in Row /\ s.name = r.name /\ s.open = r.open
             /\ s.closedAt = r.closedAt /\ s.worktree = w
BY Zenon DEF Row

LEMMA RowClosed ==
  ASSUME NEW r \in Row, NEW n \in Nat
  PROVE  LET s == [r EXCEPT !.open = FALSE, !.closedAt = n]
         IN  /\ s \in Row /\ s.name = r.name /\ ~s.open
             /\ s.closedAt = n /\ s.worktree = r.worktree
BY DEF Row

CopiesKnown ==
    /\ row \in [Messages -> Row \cup {NoRow}]
    /\ \A m \in Messages : step[m] \in RowInHand =>
          key[m] \in DOMAIN tasks /\ row[m] \in Row /\ row[m].name = tasks[key[m]].name
    /\ DOMAIN doomed = Commands
    /\ \A c \in Commands : \A t \in DOMAIN doomed[c] :
          t \in DOMAIN tasks /\ doomed[c][t] \in Row /\ doomed[c][t].name = tasks[t].name

Table ==
    /\ DOMAIN tasks \subseteq Keys
    /\ \A t \in DOMAIN tasks : tasks[t] \in Row
    /\ \A m \in Messages : key[m] \in DOMAIN tasks \cup {None}
    /\ worktrees \subseteq DOMAIN tasks
    /\ CopiesKnown

\* A command that still writes to a task has one; every command is typed.
CommandsKnown ==
    /\ commands \in [Commands -> CommandStates]
    /\ \A c \in Commands :
          /\ commands[c].pc = "named" => commands[c].name \in Names
          /\ commands[c].pc \in {"activate", "closing"} => commands[c].task \in DOMAIN tasks
    /\ active \in DOMAIN tasks \cup {None}
    /\ closings \in Nat
    /\ repoLock \in Messages \cup Commands \cup {None}

\* What writing a row does.
LEMMA WriteEffect ==
  ASSUME NEW t \in DOMAIN tasks, NEW r, Write(t, r)
  PROVE  /\ DOMAIN tasks' = DOMAIN tasks /\ tasks'[t] = r
         /\ \A u \in DOMAIN tasks \ {t} : tasks'[u] = tasks[u]
BY DEF Write

LEMMA WritesEffect ==
  ASSUME Table, NEW m \in Messages, pc[m] \in SlotStates, Writes(m)
  PROVE  LET t == key[m]
         IN  /\ step[m] \in RowInHand /\ t \in DOMAIN tasks /\ DOMAIN tasks' = DOMAIN tasks
             /\ \A u \in DOMAIN tasks \ {t} : tasks'[u] = tasks[u]
             /\ tasks'[t] \in Row /\ tasks'[t].open = row[m].open /\ tasks'[t].name = tasks[t].name
             /\ tasks'[t].closedAt = row[m].closedAt
             /\ \/ step[m] = "added" /\ tasks'[t].worktree = "ready"
                \/ step[m] = "broken" /\ tasks'[t].worktree = "failed"
                \/ step[m] = "read" /\ tasks'[t] = row[m]
<1>1. step[m] \in {"added", "broken", "read"}
  BY DEF Writes, At, Touching
<1>2. key[m] \in DOMAIN tasks /\ row[m] \in Row /\ row[m].name = tasks[key[m]].name
  BY <1>1 DEF Table, CopiesKnown, RowInHand
<1>3. CASE step[m] = "added"
  <2>1. Write(key[m], [row[m] EXCEPT !.worktree = "ready"])
    BY <1>3, Zenon DEF Writes, At, Touching
  <2> DEFINE r == [row[m] EXCEPT !.worktree = "ready"]
  <2>2. /\ r \in Row /\ r.name = row[m].name /\ r.open = row[m].open /\ r.worktree = "ready"
        /\ r.closedAt = row[m].closedAt
    BY <1>2, RowMarked, Zenon DEF WorktreeStatuses
  <2> HIDE DEF r
  <2>3. Write(key[m], r)
    BY <2>1 DEF r
  <2>4. QED
    BY <1>2, <1>3, <2>2, <2>3, WriteEffect DEF RowInHand
<1>4. CASE step[m] = "broken"
  <2>1. Write(key[m], [row[m] EXCEPT !.worktree = "failed"])
    BY <1>4, Zenon DEF Writes, At, Touching
  <2> DEFINE r == [row[m] EXCEPT !.worktree = "failed"]
  <2>2. /\ r \in Row /\ r.name = row[m].name /\ r.open = row[m].open /\ r.worktree = "failed"
        /\ r.closedAt = row[m].closedAt
    BY <1>2, RowMarked, Zenon DEF WorktreeStatuses
  <2> HIDE DEF r
  <2>3. Write(key[m], r)
    BY <2>1 DEF r
  <2>4. QED
    BY <1>2, <1>4, <2>2, <2>3, WriteEffect DEF RowInHand
<1>5. CASE step[m] = "read"
  <2>1. Write(key[m], row[m])
    BY <1>5, Zenon DEF Writes, At, Touching
  <2>2. QED
    BY <1>2, <1>5, <2>1, WriteEffect DEF RowInHand
<1>6. QED
  BY <1>1, <1>3, <1>4, <1>5

LEMMA CommandActivated ==
  ASSUME NEW q \in CommandStates, NEW t \in Keys
  PROVE  LET d == [q EXCEPT !.pc = "activate", !.task = t]
         IN  /\ d \in CommandStates /\ d.pc = "activate" /\ d.task = t
             /\ d.name = q.name /\ d.missed = q.missed /\ d.outside = q.outside /\ d.cut = q.cut
             /\ d.again = q.again
BY DEF CommandStates

LEMMA CommandTold ==
  ASSUME NEW q \in CommandStates, NEW t \in Keys
  PROVE  LET d == [q EXCEPT !.missed = @ \cup {t}]
         IN  /\ d \in CommandStates /\ d.missed = q.missed \cup {t}
             /\ d.pc = q.pc /\ d.task = q.task /\ d.name = q.name
             /\ d.outside = q.outside /\ d.cut = q.cut /\ d.again = q.again
BY DEF CommandStates

\* The task t is created by c; creations of the same name under way are told.
InsertsAs(c, t) ==
    /\ t \in Keys \ DOMAIN tasks
    /\ DOMAIN tasks' = DOMAIN tasks \cup {t}
    /\ \A u \in DOMAIN tasks : tasks'[u] = tasks[u]
    /\ tasks'[t] \in Row /\ tasks'[t].open /\ tasks'[t].worktree = "pending"
    /\ tasks'[t].name = commands[c].name /\ tasks'[t].closedAt = 0
    /\ commands' \in [Commands -> CommandStates]
    /\ commands[c].pc = "named" /\ commands'[c].pc = "activate" /\ commands'[c].task = t
    /\ \A d \in Commands :
         /\ commands'[d].name = commands[d].name
         /\ commands'[d].outside = commands[d].outside
         /\ commands'[d].cut = commands[d].cut /\ commands'[d].again = commands[d].again
         /\ d # c => commands'[d].pc = commands[d].pc /\ commands'[d].task = commands[d].task
         /\ commands[d].missed \subseteq commands'[d].missed
         /\ d # c /\ commands[d].pc = "named" /\ commands[d].name = commands[c].name
            => t \in commands'[d].missed
    /\ UNCHANGED <<vars, active, closings, worktrees, repoLock, row, step, doomed, overtaken>>

LEMMA InsertEffect ==
  ASSUME Table, CommandsKnown, NEW c \in Commands, CreateInsert(c)
  PROVE  \E t \in Keys : InsertsAs(c, t)
<1> DEFINE t == CHOOSE k \in Keys : k \notin DOMAIN tasks
           r == [name |-> commands[c].name, open |-> TRUE, closedAt |-> 0, worktree |-> "pending"]
           Activated == [commands[c] EXCEPT !.pc = "activate", !.task = t]
           Told(d) == [commands[d] EXCEPT !.missed = @ \cup {t}]
<1>1. t \in Keys \ DOMAIN tasks
  BY DEF CreateInsert
<1>2. tasks' = Put(tasks, t, r)
  BY DEF CreateInsert
<1>3. commands[c].name \in Names /\ commands[c].pc = "named"
  BY DEF CreateInsert, CommandsKnown
<1>4. /\ r \in Row /\ r.open /\ r.worktree = "pending" /\ r.name = commands[c].name
      /\ r.closedAt = 0
  BY <1>3 DEF Row, WorktreeStatuses
<1>5. \A d \in Commands : commands'[d] =
        IF d = c THEN Activated
        ELSE IF commands[d].pc = "named" /\ commands[d].name = commands[c].name
             THEN Told(d) ELSE commands[d]
  BY Zenon DEF CreateInsert
<1>6. /\ Activated \in CommandStates /\ Activated.pc = "activate" /\ Activated.task = t
      /\ Activated.name = commands[c].name /\ Activated.missed = commands[c].missed
      /\ Activated.outside = commands[c].outside /\ Activated.cut = commands[c].cut
      /\ Activated.again = commands[c].again
  <2>1. commands[c] \in CommandStates /\ t \in Keys
    BY <1>1 DEF CommandsKnown
  <2> HIDE DEF t
  <2>2. QED
    BY <2>1, CommandActivated, Zenon
<1>7. \A d \in Commands :
        /\ Told(d) \in CommandStates /\ Told(d).missed = commands[d].missed \cup {t}
        /\ Told(d).pc = commands[d].pc /\ Told(d).task = commands[d].task
        /\ Told(d).name = commands[d].name
        /\ Told(d).outside = commands[d].outside /\ Told(d).cut = commands[d].cut
        /\ Told(d).again = commands[d].again
  <2>1. ASSUME NEW d \in Commands PROVE commands[d] \in CommandStates /\ t \in Keys
    BY <1>1 DEF CommandsKnown
  <2> HIDE DEF t
  <2>2. QED
    BY <2>1, CommandTold, Zenon
<1>8. UNCHANGED <<vars, active, closings, worktrees, repoLock, row, step, doomed, overtaken>>
  BY DEF CreateInsert
<1>9. commands' = [d \in Commands |-> commands'[d]]
  BY Zenon DEF CreateInsert
<1> HIDE DEF t, r, Activated, Told
<1>10. commands' \in [Commands -> CommandStates]
  <2>1. \A d \in Commands : commands'[d] \in CommandStates
    BY <1>5, <1>6, <1>7 DEF CommandsKnown
  <2>2. QED
    BY <1>9, <2>1, Zenon
<1>11. /\ DOMAIN tasks' = DOMAIN tasks \cup {t} /\ tasks'[t] = r
       /\ \A u \in DOMAIN tasks : tasks'[u] = tasks[u]
  BY <1>1, <1>2 DEF Put
<1>12. \A d \in Commands :
         /\ commands'[d].name = commands[d].name
         /\ commands'[d].outside = commands[d].outside
         /\ commands'[d].cut = commands[d].cut /\ commands'[d].again = commands[d].again
         /\ d # c => commands'[d].pc = commands[d].pc /\ commands'[d].task = commands[d].task
         /\ commands[d].missed \subseteq commands'[d].missed
         /\ d # c /\ commands[d].pc = "named" /\ commands[d].name = commands[c].name
            => t \in commands'[d].missed
  BY <1>5, <1>6, <1>7
<1>13. QED
  BY <1>1, <1>3, <1>4, <1>5, <1>6, <1>8, <1>10, <1>11, <1>12 DEF InsertsAs

LEMMA CloseEffect ==
  ASSUME Table, CommandsKnown, NEW c \in Commands, Close(c)
  PROVE  LET t == commands[c].task
         IN  /\ t \in DOMAIN tasks /\ DOMAIN tasks' = DOMAIN tasks
             /\ \A u \in DOMAIN tasks \ {t} : tasks'[u] = tasks[u]
             /\ tasks'[t] \in Row /\ ~tasks'[t].open /\ tasks'[t].name = tasks[t].name
             /\ tasks'[t].closedAt = closings + 1 /\ tasks'[t].worktree = tasks[t].worktree
             /\ overtaken' = overtaken \cup
                   {<<m, step[m]>> : m \in {n \in Holders(t) : step[n] # "none"}}
             /\ closings' = closings + 1
             /\ UNCHANGED <<vars, worktrees, row, step, doomed>>
<1> DEFINE t == commands[c].task
           r == [tasks[t] EXCEPT !.open = FALSE, !.closedAt = closings + 1]
<1>1. t \in DOMAIN tasks
  BY DEF Close, CommandsKnown
<1>2. tasks[t] \in Row /\ closings + 1 \in Nat
  BY <1>1 DEF Table, CommandsKnown
<1>3. /\ r \in Row /\ r.name = tasks[t].name /\ ~r.open
      /\ r.closedAt = closings + 1 /\ r.worktree = tasks[t].worktree
  BY <1>2, RowClosed, Zenon
<1>4. /\ overtaken' = overtaken \cup
            {<<m, step[m]>> : m \in {n \in Holders(t) : step[n] # "none"}}
      /\ closings' = closings + 1
      /\ UNCHANGED <<vars, worktrees, row, step, doomed>>
  BY DEF Close
<1>5. Write(t, r)
  BY Zenon DEF Close
<1> HIDE DEF r
<1>6. QED
  BY <1>1, <1>3, <1>4, <1>5, WriteEffect

LEMMA ListEffect ==
  ASSUME Table, NEW c \in Commands, PruneNeeded(c)
  PROVE  /\ DOMAIN doomed' = Commands
         /\ \A d \in Commands \ {c} : doomed'[d] = doomed[d]
         /\ DOMAIN doomed'[c] = Surplus
         /\ \A t \in DOMAIN doomed'[c] :
               t \in DOMAIN tasks /\ ~tasks[t].open /\ doomed'[c][t] = tasks[t]
         /\ UNCHANGED <<vars, tasks, closings, worktrees, row, step, overtaken>>
<1>1. doomed' = [doomed EXCEPT ![c] = [t \in Surplus |-> tasks[t]]]
  BY DEF PruneNeeded, PruneList
<1>2. \A t \in Surplus : t \in DOMAIN tasks /\ ~tasks[t].open
  BY DEF Surplus, ClosedReady
<1>3. DOMAIN doomed = Commands
  BY DEF Table, CopiesKnown
<1>4. UNCHANGED <<vars, tasks, closings, worktrees, row, step, overtaken>>
  BY DEF PruneNeeded
<1>5. doomed'[c] = [t \in Surplus |-> tasks[t]]
  BY <1>1, <1>3
<1>6. QED
  BY <1>1, <1>2, <1>3, <1>4, <1>5

LEMMA PruneEffect ==
  ASSUME Table, NEW c \in Commands, PruneStep(c)
  PROVE  /\ \E t \in DOMAIN doomed[c] :
              /\ DOMAIN tasks' = DOMAIN tasks
              /\ \A u \in DOMAIN tasks \ {t} : tasks'[u] = tasks[u]
              /\ \/ tasks'[t] = tasks[t]
                 \/ /\ tasks'[t] \in Row /\ tasks'[t].name = tasks[t].name
                    /\ tasks'[t].open = doomed[c][t].open
                    /\ tasks'[t].closedAt = doomed[c][t].closedAt /\ tasks'[t].worktree = "pruned"
              /\ worktrees' \subseteq worktrees /\ worktrees \ {t} \subseteq worktrees'
         /\ DOMAIN doomed' = Commands
         /\ \A d \in Commands : \A u \in DOMAIN doomed'[d] :
               u \in DOMAIN doomed[d] /\ doomed'[d][u] = doomed[d][u]
         /\ UNCHANGED <<vars, closings, row, step, overtaken>>
<1>1. PICK t \in Keys : PruneOne(c, t) \/ PruneSkips(c, t)
  BY DEF PruneStep
<1>2. DOMAIN doomed = Commands /\ t \in DOMAIN doomed[c]
  BY <1>1 DEF Table, CopiesKnown, PruneOne, PruneSkips, NextDoomed
<1>3. t \in DOMAIN tasks /\ doomed[c][t] \in Row /\ doomed[c][t].name = tasks[t].name
  BY <1>2 DEF Table, CopiesKnown
<1>4. doomed' = [doomed EXCEPT ![c] = [u \in DOMAIN @ \ {t} |-> @[u]]]
  BY <1>1 DEF PruneOne, PruneSkips, Undoom
<1>5. doomed'[c] = [u \in DOMAIN doomed[c] \ {t} |-> doomed[c][u]]
  BY <1>2, <1>4
<1>6. /\ DOMAIN doomed' = Commands
      /\ \A d \in Commands : \A u \in DOMAIN doomed'[d] :
            u \in DOMAIN doomed[d] /\ doomed'[d][u] = doomed[d][u]
  BY <1>2, <1>4, <1>5
<1>7. worktrees' \subseteq worktrees /\ worktrees \ {t} \subseteq worktrees'
  BY <1>1 DEF PruneOne, PruneSkips
<1> DEFINE r == [doomed[c][t] EXCEPT !.worktree = "pruned"]
<1>8. /\ r \in Row /\ r.name = tasks[t].name /\ r.open = doomed[c][t].open
      /\ r.closedAt = doomed[c][t].closedAt /\ r.worktree = "pruned"
  BY <1>3, RowMarked, Zenon DEF WorktreeStatuses
<1>9. Write(t, r) \/ UNCHANGED tasks
  BY <1>1, Zenon DEF PruneOne, PruneSkips
<1> HIDE DEF r
<1>10. /\ DOMAIN tasks' = DOMAIN tasks
       /\ \A u \in DOMAIN tasks \ {t} : tasks'[u] = tasks[u]
       /\ tasks'[t] = tasks[t] \/ tasks'[t] = r
  BY <1>3, <1>9, WriteEffect
<1>11. UNCHANGED <<vars, closings, row, step, overtaken>>
  BY DEF PruneStep
<1>12. QED
  BY <1>2, <1>6, <1>7, <1>8, <1>10, <1>11

\* A message is resolved to a row that is there.
LEMMA KeysResolved ==
  ASSUME [TaskNext]_lifecycleVars, active \in DOMAIN tasks \cup {None},
         QueueInv, NEW n \in Messages
  PROVE  key'[n] = key[n] \/ key'[n] \in DOMAIN tasks
<1>1. ASSUME NEW m \in Messages, ResolveTask(m) PROVE key'[n] = key[n] \/ key'[n] \in DOMAIN tasks
  <2>1. PICK k \in Keys : key' = [key EXCEPT ![m] = k]
    BY <1>1 DEF ResolveTask, PrepareMessage
  <2>2. key'[m] = k
    BY <2>1 DEF QueueInv
  <2>3. k = active \/ \E x \in Names : Named(x) = {k}
    BY <1>1, <2>2 DEF ResolveTask
  <2>4. k \in DOMAIN tasks
    BY <2>3, NoneAssumption DEF Named, OpenTasks
  <2>5. QED
    BY <2>1, <2>2, <2>4
<1>2. ASSUME NEW m \in Messages, ResolveTaskFails(m) PROVE UNCHANGED key
  BY <1>2 DEF ResolveTaskFails, HandleUnadmitted
<1>3. ASSUME NEW m \in Messages, TaskSetUp(m) PROVE UNCHANGED key
  BY <1>3 DEF TaskSetUp, LoadTask, LoadTaskFails, AlreadyReady, LockForSetUp, AddWorktree,
     AddWorktreeFails, MarkReady, MarkFailed, MarkFails, SetUp, SetUpRefused, SetUpFails, Return,
     work, vars
<1>4. ASSUME NEW m \in Messages, Touch(m) PROVE UNCHANGED key
  BY <1>4 DEF Touch, TouchLoad, TouchWrite, TouchFails, vars
<1>5. ASSUME NEW m \in Messages, ServiceStep(m) PROVE UNCHANGED key
  BY <1>5 DEF ServiceStep, Process, Admission, HandleExecuteNow, HandleQueued,
     HandleQueueFull, RegisterInFlight, PresentAck, SettingUp, SetUp, SetUpRefused,
     SetUpFails, Return, Unregister, Delivering, DropDeferred, CheckDeferred, SendDeferred,
     Responding, Respond, RespondFails, Loading, StartTurn, LoadBindingFails, Turn,
     TurnSucceeds, TurnFails, TurnCanceled, Persisting, PersistBinding, PersistFails,
     Completing, CompleteAndDrain, CompleteAndRelease, work, shared
<1>6. ASSUME NEW c \in Commands, Command(c) PROVE UNCHANGED key
  BY <1>6 DEF Command, CreateList, CreateInsert, SwitchLoad, Activate, CloseLoad, Close,
     PruneNeeded, PruneNotNeeded, PruneStarts, PruneStep, PruneEnds, ResetLoad, ResetRejected,
     ResetGoesAhead, ResetDelete, CommandFails, vars
<1>7. CASE TaskQuiet \/ UNCHANGED lifecycleVars
  BY <1>7 DEF TaskQuiet, Quiet, lifecycleVars, vars
<1>8. QED
  BY <1>1, <1>2, <1>3, <1>4, <1>5, <1>6, <1>7 DEF TaskNext

\* What the lemmas below start from.
Known == QueueInv /\ Phases /\ Table /\ CommandsKnown

LEMMA KeysStay ==
  ASSUME QueueInv, [TaskNext]_lifecycleVars, NEW m \in Messages, pc[m] # "new"
  PROVE  pc'[m] # "new" /\ key'[m] = key[m]
BY TaskStep, ResolvedForGood

\* The task of a turn under way is in the table.
LEMMA TurnsHaveTask ==
  ASSUME Known, NEW m \in Messages, pc[m] \in SlotStates
  PROVE  key[m] \in Keys /\ key[m] \in DOMAIN tasks
BY NoneAssumption DEF Known, QueueInv, KeysKnown, Table

LEMMA StepMeansSlot ==
  ASSUME Known, NEW m \in Messages, step[m] \in RowInHand
  PROVE  pc[m] \in RegisteredStates /\ pc[m] \in SlotStates /\ pc[m] # "new"
BY DEF Known, Phases, StepFits, RowInHand, SetUpSteps, RegisteredStates, SlotStates

LEMMA ReadsEffect ==
  ASSUME Known, NEW m \in Messages, Reads(m)
  PROVE  /\ key[m] \in DOMAIN tasks /\ pc[m] \in RegisteredStates
         /\ step'[m] \in {"loaded", "read"} /\ row'[m] = tasks[key[m]]
         /\ step'[m] = "loaded" => tasks[key[m]].open
         /\ step'[m] = "read" => step[m] = "touch"
         /\ \A n \in Messages \ {m} : step'[n] = step[n] /\ row'[n] = row[n]
         /\ row' \in [Messages -> Row \cup {NoRow}]
         /\ UNCHANGED <<pc, key, tasks, worktrees, doomed, overtaken>>
<1>1. pc[m] \in RegisteredStates /\ pc[m] \in SlotStates
  BY DEF Reads, RegisteredStates, SlotStates
<1>2. key[m] \in DOMAIN tasks
  BY <1>1, TurnsHaveTask
<1>3. step \in [Messages -> Steps] /\ row \in [Messages -> Row \cup {NoRow}] /\ tasks[key[m]] \in Row
  BY <1>2 DEF Known, Phases, Table, CopiesKnown
<1>4. QED
  BY <1>1, <1>2, <1>3 DEF Reads, Reach

LEMMA AddsEffect ==
  ASSUME Known, NEW m \in Messages, Adds(m)
  PROVE  /\ key[m] \in DOMAIN tasks /\ pc[m] = "registered" /\ step[m] = "locked"
         /\ \/ step'[m] = "added" /\ worktrees' = worktrees \cup {key[m]}
            \/ /\ step'[m] = "broken"
               /\ worktrees' \subseteq worktrees /\ worktrees \ {key[m]} \subseteq worktrees'
         /\ \A n \in Messages \ {m} : step'[n] = step[n]
         /\ UNCHANGED <<pc, key, tasks, row, doomed, overtaken>>
<1>1. key[m] \in DOMAIN tasks
  BY TurnsHaveTask DEF Adds, At, SlotStates
<1>2. step \in [Messages -> Steps]
  BY DEF Known, Phases
<1>3. QED
  BY <1>1, <1>2 DEF Adds, At, Reach

LEMMA WritesSteps ==
  ASSUME Known, NEW m \in Messages, Writes(m)
  PROVE  /\ pc[m] \in RegisteredStates /\ pc[m] \in SlotStates
         /\ \/ step[m] = "added" /\ pc'[m] = "ready" /\ step'[m] = "ready"
            \/ step[m] = "broken" /\ pc'[m] = "returned" /\ step'[m] = "refused"
            \/ step[m] = "read" /\ pc'[m] = "returned" /\ step'[m] = "over"
         /\ \A n \in Messages \ {m} : step'[n] = step[n] /\ pc'[n] = pc[n]
         /\ UNCHANGED <<key, worktrees, row, doomed, overtaken>>
<1>1. step \in [Messages -> Steps]
  BY DEF Known, Phases
<1> HIDE DEF Write
<1>2. QED
  BY <1>1 DEF Writes, At, Touching, Reach, RegisteredStates, SlotStates

LEMMA TableStep == ASSUME Known, [TaskNext]_lifecycleVars PROVE Table'
<1>1. RowShapes
  BY StepRows DEF Known, Table, CopiesKnown
<1>2. \A n \in Messages : key'[n] = key[n] \/ key'[n] \in DOMAIN tasks
  BY KeysResolved DEF Known, CommandsKnown
<1>3. \A n \in Messages : step[n] \in RowInHand => key'[n] = key[n]
  BY KeysStay, StepMeansSlot DEF Known
<1>4. CASE Still
  <2>1. UNCHANGED rows /\ \A n \in Messages : step'[n] \in RowInHand => step[n] \in RowInHand
    BY <1>4 DEF Still, StepOnly, RowInHand
  <2>2. QED
    BY <1>2, <1>3, <2>1 DEF Known, Table, CopiesKnown, rows
<1>5. ASSUME NEW m \in Messages, Reads(m) PROVE Table'
  BY <1>5, ReadsEffect DEF Known, Table, CopiesKnown
<1>6. ASSUME NEW m \in Messages, Adds(m) PROVE Table'
  BY <1>6, AddsEffect DEF Known, Table, CopiesKnown, RowInHand
<1>7. ASSUME NEW m \in Messages, Writes(m) PROVE Table'
  <2>1. /\ pc[m] \in SlotStates
        /\ \A n \in Messages : step'[n] \in RowInHand => step'[n] = step[n] /\ n # m
        /\ UNCHANGED <<key, worktrees, row, doomed, overtaken>>
    BY <1>7, WritesSteps DEF RowInHand
  <2>2. /\ key[m] \in DOMAIN tasks /\ DOMAIN tasks' = DOMAIN tasks
        /\ \A u \in DOMAIN tasks : tasks'[u] \in Row /\ tasks'[u].name = tasks[u].name
    BY <1>7, <2>1, WritesEffect DEF Known, Table
  <2>3. QED
    BY <2>1, <2>2 DEF Known, Table, CopiesKnown
<1>8. ASSUME NEW c \in Commands, CreateInsert(c) PROVE Table'
  <2>1. PICK t \in Keys : InsertsAs(c, t)
    BY <1>8, InsertEffect DEF Known
  <2>2. QED
    BY <2>1 DEF InsertsAs, Known, Table, CopiesKnown, vars
<1>9. ASSUME NEW c \in Commands, Close(c) PROVE Table'
  <2>1. /\ DOMAIN tasks' = DOMAIN tasks
        /\ \A u \in DOMAIN tasks : tasks'[u] \in Row /\ tasks'[u].name = tasks[u].name
        /\ UNCHANGED <<vars, worktrees, row, step, doomed>>
    BY <1>9, CloseEffect DEF Known, Table
  <2>2. QED
    BY <2>1 DEF Known, Table, CopiesKnown, vars
<1>10. ASSUME NEW c \in Commands, PruneNeeded(c) PROVE Table'
  BY <1>10, ListEffect DEF Known, Table, CopiesKnown, vars
<1>11. ASSUME NEW c \in Commands, PruneStep(c) PROVE Table'
  <2>1. /\ DOMAIN tasks' = DOMAIN tasks /\ worktrees' \subseteq worktrees
        /\ \A u \in DOMAIN tasks : tasks'[u] \in Row /\ tasks'[u].name = tasks[u].name
        /\ DOMAIN doomed' = Commands
        /\ \A d \in Commands : \A u \in DOMAIN doomed'[d] :
              u \in DOMAIN doomed[d] /\ doomed'[d][u] = doomed[d][u]
        /\ UNCHANGED <<vars, row, step>>
    BY <1>11, PruneEffect DEF Known, Table
  <2>2. QED
    BY <2>1 DEF Known, Table, CopiesKnown, vars
<1>12. QED
  BY <1>1, <1>4, <1>5, <1>6, <1>7, <1>8, <1>9, <1>10, <1>11 DEF RowShapes

LEMMA TableGrows == ASSUME Known, [TaskNext]_lifecycleVars PROVE DOMAIN tasks \subseteq DOMAIN tasks'
<1>1. RowShapes
  BY StepRows DEF Known, Table, CopiesKnown
<1>2. ASSUME NEW m \in Messages, Reads(m) \/ Adds(m) \/ Writes(m)
      PROVE  DOMAIN tasks \subseteq DOMAIN tasks'
  BY <1>2, ReadsEffect, AddsEffect, WritesSteps, WritesEffect DEF Known
<1>3. ASSUME NEW c \in Commands, CreateInsert(c) \/ Close(c) \/ PruneNeeded(c) \/ PruneStep(c)
      PROVE  DOMAIN tasks \subseteq DOMAIN tasks'
  BY <1>3, InsertEffect, CloseEffect, ListEffect, PruneEffect DEF Known, InsertsAs
<1>4. QED
  BY <1>1, <1>2, <1>3 DEF RowShapes, Still, rows

CommandPcs == {"idle", "named", "activate", "closing", "listing", "pruning", "removing",
               "resetting", "deleting", "done"}

\* A command moves on and keeps what it knows.
LEMMA CommandMoves ==
  ASSUME CommandsKnown, NEW c \in Commands, NEW p \in CommandPcs,
         commands' = [commands EXCEPT ![c].pc = p]
  PROVE  /\ commands' \in [Commands -> CommandStates]
         /\ commands'[c].pc = p
         /\ \A d \in Commands :
               /\ commands'[d].task = commands[d].task /\ commands'[d].name = commands[d].name
               /\ commands'[d].missed = commands[d].missed
               /\ commands'[d].outside = commands[d].outside
               /\ commands'[d].cut = commands[d].cut /\ commands'[d].again = commands[d].again
               /\ d # c => commands'[d] = commands[d]
<1>1. commands \in [Commands -> CommandStates]
  BY DEF CommandsKnown
<1>2. QED
  BY <1>1 DEF CommandStates, CommandPcs

\* It takes up a task.
LEMMA CommandTakes ==
  ASSUME CommandsKnown, NEW c \in Commands, NEW p \in CommandPcs, NEW t \in Keys,
         commands' = [commands EXCEPT ![c].pc = p, ![c].task = t]
  PROVE  /\ commands' \in [Commands -> CommandStates]
         /\ commands'[c].pc = p /\ commands'[c].task = t
         /\ commands'[c].name = commands[c].name /\ commands'[c].missed = commands[c].missed
         /\ commands'[c].outside = commands[c].outside /\ commands'[c].cut = commands[c].cut
         /\ commands'[c].again = commands[c].again
         /\ \A d \in Commands \ {c} : commands'[d] = commands[d]
<1> DEFINE f == [commands EXCEPT ![c].pc = p]
<1>1. commands \in [Commands -> CommandStates]
  BY DEF CommandsKnown
<1>2. /\ f \in [Commands -> CommandStates] /\ f[c].pc = p
      /\ \A d \in Commands \ {c} : f[d] = commands[d]
      /\ f[c].name = commands[c].name /\ f[c].missed = commands[c].missed
      /\ f[c].outside = commands[c].outside /\ f[c].cut = commands[c].cut
      /\ f[c].again = commands[c].again
  BY <1>1 DEF CommandStates, CommandPcs
<1> DEFINE e == [f[c] EXCEPT !.task = t]
<1> HIDE DEF f
<1>3. /\ e \in CommandStates /\ e.pc = p /\ e.task = t
      /\ e.name = f[c].name /\ e.missed = f[c].missed
      /\ e.outside = f[c].outside /\ e.cut = f[c].cut /\ e.again = f[c].again
  BY <1>2 DEF CommandStates
<1>4. commands' = [f EXCEPT ![c] = e]
  BY DEF f
<1> HIDE DEF e
<1>5. QED
  BY <1>2, <1>3, <1>4

\* It closes its task, which was closed already or not.
LEMMA CommandCloses ==
  ASSUME CommandsKnown, NEW c \in Commands, Close(c)
  PROVE  /\ commands' \in [Commands -> CommandStates]
         /\ commands[c].pc = "closing" /\ commands'[c].pc = "listing"
         /\ commands'[c].again = ~tasks[commands[c].task].open
         /\ commands'[c].task = commands[c].task
         /\ commands'[c].name = commands[c].name /\ commands'[c].missed = commands[c].missed
         /\ commands'[c].outside = commands[c].outside /\ commands'[c].cut = commands[c].cut
         /\ \A d \in Commands \ {c} : commands'[d] = commands[d]
<1> DEFINE f == [commands EXCEPT ![c].pc = "listing"]
<1>0. PICK b \in BOOLEAN : b = ~tasks[commands[c].task].open
  OBVIOUS
<1>1. /\ commands \in [Commands -> CommandStates] /\ commands[c].pc = "closing"
      /\ commands' = [f EXCEPT ![c].again = b]
  BY <1>0 DEF CommandsKnown, Close
<1>2. /\ f \in [Commands -> CommandStates] /\ f[c].pc = "listing"
      /\ \A d \in Commands \ {c} : f[d] = commands[d]
      /\ f[c].name = commands[c].name /\ f[c].missed = commands[c].missed
      /\ f[c].outside = commands[c].outside /\ f[c].cut = commands[c].cut
      /\ f[c].task = commands[c].task
  BY <1>1 DEF CommandStates
<1> DEFINE e == [f[c] EXCEPT !.again = b]
<1> HIDE DEF f
<1>3. /\ e \in CommandStates /\ e.pc = "listing" /\ e.again = b
      /\ e.name = f[c].name /\ e.missed = f[c].missed
      /\ e.outside = f[c].outside /\ e.cut = f[c].cut /\ e.task = f[c].task
  BY <1>2 DEF CommandStates
<1>4. commands' = [f EXCEPT ![c] = e]
  BY <1>1
<1> HIDE DEF e
<1>5. QED
  BY <1>0, <1>1, <1>2, <1>3, <1>4

LEMMA CommandsStep == ASSUME Known, [TaskNext]_lifecycleVars PROVE CommandsKnown'
<1>1. DOMAIN tasks \subseteq DOMAIN tasks'
  BY TableGrows
<1>0. CommandsKnown /\ DOMAIN tasks \subseteq Keys
  BY DEF Known, Table
<1>2. ASSUME UNCHANGED <<commands, active, closings>>, repoLock' \in {repoLock, None} \cup Messages
      PROVE  CommandsKnown'
  BY <1>0, <1>1, <1>2 DEF CommandsKnown
<1>3. ASSUME NEW m \in Messages, \/ ResolveTask(m) \/ ResolveTaskFails(m) \/ TaskSetUp(m)
                                 \/ Touch(m) \/ ServiceStep(m)
      PROVE  CommandsKnown'
  <2>1. UNCHANGED <<commands, active, closings>>
    BY <1>3 DEF ResolveTask, ResolveTaskFails, TaskSetUp, LoadTask, LoadTaskFails, AlreadyReady,
       LockForSetUp, AddWorktree, AddWorktreeFails, MarkReady, MarkFailed, MarkFails, Touch,
       TouchLoad, TouchWrite, TouchFails, ServiceStep, taskVars, worktreeVars
  <2>2. repoLock' \in {repoLock, None} \cup Messages
    BY <1>3 DEF ResolveTask, ResolveTaskFails, TaskSetUp, LoadTask, LoadTaskFails, AlreadyReady,
       LockForSetUp, AddWorktree, AddWorktreeFails, MarkReady, MarkFailed, MarkFails, Touch,
       TouchLoad, TouchWrite, TouchFails, ServiceStep, taskVars, worktreeVars
  <2>3. QED
    BY <1>2, <2>1, <2>2
<1>4. ASSUME NEW c \in Commands, NEW p \in CommandPcs, p \notin {"named", "activate", "closing"},
             commands' = [commands EXCEPT ![c].pc = p],
             active' \in {active, None} \cup DOMAIN tasks, closings' \in {closings, closings + 1},
             repoLock' \in {repoLock, c, None}
      PROVE  CommandsKnown'
  <2>1. /\ commands' \in [Commands -> CommandStates] /\ commands'[c].pc = p
        /\ \A d \in Commands \ {c} : commands'[d] = commands[d]
    BY <1>0, <1>4, CommandMoves
  <2>2. QED
    BY <1>0, <1>1, <1>4, <2>1 DEF CommandsKnown
<1>5. ASSUME NEW c \in Commands, NEW p \in CommandPcs, NEW t \in DOMAIN tasks, p # "named",
             commands' = [commands EXCEPT ![c].pc = p, ![c].task = t],
             UNCHANGED <<active, closings, repoLock>>
      PROVE  CommandsKnown'
  <2>1. /\ commands' \in [Commands -> CommandStates] /\ commands'[c].task = t
        /\ commands'[c].pc = p
        /\ \A d \in Commands \ {c} : commands'[d] = commands[d]
    <3>1. t \in Keys
      BY <1>0
    <3>2. commands' = [commands EXCEPT ![c].pc = p, ![c].task = t]
      BY <1>5
    <3>3. /\ commands' \in [Commands -> CommandStates]
          /\ commands'[c].pc = p /\ commands'[c].task = t
          /\ commands'[c].name = commands[c].name /\ commands'[c].missed = commands[c].missed
          /\ commands'[c].outside = commands[c].outside /\ commands'[c].cut = commands[c].cut
          /\ commands'[c].again = commands[c].again
          /\ \A d \in Commands \ {c} : commands'[d] = commands[d]
      BY <1>0, <3>1, <3>2, CommandTakes, Zenon
    <3>4. QED
      BY <3>3
  <2>2. QED
    BY <1>0, <1>1, <1>5, <2>1 DEF CommandsKnown
<1>6. ASSUME NEW c \in Commands, CreateList(c) PROVE CommandsKnown'
  <2>1. PICK n \in Names : commands' = [commands EXCEPT ![c].pc = "named", ![c].name = n]
    BY <1>6 DEF CreateList
  <2>2. /\ commands' \in [Commands -> CommandStates]
        /\ commands'[c].pc = "named" /\ commands'[c].name = n
        /\ \A d \in Commands \ {c} : commands'[d] = commands[d]
    <3>1. commands \in [Commands -> CommandStates]
      BY <1>0 DEF CommandsKnown
    <3>2. [commands[c] EXCEPT !.pc = "named", !.name = n] \in CommandStates
      BY <3>1 DEF CommandStates
    <3>3. QED
      BY <2>1, <3>1, <3>2 DEF CommandStates
  <2>3. UNCHANGED <<active, closings, repoLock>>
    BY <1>6 DEF CreateList, worktreeVars
  <2>4. QED
    BY <1>0, <1>1, <2>2, <2>3 DEF CommandsKnown
<1>7. ASSUME NEW c \in Commands, CreateInsert(c) PROVE CommandsKnown'
  <2>1. PICK t \in Keys : InsertsAs(c, t)
    BY <1>7, InsertEffect DEF Known
  <2>2. QED
    BY <1>0, <1>1, <2>1 DEF InsertsAs, CommandsKnown
<1>8. ASSUME NEW c \in Commands, SwitchLoad(c) \/ CloseLoad(c) PROVE CommandsKnown'
  <2>1. PICK t \in OpenTasks, p \in {"activate", "closing"} :
           commands' = [commands EXCEPT ![c].pc = p, ![c].task = t]
    BY <1>8 DEF SwitchLoad, CloseLoad
  <2>2. t \in DOMAIN tasks /\ p \in CommandPcs /\ p # "named"
    BY DEF OpenTasks, CommandPcs
  <2>3. UNCHANGED <<active, closings, repoLock>>
    BY <1>8 DEF SwitchLoad, CloseLoad, worktreeVars
  <2>4. QED
    BY <1>5, <2>1, <2>2, <2>3
<1>9. ASSUME NEW c \in Commands, Activate(c) PROVE CommandsKnown'
  <2>1. commands[c].pc = "activate" /\ commands' = [commands EXCEPT ![c].pc = "done"]
        /\ active' = commands[c].task /\ UNCHANGED <<closings, repoLock>>
    BY <1>9 DEF Activate, InStep, worktreeVars
  <2>2. active' \in DOMAIN tasks
    BY <1>0, <2>1 DEF CommandsKnown
  <2>3. QED
    BY <1>4, <2>1, <2>2 DEF CommandPcs
<1>10. ASSUME NEW c \in Commands, Close(c) PROVE CommandsKnown'
  <2>1. closings' = closings + 1 /\ active' \in {active, None} /\ UNCHANGED repoLock
    BY <1>10 DEF Close
  <2>2. QED
    BY <1>0, <1>1, <1>10, <2>1, CommandCloses DEF CommandsKnown
<1>11. ASSUME NEW c \in Commands, \/ PruneNeeded(c) \/ PruneNotNeeded(c) \/ PruneStarts(c)
                                  \/ PruneEnds(c) \/ ResetRejected(c) \/ CommandFails(c)
       PROVE  CommandsKnown'
  <2>1. \E p \in {"pruning", "removing", "done"} : commands' = [commands EXCEPT ![c].pc = p]
    BY <1>11 DEF PruneNeeded, PruneNotNeeded, PruneStarts, PruneEnds, ResetRejected, CommandFails,
       InStep
  <2>2. UNCHANGED <<active, closings>> /\ repoLock' \in {repoLock, c, None}
    BY <1>11 DEF PruneNeeded, PruneNotNeeded, PruneStarts, PruneEnds, ResetRejected, CommandFails,
       PruneLock, PruneUnlock, worktreeVars
  <2>3. QED
    BY <1>4, <2>1, <2>2 DEF CommandPcs
<1>12. ASSUME NEW c \in Commands, PruneStep(c) PROVE CommandsKnown'
  BY <1>2, <1>12 DEF PruneStep
<1>13. ASSUME NEW c \in Commands, ResetLoad(c) PROVE CommandsKnown'
  <2>1. /\ commands' = [commands EXCEPT ![c].pc = "resetting", ![c].task = active]
        /\ active # None /\ UNCHANGED <<active, closings, repoLock>>
    BY <1>13 DEF ResetLoad, worktreeVars
  <2>2. active \in DOMAIN tasks
    BY <1>0, <2>1 DEF CommandsKnown
  <2>3. QED
    BY <1>5, <2>1, <2>2 DEF CommandPcs
<1>14. ASSUME NEW c \in Commands, ResetGoesAhead(c) \/ ResetDelete(c) PROVE CommandsKnown'
  <2>1. UNCHANGED <<active, closings, repoLock>>
    BY <1>14 DEF ResetGoesAhead, ResetDelete, worktreeVars
  <2>2. \/ \E o \in SUBSET Messages : commands' = [commands EXCEPT ![c].pc = "deleting", ![c].outside = o]
        \/ \E o \in SUBSET Messages : commands' = [commands EXCEPT ![c].pc = "done", ![c].cut = o]
    BY <1>14 DEF ResetGoesAhead, ResetDelete, EngagedOn, Holders
  <2>3. /\ commands' \in [Commands -> CommandStates]
        /\ commands'[c].pc \in {"deleting", "done"}
        /\ \A d \in Commands \ {c} : commands'[d] = commands[d]
    BY <1>0, <2>2 DEF CommandsKnown, CommandStates
  <2>4. QED
    BY <1>0, <1>1, <2>1, <2>3 DEF CommandsKnown
<1>15. CASE TaskQuiet \/ UNCHANGED lifecycleVars
  BY <1>2, <1>15 DEF TaskQuiet, lifecycleVars, taskVars, worktreeVars
<1>16. QED
  BY <1>3, <1>6, <1>7, <1>8, <1>9, <1>10, <1>11, <1>12, <1>13, <1>14, <1>15 DEF TaskNext, Command

\* A close command notes the messages it overtakes; nothing is taken off.
LEMMA OvertakenMoves ==
  ASSUME Known, [TaskNext]_lifecycleVars
  PROVE  /\ overtaken \subseteq overtaken'
         /\ \/ UNCHANGED overtaken
            \/ \E c \in Commands : Close(c)
         /\ \A m, s : <<m, s>> \in overtaken' \ overtaken =>
               m \in Messages /\ pc[m] \in SlotStates /\ s = step[m] /\ s \in Steps
<1>1. RowShapes
  BY StepRows DEF Known, Table, CopiesKnown
<1>2. UNCHANGED overtaken \/ \E c \in Commands : Close(c)
  <2>1. ASSUME NEW m \in Messages, Reads(m) \/ Adds(m) \/ Writes(m) PROVE UNCHANGED overtaken
    BY <2>1 DEF Reads, Adds, Writes
  <2>2. ASSUME NEW c \in Commands, CreateInsert(c) \/ PruneNeeded(c) \/ PruneStep(c)
        PROVE  UNCHANGED overtaken
    BY <2>2 DEF CreateInsert, PruneNeeded, PruneStep
  <2>3. QED
    BY <1>1, <2>1, <2>2 DEF RowShapes, Still, rows
<1>3. ASSUME NEW c \in Commands, Close(c)
      PROVE  /\ overtaken \subseteq overtaken'
             /\ \A m, s : <<m, s>> \in overtaken' \ overtaken =>
                   m \in Messages /\ pc[m] \in SlotStates /\ s = step[m] /\ s \in Steps
  <2>1. overtaken' = overtaken \cup
            {<<m, step[m]>> : m \in {n \in Holders(commands[c].task) : step[n] # "none"}}
    BY <1>3, CloseEffect DEF Known
  <2>2. QED
    BY <2>1 DEF Holders, Holds, Known, Phases
<1>4. QED
  BY <1>2, <1>3

\* What was overtaken stays so.
LEMMA OvertakenLasts ==
  ASSUME Known, [TaskNext]_lifecycleVars, NEW t, NEW S \in SUBSET Steps, Overtaken(t, S)
  PROVE  Overtaken(t, S)'
<1>1. PICK m \in Messages, s \in S : key[m] = t /\ <<m, s>> \in overtaken
  BY DEF Overtaken
<1>2. pc[m] # "new"
  BY <1>1 DEF Known, Phases
<1>3. key'[m] = t /\ <<m, s>> \in overtaken'
  BY <1>1, <1>2, KeysStay, OvertakenMoves DEF Known
<1>4. QED
  BY <1>3 DEF Overtaken

LEMMA KnownStep == Known /\ [TaskNext]_lifecycleVars => Known'
<1> SUFFICES ASSUME Known, [TaskNext]_lifecycleVars PROVE Known'
  OBVIOUS
<1>1. QueueInv'
  BY TaskQueueStep DEF Known
<1>2. /\ overtaken' \subseteq Messages \X Steps
      /\ \A m \in Messages, s \in Steps : <<m, s>> \in overtaken' => pc'[m] # "new"
  <2>1. ASSUME NEW m, NEW s, <<m, s>> \in overtaken'
        PROVE  m \in Messages /\ s \in Steps /\ pc[m] # "new"
    BY <2>1, OvertakenMoves DEF Known, Phases, SlotStates
  <2>2. overtaken' \subseteq Messages \X Steps
    <3>1. ASSUME NEW x \in overtaken' PROVE x \in Messages \X Steps
      <4>1. CASE x \in overtaken
        BY <4>1 DEF Known, Phases
      <4>2. CASE x \notin overtaken
        <5>1. PICK c \in Commands : Close(c)
          BY <4>2, OvertakenMoves
        <5>2. x \in {<<m, step[m]>> : m \in {n \in Holders(commands[c].task) : step[n] # "none"}}
          BY <4>2, <5>1, CloseEffect DEF Known
        <5>3. QED
          BY <5>2 DEF Holders, Known, Phases
      <4>3. QED
        BY <4>1, <4>2
    <3>2. QED
      BY <3>1
  <2>3. QED
    BY <2>1, <2>2, KeysStay DEF Known
<1>3. Phases'
  BY <1>2, PhasesStep DEF Known, Phases
<1>4. QED
  BY <1>1, <1>3, TableStep, CommandsStep DEF Known

LEMMA KnownInit == TaskInit => Known
<1> SUFFICES ASSUME TaskInit PROVE Known
  OBVIOUS
<1>1. QueueInv
  BY QueueInvInit DEF TaskInit
<1>2. Phases
  BY DEF TaskInit, Init, WorktreesInit, Phases, StepFits, Steps, SetUpSteps
<1>3. Cardinality(DOMAIN Stored) \in Nat
  BY StoredAssumption, FS_CardinalityType
<1>4. Table
  BY StoredAssumption DEF TaskInit, Init, WorktreesInit, Table, CopiesKnown, RowInHand
<1>5. NoCommand \in CommandStates /\ NoCommand.pc = "idle"
  BY DEF NoCommand, CommandStates
<1>6. commands = [c \in Commands |-> NoCommand] /\ tasks = Stored
      /\ active = StoredActive /\ closings = Cardinality(DOMAIN Stored) /\ repoLock = None
  BY DEF TaskInit, WorktreesInit
<1>7. CommandsKnown
  BY <1>3, <1>5, <1>6, StoredAssumption DEF CommandsKnown
<1>8. QED
  BY <1>1, <1>2, <1>4, <1>7 DEF Known

\* Turns and their task sides are in step, copies are copies of rows that are
\* there, and commands know the task they write to.
THEOREM TaskKnownAlways == TaskSpec => []Known
<1>1. QED
  BY KnownInit, KnownStep, PTL DEF TaskSpec

\* The tables, the lock of the repository and the commands keep their types,
\* and what is selected, registered with Git or listed for pruning is a task
\* that was created.
THEOREM TaskTypeOKAlways == TaskSpec => []TaskTypeOK
<1>1. Known => TaskTypeOK
  BY DEF Known, Phases, Table, CopiesKnown, CommandsKnown, TaskTypeOK
<1>2. QED
  BY <1>1, TaskKnownAlways, PTL

-----------------------------------------------------------------------------
(* Whether a task is open: the copies agree with the table *)

\* As long as no message had a copy of the row of t in hand when t was closed,
\* all copies of that row are as open as the row.
AgreeOn(t) ==
    \/ Overtaken(t, RowInHand)
    \/ /\ \A m \in Messages : step[m] \in RowInHand /\ key[m] = t => row[m].open = tasks[t].open
       /\ \A c \in Commands : t \in DOMAIN doomed[c] => ~tasks[t].open /\ ~doomed[c][t].open

Agree == \A t \in DOMAIN tasks : AgreeOn(t)

\* What a step does that neither closes nor creates a task.
LEMMA AgreeWhile ==
  ASSUME Known, [TaskNext]_lifecycleVars, NEW t \in DOMAIN tasks, AgreeOn(t),
         tasks'[t].open = tasks[t].open \/ Overtaken(t, RowInHand),
         \A m \in Messages : step'[m] \in RowInHand /\ key[m] = t =>
            \/ row'[m].open = tasks[t].open
            \/ step[m] \in RowInHand /\ row'[m] = row[m],
         \A c \in Commands : t \in DOMAIN doomed'[c] =>
            \/ t \in DOMAIN doomed[c] /\ doomed'[c][t] = doomed[c][t]
            \/ ~tasks[t].open /\ ~doomed'[c][t].open,
         \A m \in Messages : step'[m] \in RowInHand => key'[m] = key[m]
  PROVE  AgreeOn(t)'
<1>1. RowInHand \in SUBSET Steps
  BY DEF Steps
<1>2. CASE Overtaken(t, RowInHand)
  BY <1>1, <1>2, OvertakenLasts DEF AgreeOn
<1>3. CASE ~Overtaken(t, RowInHand)
  BY <1>3 DEF AgreeOn
<1>4. QED
  BY <1>2, <1>3

\* A copy that is written back leaves the row as open as it was, unless the
\* task was overtaken.
LEMMA WritesAgree ==
  ASSUME Known, Agree, NEW m \in Messages, Writes(m), NEW t \in DOMAIN tasks
  PROVE  tasks'[t].open = tasks[t].open \/ Overtaken(t, RowInHand)
<1>1. /\ key[m] \in DOMAIN tasks /\ step[m] \in RowInHand
      /\ \A u \in DOMAIN tasks \ {key[m]} : tasks'[u] = tasks[u]
      /\ tasks'[key[m]].open = row[m].open
  BY WritesEffect, WritesSteps DEF Known
<1>2. CASE key[m] = t
  <2>1. Overtaken(t, RowInHand) \/ row[m].open = tasks[t].open
    BY <1>1, <1>2 DEF Agree, AgreeOn
  <2>2. QED
    BY <1>1, <1>2, <2>1
<1>3. CASE key[m] # t
  <2>1. tasks'[t] = tasks[t]
    BY <1>1, <1>3
  <2>2. QED
    BY <2>1, Zenon
<1>4. QED
  BY <1>2, <1>3

LEMMA PruneAgrees ==
  ASSUME Known, Agree, NEW c \in Commands, PruneStep(c), NEW t \in DOMAIN tasks
  PROVE  tasks'[t].open = tasks[t].open \/ Overtaken(t, RowInHand)
<1>1. PICK u \in DOMAIN doomed[c] :
          /\ \A v \in DOMAIN tasks \ {u} : tasks'[v] = tasks[v]
          /\ tasks'[u] = tasks[u] \/ tasks'[u].open = doomed[c][u].open
  BY PruneEffect DEF Known
<1>2. CASE u = t
  <2>1. Overtaken(t, RowInHand) \/ (~tasks[t].open /\ ~doomed[c][t].open)
    BY <1>2 DEF Agree, AgreeOn
  <2>2. tasks[t].open \in BOOLEAN /\ doomed[c][t].open \in BOOLEAN
    BY <1>2 DEF Known, Table, CopiesKnown, Row
  <2>3. CASE tasks'[t] = tasks[t]
    BY <2>3, Zenon
  <2>4. CASE tasks'[t].open = doomed[c][t].open
    BY <2>1, <2>2, <2>4
  <2>5. QED
    BY <1>1, <1>2, <2>3, <2>4
<1>3. CASE u # t
  BY <1>1, <1>3
<1>4. QED
  BY <1>2, <1>3

LEMMA AgreeStep ==
  ASSUME Known, Agree, [TaskNext]_lifecycleVars
  PROVE  Agree'
<1>1. RowShapes
  BY StepRows DEF Known, Table, CopiesKnown
<1>2. \A n \in Messages : step[n] \in RowInHand => key'[n] = key[n]
  BY KeysStay, StepMeansSlot DEF Known
<1> USE DEF Agree
<1>3. CASE Still
  <2>1. \A n \in Messages : step'[n] \in RowInHand => step[n] \in RowInHand
    BY <1>3 DEF Still, StepOnly, RowInHand
  <2>2. UNCHANGED <<tasks, row, doomed>>
    BY <1>3 DEF Still, rows
  <2>3. QED
    BY <1>2, <2>1, <2>2, AgreeWhile
<1>4. ASSUME NEW m \in Messages, Reads(m) PROVE Agree'
  <2>1. /\ row'[m] = tasks[key[m]] /\ UNCHANGED <<key, tasks, doomed>>
        /\ \A n \in Messages \ {m} : step'[n] = step[n] /\ row'[n] = row[n]
    BY <1>4, ReadsEffect
  <2>2. QED
    BY <2>1, AgreeWhile
<1>5. ASSUME NEW m \in Messages, Adds(m) PROVE Agree'
  <2>1. /\ step[m] \in RowInHand /\ UNCHANGED <<key, tasks, row, doomed>>
        /\ \A n \in Messages \ {m} : step'[n] = step[n]
    BY <1>5, AddsEffect DEF RowInHand
  <2>2. QED
    BY <2>1, AgreeWhile
<1>6. ASSUME NEW m \in Messages, Writes(m) PROVE Agree'
  <2>1. /\ \A n \in Messages : step'[n] \in RowInHand => step'[n] = step[n]
        /\ UNCHANGED <<key, row, doomed>>
    BY <1>6, WritesSteps DEF RowInHand
  <2>2. DOMAIN tasks' = DOMAIN tasks
    BY <1>6, WritesSteps, WritesEffect DEF Known
  <2>3. QED
    BY <1>6, <2>1, <2>2, AgreeWhile, WritesAgree
<1>7. ASSUME NEW c \in Commands, CreateInsert(c) PROVE Agree'
  <2>1. PICK t \in Keys : InsertsAs(c, t)
    BY <1>7, InsertEffect DEF Known
  <2>2. \A u \in DOMAIN tasks : AgreeOn(u)'
    BY <2>1, AgreeWhile DEF InsertsAs, vars
  <2>3. AgreeOn(t)'
    <3>1. \A m \in Messages : step'[m] \in RowInHand => key'[m] \in DOMAIN tasks
      BY <2>1 DEF InsertsAs, vars, Known, Table, CopiesKnown
    <3>2. \A d \in Commands : t \notin DOMAIN doomed'[d]
      BY <2>1 DEF InsertsAs, Known, Table, CopiesKnown
    <3>3. QED
      BY <2>1, <3>1, <3>2 DEF InsertsAs, AgreeOn
  <2>4. QED
    BY <2>1, <2>2, <2>3 DEF InsertsAs
<1>8. ASSUME NEW c \in Commands, Close(c) PROVE Agree'
  <2>0. PICK t : t = commands[c].task
    OBVIOUS
  <2>1. /\ t \in DOMAIN tasks /\ DOMAIN tasks' = DOMAIN tasks
        /\ \A u \in DOMAIN tasks \ {t} : tasks'[u] = tasks[u]
        /\ ~tasks'[t].open
        /\ overtaken' = overtaken \cup
              {<<m, step[m]>> : m \in {n \in Holders(t) : step[n] # "none"}}
        /\ UNCHANGED <<vars, row, step, doomed>>
    BY <1>8, <2>0, CloseEffect DEF Known
  <2>2. UNCHANGED key
    BY <2>1 DEF vars
  <2>3. \A u \in DOMAIN tasks \ {t} : AgreeOn(u)'
    BY <2>1, <2>2, AgreeWhile
  <2>4. AgreeOn(t)'
    <3>1. CASE \E m \in Messages : step[m] \in RowInHand /\ key[m] = t
      <4>1. PICK m \in Messages : step[m] \in RowInHand /\ key[m] = t
        BY <3>1
      <4>2. m \in Holders(t) /\ step[m] # "none"
        BY <4>1, StepMeansSlot DEF Holders, Holds, RowInHand
      <4>3. <<m, step[m]>> \in overtaken'
        BY <2>1, <4>2
      <4>4. QED
        BY <2>2, <4>1, <4>3 DEF AgreeOn, Overtaken
    <3>2. CASE ~ \E m \in Messages : step[m] \in RowInHand /\ key[m] = t
      <4>1. CASE Overtaken(t, RowInHand)
        <5>1. RowInHand \in SUBSET Steps
          BY DEF Steps
        <5>2. QED
          BY <4>1, <5>1, OvertakenLasts DEF AgreeOn
      <4>2. CASE ~Overtaken(t, RowInHand)
        BY <2>1, <2>2, <3>2, <4>2 DEF AgreeOn
      <4>3. QED
        BY <4>1, <4>2
    <3>3. QED
      BY <3>1, <3>2
  <2>5. QED
    BY <2>1, <2>3, <2>4
<1>9. ASSUME NEW c \in Commands, PruneNeeded(c) PROVE Agree'
  <2>1. /\ DOMAIN doomed' = Commands
        /\ \A d \in Commands \ {c} : doomed'[d] = doomed[d]
        /\ \A t \in DOMAIN doomed'[c] :
              t \in DOMAIN tasks /\ ~tasks[t].open /\ doomed'[c][t] = tasks[t]
        /\ UNCHANGED <<key, tasks, row, step>>
    BY <1>9, ListEffect DEF Known, vars
  <2>2. ASSUME NEW t \in DOMAIN tasks, NEW d \in Commands, t \in DOMAIN doomed'[d]
        PROVE  \/ t \in DOMAIN doomed[d] /\ doomed'[d][t] = doomed[d][t]
               \/ ~tasks[t].open /\ ~doomed'[d][t].open
    BY <2>1, <2>2
  <2>3. QED
    BY <2>1, <2>2, AgreeWhile
<1>10. ASSUME NEW c \in Commands, PruneStep(c) PROVE Agree'
  <2>1. /\ DOMAIN tasks' = DOMAIN tasks
        /\ \A d \in Commands : \A u \in DOMAIN doomed'[d] :
              u \in DOMAIN doomed[d] /\ doomed'[d][u] = doomed[d][u]
        /\ UNCHANGED <<key, row, step>>
    BY <1>10, PruneEffect DEF Known, vars
  <2>2. QED
    BY <1>10, <2>1, AgreeWhile, PruneAgrees
<1>11. QED
  BY <1>1, <1>3, <1>4, <1>5, <1>6, <1>7, <1>8, <1>9, <1>10 DEF RowShapes

LEMMA AgreeInit == TaskInit => Agree
<1> SUFFICES ASSUME TaskInit PROVE Agree
  OBVIOUS
<1>1. \A m \in Messages : step[m] \notin RowInHand
  BY DEF TaskInit, WorktreesInit, RowInHand
<1>2. \A c \in Commands : DOMAIN doomed[c] = {}
  BY DEF TaskInit, WorktreesInit
<1>3. QED
  BY <1>1, <1>2 DEF Agree, AgreeOn

LEMMA AgreeAlways == TaskSpec => [](Known /\ Agree)
<1>1. QED
  BY KnownInit, AgreeInit, KnownStep, AgreeStep, PTL DEF TaskSpec

\* The rows a step opens again belong to overtaken tasks.
LEMMA Reopened ==
  ASSUME Known, Agree, [TaskNext]_lifecycleVars, NEW t \in DOMAIN tasks, ~tasks[t].open, tasks'[t].open
  PROVE  Overtaken(t, RowInHand)
<1>1. RowShapes
  BY StepRows DEF Known, Table, CopiesKnown
<1>2. ASSUME NEW m \in Messages, Reads(m) \/ Adds(m) PROVE FALSE
  BY <1>2 DEF Reads, Adds
<1>3. ASSUME NEW m \in Messages, Writes(m) PROVE Overtaken(t, RowInHand)
  BY <1>3, WritesAgree
<1>4. ASSUME NEW c \in Commands, CreateInsert(c) PROVE FALSE
  BY <1>4, InsertEffect DEF InsertsAs, Known
<1>5. ASSUME NEW c \in Commands, Close(c) PROVE FALSE
  <2>1. /\ \A u \in DOMAIN tasks \ {commands[c].task} : tasks'[u] = tasks[u]
        /\ ~tasks'[commands[c].task].open
    BY <1>5, CloseEffect DEF Known
  <2>2. QED
    BY <2>1
<1>6. ASSUME NEW c \in Commands, PruneStep(c) PROVE Overtaken(t, RowInHand)
  BY <1>6, PruneAgrees
<1>7. ASSUME NEW c \in Commands, PruneNeeded(c) PROVE FALSE
  BY <1>7 DEF PruneNeeded
<1>8. CASE Still
  BY <1>8 DEF Still, rows
<1>9. QED
  BY <1>1, <1>2, <1>3, <1>4, <1>5, <1>6, <1>7, <1>8 DEF RowShapes

\* EnsureReady, PruneClosed and touchTaskLastUsed write whole rows: a closed
\* task becomes open again only if a message had read the row, and had not yet
\* written it back, when the task was closed.
THEOREM IdleCloseIsFinalAlways == TaskSpec => IdleCloseIsFinal
<1>1. ASSUME Known, Agree, [TaskNext]_lifecycleVars
      PROVE  [\A t \in DOMAIN tasks :
                ~tasks[t].open /\ tasks'[t].open => Overtaken(t, RowInHand)]_lifecycleVars
  BY <1>1, Reopened
<1>2. QED
  BY <1>1, AgreeAlways, PTL DEF TaskSpec, IdleCloseIsFinal

=============================================================================
