---------------------------- MODULE TaskTurnProofs ----------------------------
(***************************************************************************)
(* Proofs about what task commands do to turns, for any number of          *)
(* messages, commands, tasks and names and any retention: closing,         *)
(* resetting, naming and pruning while messages of the same task are on    *)
(* their way.  At the end, what is proved of the message service alone is  *)
(* carried over to the service among task commands.                        *)
(***************************************************************************)
EXTENDS TaskProofs, MessageTurnProofs

-----------------------------------------------------------------------------
(* A closed task gets no turn *)

\* The step that closes an open task is a close command, or the writing of a
\* copy by which the task had been reopened.
LEMMA ClosedBy ==
  ASSUME Known, Agree, [TaskNext]_lifecycleVars, NEW t \in DOMAIN tasks, tasks[t].open, ~tasks'[t].open
  PROVE  Overtaken(t, RowInHand) \/ \E c \in Commands : Close(c) /\ t = commands[c].task
<1>1. RowShapes
  BY StepRows DEF Known, Table, CopiesKnown
<1>2. ASSUME NEW m \in Messages, Reads(m) \/ Adds(m) PROVE FALSE
  BY <1>2 DEF Reads, Adds
<1>3. ASSUME NEW m \in Messages, Writes(m) PROVE Overtaken(t, RowInHand)
  BY <1>3, WritesAgree
<1>4. ASSUME NEW c \in Commands, CreateInsert(c) PROVE FALSE
  BY <1>4, InsertEffect DEF InsertsAs, Known
<1>5. ASSUME NEW c \in Commands, Close(c), t # commands[c].task PROVE FALSE
  <2>1. \A u \in DOMAIN tasks \ {commands[c].task} : tasks'[u] = tasks[u]
    BY <1>5, CloseEffect DEF Known
  <2>2. tasks'[t] = tasks[t]
    BY <1>5, <2>1
  <2>3. QED
    BY <2>2
<1>6. ASSUME NEW c \in Commands, PruneStep(c) PROVE Overtaken(t, RowInHand)
  BY <1>6, PruneAgrees
<1>7. ASSUME NEW c \in Commands, PruneNeeded(c) PROVE FALSE
  BY <1>7 DEF PruneNeeded
<1>8. CASE Still
  BY <1>8 DEF Still, rows
<1>9. QED
  BY <1>1, <1>2, <1>3, <1>4, <1>5, <1>6, <1>7, <1>8 DEF RowShapes

\* The message has looked at the status of its task, found it open, and may
\* still write to its row.
Looked(m) == pc[m] \in SlotStates /\ step[m] \in RowInHand \cup {"ready", "touch"}

\* Apart from the look itself, whoever has looked had looked before.
LEMMA LookedOrRead ==
  ASSUME Known, [TaskNext]_lifecycleVars, NEW m \in Messages, Looked(m)',
         step[m] \in RowInHand \cup {"ready", "touch"}
  PROVE  Looked(m)
<1>1. pc[m] \notin {"new", "prepared", "waiting"}
  BY DEF Known, Phases, StepFits, SetUpSteps, RowInHand
<1>2. pc'[m] \in Admitted /\ pc[m] # "new"
  BY <1>1 DEF Looked, Admitted
<1>3. pc[m] \in Admitted
  <2>1. CASE [Next]_vars
    BY <1>2, <2>1, AdmittedBefore DEF Known
  <2>2. CASE UNCHANGED pc
    BY <1>2, <2>2
  <2>3. QED
    BY <2>1, <2>2, TaskStep
<1>4. QED
  BY <1>1, <1>3 DEF Looked, Admitted

LEMMA LookedBefore ==
  ASSUME Known, [TaskNext]_lifecycleVars, NEW m \in Messages, Looked(m)'
  PROVE  /\ pc[m] # "new"
         /\ Looked(m) \/ (tasks[key[m]].open /\ UNCHANGED <<key, tasks>>)
<1> DEFINE Looks == pc[m] # "new" /\ tasks[key[m]].open /\ UNCHANGED <<key, tasks>>
<1>1. RowShapes
  BY StepRows DEF Known, Table, CopiesKnown
<1>2. ASSUME step[m] \in RowInHand \cup {"ready", "touch"} PROVE Looked(m)
  BY <1>2, LookedOrRead
<1>3. CASE step'[m] = step[m]
  BY <1>2, <1>3 DEF Looked, SlotStates
<1>4. CASE Still
  BY <1>2, <1>4 DEF Still, StepOnly, Looked, RowInHand, SlotStates, Known, Phases, StepFits
<1>5. ASSUME NEW n \in Messages, Reads(n) PROVE Looked(m) \/ Looks
  <2>1. CASE n = m
    BY <1>2, <1>5, <2>1, ReadsEffect DEF Looked, RowInHand, RegisteredStates
  <2>2. CASE n # m
    BY <1>2, <1>5, <2>2, ReadsEffect DEF Looked
  <2>3. QED
    BY <2>1, <2>2
<1>6. ASSUME NEW n \in Messages, Adds(n) PROVE Looked(m)
  <2>1. CASE n = m
    BY <1>2, <1>6, <2>1, AddsEffect DEF RowInHand
  <2>2. CASE n # m
    BY <1>2, <1>6, <2>2, AddsEffect DEF Looked
  <2>3. QED
    BY <2>1, <2>2
<1>7. ASSUME NEW n \in Messages, Writes(n) PROVE Looked(m)
  <2>1. CASE n = m
    BY <1>2, <1>7, <2>1, WritesSteps DEF Looked, RowInHand
  <2>2. CASE n # m
    BY <1>2, <1>7, <2>2, WritesSteps DEF Looked
  <2>3. QED
    BY <2>1, <2>2
<1>8. ASSUME NEW c \in Commands, CreateInsert(c) \/ Close(c) \/ PruneNeeded(c) \/ PruneStep(c)
      PROVE  UNCHANGED step
  BY <1>8 DEF CreateInsert, Close, PruneNeeded, PruneStep
<1>9. Looked(m) \/ Looks
  BY <1>1, <1>3, <1>4, <1>5, <1>6, <1>7, <1>8 DEF RowShapes
<1>10. QED
  BY <1>9 DEF Looked, SlotStates

\* A close command came after the look; or a row written late had reopened
\* the task, and a pruning closed it again.
Excused(m) == (\E s \in Steps : <<m, s>> \in overtaken) \/ Overtaken(key[m], RowInHand)

LookIsRecent == \A m \in Messages : Looked(m) /\ ~tasks[key[m]].open => Excused(m)

LEMMA LookIsRecentStep ==
  ASSUME Known, Agree, LookIsRecent, [TaskNext]_lifecycleVars
  PROVE  LookIsRecent'
<1> SUFFICES ASSUME NEW m \in Messages, Looked(m)', ~tasks'[key'[m]].open
             PROVE  Excused(m)'
  BY DEF LookIsRecent
<1>1. pc[m] # "new" /\ Looked(m)
  <2>1. pc[m] # "new" /\ (Looked(m) \/ (tasks[key[m]].open /\ UNCHANGED <<key, tasks>>))
    BY LookedBefore
  <2>2. ASSUME UNCHANGED <<key, tasks>> PROVE ~tasks[key[m]].open
    <3>1. tasks'[key'[m]] = tasks[key[m]]
      BY <2>2
    <3>2. QED
      BY <3>1, Zenon
  <2>3. QED
    BY <2>1, <2>2
<1>2. key'[m] = key[m]
  BY <1>1, KeysStay DEF Known
<1>3. key[m] \in DOMAIN tasks
  BY <1>1, TurnsHaveTask DEF Looked
<1>4. ASSUME Excused(m) PROVE Excused(m)'
  <2>1. RowInHand \in SUBSET Steps
    BY DEF Steps
  <2>2. CASE Overtaken(key[m], RowInHand)
    <3>1. PICK t : t = key[m]
      OBVIOUS
    <3>2. Overtaken(t, RowInHand)'
      BY <2>1, <2>2, <3>1, OvertakenLasts
    <3>3. QED
      BY <1>2, <3>1, <3>2 DEF Excused, Overtaken
  <2>3. CASE \E s \in Steps : <<m, s>> \in overtaken
    BY <2>3, OvertakenMoves DEF Excused
  <2>4. QED
    BY <1>4, <2>2, <2>3 DEF Excused
<1>5. CASE ~tasks[key[m]].open
  BY <1>1, <1>4, <1>5 DEF LookIsRecent
<1>6. CASE tasks[key[m]].open
  <2>1. CASE Overtaken(key[m], RowInHand)
    BY <1>4, <2>1 DEF Excused
  <2>2. ASSUME NEW c \in Commands, Close(c), key[m] = commands[c].task PROVE Excused(m)'
    <3>1. overtaken' = overtaken \cup
             {<<n, step[n]>> : n \in {k \in Holders(commands[c].task) : step[k] # "none"}}
      BY <2>2, CloseEffect DEF Known
    <3>2. m \in Holders(commands[c].task) /\ step[m] # "none" /\ step[m] \in Steps
      BY <1>1, <2>2 DEF Looked, Holders, Holds, RowInHand, Known, Phases
    <3>3. <<m, step[m]>> \in overtaken'
      BY <3>1, <3>2
    <3>4. QED
      BY <3>2, <3>3 DEF Excused
  <2>3. QED
    BY <1>2, <1>3, <1>6, <2>1, <2>2, ClosedBy
<1>7. QED
  BY <1>5, <1>6

\* A message whose task was closed before its turn looked at it gets none, no
\* matter how it came to be resolved to the closed task.
THEOREM ClosedTasksGetNoTurnAlways == TaskSpec => []ClosedTasksGetNoTurn
<1>1. TaskInit => LookIsRecent
  BY DEF TaskInit, WorktreesInit, LookIsRecent, Looked, RowInHand
<1>2. ASSUME Known, LookIsRecent PROVE ClosedTasksGetNoTurn
  <2>1. ASSUME NEW m \in Messages, pc[m] = "turn" PROVE Looked(m)
    BY <1>2, <2>1 DEF Known, Phases, StepFits, Looked, SlotStates
  <2>2. QED
    BY <1>2, <2>1 DEF LookIsRecent, Excused, ClosedTasksGetNoTurn
<1>3. QED
  BY <1>1, <1>2, AgreeAlways, LookIsRecentStep, PTL DEF TaskSpec

-----------------------------------------------------------------------------
(* Resetting the context spares the admitted work *)

\* What a step of the other commands leaves of this one.
ResetKept(c) ==
    /\ commands'[c].outside = commands[c].outside /\ commands'[c].cut = commands[c].cut
    /\ commands'[c].pc = "deleting" => commands[c].pc = "deleting" /\ commands'[c].task = commands[c].task
    /\ commands'[c].pc # "done" => commands[c].pc # "done"

\* ... and of the name a create command has found unused.
NameKept(c) ==
    /\ commands'[c].missed = commands[c].missed
    /\ commands'[c].pc \in {"idle", "named"} =>
          /\ commands'[c].pc = commands[c].pc
          /\ commands'[c].task = commands[c].task /\ commands'[c].name = commands[c].name
    /\ commands[c].pc \notin {"idle", "named"} => commands'[c].task = commands[c].task

\* Only reset-context touches what the reset is about, and only create what
\* the names are about.
LEMMA CommandsKeep ==
  ASSUME Known, [TaskNext]_lifecycleVars
  PROVE  /\ \/ \A c \in Commands : ResetKept(c)
            \/ \E c \in Commands : ResetGoesAhead(c) \/ ResetDelete(c)
         /\ \/ \A c \in Commands : NameKept(c)
            \/ \E c \in Commands : CreateList(c) \/ CreateInsert(c)
<1> DEFINE Kept == \A c \in Commands : ResetKept(c) /\ NameKept(c)
<1>0. CommandsKnown /\ DOMAIN tasks \subseteq Keys
  BY DEF Known, Table
<1>1. ASSUME UNCHANGED commands PROVE Kept
  BY <1>1 DEF ResetKept, NameKept
<1>2. ASSUME NEW c \in Commands, NEW p \in CommandPcs, p \notin {"deleting", "idle", "named"},
             commands[c].pc # "done", commands' = [commands EXCEPT ![c].pc = p]
      PROVE  Kept
  <2>1. /\ commands'[c].pc = p
        /\ \A d \in Commands :
              /\ commands'[d].task = commands[d].task /\ commands'[d].name = commands[d].name
              /\ commands'[d].missed = commands[d].missed
              /\ commands'[d].outside = commands[d].outside
              /\ commands'[d].cut = commands[d].cut
              /\ d # c => commands'[d] = commands[d]
    BY <1>0, <1>2, CommandMoves
  <2>2. QED
    BY <1>2, <2>1 DEF ResetKept, NameKept
<1>3. ASSUME NEW c \in Commands, NEW p \in CommandPcs, NEW t \in Keys,
             p \notin {"deleting", "idle", "named"}, commands[c].pc = "idle",
             commands' = [commands EXCEPT ![c].pc = p, ![c].task = t]
      PROVE  Kept
  <2>1. /\ commands'[c].pc = p /\ commands'[c].outside = commands[c].outside
        /\ commands'[c].cut = commands[c].cut /\ commands'[c].missed = commands[c].missed
        /\ \A d \in Commands \ {c} : commands'[d] = commands[d]
    BY <1>0, <1>3, CommandTakes, Zenon
  <2>2. QED
    BY <1>3, <2>1 DEF ResetKept, NameKept
<1>4. ASSUME NEW m \in Messages, \/ ResolveTask(m) \/ ResolveTaskFails(m) \/ TaskSetUp(m)
                                 \/ Touch(m) \/ ServiceStep(m)
      PROVE  UNCHANGED commands
  BY <1>4 DEF ResolveTask, ResolveTaskFails, TaskSetUp, Touch, ServiceStep, taskVars
<1>5. CASE TaskQuiet \/ UNCHANGED lifecycleVars
  BY <1>1, <1>5 DEF TaskQuiet, lifecycleVars, taskVars
<1>6. ASSUME NEW c \in Commands, CreateList(c) PROVE \A d \in Commands : ResetKept(d)
  <2>1. commands[c].pc = "idle"
        /\ \E n \in Names : commands' = [commands EXCEPT ![c].pc = "named", ![c].name = n]
    BY <1>6 DEF CreateList
  <2>2. QED
    BY <1>0, <2>1 DEF CommandsKnown, CommandStates, ResetKept
<1>7. ASSUME NEW c \in Commands, CreateInsert(c) PROVE \A d \in Commands : ResetKept(d)
  <2>1. PICK t \in Keys : InsertsAs(c, t)
    BY <1>7, InsertEffect DEF Known
  <2>2. QED
    BY <2>1 DEF InsertsAs, ResetKept
<1>8. ASSUME NEW c \in Commands, SwitchLoad(c) \/ CloseLoad(c) \/ ResetLoad(c) PROVE Kept
  <2>1. commands[c].pc = "idle"
        /\ \E p \in {"activate", "closing", "resetting"}, t \in DOMAIN tasks :
              commands' = [commands EXCEPT ![c].pc = p, ![c].task = t]
    BY <1>0, <1>8 DEF SwitchLoad, CloseLoad, ResetLoad, OpenTasks, CommandsKnown
  <2>2. QED
    BY <1>0, <1>3, <2>1 DEF CommandPcs
<1>9. ASSUME NEW c \in Commands, \/ Activate(c) \/ PruneNeeded(c) \/ PruneNotNeeded(c)
                                 \/ PruneStarts(c) \/ PruneEnds(c) \/ ResetRejected(c)
                                 \/ CommandFails(c)
      PROVE  Kept
  <2>1. commands[c].pc # "done"
        /\ \E p \in {"listing", "pruning", "removing", "done"} :
              commands' = [commands EXCEPT ![c].pc = p]
    BY <1>9 DEF Activate, PruneNeeded, PruneNotNeeded, PruneStarts, PruneEnds,
       ResetRejected, CommandFails, InStep
  <2>2. QED
    BY <1>2, <2>1 DEF CommandPcs
<1>10. ASSUME NEW c \in Commands, PruneStep(c) PROVE UNCHANGED commands
  BY <1>10 DEF PruneStep
<1>11. ASSUME NEW c \in Commands, ResetGoesAhead(c) \/ ResetDelete(c)
       PROVE  \A d \in Commands : NameKept(d)
  <2>1. commands[c].pc \in {"resetting", "deleting"}
        /\ \/ \E o \in SUBSET Messages : commands' = [commands EXCEPT ![c].pc = "deleting", ![c].outside = o]
           \/ \E o \in SUBSET Messages : commands' = [commands EXCEPT ![c].pc = "done", ![c].cut = o]
    BY <1>11 DEF ResetGoesAhead, ResetDelete, EngagedOn, Holders
  <2>2. QED
    BY <1>0, <2>1 DEF CommandsKnown, CommandStates, NameKept
<1>12. ASSUME NEW c \in Commands, Close(c) PROVE Kept
  BY <1>0, <1>12, CommandCloses DEF ResetKept, NameKept
<1>13. QED
  BY <1>1, <1>4, <1>5, <1>6, <1>7, <1>8, <1>9, <1>10, <1>11, <1>12 DEF TaskNext, Command

\* Whoever has not been admitted was not when reset-context looked either, and
\* whatever is engaged on the task since then was not admitted at that time.
ResetInv ==
    \A c \in Commands :
        /\ commands[c].cut \subseteq commands[c].outside
        /\ commands[c].pc # "done" => commands[c].cut = {}
        /\ commands[c].pc = "deleting" =>
              /\ {m \in Messages : pc[m] \in {"new", "prepared"}} \subseteq commands[c].outside
              /\ EngagedOn(commands[c].task) \subseteq commands[c].outside

\* What a waiting command relies on survives the steps of the service.
LEMMA UnadmittedStay ==
  ASSUME Known, [TaskNext]_lifecycleVars, ResetInv, NEW c \in Commands, commands[c].pc = "deleting"
  PROVE  /\ {m \in Messages : pc'[m] \in {"new", "prepared"}} \subseteq commands[c].outside
         /\ \A m \in Messages :
               pc'[m] \in {"waiting"} \cup SlotStates /\ key'[m] = commands[c].task
               => m \in commands[c].outside
<1>0. [Next]_vars \/ UNCHANGED <<entries, pc, key>>
  BY TaskStep
<1>1. {m \in Messages : pc'[m] \in {"new", "prepared"}} \subseteq commands[c].outside
  BY <1>0, OutsideBefore DEF ResetInv, Known
<1>2. ASSUME NEW m \in Messages, pc'[m] \in {"waiting"} \cup SlotStates, key'[m] = commands[c].task
      PROVE  m \in commands[c].outside
  <2>1. CASE pc[m] \in {"new", "prepared"}
    BY <2>1 DEF ResetInv
  <2>2. CASE pc[m] \notin {"new", "prepared"}
    <3>1. pc[m] \in Admitted /\ key[m] = commands[c].task
      <4>1. CASE [Next]_vars
        BY <1>2, <2>2, <4>1, AdmittedBefore, ResolvedForGood DEF Admitted, Known
      <4>2. CASE UNCHANGED <<pc, key>>
        BY <1>2, <4>2 DEF Admitted
      <4>3. QED
        BY <1>0, <4>1, <4>2
    <3>2. m \in EngagedOn(commands[c].task)
      BY <2>2, <3>1 DEF EngagedOn, Holders, Holds, Admitted
    <3>3. QED
      BY <3>2 DEF ResetInv
  <2>3. QED
    BY <2>1, <2>2
<1>3. QED
  BY <1>1, <1>2

LEMMA ResetStep ==
  ASSUME Known, ResetInv, [TaskNext]_lifecycleVars PROVE ResetInv'
<1>0. commands \in [Commands -> CommandStates]
  BY DEF Known, CommandsKnown
<1>1. CASE \A c \in Commands : ResetKept(c)
  BY <1>1, UnadmittedStay DEF ResetKept, ResetInv, EngagedOn, Holders, Holds
<1>2. ASSUME NEW c \in Commands, ResetGoesAhead(c) PROVE ResetInv'
  <2>1. /\ commands[c].pc = "resetting" /\ UNCHANGED <<pc, key>>
        /\ commands' = [commands EXCEPT ![c].pc = "deleting",
                           ![c].outside = {m \in Messages : pc[m] \in {"new", "prepared"}}]
    BY <1>2 DEF ResetGoesAhead, vars, work
  <2>2. EngagedOn(commands[c].task) = {}
    <3>1. \A m \in Messages : pc[m] \in SlotStates \/ pc[m] = "waiting" => key[m] \in DOMAIN entries
      BY DEF Known, QueueInv, HoldersHaveEntry, WaitersListed
    <3>2. \A k \in DOMAIN entries : Busy(k)
      BY DEF Busy, Known, QueueInv, EntriesRunning
    <3>3. ~Busy(commands[c].task)
      BY <1>2 DEF ResetGoesAhead
    <3>4. QED
      BY <3>1, <3>2, <3>3 DEF EngagedOn, Holders, Holds
  <2>3. /\ commands'[c].pc = "deleting" /\ commands'[c].task = commands[c].task
        /\ commands'[c].cut = commands[c].cut
        /\ commands'[c].outside = {m \in Messages : pc[m] \in {"new", "prepared"}}
        /\ \A d \in Commands \ {c} : commands'[d] = commands[d]
    BY <1>0, <2>1 DEF CommandStates
  <2>4. \A d \in Commands :
           EngagedOn(commands[d].task)' = EngagedOn(commands[d].task)
    <3>1. ASSUME NEW d \in Commands PROVE commands'[d].task = commands[d].task
      BY <2>3
    <3>2. QED
      BY <2>1, <3>1 DEF EngagedOn, Holders, Holds
  <2>5. ASSUME NEW d \in Commands
        PROVE  /\ commands'[d].cut \subseteq commands'[d].outside
               /\ commands'[d].pc # "done" => commands'[d].cut = {}
               /\ commands'[d].pc = "deleting" =>
                     /\ {m \in Messages : pc'[m] \in {"new", "prepared"}} \subseteq commands'[d].outside
                     /\ EngagedOn(commands[d].task) \subseteq commands'[d].outside
    <3>1. CASE d = c
      BY <2>1, <2>2, <2>3, <3>1 DEF ResetInv
    <3>2. CASE d # c
      BY <2>1, <2>3, <3>2 DEF ResetInv
    <3>3. QED
      BY <3>1, <3>2
  <2>6. QED
    BY <2>4, <2>5 DEF ResetInv
<1>3. ASSUME NEW c \in Commands, ResetDelete(c) PROVE ResetInv'
  <2>1. /\ commands[c].pc = "deleting" /\ UNCHANGED <<pc, key>>
        /\ commands' = [commands EXCEPT ![c].pc = "done", ![c].cut = EngagedOn(commands[c].task)]
    BY <1>3 DEF ResetDelete
  <2>2. /\ commands'[c].pc = "done" /\ commands'[c].cut = EngagedOn(commands[c].task)
        /\ commands'[c].outside = commands[c].outside
        /\ \A d \in Commands \ {c} : commands'[d] = commands[d]
    BY <1>0, <2>1 DEF CommandStates
  <2>3. \A d \in Commands : EngagedOn(commands[d].task)' = EngagedOn(commands'[d].task)
    BY <2>1 DEF EngagedOn, Holders, Holds
  <2>4. QED
    BY <2>1, <2>2, <2>3 DEF ResetInv
<1>4. QED
  BY <1>1, <1>2, <1>3, CommandsKeep

\* No message the coordinator had accepted when reset-context looked for work
\* on the task is engaged on it when the command deletes its binding.
THEOREM ResetSparesAdmittedAlways == TaskSpec => []ResetSparesAdmitted
<1>1. TaskInit => ResetInv
  BY DEF TaskInit, WorktreesInit, NoCommand, ResetInv
<1>2. ResetInv => ResetSparesAdmitted
  BY DEF ResetInv, ResetSparesAdmitted
<1>3. QED
  BY <1>1, <1>2, TaskKnownAlways, ResetStep, PTL DEF TaskSpec

-----------------------------------------------------------------------------
(* The names of the open tasks *)

\* A task keeps its name, and a row that is new is that of a create command.
LEMMA NamesStay ==
  ASSUME Known, [TaskNext]_lifecycleVars
  PROVE  /\ \A t \in DOMAIN tasks : tasks'[t].name = tasks[t].name
         /\ \/ DOMAIN tasks' = DOMAIN tasks
            \/ \E c \in Commands : CreateInsert(c)
<1>1. RowShapes
  BY StepRows DEF Known, Table, CopiesKnown
<1> DEFINE Same == DOMAIN tasks' = DOMAIN tasks /\ \A t \in DOMAIN tasks : tasks'[t].name = tasks[t].name
<1>2. ASSUME NEW m \in Messages, Reads(m) \/ Adds(m) PROVE Same
  BY <1>2 DEF Reads, Adds
<1>3. ASSUME NEW m \in Messages, Writes(m) PROVE Same
  <2>1. /\ key[m] \in DOMAIN tasks /\ DOMAIN tasks' = DOMAIN tasks
        /\ \A u \in DOMAIN tasks \ {key[m]} : tasks'[u] = tasks[u]
        /\ tasks'[key[m]].name = tasks[key[m]].name
    BY <1>3, WritesEffect, WritesSteps DEF Known
  <2>2. QED
    BY <2>1
<1>4. ASSUME NEW c \in Commands, CreateInsert(c)
      PROVE  \A t \in DOMAIN tasks : tasks'[t].name = tasks[t].name
  BY <1>4, InsertEffect DEF InsertsAs, Known
<1>5. ASSUME NEW c \in Commands, Close(c) PROVE Same
  <2>1. PICK t : t = commands[c].task
    OBVIOUS
  <2>2. /\ t \in DOMAIN tasks /\ DOMAIN tasks' = DOMAIN tasks
        /\ \A u \in DOMAIN tasks \ {t} : tasks'[u] = tasks[u]
        /\ tasks'[t].name = tasks[t].name
    BY <1>5, <2>1, CloseEffect DEF Known
  <2>3. QED
    BY <2>2
<1>6. ASSUME NEW c \in Commands, PruneStep(c) PROVE Same
  BY <1>6, PruneEffect DEF Known
<1>7. ASSUME NEW c \in Commands, PruneNeeded(c) PROVE Same
  BY <1>7 DEF PruneNeeded
<1>8. CASE Still
  BY <1>8 DEF Still, rows
<1>9. QED
  BY <1>1, <1>2, <1>3, <1>4, <1>5, <1>6, <1>7, <1>8 DEF RowShapes

Brought(t) == Overtaken(t, RowInHand)

\* An open task with the name a command has found unused was created since, or
\* brought back.
NameUnused(c) ==
    commands[c].pc = "named" =>
        \A u \in OpenTasks : tasks[u].name = commands[c].name => u \in commands[c].missed \/ Brought(u)

\* One of the two was created by a command that missed the other.
Missed(t, u) == \E c \in Commands : commands[c].task \in {t, u} /\ commands[c].missed \cap {t, u} # {}

NameInv ==
    /\ \A c \in Commands : commands[c].pc \in {"idle", "named"} => commands[c].task = None
    /\ \A c \in Commands : NameUnused(c)
    /\ \A t, u \in OpenTasks :
          t # u /\ tasks[t].name = tasks[u].name => Missed(t, u) \/ Brought(t) \/ Brought(u)

\* A task that is open after a step was open before, or it is overtaken, or it
\* is a new one.
LEMMA OpenedBy ==
  ASSUME Known, Agree, [TaskNext]_lifecycleVars, NEW t \in DOMAIN tasks, tasks'[t].open
  PROVE  t \in OpenTasks \/ Brought(t)'
<1>1. RowInHand \in SUBSET Steps
  BY DEF Steps
<1>2. CASE tasks[t].open
  BY <1>2 DEF OpenTasks
<1>3. CASE ~tasks[t].open
  BY <1>1, <1>3, Reopened, OvertakenLasts DEF Brought
<1>4. QED
  BY <1>2, <1>3

LEMMA BroughtStays ==
  ASSUME Known, [TaskNext]_lifecycleVars, NEW t, Brought(t) PROVE Brought(t)'
<1>1. RowInHand \in SUBSET Steps
  BY DEF Steps
<1>2. QED
  BY <1>1, OvertakenLasts DEF Brought

LEMMA MissedStays ==
  ASSUME Known, NameInv, [TaskNext]_lifecycleVars,
         NEW t \in DOMAIN tasks, NEW u \in DOMAIN tasks, Missed(t, u)
  PROVE  Missed(t, u)'
<1>1. PICK c \in Commands : commands[c].task \in {t, u} /\ commands[c].missed \cap {t, u} # {}
  BY DEF Missed
<1>2. commands[c].pc \notin {"idle", "named"}
  BY <1>1, NoneAssumption DEF NameInv, Known, Table
<1>3. commands'[c].task = commands[c].task /\ commands[c].missed \subseteq commands'[c].missed
  <2>1. CASE \A d \in Commands : NameKept(d)
    BY <1>2, <2>1 DEF NameKept
  <2>2. ASSUME NEW d \in Commands, CreateList(d)
        PROVE  commands'[c].task = commands[c].task /\ commands[c].missed \subseteq commands'[c].missed
    <3>1. d # c
      BY <1>2, <2>2 DEF CreateList
    <3>2. commands'[c] = commands[c]
      BY <2>2, <3>1 DEF CreateList, Known, CommandsKnown
    <3>3. QED
      BY <3>2
  <2>3. ASSUME NEW d \in Commands, CreateInsert(d)
        PROVE  commands'[c].task = commands[c].task /\ commands[c].missed \subseteq commands'[c].missed
    <3>1. PICK k \in Keys : InsertsAs(d, k)
      BY <2>3, InsertEffect DEF Known
    <3>2. QED
      BY <1>2, <3>1 DEF InsertsAs
  <2>4. QED
    BY <2>1, <2>2, <2>3, CommandsKeep
<1>4. QED
  BY <1>1, <1>3 DEF Missed

\* A name stays unused, as far as the command can know.
LEMMA UnusedStays ==
  ASSUME Known, Agree, NameInv, [TaskNext]_lifecycleVars,
         NEW c \in Commands, commands[c].pc = "named", commands'[c].pc = "named",
         commands'[c].name = commands[c].name, commands[c].missed \subseteq commands'[c].missed
  PROVE  \A u \in DOMAIN tasks : tasks'[u].open /\ tasks'[u].name = commands'[c].name =>
            u \in commands'[c].missed \/ Brought(u)'
<1> SUFFICES ASSUME NEW u \in DOMAIN tasks, tasks'[u].open, tasks'[u].name = commands'[c].name
             PROVE  u \in commands'[c].missed \/ Brought(u)'
  OBVIOUS
<1>1. u \in OpenTasks \/ Brought(u)'
  BY OpenedBy
<1>2. tasks[u].name = commands[c].name
  BY NamesStay
<1>3. ASSUME u \in OpenTasks PROVE u \in commands'[c].missed \/ Brought(u)'
  <2>1. u \in commands[c].missed \/ Brought(u)
    BY <1>2, <1>3 DEF NameInv, NameUnused
  <2>2. QED
    BY <2>1, BroughtStays
<1>4. QED
  BY <1>1, <1>3

\* Two open tasks that were there before the step.
LEMMA OldPair ==
  ASSUME Known, Agree, NameInv, [TaskNext]_lifecycleVars,
         NEW t \in DOMAIN tasks, NEW u \in DOMAIN tasks, t # u,
         tasks'[t].open, tasks'[u].open, tasks'[t].name = tasks'[u].name
  PROVE  Missed(t, u)' \/ Brought(t)' \/ Brought(u)'
<1>1. (t \in OpenTasks \/ Brought(t)') /\ (u \in OpenTasks \/ Brought(u)')
  BY OpenedBy
<1>2. tasks[t].name = tasks[u].name
  BY NamesStay
<1>3. ASSUME t \in OpenTasks, u \in OpenTasks PROVE Missed(t, u)' \/ Brought(t)' \/ Brought(u)'
  <2>1. Missed(t, u) \/ Brought(t) \/ Brought(u)
    BY <1>2, <1>3 DEF NameInv
  <2>2. QED
    BY <2>1, MissedStays, BroughtStays
<1>4. QED
  BY <1>1, <1>3

LEMMA NameInvStep ==
  ASSUME Known, Agree, NameInv, [TaskNext]_lifecycleVars PROVE NameInv'
<1>0. /\ Known' /\ CommandsKnown /\ commands \in [Commands -> CommandStates]
  BY KnownStep DEF Known, CommandsKnown
<1>1. ASSUME DOMAIN tasks' = DOMAIN tasks, \A c \in Commands : NameKept(c) PROVE NameInv'
  <2>1. \A c \in Commands : NameUnused(c)'
    BY <1>1, UnusedStays DEF NameUnused, NameKept, OpenTasks
  <2>2. QED
    BY <1>1, <2>1, OldPair DEF NameInv, NameKept, OpenTasks
<1>2. ASSUME NEW c \in Commands, CreateList(c) PROVE NameInv'
  <2>1. PICK n \in Names : /\ commands[c].pc = "idle" /\ Named(n) = {} /\ UNCHANGED tasks
                           /\ commands' = [commands EXCEPT ![c].pc = "named", ![c].name = n]
    BY <1>2 DEF CreateList, worktreeVars
  <2>2. /\ commands'[c].name = n /\ commands'[c].task = commands[c].task
        /\ \A d \in Commands \ {c} : commands'[d] = commands[d]
    BY <1>0, <2>1 DEF CommandStates
  <2>3. NameUnused(c)'
    BY <2>1, <2>2 DEF NameUnused, Named, OpenTasks
  <2>4. \A d \in Commands \ {c} : NameUnused(d)'
    BY <2>1, <2>2, UnusedStays DEF NameUnused, OpenTasks
  <2>5. \A t, u \in OpenTasks' :
           t # u /\ tasks'[t].name = tasks'[u].name => Missed(t, u)' \/ Brought(t)' \/ Brought(u)'
    BY <2>1, OldPair DEF OpenTasks
  <2>6. \A d \in Commands : commands'[d].pc \in {"idle", "named"} => commands'[d].task = None
    BY <2>1, <2>2 DEF NameInv
  <2>7. QED
    BY <2>3, <2>4, <2>5, <2>6 DEF NameInv
<1>3. ASSUME NEW c \in Commands, CreateInsert(c) PROVE NameInv'
  <2>1. PICK t \in Keys : InsertsAs(c, t)
    BY <1>3, InsertEffect DEF Known
  <2>2. \A d \in Commands : NameUnused(d)'
    <3>1. SUFFICES ASSUME NEW d \in Commands, commands'[d].pc = "named",
                          NEW u \in DOMAIN tasks', tasks'[u].open, tasks'[u].name = commands'[d].name
                   PROVE  u \in commands'[d].missed \/ Brought(u)'
      BY DEF NameUnused, OpenTasks
    <3>2. /\ d # c /\ commands[d].pc = "named" /\ commands'[d].name = commands[d].name
          /\ commands[d].missed \subseteq commands'[d].missed
      BY <2>1, <3>1 DEF InsertsAs
    <3>3. CASE u \in DOMAIN tasks
      BY <3>1, <3>2, <3>3, UnusedStays
    <3>4. CASE u = t
      BY <2>1, <3>1, <3>2, <3>4 DEF InsertsAs
    <3>5. QED
      BY <2>1, <3>3, <3>4 DEF InsertsAs
  <2>3. ASSUME NEW u \in DOMAIN tasks, tasks'[u].open, tasks'[u].name = tasks'[t].name
        PROVE  (Missed(t, u)' /\ Missed(u, t)') \/ Brought(u)'
    <3>1. /\ tasks[u].open /\ tasks[u].name = commands[c].name
          /\ commands[c].missed \subseteq commands'[c].missed
          /\ commands[c].pc = "named" /\ commands'[c].task = t
      BY <2>1, <2>3 DEF InsertsAs
    <3>2. u \in commands[c].missed \/ Brought(u)
      BY <3>1 DEF NameInv, NameUnused, OpenTasks
    <3>3. QED
      BY <3>1, <3>2, BroughtStays DEF Missed
  <2>4. \A v, u \in OpenTasks' :
           v # u /\ tasks'[v].name = tasks'[u].name => Missed(v, u)' \/ Brought(v)' \/ Brought(u)'
    <3>1. DOMAIN tasks' = DOMAIN tasks \cup {t}
      BY <2>1 DEF InsertsAs
    <3>2. QED
      BY <2>3, <3>1, OldPair DEF OpenTasks
  <2>5. \A d \in Commands : commands'[d].pc \in {"idle", "named"} => commands'[d].task = None
    BY <2>1 DEF InsertsAs, NameInv
  <2>6. QED
    BY <2>2, <2>4, <2>5 DEF NameInv
<1>4. ASSUME NEW c \in Commands, CreateList(c) PROVE DOMAIN tasks' = DOMAIN tasks
  BY <1>4 DEF CreateList, worktreeVars
<1>5. QED
  BY <1>1, <1>2, <1>3, <1>4, CommandsKeep, NamesStay

\* The uniqueness of names, which nothing in the store enforces, is lost only
\* between two creations under way at once, or to a row written late.
THEOREM NamesCollideOnlyByOverlapAlways == TaskSpec => []NamesCollideOnlyByOverlap
<1>1. ASSUME TaskInit PROVE NameInv
  <2>1. \A c \in Commands : commands[c].pc = "idle" /\ commands[c].task = None
    BY <1>1 DEF TaskInit, NoCommand
  <2>2. \A t, u \in OpenTasks : tasks[t].name = tasks[u].name => t = u
    BY <1>1, StoredAssumption DEF TaskInit, WorktreesInit, OpenTasks
  <2>3. QED
    BY <2>1, <2>2 DEF NameInv, NameUnused
<1>2. NameInv => NamesCollideOnlyByOverlap
  BY DEF NameInv, Missed, Brought, NamesCollideOnlyByOverlap
<1>3. QED
  BY <1>1, <1>2, AgreeAlways, NameInvStep, PTL DEF TaskSpec

-----------------------------------------------------------------------------
(* A turn has its worktree *)

\* A row that says ready is right about it, while the task is open; a copy in
\* hand is the row as it is; what Git was called for is there.
WorktreeOf(t) ==
    \/ Overtaken(t, Steps)
    \/ /\ tasks[t].open /\ tasks[t].worktree = "ready" => t \in worktrees
       /\ \A m \in Messages : Looked(m) /\ key[m] = t =>
             /\ step[m] \in RowInHand => row[m] = tasks[t]
             /\ step[m] \in {"added", "ready"} => t \in worktrees

WorktreesKnown ==
    /\ \A t \in DOMAIN tasks : WorktreeOf(t)
    /\ \A m \in Messages : step[m] \in {"locked", "added", "broken"} => row[m].worktree # "ready"

LEMMA LookedClosed ==
  ASSUME LookIsRecent, NEW m \in Messages, Looked(m), ~tasks[key[m]].open
  PROVE  Overtaken(key[m], Steps)
BY DEF LookIsRecent, Excused, Overtaken, Steps

\* No other message looks at the task of a message that did.
LEMMA LookedAlone ==
  ASSUME Known, NEW m \in Messages, NEW n \in Messages, Looked(m), Looked(n), key[m] = key[n]
  PROVE  m = n
BY DEF Known, QueueInv, OneHolder, Looked

\* The task is not the one the step is about.
LEMMA WorktreeAside ==
  ASSUME Known, WorktreesKnown, [TaskNext]_lifecycleVars, NEW t \in DOMAIN tasks,
         tasks'[t] = tasks[t], t \in worktrees => t \in worktrees',
         \A m \in Messages : Looked(m)' /\ key[m] = t =>
            Looked(m) /\ step'[m] = step[m] /\ row'[m] = row[m]
  PROVE  WorktreeOf(t)'
<1>1. CASE Overtaken(t, Steps)
  BY <1>1, OvertakenLasts DEF WorktreeOf
<1>2. CASE ~Overtaken(t, Steps)
  <2>1. \A m \in Messages : Looked(m)' => key'[m] = key[m]
    BY LookedBefore, KeysStay DEF Known
  <2>2. /\ tasks[t].open /\ tasks[t].worktree = "ready" => t \in worktrees
        /\ \A m \in Messages : Looked(m) /\ key[m] = t =>
              /\ step[m] \in RowInHand => row[m] = tasks[t]
              /\ step[m] \in {"added", "ready"} => t \in worktrees
    BY <1>2 DEF WorktreesKnown, WorktreeOf
  <2>3. tasks'[t].open /\ tasks'[t].worktree = "ready" => t \in worktrees'
    BY <2>2, Zenon
  <2>4. ASSUME NEW m \in Messages, Looked(m)', key'[m] = t
        PROVE  /\ step'[m] \in RowInHand => row'[m] = tasks'[t]
               /\ step'[m] \in {"added", "ready"} => t \in worktrees'
    BY <2>1, <2>2, <2>4
  <2>5. QED
    BY <2>3, <2>4 DEF WorktreeOf
<1>3. QED
  BY <1>1, <1>2

LEMMA WorktreeStill ==
  ASSUME Known, WorktreesKnown, LookIsRecent, [TaskNext]_lifecycleVars, Still,
         NEW t \in DOMAIN tasks
  PROVE  WorktreeOf(t)'
<1>1. CASE Overtaken(t, Steps)
  BY <1>1, OvertakenLasts DEF WorktreeOf
<1>2. CASE ~Overtaken(t, Steps)
  <2>1. UNCHANGED <<tasks, worktrees, row>>
    BY DEF Still, rows
  <2>2. /\ tasks[t].open /\ tasks[t].worktree = "ready" => t \in worktrees
        /\ \A m \in Messages : Looked(m) /\ key[m] = t =>
              /\ step[m] \in RowInHand => row[m] = tasks[t]
              /\ step[m] \in {"added", "ready"} => t \in worktrees
    BY <1>2 DEF WorktreesKnown, WorktreeOf
  <2>3. ASSUME NEW m \in Messages, Looked(m)', key'[m] = t
        PROVE  /\ step'[m] \in RowInHand => row[m] = tasks[t]
               /\ step'[m] \in {"added", "ready"} => t \in worktrees
    <3>1. pc[m] # "new" /\ key[m] = t
      BY <2>3, LookedBefore, KeysStay DEF Known
    <3>2. StepOnly(m)
      BY DEF Still
    <3>3. step'[m] \in RowInHand \cup {"ready", "touch"}
      BY <2>3 DEF Looked
    <3>4. CASE step'[m] = "touch"
      BY <3>4 DEF RowInHand
    <3>5. CASE step'[m] # "touch"
      <4>1. step[m] \in RowInHand \cup {"ready", "touch"}
        BY <3>2, <3>3, <3>5 DEF StepOnly, RowInHand
      <4>2. Looked(m)
        BY <2>3, <4>1, LookedOrRead
      <4>3. CASE step[m] = "loaded" /\ row[m].worktree = "ready" /\ step'[m] = "ready"
        <5>1. row[m] = tasks[t]
          BY <2>2, <3>1, <4>2, <4>3 DEF RowInHand
        <5>2. tasks[t].open
          BY <1>2, <3>1, <4>2, LookedClosed
        <5>3. QED
          BY <2>2, <4>3, <5>1, <5>2 DEF RowInHand
      <4>4. CASE step[m] = "loaded" /\ step'[m] = "locked"
        BY <2>2, <3>1, <4>2, <4>4 DEF RowInHand
      <4>5. CASE step'[m] = step[m]
        BY <2>2, <3>1, <4>2, <4>5
      <4>6. QED
        BY <3>2, <3>3, <3>5, <4>3, <4>4, <4>5 DEF StepOnly, RowInHand
    <3>6. QED
      BY <3>4, <3>5
  <2>4. QED
    BY <2>1, <2>2, <2>3 DEF WorktreeOf
<1>3. QED
  BY <1>1, <1>2

\* Who looks at the task in hand after a step of a message is that message.
LEMMA LookedSame ==
  ASSUME Known, [TaskNext]_lifecycleVars, NEW m \in Messages, NEW n \in Messages,
         n # m, step'[n] = step[n], Looked(n)'
  PROVE  Looked(n)
BY LookedOrRead DEF Looked

LEMMA WorktreeRead ==
  ASSUME Known, WorktreesKnown, LookIsRecent, [TaskNext]_lifecycleVars,
         NEW m \in Messages, Reads(m), NEW t \in DOMAIN tasks
  PROVE  WorktreeOf(t)'
<1>1. /\ key[m] \in DOMAIN tasks
      /\ step'[m] \in {"loaded", "read"} /\ row'[m] = tasks[key[m]]
      /\ \A n \in Messages \ {m} : step'[n] = step[n] /\ row'[n] = row[n]
      /\ UNCHANGED <<pc, key, tasks, worktrees, overtaken>>
  BY ReadsEffect
<1>2. \A n \in Messages \ {m} : Looked(n)' => Looked(n)
  BY <1>1, LookedSame
<1>3. CASE Overtaken(t, Steps)
  BY <1>3, OvertakenLasts DEF WorktreeOf
<1>4. CASE ~Overtaken(t, Steps)
  <2>1. /\ tasks[t].open /\ tasks[t].worktree = "ready" => t \in worktrees
        /\ \A n \in Messages : Looked(n) /\ key[n] = t =>
              /\ step[n] \in RowInHand => row[n] = tasks[t]
              /\ step[n] \in {"added", "ready"} => t \in worktrees
    BY <1>4 DEF WorktreesKnown, WorktreeOf
  <2>2. QED
    BY <1>1, <1>2, <2>1 DEF WorktreeOf
<1>5. QED
  BY <1>3, <1>4

LEMMA WorktreeAdd ==
  ASSUME Known, WorktreesKnown, LookIsRecent, [TaskNext]_lifecycleVars,
         NEW m \in Messages, Adds(m), NEW t \in DOMAIN tasks
  PROVE  WorktreeOf(t)'
<1>1. /\ key[m] \in DOMAIN tasks /\ pc[m] = "registered" /\ step[m] = "locked"
      /\ \/ step'[m] = "added" /\ worktrees' = worktrees \cup {key[m]}
         \/ /\ step'[m] = "broken"
            /\ worktrees' \subseteq worktrees /\ worktrees \ {key[m]} \subseteq worktrees'
      /\ \A n \in Messages \ {m} : step'[n] = step[n]
      /\ UNCHANGED <<pc, key, tasks, row, doomed, overtaken>>
  BY AddsEffect
<1>2. \A n \in Messages \ {m} : Looked(n)' => Looked(n)
  BY <1>1, LookedSame
<1>3. Looked(m)
  BY <1>1 DEF Looked, RowInHand, SlotStates
<1>4. CASE t # key[m]
  BY <1>1, <1>2, <1>4, WorktreeAside
<1>5. CASE t = key[m] /\ Overtaken(t, Steps)
  BY <1>5, OvertakenLasts DEF WorktreeOf
<1>6. CASE t = key[m] /\ ~Overtaken(t, Steps)
  <2>1. row[m] = tasks[t] /\ row[m].worktree # "ready"
    BY <1>1, <1>3, <1>6 DEF WorktreesKnown, WorktreeOf, RowInHand
  <2>2. \A n \in Messages : Looked(n)' /\ key'[n] = t => n = m
    BY <1>1, <1>2, <1>3, <1>6, LookedAlone
  <2>3. tasks'[t].worktree # "ready"
    BY <1>1, <2>1
  <2>4. step'[m] \in {"added", "ready"} => t \in worktrees'
    BY <1>1, <1>6
  <2>5. row'[m] = tasks'[t]
    BY <1>1, <2>1
  <2>6. QED
    BY <2>2, <2>3, <2>4, <2>5 DEF WorktreeOf
<1>7. QED
  BY <1>4, <1>5, <1>6

LEMMA WorktreeWrite ==
  ASSUME Known, WorktreesKnown, LookIsRecent, [TaskNext]_lifecycleVars,
         NEW m \in Messages, Writes(m), NEW t \in DOMAIN tasks
  PROVE  WorktreeOf(t)'
<1>1. /\ key[m] \in DOMAIN tasks /\ step[m] \in RowInHand /\ pc[m] \in SlotStates
      /\ \A u \in DOMAIN tasks \ {key[m]} : tasks'[u] = tasks[u]
      /\ tasks'[key[m]].open = row[m].open
      /\ \/ step[m] = "added" /\ tasks'[key[m]].worktree = "ready" /\ step'[m] = "ready"
         \/ step[m] = "broken" /\ tasks'[key[m]].worktree = "failed" /\ step'[m] = "refused"
         \/ step[m] = "read" /\ tasks'[key[m]] = row[m] /\ step'[m] = "over"
      /\ \A n \in Messages \ {m} : step'[n] = step[n]
      /\ UNCHANGED <<key, worktrees, row, doomed, overtaken>>
  BY WritesEffect, WritesSteps DEF Known
<1>2. \A n \in Messages \ {m} : Looked(n)' => Looked(n)
  BY <1>1, LookedSame
<1>3. Looked(m)
  BY <1>1 DEF Looked
<1>4. CASE t # key[m]
  <2>1. tasks'[t] = tasks[t]
    BY <1>1, <1>4
  <2>2. \A n \in Messages : Looked(n)' /\ key[n] = t =>
           Looked(n) /\ step'[n] = step[n] /\ row'[n] = row[n]
    BY <1>1, <1>2, <1>4
  <2>3. QED
    BY <1>1, <2>1, <2>2, WorktreeAside
<1>5. CASE t = key[m] /\ Overtaken(t, Steps)
  BY <1>5, OvertakenLasts DEF WorktreeOf
<1>6. CASE t = key[m] /\ ~Overtaken(t, Steps)
  <2>1. /\ tasks[t].open /\ tasks[t].worktree = "ready" => t \in worktrees
        /\ row[m] = tasks[t]
        /\ step[m] = "added" => t \in worktrees
    BY <1>1, <1>3, <1>6 DEF WorktreesKnown, WorktreeOf
  <2>2. \A n \in Messages : Looked(n)' /\ key'[n] = t => n = m
    BY <1>1, <1>2, <1>3, <1>6, LookedAlone
  <2>3. tasks'[t].open /\ tasks'[t].worktree = "ready" => t \in worktrees
    <3>1. CASE step[m] = "added"
      BY <2>1, <3>1
    <3>2. CASE step[m] = "broken"
      BY <1>1, <1>6, <3>2
    <3>3. CASE step[m] = "read"
      <4>1. tasks'[t] = tasks[t]
        BY <1>1, <1>6, <2>1, <3>3
      <4>2. QED
        BY <2>1, <4>1, Zenon
    <3>4. QED
      BY <1>1, <3>1, <3>2, <3>3
  <2>4. step'[m] \notin RowInHand /\ (step'[m] \in {"added", "ready"} => t \in worktrees)
    BY <1>1, <2>1 DEF RowInHand
  <2>5. QED
    BY <1>1, <2>2, <2>3, <2>4 DEF WorktreeOf
<1>7. QED
  BY <1>4, <1>5, <1>6

LEMMA WorktreeClose ==
  ASSUME Known, WorktreesKnown, [TaskNext]_lifecycleVars,
         NEW c \in Commands, Close(c), NEW t \in DOMAIN tasks
  PROVE  WorktreeOf(t)'
<1>0. PICK u : u = commands[c].task
  OBVIOUS
<1>1. /\ \A v \in DOMAIN tasks \ {u} : tasks'[v] = tasks[v]
      /\ ~tasks'[u].open
      /\ overtaken' = overtaken \cup
            {<<m, step[m]>> : m \in {n \in Holders(u) : step[n] # "none"}}
      /\ UNCHANGED <<vars, worktrees, row, step, doomed>>
  BY <1>0, CloseEffect DEF Known
<1>2. UNCHANGED <<pc, key>>
  BY <1>1 DEF vars, work
<1>3. CASE t # u
  BY <1>1, <1>2, <1>3, WorktreeAside DEF Looked
<1>4. CASE t = u
  <2>1. ASSUME NEW m \in Messages, Looked(m), key[m] = t PROVE Overtaken(t, Steps)'
    <3>1. m \in Holders(u) /\ step[m] # "none" /\ step[m] \in Steps
      BY <1>4, <2>1 DEF Looked, Holders, Holds, RowInHand, Known, Phases
    <3>2. <<m, step[m]>> \in overtaken'
      BY <1>1, <3>1
    <3>3. QED
      BY <1>2, <2>1, <3>1, <3>2 DEF Overtaken
  <2>2. (\A m \in Messages : ~(Looked(m) /\ key[m] = t)) => WorktreeOf(t)'
    BY <1>1, <1>2, <1>4 DEF WorktreeOf, Looked
  <2>3. QED
    BY <2>1, <2>2 DEF WorktreeOf
<1>5. QED
  BY <1>3, <1>4

LEMMA WorktreePrune ==
  ASSUME Known, Agree, WorktreesKnown, LookIsRecent, [TaskNext]_lifecycleVars,
         NEW c \in Commands, PruneStep(c), NEW t \in DOMAIN tasks
  PROVE  WorktreeOf(t)'
<1>1. PICK u \in DOMAIN doomed[c] :
          /\ \A v \in DOMAIN tasks \ {u} : tasks'[v] = tasks[v]
          /\ tasks'[u] = tasks[u] \/ tasks'[u].open = doomed[c][u].open
          /\ worktrees \ {u} \subseteq worktrees'
  BY PruneEffect DEF Known
<1>2. UNCHANGED <<pc, key, row, step>>
  BY PruneEffect DEF Known, vars, work
<1>3. CASE t # u
  BY <1>1, <1>2, <1>3, WorktreeAside DEF Looked
<1>4. CASE t = u /\ Overtaken(t, Steps)
  BY <1>4, OvertakenLasts DEF WorktreeOf
<1>5. CASE t = u /\ ~Overtaken(t, Steps)
  <2>1. ~tasks[t].open /\ ~doomed[c][t].open
    BY <1>5 DEF Agree, AgreeOn, Overtaken, Steps
  <2>2. ~tasks'[t].open
    <3>1. CASE tasks'[t] = tasks[t]
      BY <2>1, <3>1, Zenon
    <3>2. CASE tasks'[t].open = doomed[c][t].open
      BY <2>1, <3>2, Zenon
    <3>3. QED
      BY <1>1, <1>5, <3>1, <3>2
  <2>3. \A m \in Messages : ~(Looked(m) /\ key[m] = t)
    BY <1>5, <2>1, LookedClosed
  <2>4. QED
    BY <1>2, <2>2, <2>3 DEF WorktreeOf, Looked
<1>6. QED
  BY <1>3, <1>4, <1>5

LEMMA WorktreeInsert ==
  ASSUME Known, WorktreesKnown, [TaskNext]_lifecycleVars,
         NEW c \in Commands, CreateInsert(c), NEW t \in DOMAIN tasks'
  PROVE  WorktreeOf(t)'
<1>1. PICK u \in Keys : InsertsAs(c, u)
  BY InsertEffect DEF Known
<1>2. UNCHANGED <<pc, key, row, step, worktrees>>
  BY <1>1 DEF InsertsAs, vars, work
<1>3. CASE t \in DOMAIN tasks
  BY <1>1, <1>2, <1>3, WorktreeAside DEF InsertsAs, Looked
<1>4. CASE t = u
  <2>1. \A m \in Messages : ~(Looked(m) /\ key[m] = t)
    BY <1>1, <1>4, TurnsHaveTask DEF Looked, InsertsAs
  <2>2. tasks'[t].worktree # "ready"
    BY <1>1, <1>4 DEF InsertsAs
  <2>3. QED
    BY <1>2, <2>1, <2>2 DEF WorktreeOf, Looked
<1>5. QED
  BY <1>1, <1>3, <1>4 DEF InsertsAs

\* The lock is taken for rows that are not ready only.
LEMMA LockedRows ==
  ASSUME Known, WorktreesKnown, [TaskNext]_lifecycleVars,
         NEW m \in Messages, step'[m] \in {"locked", "added", "broken"}
  PROVE  row'[m].worktree # "ready"
<1>1. RowShapes
  BY StepRows DEF Known, Table, CopiesKnown
<1>2. CASE Still
  BY <1>2 DEF Still, StepOnly, rows, WorktreesKnown
<1>3. ASSUME NEW n \in Messages, Reads(n) PROVE row'[m].worktree # "ready"
  <2>1. n # m
    BY <1>3, ReadsEffect
  <2>2. QED
    BY <1>3, <2>1, ReadsEffect DEF WorktreesKnown
<1>4. ASSUME NEW n \in Messages, Adds(n) PROVE row'[m].worktree # "ready"
  BY <1>4, AddsEffect DEF WorktreesKnown
<1>5. ASSUME NEW n \in Messages, Writes(n) PROVE row'[m].worktree # "ready"
  BY <1>5, WritesSteps DEF WorktreesKnown
<1>6. ASSUME NEW c \in Commands, CreateInsert(c) \/ Close(c) \/ PruneNeeded(c) \/ PruneStep(c)
      PROVE  row'[m].worktree # "ready"
  BY <1>6 DEF CreateInsert, Close, PruneNeeded, PruneStep, WorktreesKnown
<1>7. QED
  BY <1>1, <1>2, <1>3, <1>4, <1>5, <1>6 DEF RowShapes

LEMMA WorktreesKnownStep ==
  ASSUME Known, Agree, LookIsRecent, WorktreesKnown, [TaskNext]_lifecycleVars
  PROVE  WorktreesKnown'
<1>1. RowShapes
  BY StepRows DEF Known, Table, CopiesKnown
<1>2. ASSUME NEW t \in DOMAIN tasks' PROVE WorktreeOf(t)'
  <2>1. t \in DOMAIN tasks \/ \E c \in Commands : CreateInsert(c)
    BY NamesStay
  <2>2. ASSUME NEW c \in Commands, PruneNeeded(c), t \in DOMAIN tasks PROVE WorktreeOf(t)'
    <3>1. UNCHANGED <<vars, tasks, worktrees, row, step>>
      BY <2>2 DEF PruneNeeded
    <3>2. UNCHANGED <<pc, key>>
      BY <3>1 DEF vars, work
    <3>3. QED
      BY <2>2, <3>1, <3>2, WorktreeAside DEF Looked
  <2>3. QED
    BY <1>1, <2>1, <2>2, WorktreeStill, WorktreeRead, WorktreeAdd, WorktreeWrite, WorktreeClose,
       WorktreePrune, WorktreeInsert DEF RowShapes
<1>3. QED
  BY <1>2, LockedRows DEF WorktreesKnown

\* The worktree a turn runs in was registered with Git by the time EnsureReady
\* let the turn go on, and no pruning has taken it since; unless a close command
\* overtook a message on the task at some step.  Such a task may be pruned under
\* its turn, also when a late row has opened it again.
THEOREM TurnHasWorktreeAlways == TaskSpec => []TurnHasWorktree
<1>1. TaskInit => WorktreesKnown
  BY DEF TaskInit, WorktreesInit, WorktreesKnown, WorktreeOf, Looked, RowInHand
<1>2. TaskInit => LookIsRecent
  BY DEF TaskInit, WorktreesInit, LookIsRecent, Looked, RowInHand
<1>3. ASSUME Known, WorktreesKnown PROVE TurnHasWorktree
  <2>1. ASSUME NEW m \in Messages, pc[m] = "turn"
        PROVE  Looked(m) /\ step[m] = "ready" /\ key[m] \in DOMAIN tasks
    BY <1>3, <2>1, TurnsHaveTask DEF Known, Phases, StepFits, Looked, SlotStates
  <2>2. QED
    BY <1>3, <2>1 DEF WorktreesKnown, WorktreeOf, TurnHasWorktree
<1>4. QED
  BY <1>1, <1>2, <1>3, AgreeAlways, LookIsRecentStep, WorktreesKnownStep, PTL DEF TaskSpec

-----------------------------------------------------------------------------
(* Pruning spares the worktrees of the tasks closed last *)

\* No row was, or will be, written back late, and no task was closed twice.
Calm ==
    /\ \A u \in Keys : ~Overtaken(u, RowInHand)
    /\ \A c \in Commands : ~commands[c].again

\* The tasks closed after t that have their worktrees; they suffice for t to go.
Later(t) == {u \in worktrees : ~tasks[u].open /\ tasks[u].closedAt > tasks[t].closedAt}
Superseded(t) == Cardinality(Later(t)) >= Retention

\* The row of t may say "ready" after the next write.
SaysReady(t) ==
    \/ tasks[t].worktree = "ready"
    \/ \E m \in Messages : step[m] \in RowInHand /\ key[m] = t /\ row[m].worktree = "ready"

\* A row that says "ready" is right; or its worktree has been pruned, and that
\* is not on record, or will not be.
RowFits(t) ==
    /\ tasks[t].closedAt <= closings
    /\ tasks[t].open /\ tasks[t].worktree = "ready" => t \in worktrees
    /\ ~tasks[t].open /\ t \notin worktrees /\ SaysReady(t) => Superseded(t)

\* A copy in hand is the row, but for a pruning since.
CopyFits(m) ==
    step[m] \in RowInHand =>
        /\ row[m].closedAt = tasks[key[m]].closedAt
        /\ \/ row[m].worktree = tasks[key[m]].worktree
           \/ /\ ~tasks[key[m]].open
              /\ row[m].worktree = "ready" /\ tasks[key[m]].worktree = "pruned"
        /\ step[m] # "read" => tasks[key[m]].open
        /\ step[m] = "added" => key[m] \in worktrees

\* What is listed for pruning may be pruned.
ListFits(c) ==
    \A t \in DOMAIN doomed[c] :
        /\ doomed[c][t].closedAt = tasks[t].closedAt
        /\ tasks[t].worktree \in {"ready", "pruned"}
        /\ Superseded(t)

Fits ==
    /\ \A t \in DOMAIN tasks : RowFits(t)
    /\ \A m \in Messages : CopyFits(m)
    /\ \A c \in Commands : ListFits(c)

\* Who is at work in the managed repository holds its lock.
LockHeld == \A m \in Messages : step[m] \in {"locked", "added", "broken"} => repoLock = m

PruneInv ==
    /\ IsFiniteSet(DOMAIN tasks)
    /\ LockHeld
    /\ \A c \in Commands : commands[c].pc \in {"idle", "closing"} => ~commands[c].again
    /\ Calm => Fits

LEMMA TasksFinite ==
  ASSUME Known, [TaskNext]_lifecycleVars, IsFiniteSet(DOMAIN tasks)
  PROVE  IsFiniteSet(DOMAIN tasks') /\ IsFiniteSet(worktrees')
<1>1. IsFiniteSet(DOMAIN tasks')
  <2>1. CASE DOMAIN tasks' = DOMAIN tasks
    BY <2>1
  <2>2. ASSUME NEW c \in Commands, CreateInsert(c) PROVE IsFiniteSet(DOMAIN tasks')
    <3>1. PICK t \in Keys : InsertsAs(c, t)
      BY <2>2, InsertEffect DEF Known
    <3>2. DOMAIN tasks' = DOMAIN tasks \cup {t}
      BY <3>1 DEF InsertsAs
    <3>3. QED
      BY <3>2, FS_AddElement
  <2>3. QED
    BY <2>1, <2>2, NamesStay
<1>2. worktrees' \subseteq DOMAIN tasks'
  BY KnownStep DEF Known, Table
<1>3. QED
  BY <1>1, <1>2, FS_Subset

\* The lock changes hands with the step it is for.
LEMMA LockStep ==
  ASSUME Known, LockHeld, [TaskNext]_lifecycleVars
  PROVE  LockHeld'
<1>0. step \in [Messages -> Steps] /\ pc \in [Messages -> States]
  BY DEF Known, Phases, QueueInv
<1>1. ASSUME UNCHANGED repoLock,
             \A n \in Messages : step'[n] \in {"locked", "added", "broken"} =>
                step[n] \in {"locked", "added", "broken"}
      PROVE  LockHeld'
  BY <1>1 DEF LockHeld
<1>2. ASSUME UNCHANGED <<repoLock, step>> PROVE LockHeld'
  BY <1>1, <1>2
<1>3. ASSUME NEW m \in Messages, ResolveTask(m) \/ ResolveTaskFails(m) PROVE LockHeld'
  BY <1>2, <1>3 DEF ResolveTask, ResolveTaskFails, taskVars, worktreeVars
<1>4. ASSUME NEW m \in Messages, LoadTask(m) \/ LoadTaskFails(m) \/ AlreadyReady(m)
                                 \/ Touch(m) \/ AddWorktree(m) \/ AddWorktreeFails(m)
      PROVE  LockHeld'
  <2>1. UNCHANGED repoLock
    BY <1>4 DEF LoadTask, LoadTaskFails, AlreadyReady, Touch, TouchLoad, TouchWrite, TouchFails,
       AddWorktree, AddWorktreeFails
  <2>2. \/ \E s \in {"loaded", "refused", "ready", "read", "over"} : step' = [step EXCEPT ![m] = s]
        \/ /\ step[m] = "locked"
           /\ \E s \in {"added", "broken"} : step' = [step EXCEPT ![m] = s]
    BY <1>4 DEF LoadTask, LoadTaskFails, AlreadyReady, Touch, TouchLoad, TouchWrite, TouchFails,
       AddWorktree, AddWorktreeFails, At, Reach
  <2>3. QED
    BY <1>0, <1>1, <2>1, <2>2
<1>5. ASSUME NEW m \in Messages, LockForSetUp(m) PROVE LockHeld'
  <2>1. repoLock = None /\ repoLock' = m /\ step' = [step EXCEPT ![m] = "locked"]
    BY <1>5 DEF LockForSetUp, Reach
  <2>2. QED
    BY <1>0, <2>1, NoneAssumption DEF LockHeld
<1>6. ASSUME NEW m \in Messages, MarkReady(m) \/ MarkFailed(m) \/ MarkFails(m) PROVE LockHeld'
  <2>1. /\ step[m] \in {"added", "broken"} /\ repoLock' = None
        /\ \E s \in {"ready", "refused"} : step' = [step EXCEPT ![m] = s]
    BY <1>6 DEF MarkReady, MarkFailed, MarkFails, At, Reach
  <2>2. QED
    BY <1>0, <2>1 DEF LockHeld
<1>7. ASSUME NEW m \in Messages, ServiceStep(m) PROVE LockHeld'
  <2>1. UNCHANGED repoLock /\ (UNCHANGED step \/ step' = [step EXCEPT ![m] = "touch"])
    BY <1>7 DEF ServiceStep, Reach
  <2>2. QED
    BY <1>0, <1>1, <2>1
<1>8. ASSUME NEW c \in Commands, Command(c) PROVE LockHeld'
  <2>1. UNCHANGED step
    BY <1>8 DEF Command, CreateList, CreateInsert, SwitchLoad, Activate, CloseLoad, Close,
       PruneNeeded, PruneNotNeeded, PruneStarts, PruneStep, PruneEnds, ResetLoad, ResetRejected,
       ResetGoesAhead, ResetDelete, CommandFails, worktreeVars
  <2>2. UNCHANGED repoLock \/ repoLock \in {None, c}
    BY <1>8 DEF Command, CreateList, CreateInsert, SwitchLoad, Activate, CloseLoad, Close,
       PruneNeeded, PruneNotNeeded, PruneStarts, PruneStep, PruneEnds, ResetLoad, ResetRejected,
       ResetGoesAhead, ResetDelete, CommandFails, worktreeVars, PruneLock, PruneUnlock
  <2>3. repoLock \in {None, c} => \A n \in Messages : step[n] \notin {"locked", "added", "broken"}
    BY NoneAssumption, TaskActorsAssumption DEF LockHeld
  <2>4. QED
    BY <2>1, <2>2, <2>3 DEF LockHeld
<1>9. CASE TaskQuiet \/ UNCHANGED lifecycleVars
  BY <1>2, <1>9 DEF TaskQuiet, lifecycleVars, taskVars, worktreeVars
<1>10. QED
  BY <1>3, <1>4, <1>5, <1>6, <1>7, <1>8, <1>9 DEF TaskNext, TaskSetUp

\* Only a close command says that it closed a task again, once.
LEMMA AgainSet ==
  ASSUME Known, [TaskNext]_lifecycleVars, NEW d \in Commands
  PROVE  \/ Close(d)
         \/ /\ commands'[d].again = commands[d].again
            /\ commands'[d].pc \in {"idle", "closing"} => commands[d].pc \in {"idle", "closing"}
<1> DEFINE Same == /\ commands'[d].again = commands[d].again
                   /\ commands'[d].pc \in {"idle", "closing"} => commands[d].pc \in {"idle", "closing"}
<1>0. CommandsKnown /\ DOMAIN tasks \subseteq Keys /\ commands \in [Commands -> CommandStates]
  BY DEF Known, Table, CommandsKnown
<1>1. ASSUME NEW c \in Commands, NEW p \in CommandPcs, p \notin {"idle", "closing"},
             commands' = [commands EXCEPT ![c].pc = p]
      PROVE  Same
  BY <1>0, <1>1, CommandMoves
<1>2. ASSUME NEW c \in Commands, NEW p \in CommandPcs, NEW t \in Keys, commands[c].pc = "idle",
             commands' = [commands EXCEPT ![c].pc = p, ![c].task = t]
      PROVE  Same
  <2>1. /\ commands'[c].again = commands[c].again
        /\ \A e \in Commands \ {c} : commands'[e] = commands[e]
    BY <1>0, <1>2, CommandTakes, Zenon
  <2>2. QED
    BY <1>2, <2>1
<1>3. ASSUME NEW m \in Messages, \/ ResolveTask(m) \/ ResolveTaskFails(m) \/ TaskSetUp(m)
                                 \/ Touch(m) \/ ServiceStep(m)
      PROVE  UNCHANGED commands
  BY <1>3 DEF ResolveTask, ResolveTaskFails, TaskSetUp, Touch, ServiceStep, taskVars
<1>4. CASE TaskQuiet \/ UNCHANGED lifecycleVars
  BY <1>4 DEF TaskQuiet, lifecycleVars, taskVars
<1>5. ASSUME NEW c \in Commands, CreateList(c) PROVE Same
  <2>1. \E n \in Names : commands' = [commands EXCEPT ![c].pc = "named", ![c].name = n]
    BY <1>5 DEF CreateList
  <2>2. QED
    BY <1>0, <2>1 DEF CommandStates
<1>6. ASSUME NEW c \in Commands, CreateInsert(c) PROVE Same
  <2>1. PICK t \in Keys : InsertsAs(c, t)
    BY <1>6, InsertEffect DEF Known
  <2>2. QED
    BY <2>1 DEF InsertsAs
<1>7. ASSUME NEW c \in Commands, SwitchLoad(c) \/ CloseLoad(c) \/ ResetLoad(c) PROVE Same
  <2>1. commands[c].pc = "idle"
        /\ \E p \in {"activate", "closing", "resetting"}, t \in DOMAIN tasks :
              commands' = [commands EXCEPT ![c].pc = p, ![c].task = t]
    BY <1>0, <1>7 DEF SwitchLoad, CloseLoad, ResetLoad, OpenTasks, CommandsKnown
  <2>2. QED
    BY <1>0, <1>2, <2>1 DEF CommandPcs
<1>8. ASSUME NEW c \in Commands, \/ Activate(c) \/ PruneNeeded(c) \/ PruneNotNeeded(c)
                                 \/ PruneStarts(c) \/ PruneEnds(c) \/ ResetRejected(c)
                                 \/ CommandFails(c)
      PROVE  Same
  <2>1. \E p \in {"listing", "pruning", "removing", "done"} :
              commands' = [commands EXCEPT ![c].pc = p]
    BY <1>8 DEF Activate, PruneNeeded, PruneNotNeeded, PruneStarts, PruneEnds,
       ResetRejected, CommandFails, InStep
  <2>2. QED
    BY <1>1, <2>1 DEF CommandPcs
<1>9. ASSUME NEW c \in Commands, PruneStep(c) PROVE UNCHANGED commands
  BY <1>9 DEF PruneStep
<1>10. ASSUME NEW c \in Commands, ResetGoesAhead(c) \/ ResetDelete(c) PROVE Same
  <2>1. \/ \E o \in SUBSET Messages : commands' = [commands EXCEPT ![c].pc = "deleting", ![c].outside = o]
        \/ \E o \in SUBSET Messages : commands' = [commands EXCEPT ![c].pc = "done", ![c].cut = o]
    BY <1>10 DEF ResetGoesAhead, ResetDelete, EngagedOn, Holders
  <2>2. QED
    BY <1>0, <2>1 DEF CommandStates
<1>11. ASSUME NEW c \in Commands, Close(c), c # d PROVE Same
  BY <1>0, <1>11, CommandCloses
<1>12. QED
  BY <1>3, <1>4, <1>5, <1>6, <1>7, <1>8, <1>9, <1>10, <1>11 DEF TaskNext, Command

\* Once it is not calm it stays so.
LEMMA CalmBefore ==
  ASSUME Known, PruneInv, [TaskNext]_lifecycleVars, Calm'
  PROVE  Calm
<1>1. RowInHand \in SUBSET Steps
  BY DEF Steps
<1>2. ASSUME NEW u \in Keys, Overtaken(u, RowInHand) PROVE FALSE
  BY <1>1, <1>2, OvertakenLasts DEF Calm
<1>3. ASSUME NEW c \in Commands, commands[c].again PROVE FALSE
  <2>1. ~Close(c)
    BY <1>3 DEF PruneInv, Close
  <2>2. commands'[c].again = commands[c].again
    BY <2>1, AgainSet
  <2>3. QED
    BY <1>3, <2>2 DEF Calm
<1>4. QED
  BY <1>2, <1>3 DEF Calm

LEMMA ClosingsGrow ==
  ASSUME Known, [TaskNext]_lifecycleVars
  PROVE  closings \in Nat /\ closings' \in Nat /\ closings <= closings'
<1>0. closings \in Nat
  BY DEF Known, CommandsKnown
<1>1. ASSUME NEW m \in Messages, \/ ResolveTask(m) \/ ResolveTaskFails(m) \/ TaskSetUp(m)
                                 \/ Touch(m) \/ ServiceStep(m)
      PROVE  UNCHANGED closings
  BY <1>1 DEF ResolveTask, ResolveTaskFails, TaskSetUp, LoadTask, LoadTaskFails, AlreadyReady,
     LockForSetUp, AddWorktree, AddWorktreeFails, MarkReady, MarkFailed, MarkFails, Touch,
     TouchLoad, TouchWrite, TouchFails, ServiceStep, taskVars, worktreeVars
<1>2. ASSUME NEW c \in Commands, Command(c) PROVE closings' \in {closings, closings + 1}
  <2>1. CASE Close(c)
    BY <2>1 DEF Close
  <2>2. CASE CreateInsert(c)
    BY <2>2 DEF CreateInsert
  <2>3. CASE ~Close(c) /\ ~CreateInsert(c)
    BY <1>2, <2>3 DEF Command, CreateList, SwitchLoad, Activate, CloseLoad,
       PruneNeeded, PruneNotNeeded, PruneStarts, PruneStep, PruneEnds, ResetLoad, ResetRejected,
       ResetGoesAhead, ResetDelete, CommandFails, worktreeVars
  <2>4. QED
    BY <2>1, <2>2, <2>3
<1>3. ASSUME TaskQuiet \/ UNCHANGED lifecycleVars PROVE UNCHANGED closings
  BY <1>3 DEF TaskQuiet, lifecycleVars, taskVars, worktreeVars
<1>4. closings' \in {closings, closings + 1}
  BY <1>1, <1>2, <1>3 DEF TaskNext
<1>5. QED
  BY <1>0, <1>4

LEMMA Enough ==
  ASSUME NEW S, NEW T, IsFiniteSet(S), T \subseteq S, Cardinality(T) >= Retention
  PROVE  Cardinality(S) >= Retention
<1>1. IsFiniteSet(T) /\ Cardinality(T) <= Cardinality(S)
  BY FS_Subset
<1>2. Cardinality(T) \in Nat /\ Cardinality(S) \in Nat
  BY <1>1, FS_CardinalityType
<1>3. QED
  BY <1>1, <1>2, RetentionAssumption

\* The tasks that suffice still do.
LEMMA StaysSuperseded ==
  ASSUME IsFiniteSet(worktrees'), NEW v, Superseded(v),
         \A u \in Later(v) :
            u \in worktrees' /\ ~tasks'[u].open /\ tasks'[u].closedAt > tasks'[v].closedAt
  PROVE  Superseded(v)'
<1>1. Later(v) \subseteq Later(v)' /\ Later(v)' \subseteq worktrees'
  BY DEF Later
<1>2. IsFiniteSet(Later(v)')
  BY <1>1, FS_Subset
<1>3. QED
  BY <1>1, <1>2, Enough DEF Superseded

\* A step in calm times, and what it starts from.
CalmStep ==
    Known /\ Agree /\ WorktreesKnown /\ PruneInv /\ [TaskNext]_lifecycleVars /\ Calm /\ Calm'

LEMMA CalmThen ==
  ASSUME CalmStep
  PROVE  /\ Fits
         /\ IsFiniteSet(worktrees) /\ IsFiniteSet(worktrees')
         /\ closings \in Nat /\ closings' \in Nat /\ closings <= closings'
         /\ worktrees \subseteq DOMAIN tasks
         /\ \A t \in DOMAIN tasks :
               t \in Keys /\ tasks[t].closedAt \in Nat /\ tasks[t].open \in BOOLEAN
         /\ \A m \in Messages : step[m] \in RowInHand =>
               /\ key'[m] = key[m] /\ key[m] \in DOMAIN tasks
               /\ row[m].open = tasks[key[m]].open
         /\ \A c \in Commands : \A t \in DOMAIN doomed[c] :
               t \in DOMAIN tasks /\ ~tasks[t].open /\ ~doomed[c][t].open
<1> USE DEF CalmStep
<1>1. Fits /\ IsFiniteSet(worktrees')
  BY TasksFinite DEF PruneInv
<1>2. closings \in Nat /\ closings' \in Nat /\ closings <= closings'
  BY ClosingsGrow
<1>3. worktrees \subseteq DOMAIN tasks /\ IsFiniteSet(worktrees)
  BY FS_Subset DEF Known, Table, PruneInv
<1>4. \A t \in DOMAIN tasks :
         t \in Keys /\ tasks[t].closedAt \in Nat /\ tasks[t].open \in BOOLEAN
  BY DEF Known, Table, Row
<1>5. \A t \in DOMAIN tasks : ~Overtaken(t, RowInHand)
  BY <1>4 DEF Calm
<1>6. ASSUME NEW m \in Messages, step[m] \in RowInHand
      PROVE  /\ key'[m] = key[m] /\ key[m] \in DOMAIN tasks
             /\ row[m].open = tasks[key[m]].open
  <2>1. key'[m] = key[m] /\ key[m] \in DOMAIN tasks
    BY <1>6, StepMeansSlot, KeysStay DEF Known, Table, CopiesKnown
  <2>2. row[m].open = tasks[key[m]].open
    BY <1>5, <1>6, <2>1 DEF Agree, AgreeOn
  <2>3. QED
    BY <2>1, <2>2
<1>7. ASSUME NEW c \in Commands, NEW t \in DOMAIN doomed[c]
      PROVE  t \in DOMAIN tasks /\ ~tasks[t].open /\ ~doomed[c][t].open
  <2>1. t \in DOMAIN tasks
    BY DEF Known, Table, CopiesKnown
  <2>2. QED
    BY <1>5, <2>1 DEF Agree, AgreeOn
<1>8. QED
  BY <1>1, <1>2, <1>3, <1>4, <1>6, <1>7

\* What lies behind the first Retention of the list is superseded, although
\* the list may name worktrees that are gone.
LEMMA SurplusSuperseded ==
  ASSUME CalmStep, NEW t \in Surplus
  PROVE  t \in DOMAIN tasks /\ tasks[t].worktree = "ready" /\ Superseded(t)
<1>1. t \in DOMAIN tasks /\ tasks[t].worktree = "ready" /\ Cardinality(ClosedAfter(t)) >= Retention
  BY DEF Surplus, ClosedReady
<1>2. \A u \in ClosedAfter(t) :
         u \in DOMAIN tasks /\ ~tasks[u].open /\ tasks[u].worktree = "ready"
         /\ tasks[u].closedAt > tasks[t].closedAt
  BY DEF ClosedAfter, ClosedReady
<1>3. IsFiniteSet(Later(t))
  BY CalmThen, FS_Subset DEF Later
<1>4. CASE ClosedAfter(t) \subseteq worktrees
  <2>1. ClosedAfter(t) \subseteq Later(t)
    BY <1>2, <1>4 DEF Later
  <2>2. QED
    BY <1>1, <1>3, <2>1, Enough DEF Superseded
<1>5. ASSUME NEW u \in ClosedAfter(t), u \notin worktrees PROVE Superseded(t)
  <2>1. Superseded(u)
    BY <1>2, <1>5, CalmThen DEF Fits, RowFits, SaysReady
  <2>2. Later(u) \subseteq Later(t)
    BY <1>1, <1>2, CalmThen DEF Later
  <2>3. QED
    BY <1>3, <2>1, <2>2, Enough DEF Superseded
<1>6. QED
  BY <1>1, <1>4, <1>5

\* No row is written, and no worktree of a closed task is touched.
LEMMA RowsLeft ==
  ASSUME CalmStep, UNCHANGED tasks,
         \A t \in DOMAIN tasks : \/ t \in worktrees' <=> t \in worktrees
                                 \/ tasks[t].open /\ (tasks[t].worktree = "ready" => t \in worktrees'),
         \A m \in Messages : step'[m] \in RowInHand =>
            \/ /\ key'[m] \in DOMAIN tasks /\ row'[m] = tasks[key'[m]] /\ step'[m] # "added"
               /\ step'[m] = "read" \/ tasks[key'[m]].open
            \/ /\ step[m] \in RowInHand /\ row'[m] = row[m]
               /\ step'[m] = "read" <=> step[m] = "read"
               /\ step'[m] = "added" => key[m] \in worktrees',
         \A c \in Commands : \A t \in DOMAIN doomed'[c] :
            \/ t \in DOMAIN doomed[c] /\ doomed'[c][t] = doomed[c][t]
            \/ t \in Surplus /\ doomed'[c][t] = tasks[t]
  PROVE  Fits'
<1>1. ASSUME NEW t \in DOMAIN tasks, Superseded(t) PROVE Superseded(t)'
  <2>1. \A u \in Later(t) : u \in worktrees' /\ ~tasks[u].open /\ tasks[u].closedAt > tasks[t].closedAt
    BY CalmThen DEF Later
  <2>2. QED
    BY <1>1, <2>1, CalmThen, StaysSuperseded
<1>2. ASSUME NEW t \in DOMAIN tasks PROVE RowFits(t)'
  <2>1. RowFits(t) /\ tasks[t].closedAt \in Nat
    BY CalmThen DEF Fits
  <2>2. SaysReady(t)' => SaysReady(t)
    <3>1. ASSUME NEW m \in Messages, step'[m] \in RowInHand, key'[m] = t, row'[m].worktree = "ready"
          PROVE  SaysReady(t)
      <4>1. CASE row'[m] = tasks[key'[m]]
        BY <3>1, <4>1 DEF SaysReady
      <4>2. CASE step[m] \in RowInHand /\ row'[m] = row[m]
        BY <3>1, <4>2, CalmThen DEF SaysReady
      <4>3. QED
        BY <3>1, <4>1, <4>2
    <3>2. QED
      BY <3>1 DEF SaysReady
  <2>3. tasks[t].closedAt <= closings'
    BY <2>1, CalmThen DEF RowFits
  <2>4. tasks[t].open /\ tasks[t].worktree = "ready" => t \in worktrees'
    BY <2>1 DEF RowFits
  <2>5. ~tasks[t].open /\ t \notin worktrees' /\ SaysReady(t)' => Superseded(t)'
    BY <1>1, <2>1, <2>2 DEF RowFits
  <2>6. QED
    BY <2>3, <2>4, <2>5 DEF RowFits
<1>3. ASSUME NEW m \in Messages PROVE CopyFits(m)'
  <2>1. CopyFits(m)
    BY CalmThen DEF Fits
  <2>2. CASE step'[m] \notin RowInHand
    BY <2>2 DEF CopyFits
  <2>3. CASE step'[m] \in RowInHand /\ row'[m] = tasks[key'[m]] /\ step'[m] # "added"
             /\ (step'[m] = "read" \/ tasks[key'[m]].open)
    BY <2>3 DEF CopyFits
  <2>4. CASE /\ step'[m] \in RowInHand /\ step[m] \in RowInHand /\ row'[m] = row[m]
             /\ step'[m] = "read" <=> step[m] = "read"
             /\ step'[m] = "added" => key[m] \in worktrees'
    <3>1. key'[m] = key[m]
      BY <2>4, CalmThen
    <3>2. QED
      BY <2>1, <2>4, <3>1 DEF CopyFits
  <2>5. QED
    BY <2>2, <2>3, <2>4
<1>4. ASSUME NEW c \in Commands PROVE ListFits(c)'
  <2>1. ListFits(c)
    BY CalmThen DEF Fits
  <2>2. ASSUME NEW t \in DOMAIN doomed'[c]
        PROVE  /\ doomed'[c][t].closedAt = tasks[t].closedAt
               /\ tasks[t].worktree \in {"ready", "pruned"}
               /\ t \in DOMAIN tasks /\ Superseded(t)
    BY <2>1, <2>2, CalmThen, SurplusSuperseded DEF ListFits
  <2>3. QED
    BY <1>1, <2>2 DEF ListFits
<1>5. QED
  BY <1>2, <1>3, <1>4 DEF Fits

LEMMA FitsStill ==
  ASSUME CalmStep, Still PROVE Fits'
<1>1. UNCHANGED <<tasks, worktrees, row, doomed>>
  BY DEF Still, rows
<1>2. ASSUME NEW m \in Messages, step'[m] \in RowInHand
      PROVE  /\ step[m] \in RowInHand /\ row'[m] = row[m]
             /\ step'[m] = "read" <=> step[m] = "read"
             /\ step'[m] = "added" => key[m] \in worktrees'
  <2>1. step'[m] = step[m] \/ (step[m] = "loaded" /\ step'[m] = "locked")
    <3>1. StepOnly(m)
      BY DEF Still
    <3>2. step'[m] \notin {"refused", "over", "touch", "ready"}
      BY <1>2 DEF RowInHand
    <3>3. QED
      BY <3>1, <3>2 DEF StepOnly
  <2>2. step[m] = "added" => key[m] \in worktrees
    BY CalmThen DEF Fits, CopyFits, RowInHand
  <2>3. QED
    BY <1>1, <1>2, <2>1, <2>2 DEF RowInHand
<1>3. \A t \in DOMAIN tasks : t \in worktrees' <=> t \in worktrees
  BY <1>1
<1>4. \A c \in Commands : \A t \in DOMAIN doomed'[c] : t \in DOMAIN doomed[c] /\ doomed'[c][t] = doomed[c][t]
  BY <1>1
<1>5. QED
  BY <1>1, <1>2, <1>3, <1>4, RowsLeft

LEMMA FitsRead ==
  ASSUME CalmStep, NEW m \in Messages, Reads(m) PROVE Fits'
<1>1. /\ key[m] \in DOMAIN tasks /\ step'[m] \in {"loaded", "read"} /\ row'[m] = tasks[key[m]]
      /\ step'[m] = "loaded" => tasks[key[m]].open
      /\ \A n \in Messages \ {m} : step'[n] = step[n] /\ row'[n] = row[n]
      /\ UNCHANGED <<key, tasks, worktrees, doomed>>
  BY ReadsEffect DEF CalmStep
<1>2. ASSUME NEW n \in Messages \ {m}, step'[n] = "added" PROVE key[n] \in worktrees'
  BY <1>1, <1>2, CalmThen DEF Fits, CopyFits, RowInHand
<1>3. QED
  BY <1>1, <1>2, RowsLeft

LEMMA FitsAdd ==
  ASSUME CalmStep, NEW m \in Messages, Adds(m) PROVE Fits'
<1>1. /\ key[m] \in DOMAIN tasks /\ step[m] = "locked"
      /\ \/ step'[m] = "added" /\ worktrees' = worktrees \cup {key[m]}
         \/ /\ step'[m] = "broken"
            /\ worktrees' \subseteq worktrees /\ worktrees \ {key[m]} \subseteq worktrees'
      /\ \A n \in Messages \ {m} : step'[n] = step[n]
      /\ UNCHANGED <<key, tasks, row, doomed>>
  BY AddsEffect DEF CalmStep
<1>2. tasks[key[m]].open /\ tasks[key[m]].worktree # "ready"
  <2>1. CopyFits(m)
    BY CalmThen DEF Fits
  <2>2. row[m].worktree # "ready"
    BY <1>1 DEF CalmStep, WorktreesKnown
  <2>3. QED
    BY <1>1, <2>1, <2>2 DEF CopyFits, RowInHand
<1>3. \A n \in Messages \ {m} : step[n] # "added"
  BY <1>1 DEF CalmStep, PruneInv, LockHeld
<1>4. \A t \in DOMAIN tasks : \/ t \in worktrees' <=> t \in worktrees
                              \/ tasks[t].open /\ tasks[t].worktree # "ready"
  BY <1>1, <1>2
<1>5. ASSUME NEW n \in Messages, step'[n] \in RowInHand
      PROVE  /\ step[n] \in RowInHand /\ row'[n] = row[n]
             /\ step'[n] = "read" <=> step[n] = "read"
             /\ step'[n] = "added" => key[n] \in worktrees'
  BY <1>1, <1>3, <1>5 DEF RowInHand
<1>6. QED
  BY <1>1, <1>4, <1>5, RowsLeft

LEMMA FitsList ==
  ASSUME CalmStep, NEW c \in Commands, PruneNeeded(c) PROVE Fits'
<1>1. /\ \A d \in Commands \ {c} : doomed'[d] = doomed[d]
      /\ DOMAIN doomed'[c] = Surplus
      /\ \A t \in DOMAIN doomed'[c] : doomed'[c][t] = tasks[t]
      /\ UNCHANGED <<tasks, worktrees, row, step>>
  BY ListEffect DEF CalmStep, Known
<1>2. ASSUME NEW n \in Messages, step'[n] = "added" PROVE key[n] \in worktrees'
  BY <1>1, <1>2, CalmThen DEF Fits, CopyFits, RowInHand
<1>3. ASSUME NEW d \in Commands, NEW t \in DOMAIN doomed'[d]
      PROVE  \/ t \in DOMAIN doomed[d] /\ doomed'[d][t] = doomed[d][t]
             \/ t \in Surplus /\ doomed'[d][t] = tasks[t]
  BY <1>1, <1>3
<1>4. QED
  BY <1>1, <1>2, <1>3, RowsLeft

LEMMA FitsWrite ==
  ASSUME CalmStep, NEW m \in Messages, Writes(m) PROVE Fits'
<1> DEFINE t == key[m]
<1>1. /\ step[m] \in {"added", "broken", "read"} /\ step[m] \in RowInHand /\ step'[m] \notin RowInHand
      /\ pc[m] \in SlotStates
      /\ \A n \in Messages \ {m} : step'[n] = step[n]
      /\ UNCHANGED <<key, worktrees, row, doomed>>
  BY WritesSteps DEF CalmStep, RowInHand
<1>2. /\ t \in DOMAIN tasks /\ DOMAIN tasks' = DOMAIN tasks
      /\ \A u \in DOMAIN tasks \ {t} : tasks'[u] = tasks[u]
      /\ tasks'[t].open = row[m].open /\ tasks'[t].closedAt = row[m].closedAt
      /\ \/ step[m] = "added" /\ tasks'[t].worktree = "ready"
         \/ step[m] = "broken" /\ tasks'[t].worktree = "failed"
         \/ step[m] = "read" /\ tasks'[t] = row[m]
  BY <1>1, WritesEffect DEF CalmStep, Known
<1>3. CopyFits(m) /\ RowFits(t)
  BY <1>2, CalmThen DEF Fits
<1>4. \A u \in DOMAIN tasks : tasks'[u].open = tasks[u].open /\ tasks'[u].closedAt = tasks[u].closedAt
  <2>1. tasks'[t].open = tasks[t].open
    BY <1>1, <1>2, CalmThen
  <2>2. tasks'[t].closedAt = tasks[t].closedAt
    BY <1>1, <1>2, <1>3 DEF CopyFits
  <2>3. QED
    BY <1>2, <2>1, <2>2
<1>5. ~tasks[t].open => step[m] = "read" /\ tasks'[t] = row[m]
  BY <1>1, <1>2, <1>3 DEF CopyFits
<1>6. ASSUME NEW u \in DOMAIN tasks, Superseded(u) PROVE Superseded(u)'
  <2>1. \A v \in Later(u) : v \in worktrees' /\ ~tasks'[v].open /\ tasks'[v].closedAt > tasks'[u].closedAt
    BY <1>1, <1>4, CalmThen DEF Later
  <2>2. QED
    BY <1>6, <2>1, CalmThen, StaysSuperseded
<1>7. ASSUME NEW n \in Messages, step'[n] \in RowInHand
      PROVE  /\ n # m /\ step[n] = step'[n] /\ row'[n] = row[n] /\ key'[n] = key[n]
             /\ key[n] # t
  <2>1. n # m /\ step[n] \in RowInHand
    BY <1>1, <1>7
  <2>2. Looked(m) /\ Looked(n)
    BY <1>1, <2>1, StepMeansSlot DEF Looked, CalmStep
  <2>3. key[n] # t
    BY <2>1, <2>2, LookedAlone DEF CalmStep
  <2>4. QED
    BY <1>1, <2>1, <2>3
<1>8. ASSUME NEW u \in DOMAIN tasks PROVE RowFits(u)'
  <2>1. RowFits(u) /\ tasks[u].closedAt <= closings'
    BY CalmThen DEF Fits, RowFits
  <2>2. tasks'[u].open /\ tasks'[u].worktree = "ready" => u \in worktrees'
    <3>1. CASE u # t
      BY <1>1, <1>2, <2>1, <3>1 DEF RowFits
    <3>2. CASE u = t
      BY <1>1, <1>2, <1>3, <1>4, <3>2 DEF RowFits, CopyFits
    <3>3. QED
      BY <3>1, <3>2
  <2>3. ASSUME ~tasks'[u].open, SaysReady(u)' PROVE SaysReady(u)
    <3>1. ~tasks[u].open
      BY <1>4, <2>3
    <3>2. CASE tasks'[u].worktree = "ready"
      BY <1>1, <1>2, <1>5, <3>1, <3>2 DEF SaysReady
    <3>3. ASSUME NEW n \in Messages, step'[n] \in RowInHand, key'[n] = u, row'[n].worktree = "ready"
          PROVE  SaysReady(u)
      BY <1>7, <3>3 DEF SaysReady
    <3>4. QED
      BY <2>3, <3>2, <3>3 DEF SaysReady
  <2>4. ~tasks'[u].open /\ u \notin worktrees' /\ SaysReady(u)' => Superseded(u)'
    BY <1>1, <1>4, <1>6, <2>1, <2>3 DEF RowFits
  <2>5. QED
    BY <1>4, <2>1, <2>2, <2>4 DEF RowFits
<1>9. ASSUME NEW n \in Messages PROVE CopyFits(n)'
  <2>1. CopyFits(n)
    BY CalmThen DEF Fits
  <2>2. ASSUME step'[n] \in RowInHand
        PROVE  /\ step[n] = step'[n] /\ row'[n] = row[n] /\ key'[n] = key[n]
               /\ tasks'[key'[n]] = tasks[key[n]]
    BY <1>2, <1>7, <2>2, CalmThen
  <2>3. QED
    BY <1>1, <2>1, <2>2 DEF CopyFits
<1>10. ASSUME NEW c \in Commands PROVE ListFits(c)'
  <2>1. ListFits(c)
    BY CalmThen DEF Fits
  <2>2. ASSUME NEW u \in DOMAIN doomed[c] PROVE tasks'[u].worktree \in {"ready", "pruned"}
    <3>1. u \in DOMAIN tasks /\ ~tasks[u].open /\ tasks[u].worktree \in {"ready", "pruned"}
      BY <2>1, CalmThen DEF ListFits
    <3>2. CASE u = t
      BY <1>1, <1>3, <1>5, <3>1, <3>2 DEF CopyFits
    <3>3. QED
      BY <1>2, <3>1, <3>2
  <2>3. QED
    BY <1>1, <1>4, <1>6, <2>1, <2>2, CalmThen DEF ListFits
<1>11. QED
  BY <1>2, <1>8, <1>9, <1>10 DEF Fits

LEMMA FitsInsert ==
  ASSUME CalmStep, NEW c \in Commands, CreateInsert(c) PROVE Fits'
<1>1. PICK t \in Keys : InsertsAs(c, t)
  BY InsertEffect DEF CalmStep, Known
<1>2. /\ t \notin DOMAIN tasks /\ DOMAIN tasks' = DOMAIN tasks \cup {t}
      /\ \A u \in DOMAIN tasks : tasks'[u] = tasks[u]
      /\ tasks'[t].worktree = "pending" /\ tasks'[t].open /\ tasks'[t].closedAt = 0
      /\ UNCHANGED <<key, closings, worktrees, row, step, doomed>>
  BY <1>1 DEF InsertsAs, vars
<1>3. ASSUME NEW u \in DOMAIN tasks, Superseded(u) PROVE Superseded(u)'
  <2>1. \A v \in Later(u) : v \in worktrees' /\ ~tasks'[v].open /\ tasks'[v].closedAt > tasks'[u].closedAt
    BY <1>2, CalmThen DEF Later
  <2>2. QED
    BY <1>3, <2>1, CalmThen, StaysSuperseded
<1>4. ASSUME NEW u \in DOMAIN tasks PROVE RowFits(u)'
  BY <1>2, <1>3, CalmThen DEF Fits, RowFits, SaysReady
<1>5. RowFits(t)'
  BY <1>2, CalmThen DEF RowFits
<1>6. ASSUME NEW n \in Messages PROVE CopyFits(n)'
  BY <1>2, CalmThen DEF Fits, CopyFits
<1>7. ASSUME NEW d \in Commands PROVE ListFits(d)'
  BY <1>2, <1>3, CalmThen DEF Fits, ListFits
<1>8. QED
  BY <1>2, <1>4, <1>5, <1>6, <1>7 DEF Fits

\* In calm times a task is closed once, with no copy of its row in hand.
LEMMA CalmClose ==
  ASSUME CalmStep, NEW c \in Commands, Close(c)
  PROVE  /\ tasks[commands[c].task].open
         /\ \A m \in Messages : step[m] \in RowInHand => key[m] # commands[c].task
<1>0. PICK t : t = commands[c].task
  OBVIOUS
<1>1. /\ t \in DOMAIN tasks /\ t \in Keys
      /\ overtaken' = overtaken \cup {<<m, step[m]>> : m \in {n \in Holders(t) : step[n] # "none"}}
      /\ UNCHANGED key
  BY <1>0, CloseEffect, CalmThen DEF CalmStep, Known, vars
<1>2. tasks[t].open
  <2>1. commands'[c].again = ~tasks[t].open
    BY <1>0, CommandCloses, Zenon DEF CalmStep, Known
  <2>2. ~commands'[c].again
    BY DEF CalmStep, Calm
  <2>3. QED
    BY <2>1, <2>2
<1>3. ASSUME NEW m \in Messages, step[m] \in RowInHand, key[m] = t PROVE FALSE
  <2>1. m \in Holders(t)
    BY <1>3, StepMeansSlot DEF CalmStep, Holders, Holds
  <2>2. <<m, step[m]>> \in overtaken'
    BY <1>1, <1>3, <2>1 DEF RowInHand
  <2>3. Overtaken(t, RowInHand)'
    BY <1>1, <1>3, <2>2 DEF Overtaken
  <2>4. QED
    BY <1>1, <2>3 DEF CalmStep, Calm
<1>4. QED
  BY <1>0, <1>2, <1>3

LEMMA FitsClose ==
  ASSUME CalmStep, NEW c \in Commands, Close(c) PROVE Fits'
<1>0. PICK t : t = commands[c].task
  OBVIOUS
<1>1. /\ t \in DOMAIN tasks /\ DOMAIN tasks' = DOMAIN tasks
      /\ \A u \in DOMAIN tasks \ {t} : tasks'[u] = tasks[u]
      /\ ~tasks'[t].open /\ tasks'[t].closedAt = closings + 1
      /\ tasks'[t].worktree = tasks[t].worktree /\ closings' = closings + 1
      /\ UNCHANGED <<key, worktrees, row, step, doomed>>
  BY <1>0, CloseEffect DEF CalmStep, Known, vars
<1>2. tasks[t].open /\ \A m \in Messages : step[m] \in RowInHand => key[m] # t
  BY <1>0, CalmClose
<1>3. ASSUME NEW u \in DOMAIN tasks \ {t}, Superseded(u) PROVE Superseded(u)'
  <2>1. \A v \in Later(u) : v \in worktrees' /\ ~tasks'[v].open /\ tasks'[v].closedAt > tasks'[u].closedAt
    BY <1>1, <1>2, CalmThen DEF Later
  <2>2. QED
    BY <1>3, <2>1, CalmThen, StaysSuperseded
<1>4. ASSUME NEW u \in DOMAIN tasks PROVE RowFits(u)'
  <2>1. RowFits(u)
    BY CalmThen DEF Fits
  <2>2. CASE u = t
    <3>1. SaysReady(t)' => t \in worktrees
      BY <1>1, <1>2, <2>1, <2>2 DEF RowFits, SaysReady
    <3>2. QED
      BY <1>1, <2>2, <3>1, CalmThen DEF RowFits
  <2>3. CASE u # t
    <3>1. tasks'[u] = tasks[u] /\ SaysReady(u)' => SaysReady(u)
      BY <1>1, <2>3 DEF SaysReady
    <3>2. tasks'[u].closedAt <= closings'
      BY <1>1, <2>1, <2>3, CalmThen DEF RowFits
    <3>3. QED
      BY <1>1, <1>3, <2>1, <2>3, <3>1, <3>2 DEF RowFits
  <2>4. QED
    BY <2>2, <2>3
<1>5. ASSUME NEW n \in Messages PROVE CopyFits(n)'
  BY <1>1, <1>2, CalmThen DEF Fits, CopyFits
<1>6. ASSUME NEW d \in Commands PROVE ListFits(d)'
  <2>1. \A u \in DOMAIN doomed[d] : u \in DOMAIN tasks \ {t}
    BY <1>2, CalmThen
  <2>2. QED
    BY <1>1, <1>3, <2>1, CalmThen DEF Fits, ListFits
<1>7. QED
  BY <1>1, <1>4, <1>5, <1>6 DEF Fits

\* In calm times a pruning leaves the rows' dates; what it removes is superseded.
LEMMA CalmPrune ==
  ASSUME CalmStep, NEW c \in Commands, PruneStep(c)
  PROVE  \E t \in DOMAIN tasks :
            /\ ~tasks[t].open /\ ~tasks'[t].open /\ tasks'[t].closedAt = tasks[t].closedAt
            /\ tasks[t].worktree \in {"ready", "pruned"} /\ Superseded(t)
            /\ tasks'[t].worktree \in {tasks[t].worktree, "pruned"}
            /\ DOMAIN tasks' = DOMAIN tasks
            /\ \A u \in DOMAIN tasks \ {t} : tasks'[u] = tasks[u]
            /\ worktrees' \subseteq worktrees /\ worktrees \ {t} \subseteq worktrees'
            /\ \A d \in Commands : \A u \in DOMAIN doomed'[d] :
                  u \in DOMAIN doomed[d] /\ doomed'[d][u] = doomed[d][u]
            /\ UNCHANGED <<key, closings, row, step>>
<1>1. UNCHANGED <<key, closings, row, step>>
  BY PruneEffect DEF CalmStep, Known, vars
<1>2. \A d \in Commands : \A u \in DOMAIN doomed'[d] :
         u \in DOMAIN doomed[d] /\ doomed'[d][u] = doomed[d][u]
  BY PruneEffect DEF CalmStep, Known
<1>3. PICK t \in DOMAIN doomed[c] :
         /\ DOMAIN tasks' = DOMAIN tasks
         /\ \A u \in DOMAIN tasks \ {t} : tasks'[u] = tasks[u]
         /\ \/ tasks'[t] = tasks[t]
            \/ /\ tasks'[t].open = doomed[c][t].open
               /\ tasks'[t].closedAt = doomed[c][t].closedAt /\ tasks'[t].worktree = "pruned"
         /\ worktrees' \subseteq worktrees /\ worktrees \ {t} \subseteq worktrees'
  BY PruneEffect DEF CalmStep, Known
<1>4. /\ doomed[c][t].closedAt = tasks[t].closedAt
      /\ tasks[t].worktree \in {"ready", "pruned"} /\ Superseded(t)
  BY CalmThen DEF Fits, ListFits
<1>5. t \in DOMAIN tasks /\ ~tasks[t].open /\ ~doomed[c][t].open
  BY CalmThen
<1>6. QED
  BY <1>1, <1>2, <1>3, <1>4, <1>5

LEMMA FitsPrune ==
  ASSUME CalmStep, NEW c \in Commands, PruneStep(c) PROVE Fits'
<1>1. PICK t \in DOMAIN tasks :
         /\ ~tasks[t].open /\ ~tasks'[t].open /\ tasks'[t].closedAt = tasks[t].closedAt
         /\ tasks[t].worktree \in {"ready", "pruned"} /\ Superseded(t)
         /\ tasks'[t].worktree \in {tasks[t].worktree, "pruned"}
         /\ DOMAIN tasks' = DOMAIN tasks
         /\ \A u \in DOMAIN tasks \ {t} : tasks'[u] = tasks[u]
         /\ worktrees' \subseteq worktrees /\ worktrees \ {t} \subseteq worktrees'
         /\ \A d \in Commands : \A u \in DOMAIN doomed'[d] :
               u \in DOMAIN doomed[d] /\ doomed'[d][u] = doomed[d][u]
         /\ UNCHANGED <<key, closings, row, step>>
  BY CalmPrune
<1>2. \A u \in DOMAIN tasks :
         (tasks'[u].open <=> tasks[u].open) /\ tasks'[u].closedAt = tasks[u].closedAt
  BY <1>1
<1>3. ASSUME NEW v \in DOMAIN tasks, Superseded(v) PROVE Superseded(v)'
  <2>1. ASSUME NEW w \in DOMAIN tasks, t \notin Later(w)
        PROVE  \A u \in Later(w) :
                  u \in worktrees' /\ ~tasks'[u].open /\ tasks'[u].closedAt > tasks'[w].closedAt
    BY <1>1, <1>2, <2>1, CalmThen DEF Later
  <2>2. CASE t \notin Later(v)
    BY <1>3, <2>1, <2>2, CalmThen, StaysSuperseded
  <2>3. CASE t \in Later(v)
    <3>1. t \notin Later(t)
      BY CalmThen DEF Later
    <3>2. Superseded(t)'
      BY <1>1, <2>1, <3>1, CalmThen, StaysSuperseded
    <3>3. ASSUME NEW u \in Later(t)' PROVE u \in Later(v)'
      <4>1. /\ u \in DOMAIN tasks /\ tasks'[u].closedAt \in Nat
            /\ tasks'[t].closedAt \in Nat /\ tasks'[v].closedAt \in Nat
        BY <1>1, <1>2, CalmThen DEF Later
      <4>2. tasks'[t].closedAt > tasks'[v].closedAt
        BY <1>2, <2>3, CalmThen DEF Later
      <4>3. u \in worktrees' /\ ~tasks'[u].open /\ tasks'[u].closedAt > tasks'[t].closedAt
        BY DEF Later
      <4>4. QED
        BY <4>1, <4>2, <4>3 DEF Later
    <3>4. IsFiniteSet(Later(v)')
      BY CalmThen, FS_Subset DEF Later
    <3>5. QED
      BY <3>2, <3>3, <3>4, Enough DEF Superseded
  <2>4. QED
    BY <2>2, <2>3
<1>4. ASSUME NEW u \in DOMAIN tasks PROVE RowFits(u)'
  <2>1. RowFits(u)
    BY CalmThen DEF Fits
  <2>2. tasks'[u].closedAt <= closings'
    BY <1>1, <1>2, <2>1 DEF RowFits
  <2>3. CASE u = t
    BY <1>1, <1>3, <2>2, <2>3 DEF RowFits
  <2>4. CASE u # t
    <3>1. tasks'[u] = tasks[u] /\ (u \in worktrees' <=> u \in worktrees)
      BY <1>1, <2>4
    <3>2. SaysReady(u)' <=> SaysReady(u)
      BY <1>1, <3>1 DEF SaysReady
    <3>3. QED
      BY <1>3, <2>1, <2>2, <3>1, <3>2 DEF RowFits
  <2>5. QED
    BY <2>3, <2>4
<1>5. ASSUME NEW n \in Messages PROVE CopyFits(n)'
  <2>1. CopyFits(n)
    BY CalmThen DEF Fits
  <2>2. CASE key[n] = t
    BY <1>1, <2>1, <2>2 DEF CopyFits
  <2>3. CASE key[n] # t
    BY <1>1, <2>1, <2>3, CalmThen DEF CopyFits
  <2>4. QED
    BY <2>2, <2>3
<1>6. ASSUME NEW d \in Commands PROVE ListFits(d)'
  <2>1. ASSUME NEW u \in DOMAIN doomed'[d]
        PROVE  /\ u \in DOMAIN tasks /\ doomed'[d][u].closedAt = tasks'[u].closedAt
               /\ tasks'[u].worktree \in {"ready", "pruned"}
               /\ Superseded(u)
    BY <1>1, <1>2, <2>1, CalmThen DEF Fits, ListFits
  <2>2. QED
    BY <1>3, <2>1 DEF ListFits
<1>7. QED
  BY <1>1, <1>4, <1>5, <1>6 DEF Fits

LEMMA PruneInvStep ==
  ASSUME Known, Agree, WorktreesKnown, PruneInv, [TaskNext]_lifecycleVars
  PROVE  PruneInv'
<1>1. IsFiniteSet(DOMAIN tasks') /\ LockHeld'
  BY TasksFinite, LockStep DEF PruneInv
<1>2. ASSUME NEW c \in Commands, commands'[c].pc \in {"idle", "closing"} PROVE ~commands'[c].again
  <2>1. CASE Close(c)
    BY <1>2, <2>1, CommandCloses DEF Known
  <2>2. CASE ~Close(c)
    <3>1. commands'[c].again = commands[c].again /\ commands[c].pc \in {"idle", "closing"}
      BY <1>2, <2>2, AgainSet
    <3>2. ~commands[c].again
      BY <3>1 DEF PruneInv
    <3>3. QED
      BY <3>1, <3>2
  <2>3. QED
    BY <2>1, <2>2
<1>3. ASSUME Calm' PROVE Fits'
  <2>1. CalmStep
    BY <1>3, CalmBefore DEF CalmStep
  <2>2. RowShapes
    BY StepRows DEF Known, Table, CopiesKnown
  <2>3. QED
    BY <2>1, <2>2, FitsStill, FitsRead, FitsAdd, FitsWrite, FitsInsert, FitsClose, FitsList, FitsPrune
       DEF RowShapes
<1>4. QED
  BY <1>1, <1>2, <1>3 DEF PruneInv

LEMMA PruneInvInit == TaskInit => PruneInv
<1> SUFFICES ASSUME TaskInit PROVE PruneInv
  OBVIOUS
<1>1. /\ tasks = Stored /\ closings = Cardinality(DOMAIN Stored)
      /\ worktrees = {t \in DOMAIN Stored : Stored[t].worktree = "ready"}
      /\ commands = [c \in Commands |-> NoCommand]
  BY DEF TaskInit, WorktreesInit
<1>2. \A m \in Messages : step[m] = "none"
  BY DEF TaskInit, WorktreesInit
<1>3. \A c \in Commands : DOMAIN doomed[c] = {}
  BY DEF TaskInit, WorktreesInit
<1>4. \A c \in Commands : ~commands[c].again
  BY <1>1 DEF NoCommand
<1>5. ASSUME NEW t \in DOMAIN tasks PROVE RowFits(t)
  BY <1>1, <1>2, StoredAssumption DEF RowFits, SaysReady, RowInHand
<1>6. \A m \in Messages : CopyFits(m)
  BY <1>2 DEF CopyFits, RowInHand
<1>7. \A c \in Commands : ListFits(c)
  BY <1>3 DEF ListFits
<1>8. IsFiniteSet(DOMAIN tasks) /\ LockHeld
  BY <1>1, <1>2, StoredAssumption DEF LockHeld
<1>9. QED
  BY <1>4, <1>5, <1>6, <1>7, <1>8 DEF PruneInv, Fits

\* A pruning takes no worktree of the Retention tasks closed last that have
\* theirs, although it goes by a list made before it had the lock, of rows that
\* may say "ready" of a worktree another pruning took; until a task is closed
\* twice or a row is written back late.
THEOREM PruneKeepsRecentAlways == TaskSpec => PruneKeepsRecent
<1> DEFINE Inv == Known /\ Agree /\ LookIsRecent /\ WorktreesKnown /\ PruneInv
<1>1. TaskInit => WorktreesKnown /\ LookIsRecent
  BY DEF TaskInit, WorktreesInit, WorktreesKnown, WorktreeOf, LookIsRecent, Looked, RowInHand
<1>2. TaskInit => Inv
  BY <1>1, KnownInit, AgreeInit, PruneInvInit
<1>3. Inv /\ [TaskNext]_lifecycleVars => Inv'
  BY KnownStep, AgreeStep, LookIsRecentStep, WorktreesKnownStep, PruneInvStep
<1>4. ASSUME Inv, [TaskNext]_lifecycleVars, NEW t \in worktrees \ worktrees', repoLock \in Commands,
             \A c \in Commands : ~commands[c].again, \A u \in Keys : ~Overtaken(u, RowInHand)
      PROVE  Superseded(t)
  <2>1. RowShapes
    BY <1>4, StepRows DEF Known, Table, CopiesKnown
  <2>2. ASSUME NEW c \in Commands, PruneStep(c) PROVE Superseded(t)
    <3>1. Calm
      BY <1>4 DEF Calm
    <3>2. UNCHANGED <<commands, overtaken, key>>
      BY <2>2 DEF PruneStep, vars
    <3>3. CalmStep
      BY <1>4, <3>1, <3>2 DEF CalmStep, Calm, Overtaken
    <3>4. PICK u \in DOMAIN tasks : Superseded(u) /\ worktrees \ {u} \subseteq worktrees'
      BY <2>2, <3>3, CalmPrune
    <3>5. QED
      BY <1>4, <3>4
  <2>3. ASSUME NEW m \in Messages, Adds(m) PROVE FALSE
    BY <1>4, <2>3, TaskActorsAssumption DEF Adds, At, PruneInv, LockHeld
  <2>4. ASSUME Still \/ \E m \in Messages : Reads(m) \/ Writes(m) PROVE FALSE
    BY <1>4, <2>4 DEF Still, rows, Reads, Writes
  <2>5. ASSUME NEW c \in Commands, CreateInsert(c) \/ Close(c) \/ PruneNeeded(c) PROVE FALSE
    BY <1>4, <2>5 DEF CreateInsert, Close, PruneNeeded
  <2>6. QED
    BY <2>1, <2>2, <2>3, <2>4, <2>5 DEF RowShapes
<1>5. Inv /\ [TaskNext]_lifecycleVars =>
         \A t \in worktrees \ worktrees' :
            repoLock \in Commands =>
               \/ Cardinality({u \in worktrees : ~tasks[u].open /\ tasks[u].closedAt > tasks[t].closedAt})
                      >= Retention
               \/ \E c \in Commands : commands[c].again
               \/ \E u \in Keys : Overtaken(u, RowInHand)
  BY <1>4 DEF Superseded, Later
<1>6. QED
  BY <1>2, <1>3, <1>5, PTL DEF TaskSpec, PruneKeepsRecent

-----------------------------------------------------------------------------
(* The service keeps its promises among task commands.  All a command does   *)
(* to the service's own state is to forget a binding; none of the promises   *)
(* but the one about the thread of a conversation looks at bindings.         *)

\* What the service's steps are known to preserve, the thread of a conversation
\* and the commands it does not have here left out.
ServiceInv ==
    /\ QueueInv /\ RestTypeOK
    /\ InFlightIsLive /\ CleanupOnceAfterTurn /\ AnswersOnTheirWay /\ CountInv /\ LetInInv

LEMMA ServiceInvInit == TaskInit => ServiceInv
BY QueueInvInit, RestTypeInit, InFlightInit, CleanupInit, AnswersInit, CountInit, LetInInit
   DEF TaskInit, ServiceInv

LEMMA ForgettingKeeps == ServiceInv /\ Forgets => ServiceInv'
<1> SUFFICES ASSUME ServiceInv, Forgets PROVE ServiceInv'
  OBVIOUS
<1> USE DEF ServiceInv, Forgets
<1>1. QueueInv'
  BY IdleKeeps
<1>2. RestTypeOK'
  BY DEF RestTypeOK, RegistryTypeOK, ServiceTypeOK
<1>3. InFlightIsLive' /\ CleanupOnceAfterTurn'
  BY DEF InFlightIsLive, CleanupOnceAfterTurn
<1>4. AnswersOnTheirWay' /\ LetInInv'
  BY DEF AnswersOnTheirWay, AnswerOnItsWay, LetInInv
<1>5. CountInv'
  BY DEF CountInv, Draining
<1>6. QED
  BY <1>1, <1>2, <1>3, <1>4, <1>5

LEMMA ServiceInvStep == ServiceInv /\ [TaskNext]_lifecycleVars => ServiceInv'
<1>1. ServiceInv /\ [Next]_vars => ServiceInv'
  BY QueueInvStep, RestTypeStep, InFlightStep, CleanupStep, AnswersStep, CountStep, OverStep
     DEF ServiceInv
<1>2. QED
  BY <1>1, ForgettingKeeps, ServiceStepOrForgets

\* Where the key of a message is a task, set-up takes worktrees and locks, and
\* commands create, close and forget tasks under way, the service keeps its
\* types; registers only live turns; removes the images of a message once, after
\* its turn; answers what it let in; and counts its drain goroutines.
THEOREM TasksKeepService ==
  TaskSpec => [](TypeOK /\ InFlightIsLive /\ CleanupOnceAfterTurn /\ NoSilentLoss /\ DrainsAreCounted)
<1>1. ServiceInv => TypeOK /\ InFlightIsLive /\ CleanupOnceAfterTurn
  BY DEF ServiceInv, QueueInv, RestTypeOK, TypeOK, WorkTypeOK
<1>2. ServiceInv => NoSilentLoss
  BY DEF ServiceInv, AnswersOnTheirWay, AnswerOnItsWay, NoSilentLoss
<1>3. ServiceInv => DrainsAreCounted
  BY DEF ServiceInv, CountInv, Draining, DrainsAreCounted
<1>4. QED
  BY <1>1, <1>2, <1>3, ServiceInvInit, ServiceInvStep, PTL DEF TaskSpec

\* Each task is served by one serial executor, whatever the commands do to it:
\* one message at a time, in the order of admission, also while it is closed,
\* pruned or forgotten.
THEOREM TasksImplementExecutor == TaskSpec => ImplementsExecutor
<1>1. ServiceInv /\ Forgets => ExStep
  <2> SUFFICES ASSUME ServiceInv, Forgets PROVE ExStep
    OBVIOUS
  <2>1. OverGrows
    BY DEF Forgets, OverGrows, IsOver, LetIn, LeavesForGood, SlotStates, Ended
  <2>2. UNCHANGED <<serving, line, over>>
    BY <2>1, IdleStutters DEF Forgets
  <2>3. QED
    BY <2>2 DEF ExStep, Executor!exVars, serving, line, over
<1>2. ServiceInv /\ [TaskNext]_lifecycleVars => ExStep
  BY <1>1, ExecutorStep, ServiceStepOrForgets DEF ServiceInv
<1>3. TaskInit => Executor!ExInit
  BY ExecutorInit DEF TaskInit
<1>4. TaskSpec => Executor!ExSpec
  BY <1>2, <1>3, ServiceInvInit, ServiceInvStep, PTL DEF TaskSpec, ExStep, Executor!ExSpec
<1>5. QED
  BY <1>4 DEF ImplementsExecutor

=============================================================================
