---------------------------- MODULE RuntimeProofs ----------------------------
(***************************************************************************)
(* The message service behaves inside the Discord runtime as MessageService*)
(* lets it behave: whatever is proved of Spec holds in the runtime, during *)
(* and after a shutdown.  On top of it: the wait group of the handlers is  *)
(* exact, and a shutdown that was not forced has lost nothing.             *)
(***************************************************************************)
EXTENDS RuntimeLifecycle, MessageTurnProofs

\* A step of the runtime is a step of the service, or leaves it alone.
LEMMA RuntimeStep == [RtNext]_allVars => [Next]_vars
<1> SUFFICES ASSUME [RtNext]_allVars PROVE [Next]_vars
  OBVIOUS
<1>1. ASSUME NEW e \in Events, BeginWork(e) \/ RefuseWork(e) \/ EndWork(e) PROVE UNCHANGED vars
  BY <1>1 DEF BeginWork, RefuseWork, EndWork
<1>2. ASSUME NEW m \in Messages, HandleMessage(m) \/ Serve(m) PROVE Next
  BY <1>2 DEF HandleMessage, Serve, Next
<1>3. ASSUME NEW s \in Stops, HandleStop(s) PROVE Next
  BY <1>3 DEF HandleStop, Next
<1>4. CASE Close
  <2>1. CASE CancelWork
    BY <2>1 DEF CancelWork, Next
  <2>2. CASE \/ BeginClose \/ WorkersDone \/ QueueDone \/ GraceExpires \/ ForcedWaitExpires
             \/ EndClose
    BY <2>2 DEF BeginClose, WorkersDone, QueueDone, GraceExpires, ForcedWaitExpires, EndClose
  <2>3. QED
    BY <1>4, <2>1, <2>2 DEF Close
<1>5. CASE Terminated \/ UNCHANGED allVars
  BY <1>5 DEF Terminated, allVars
<1>6. QED
  BY <1>1, <1>2, <1>3, <1>4, <1>5 DEF RtNext

\* The runtime (its handlers, its wait group and Close) restricts the service
\* and adds nothing to it.
THEOREM RuntimeImplementsService == RtSpec => Spec
<1>1. RtInit => Init
  BY DEF RtInit
<1>2. QED
  BY <1>1, RuntimeStep, PTL DEF RtSpec, Spec

\* In particular no conversation has two turns, and all its answers come from
\* one Codex thread, while the process shuts down as at any other time.
THEOREM RuntimeKeepsConversations ==
    RtSpec => []OneTurnPerKey /\ []OneThreadPerConversation
<1>1. QED
  BY RuntimeImplementsService, OneTurnPerKeyAlways, OneThreadAlways, PTL

-----------------------------------------------------------------------------
(* Handlers *)

Live == {e \in Events : handler[e] = "live"}

\* An event without a handler did nothing, and a handler that is gone left a
\* message answered, or acknowledged and in the care of a drain goroutine.
Settled(m) == IF queued[m] THEN ack[m] = "shown" ELSE pc[m] = "done"

HandlerInv ==
    /\ handler \in [Events -> {"none", "live", "gone", "refused"}]
    /\ IsFiniteSet(Live)
    /\ workers = Cardinality(Live)
    /\ \A m \in Messages : handler[m] \in {"none", "refused"} => pc[m] = "new"
    /\ \A m \in Messages : handler[m] = "gone" => Settled(m)

\* What the rest takes from the service.
ServiceInv == QueueInv /\ TypeOK /\ CountInv /\ AnswersOnTheirWay

LEMMA ServiceInvAlways == RtSpec => []ServiceInv
BY RuntimeImplementsService, QueueInvAlways, TypeOKAlways, CountAlways, AnswersAlways, PTL DEF ServiceInv

\* Only its own handler takes a message from where it starts.
LEMMA NewIsLeft ==
  ASSUME ServiceInv, NEW m \in Messages, pc[m] = "new", NEW n \in Messages, Serve(n)
  PROVE  pc'[m] = "new"
<1> USE DEF Goto, work, shared
<1>1. /\ pc \in [Messages -> States]
      /\ \A x \in Messages : pc[x] = "completing" /\ Waiting(key[x]) # <<>> =>
             pc[Head(Waiting(key[x]))] = "waiting"
  BY HeadWaits DEF ServiceInv, QueueInv
<1>2. CASE Admission(n) \/ RegisterInFlight(n) \/ SettingUp(n) \/ Loading(n) \/ TurnCanceled(n)
  BY <1>1, <1>2 DEF Admission, HandleExecuteNow, HandleQueued, HandleQueueFull, RegisterInFlight,
     SettingUp, SetUp, SetUpRefused, SetUpFails, Return, Loading, StartTurn, LoadBindingFails, TurnCanceled
<1>3. CASE Turn(n) \/ Persisting(n) \/ Unregister(n) \/ Delivering(n) \/ Responding(n) \/ PresentAck(n)
  BY <1>1, <1>3 DEF Turn, TurnSucceeds, TurnFails, Persisting, PersistBinding, PersistFails, Return,
     Unregister, Delivering, DropDeferred, CheckDeferred, SendDeferred, Responding, Respond, RespondFails,
     PresentAck
<1>4. CASE Completing(n)
  BY <1>1, <1>4 DEF Completing, CompleteAndDrain, CompleteAndRelease, CompleteNext
<1>5. QED
  BY <1>2, <1>3, <1>4 DEF Serve, Process

\* What was done for a message stays done.
LEMMA SettledStays ==
  ASSUME ServiceInv, [Next]_vars, NEW m \in Messages, Settled(m)
  PROVE  Settled(m)'
<1> USE DEF work, shared
<1>1. /\ pc \in [Messages -> States] /\ queued \in [Messages -> BOOLEAN]
      /\ ack \in [Messages -> {"none", "pending", "shown"}]
  BY DEF ServiceInv, TypeOK, WorkTypeOK
<1>2. \/ UNCHANGED <<queued, ack>>
      \/ \E n \in Messages : HandleQueued(n) \/ PresentAck(n)
  BY DEF Next, Arrive, HandleUnadmitted, PrepareMessage, Process, Admission, HandleExecuteNow,
     HandleQueueFull, RegisterInFlight, SettingUp, SetUp, SetUpRefused, SetUpFails, Return, Loading,
     StartTurn, LoadBindingFails, TurnCanceled, Persisting, PersistBinding, PersistFails, Unregister,
     Delivering, DropDeferred, CheckDeferred, SendDeferred, Completing, CompleteAndDrain,
     CompleteAndRelease, Responding, Respond, RespondFails, Turn, TurnSucceeds, TurnFails, Stopping,
     StopUnresolved, StopDropQueued, StopInFlight, CancelLifecycle, Quiet, vars
<1>3. pc[m] = "done" => pc'[m] = "done"
  <2> SUFFICES ASSUME pc[m] = "done" PROVE pc'[m] = "done"
    OBVIOUS
  <2>1. Shape
    BY StepShapes
  <2>2. ASSUME NEW n \in Messages, Aside(n) \/ Resolve(n) \/ Seize(n) \/ LineUp(n) \/ GoOn(n) \/ GiveUp(n)
        PROVE  pc'[m] = "done"
    BY <1>1, <2>2 DEF Aside, Resolve, Seize, LineUp, GoOn, GiveUp, SlotStates
  <2>3. ASSUME NEW n \in Messages, HandOver(n) PROVE pc'[m] = "done"
    BY <1>1, <2>3, HeadWaits DEF HandOver, CompleteNext, ServiceInv
  <2>4. ASSUME NEW k \in Keys, Sweep(k) PROVE pc'[m] = "done"
    BY <1>1, <2>4, ListedMessagesWait DEF Sweep, ServiceInv
  <2>5. QED
    BY <2>1, <2>2, <2>3, <2>4 DEF Shape
<1>4. CASE UNCHANGED <<queued, ack>>
  BY <1>3, <1>4 DEF Settled
<1>5. ASSUME NEW n \in Messages, HandleQueued(n) PROVE Settled(m)'
  <2>1. n # m
    BY <1>5 DEF HandleQueued, Goto, Settled, ServiceInv, CountInv
  <2>2. QED
    BY <1>1, <1>3, <1>5, <2>1 DEF HandleQueued, Settled
<1>6. ASSUME NEW n \in Messages, PresentAck(n) PROVE Settled(m)'
  BY <1>1, <1>3, <1>6 DEF PresentAck, Settled
<1>7. QED
  BY <1>2, <1>4, <1>5, <1>6

LEMMA HandlerInvInit == RtInit => HandlerInv
<1> SUFFICES ASSUME RtInit PROVE HandlerInv
  OBVIOUS
<1>1. handler = [e \in Events |-> "none"] /\ workers = 0 /\ pc = [m \in Messages |-> "new"]
  BY DEF RtInit, Init
<1>2. Live = {}
  BY <1>1 DEF Live
<1>3. QED
  BY <1>1, <1>2, FS_EmptySet DEF HandlerInv, Events

LEMMA HandlerInvStep == ServiceInv /\ HandlerInv /\ [RtNext]_allVars => HandlerInv'
<1> SUFFICES ASSUME ServiceInv, HandlerInv, [RtNext]_allVars PROVE HandlerInv'
  OBVIOUS
<1>1. /\ handler \in [Events -> {"none", "live", "gone", "refused"}]
      /\ IsFiniteSet(Live) /\ workers = Cardinality(Live)
      /\ Messages \subseteq Events
  BY DEF HandlerInv, Events
<1>2. ASSUME UNCHANGED rtVars, [Next]_vars,
             \A m \in Messages : handler[m] \in {"none", "refused"} => pc'[m] = "new"
      PROVE  HandlerInv'
  <2>1. Live' = Live
    BY <1>2 DEF Live, rtVars
  <2>2. QED
    BY <1>2, <2>1, SettledStays DEF HandlerInv, rtVars
<1>3. ASSUME NEW e \in Events, BeginWork(e) PROVE HandlerInv'
  <2>1. /\ handler[e] = "none" /\ handler' = [handler EXCEPT ![e] = "live"]
        /\ workers' = workers + 1 /\ UNCHANGED vars
    BY <1>3 DEF BeginWork
  <2>2. Live' = Live \cup {e} /\ e \notin Live
    BY <1>1, <2>1 DEF Live
  <2>3. IsFiniteSet(Live') /\ workers' = Cardinality(Live')
    BY <1>1, <2>1, <2>2, FS_AddElement
  <2>4. QED
    BY <1>1, <2>1, <2>3 DEF HandlerInv, Settled, vars
<1>4. ASSUME NEW e \in Events, RefuseWork(e) PROVE HandlerInv'
  <2>1. /\ handler[e] = "none" /\ handler' = [handler EXCEPT ![e] = "refused"]
        /\ UNCHANGED workers /\ UNCHANGED vars
    BY <1>4 DEF RefuseWork
  <2>2. Live' = Live
    BY <1>1, <2>1 DEF Live
  <2>3. QED
    BY <1>1, <2>1, <2>2 DEF HandlerInv, Settled, vars
<1>5. ASSUME NEW e \in Events, EndWork(e) PROVE HandlerInv'
  <2>1. /\ handler[e] = "live" /\ handler' = [handler EXCEPT ![e] = "gone"]
        /\ workers' = workers - 1 /\ UNCHANGED vars /\ Answered(e)
    BY <1>5 DEF EndWork
  <2>2. Live' = Live \ {e} /\ e \in Live
    BY <1>1, <2>1 DEF Live
  <2>3. IsFiniteSet(Live') /\ workers' = Cardinality(Live')
    BY <1>1, <2>1, <2>2, FS_RemoveElement
  <2>4. e \in Messages => Settled(e)
    BY <2>1, StopsAssumption DEF Answered, Settled
  <2>5. QED
    BY <1>1, <2>1, <2>3, <2>4 DEF HandlerInv, Settled, vars
<1>6. ASSUME NEW n \in Messages, HandleMessage(n) PROVE HandlerInv'
  <2>1. handler[n] = "live" /\ UNCHANGED rtVars /\ [Next]_vars
    BY <1>6 DEF HandleMessage, Next
  <2>2. \A m \in Messages \ {n} : pc'[m] = pc[m]
    BY <1>6 DEF HandleMessage, Arrive, HandleUnadmitted, PrepareMessage, Goto, ServiceInv, QueueInv
  <2>3. QED
    BY <1>2, <2>1, <2>2 DEF HandlerInv
<1>7. ASSUME NEW n \in Messages, Serve(n) PROVE HandlerInv'
  <2>1. UNCHANGED rtVars /\ [Next]_vars
    BY <1>7 DEF Serve, Next
  <2>2. QED
    BY <1>2, <1>7, <2>1, NewIsLeft DEF HandlerInv
<1>8. ASSUME NEW s \in Stops, HandleStop(s) PROVE HandlerInv'
  <2>1. UNCHANGED rtVars /\ [Next]_vars
    BY <1>8 DEF HandleStop, Next
  <2>2. ASSUME NEW m \in Messages, pc[m] = "new" PROVE pc'[m] = "new"
    BY <1>8, <2>2, ListedMessagesWait DEF HandleStop, Stopping, StopUnresolved, StopDropQueued,
       StopInFlight, ServiceInv, QueueInv
  <2>3. QED
    BY <1>2, <2>1, <2>2 DEF HandlerInv
<1>9. CASE Close
  <2>1. UNCHANGED <<handler, workers, pc, queued, ack>>
    BY <1>9 DEF Close, BeginClose, WorkersDone, QueueDone, GraceExpires, CancelWork, CancelLifecycle,
       ForcedWaitExpires, EndClose, vars, work
  <2>2. Live' = Live
    BY <2>1 DEF Live
  <2>3. QED
    BY <2>1, <2>2 DEF HandlerInv, Settled
<1>10. CASE Terminated \/ UNCHANGED allVars
  <2>1. UNCHANGED <<handler, workers, pc, queued, ack>>
    BY <1>10 DEF Terminated, allVars, rtVars, vars
  <2>2. Live' = Live
    BY <2>1 DEF Live
  <2>3. QED
    BY <2>1, <2>2 DEF HandlerInv, Settled
<1>11. QED
  BY <1>3, <1>4, <1>5, <1>6, <1>7, <1>8, <1>9, <1>10 DEF RtNext

-----------------------------------------------------------------------------
(* Close *)

\* New work is let in only before Close; past the wait for the handlers none
\* of them is left, unless a time limit ended the wait.
CloseInv ==
    /\ phase \in Phases
    /\ open \in BOOLEAN /\ closing \in BOOLEAN /\ expired \in BOOLEAN
    /\ open /\ ~closing => phase = "up"
    /\ phase \in {"graceQueue", "forcedQueue", "drained"} => Live = {}
    /\ phase \in {"ending", "closed"} /\ ~expired => Live = {}
    /\ phase \in {"expired", "forcedWorkers", "forcedQueue"} => expired
    /\ canceled => expired \/ phase \in {"ending", "closed"}

LEMMA CloseInvInit == RtInit => CloseInv
BY DEF RtInit, Init, CloseInv, Phases

LEMMA CloseInvStep == ServiceInv /\ HandlerInv /\ CloseInv /\ [RtNext]_allVars => CloseInv'
<1> SUFFICES ASSUME ServiceInv, HandlerInv, CloseInv, [RtNext]_allVars PROVE CloseInv'
  OBVIOUS
<1>1. ASSUME UNCHANGED <<open, closing, phase, expired, canceled>>, Live' \subseteq Live PROVE CloseInv'
  BY <1>1 DEF CloseInv
<1>2. ASSUME NEW e \in Events, BeginWork(e) PROVE CloseInv'
  <2>1. UNCHANGED <<open, closing, phase, expired, canceled>> /\ open /\ ~closing
    BY <1>2 DEF BeginWork, vars
  <2>2. QED
    BY <2>1 DEF CloseInv
<1>3. ASSUME NEW e \in Events, RefuseWork(e) \/ EndWork(e) PROVE CloseInv'
  <2>1. UNCHANGED <<open, closing, phase, expired, canceled>>
    BY <1>3 DEF RefuseWork, EndWork, vars
  <2>2. Live' \subseteq Live
    BY <1>3 DEF RefuseWork, EndWork, Live, HandlerInv
  <2>3. QED
    BY <1>1, <2>1, <2>2
<1>4. CASE \/ \E m \in Messages : HandleMessage(m) \/ Serve(m)
           \/ \E s \in Stops : HandleStop(s)
           \/ Terminated \/ UNCHANGED allVars
  <2>1. UNCHANGED rtVars
    BY <1>4 DEF HandleMessage, Serve, HandleStop, Terminated, allVars
  <2>2. UNCHANGED canceled
    BY <1>4, Zenon DEF HandleMessage, Serve, HandleStop, Arrive, HandleUnadmitted, PrepareMessage,
       Process, Admission, HandleExecuteNow, HandleQueued, HandleQueueFull, RegisterInFlight, SettingUp,
       SetUp, SetUpRefused, SetUpFails, Return, Loading, StartTurn, LoadBindingFails, TurnCanceled,
       Persisting, PersistBinding, PersistFails, Unregister, Delivering, DropDeferred, CheckDeferred,
       SendDeferred, Completing, CompleteAndDrain, CompleteAndRelease, Responding, Respond, RespondFails,
       Turn, TurnSucceeds, TurnFails, PresentAck, Stopping, StopUnresolved, StopDropQueued, StopInFlight,
       Terminated, allVars, vars, shared, work
  <2>3. Live' = Live
    BY <2>1 DEF Live, rtVars
  <2>4. QED
    BY <1>1, <2>1, <2>2, <2>3 DEF rtVars
<1>5. CASE Close
  <2>1. UNCHANGED <<handler, workers>> /\ Live' = Live
    BY <1>5 DEF Close, BeginClose, WorkersDone, QueueDone, GraceExpires, CancelWork, ForcedWaitExpires,
       EndClose, Live
  <2>2. workers = 0 => Live = {}
    BY FS_EmptySet DEF HandlerInv
  <2>a. canceled \in BOOLEAN
    BY DEF ServiceInv, TypeOK, ServiceTypeOK
  <2>b. UNCHANGED vars => UNCHANGED canceled
    BY DEF vars
  <2>3. CASE BeginClose \/ WorkersDone
    <3>1. UNCHANGED <<open, expired>> /\ UNCHANGED canceled /\ open' \in BOOLEAN /\ closing' \in BOOLEAN
      BY <2>3, <2>b DEF BeginClose, WorkersDone, CloseInv
    <3>2. \/ phase' = "graceWorkers"
          \/ phase' = "graceQueue" /\ Live = {}
          \/ phase' = "forcedQueue" /\ Live = {} /\ expired
      BY <2>2, <2>3 DEF BeginClose, WorkersDone, CloseInv
    <3>3. ~(open' /\ ~closing')
      BY <2>3 DEF BeginClose, WorkersDone, CloseInv
    <3>4. canceled => expired
      BY <2>3 DEF BeginClose, WorkersDone, CloseInv
    <3>5. QED
      BY <2>1, <2>a, <3>1, <3>2, <3>3, <3>4 DEF CloseInv, Phases
  <2>4. CASE QueueDone \/ GraceExpires
    <3>1. UNCHANGED <<open, closing>> /\ expired' \in BOOLEAN
      BY <2>4 DEF QueueDone, GraceExpires, CloseInv
    <3>2. UNCHANGED canceled
      BY <2>4, <2>b DEF QueueDone, GraceExpires
    <3>3. \/ phase' = "expired" /\ expired'
          \/ phase' \in {"drained", "ending"} /\ Live = {} /\ UNCHANGED expired
      BY <2>4 DEF QueueDone, GraceExpires, CloseInv
    <3>4. ~(open /\ ~closing) /\ (canceled => expired)
      BY <2>4 DEF QueueDone, GraceExpires, CloseInv
    <3>5. QED
      BY <2>1, <2>a, <3>1, <3>2, <3>3, <3>4 DEF CloseInv, Phases
  <2>5. CASE CancelWork
    BY <2>1, <2>5 DEF CancelWork, CloseInv, Phases
  <2>6. CASE ForcedWaitExpires \/ EndClose
    <3>1. UNCHANGED expired /\ open' \in BOOLEAN /\ closing' \in BOOLEAN
      BY <2>6 DEF ForcedWaitExpires, EndClose, CloseInv
    <3>2. phase' \in {"ending", "closed"}
      BY <2>6 DEF ForcedWaitExpires, EndClose
    <3>3. ~(open' /\ ~closing')
      BY <2>6 DEF ForcedWaitExpires, EndClose, CloseInv
    <3>4. ~expired => Live = {}
      BY <2>6 DEF ForcedWaitExpires, EndClose, CloseInv
    <3>5. QED
      BY <3>1, <3>2, <3>3, <3>4, <2>1 DEF CloseInv, Phases
  <2>7. QED
    BY <1>5, <2>3, <2>4, <2>5, <2>6 DEF Close
<1>6. QED
  BY <1>2, <1>3, <1>4, <1>5 DEF RtNext

LEMMA RuntimeInvAlways == RtSpec => [](HandlerInv /\ CloseInv)
BY ServiceInvAlways, HandlerInvInit, HandlerInvStep, CloseInvInit, CloseInvStep, PTL DEF RtSpec

\* The wait group of the handlers counts the handlers at work: it never
\* becomes negative.
THEOREM RtTypeOKAlways == RtSpec => []RtTypeOK
<1>1. HandlerInv /\ CloseInv => RtTypeOK
  BY DEF HandlerInv, CloseInv, Live, RtTypeOK
<1>2. QED
  BY <1>1, RuntimeInvAlways, PTL

-----------------------------------------------------------------------------
(* What the two waits mean *)

\* A turn on a handler's goroutine has its handler.
LEMMA HandlersServe ==
  ASSUME ServiceInv, HandlerInv, Live = {}, NEW m \in Messages, ~queued[m]
  PROVE  pc[m] \in {"new", "done"}
<1>1. handler[m] \in {"none", "gone", "refused"}
  BY DEF HandlerInv, Live, Events
<1>2. QED
  BY <1>1 DEF HandlerInv, Settled

\* The wait group of the drain goroutines only falls while Close waits for it:
\* nothing but a handler's Complete starts one, and no handler is left.
THEOREM WaitedGroupNeverGrowsAlways == RtSpec => WaitedGroupNeverGrows
<1>1. ASSUME ServiceInv, HandlerInv, CloseInv, [RtNext]_allVars
      PROVE  [(phase \in {"graceQueue", "forcedQueue", "drained"}) => queueWG' <= queueWG]_allVars
  <2> SUFFICES ASSUME phase \in {"graceQueue", "forcedQueue", "drained"} PROVE queueWG' <= queueWG
    OBVIOUS
  <2>1. Live = {} /\ queueWG \in Int
    BY <1>1 DEF CloseInv, ServiceInv, TypeOK, ServiceTypeOK
  <2>2. \/ UNCHANGED queueWG
        \/ \E m \in Messages : Completing(m)
    BY RuntimeStep, <1>1 DEF Next, Arrive, HandleUnadmitted, PrepareMessage, Process, Admission,
       HandleExecuteNow, HandleQueued, HandleQueueFull, RegisterInFlight, SettingUp, SetUp, SetUpRefused,
       SetUpFails, Return, Loading, StartTurn, LoadBindingFails, TurnCanceled, Persisting, PersistBinding,
       PersistFails, Unregister, Delivering, DropDeferred, CheckDeferred, SendDeferred, Responding,
       Respond, RespondFails, Turn, TurnSucceeds, TurnFails, PresentAck, Stopping, StopUnresolved,
       StopDropQueued, StopInFlight, CancelLifecycle, Quiet, vars, shared, work
  <2>3. ASSUME NEW m \in Messages, Completing(m) PROVE queueWG' <= queueWG
    <3>1. pc[m] = "completing"
      BY <2>3 DEF Completing, CompleteAndDrain, CompleteAndRelease, Goto
    <3>2. queued[m]
      BY <1>1, <2>1, <3>1, HandlersServe
    <3>3. QED
      BY <2>1, <2>3, <3>2 DEF Completing, CompleteAndDrain, CompleteAndRelease
  <2>4. QED
    BY <2>1, <2>2, <2>3
<1>2. QED
  BY <1>1, ServiceInvAlways, RuntimeInvAlways, PTL DEF RtSpec, WaitedGroupNeverGrows

\* Neither a handler nor a drain goroutine is left: nothing is under way.
LEMMA BothWaited ==
  ASSUME ServiceInv, HandlerInv, CloseInv, Live = {}, queueWG = 0, ~canceled, NEW m \in Messages
  PROVE  pc[m] \in {"new"} \cup Ended /\ (pc[m] = "done" /\ key[m] # None => reply[m] # "none")
<1>1. \A n \in Messages : pc[n] \notin SlotStates
  <2>1. Draining = {}
    BY FS_EmptySet DEF ServiceInv, CountInv
  <2>2. ASSUME NEW n \in Messages, pc[n] \in SlotStates PROVE FALSE
    BY <2>1, <2>2, HandlersServe DEF Draining, SlotStates
  <2>3. QED
    BY <2>2
<1>2. DOMAIN entries = {}
  BY <1>1 DEF ServiceInv, QueueInv, EveryEntryOwned, Holders, Holds
<1>3. pc[m] # "waiting"
  BY <1>2 DEF ServiceInv, QueueInv, WaitersListed
<1>4. pc[m] \in {"new"} \cup Ended
  BY <1>1, <1>3, HandlersServe DEF ServiceInv, CountInv, QueueInv, States, Ended
<1>5. QED
  BY <1>4 DEF ServiceInv, AnswersOnTheirWay, AnswerOnItsWay

DrainedInv == phase \in {"drained", "ending", "closed"} /\ ~expired =>
    \A m \in Messages :
        pc[m] \in {"new"} \cup Ended /\ (pc[m] = "done" /\ key[m] # None => reply[m] # "none")

LEMMA DrainedInvStep ==
  ServiceInv /\ HandlerInv /\ CloseInv /\ DrainedInv /\ [RtNext]_allVars => DrainedInv'
<1> SUFFICES ASSUME ServiceInv, HandlerInv, CloseInv, DrainedInv, [RtNext]_allVars,
                    phase' \in {"drained", "ending", "closed"}, ~expired'
             PROVE  \A m \in Messages :
                       /\ pc'[m] \in {"new"} \cup Ended
                       /\ pc'[m] = "done" /\ key'[m] # None => reply'[m] # "none"
  BY DEF DrainedInv
<1> DEFINE Goal == \A m \in Messages :
                       /\ pc'[m] \in {"new"} \cup Ended
                       /\ pc'[m] = "done" /\ key'[m] # None => reply'[m] # "none"
<1>1. ASSUME UNCHANGED <<pc, key, reply, phase, expired>> PROVE Goal
  BY <1>1 DEF DrainedInv
<1>2. ASSUME NEW e \in Events, BeginWork(e) \/ RefuseWork(e) \/ EndWork(e) PROVE Goal
  BY <1>1, <1>2 DEF BeginWork, RefuseWork, EndWork, vars
<1>3. ASSUME UNCHANGED <<phase, expired>> PROVE Live = {} /\ \A m \in Messages : pc[m] \in {"new"} \cup Ended
  BY <1>3 DEF CloseInv, DrainedInv
<1>4. ASSUME NEW m \in Messages, HandleMessage(m) PROVE Goal
  BY <1>3, <1>4 DEF HandleMessage, rtVars, Live, Events
<1>5. ASSUME NEW s \in Stops, HandleStop(s) PROVE Goal
  BY <1>3, <1>5 DEF HandleStop, rtVars, Live, Events
<1>6. ASSUME NEW m \in Messages, Serve(m) PROVE Goal
  <2>1. UNCHANGED <<phase, expired>> /\ pc[m] \in {"new", "done", "dropped"}
    BY <1>3, <1>6 DEF Serve, rtVars, Ended
  <2>2. PresentAck(m)
    BY <1>6, <2>1 DEF Serve, Process, Admission, HandleExecuteNow, HandleQueued, HandleQueueFull,
       RegisterInFlight, SettingUp, SetUp, SetUpRefused, SetUpFails, Return, Loading, StartTurn,
       LoadBindingFails, TurnCanceled, Persisting, PersistBinding, PersistFails, Unregister, Delivering,
       DropDeferred, CheckDeferred, SendDeferred, Completing, CompleteAndDrain, CompleteAndRelease,
       Responding, Respond, RespondFails, Turn, TurnSucceeds, TurnFails, Goto
  <2>3. QED
    BY <1>1, <2>1, <2>2 DEF PresentAck
<1>7. CASE QueueDone
  <2>1. /\ UNCHANGED <<pc, key, reply, expired>> /\ queueWG = 0
        /\ phase \in {"graceQueue", "forcedQueue"}
    BY <1>7 DEF QueueDone, vars
  <2>2. Live = {} /\ ~canceled
    BY <2>1 DEF CloseInv
  <2>3. QED
    BY <2>1, <2>2, BothWaited
<1>8. CASE CancelWork \/ EndClose
  BY <1>8 DEF CancelWork, CancelLifecycle, EndClose, DrainedInv, CloseInv, vars, work
<1>9. CASE BeginClose \/ WorkersDone \/ GraceExpires \/ ForcedWaitExpires
  BY <1>9 DEF BeginClose, WorkersDone, GraceExpires, ForcedWaitExpires, CloseInv
<1>10. CASE Terminated \/ UNCHANGED allVars
  BY <1>1, <1>10 DEF Terminated, allVars, rtVars, vars
<1>11. QED
  BY <1>2, <1>4, <1>5, <1>6, <1>7, <1>8, <1>9, <1>10 DEF RtNext, Close

\* A shutdown that was not forced has finished all it had let in: no handler,
\* no slot and no waiting message is left, and every message has its reply.
THEOREM GracefulDrainIsCompleteAlways == RtSpec => []GracefulDrainIsComplete
<1>1. RtInit => DrainedInv
  BY DEF RtInit, DrainedInv
<1>2. ASSUME ServiceInv, HandlerInv, CloseInv, DrainedInv PROVE GracefulDrainIsComplete
  <2> SUFFICES ASSUME phase \in {"drained", "ending", "closed"}, ~expired
               PROVE  /\ DOMAIN entries = {}
                      /\ \A m \in Messages : handler[m] \in {"live", "gone"} =>
                            /\ handler[m] = "gone"
                            /\ pc[m] \in Ended
                            /\ (pc[m] = "done" /\ key[m] # None => reply[m] # "none")
    BY DEF GracefulDrainIsComplete
  <2>1. \A m \in Messages : pc[m] \in {"new"} \cup Ended
    BY <1>2 DEF DrainedInv
  <2>2. DOMAIN entries = {}
    BY <1>2, <2>1 DEF ServiceInv, QueueInv, EveryEntryOwned, Holders, Holds, SlotStates, Ended
  <2>3. Live = {}
    BY <1>2 DEF CloseInv
  <2>4. ASSUME NEW m \in Messages, handler[m] \in {"live", "gone"} PROVE handler[m] = "gone" /\ pc[m] # "new"
    BY <1>2, <2>3, <2>4 DEF Live, Events, HandlerInv, Settled, ServiceInv, CountInv
  <2>5. QED
    BY <1>2, <2>1, <2>2, <2>4 DEF DrainedInv
<1>3. QED
  BY <1>1, <1>2, DrainedInvStep, ServiceInvAlways, RuntimeInvAlways, PTL DEF RtSpec

=============================================================================
