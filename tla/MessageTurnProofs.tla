-------------------------- MODULE MessageTurnProofs --------------------------
(***************************************************************************)
(* Proofs about MessageService beyond its queue: the type invariant, what  *)
(* is registered for /stop, the Codex thread of a conversation, the images *)
(* and the answer of a message, and the wait group of drain goroutines.    *)
(* They rest on the queue's invariant, above all on the exclusive slot.    *)
(* At the end the service is shown to implement the serial executor.       *)
(***************************************************************************)
EXTENDS MessageServiceProofs, FiniteSetTheorems

-----------------------------------------------------------------------------
(* Types *)

\* TypeOK without what the queue's invariant already says.
RestTypeOK ==
    /\ queued \in [Messages -> BOOLEAN]
    /\ ack \in [Messages -> {"none", "pending", "shown"}]
    /\ thread \in [Messages -> Threads \cup {None}]
    /\ outcome \in [Messages -> Outcomes]
    /\ stopped \in [Messages -> BOOLEAN]
    /\ cleanups \in [Messages -> Nat]
    /\ reply \in [Messages -> Replies]
    /\ RegistryTypeOK
    /\ ServiceTypeOK

LEMMA RestTypeInit == Init => RestTypeOK
<1> SUFFICES ASSUME Init PROVE RestTypeOK
  OBVIOUS
<1>1. /\ queued \in [Messages -> BOOLEAN]
      /\ ack \in [Messages -> {"none", "pending", "shown"}]
      /\ thread \in [Messages -> Threads \cup {None}]
      /\ stopped \in [Messages -> BOOLEAN]
      /\ cleanups \in [Messages -> Nat]
  BY DEF Init
<1>2. outcome \in [Messages -> Outcomes] /\ reply \in [Messages -> Replies]
  BY DEF Init, Outcomes, Replies
<1>3. RegistryTypeOK
  BY DEF Init, RegistryTypeOK
<1>4. NoStop \in StopStates
  BY DEF NoStop, StopStates
<1>5. stops \in [Stops -> StopStates]
  BY <1>4 DEF Init
<1>6. ServiceTypeOK
  <2>1. binding = [k \in Keys |-> None] /\ queueWG = 0 /\ canceled = FALSE
    BY DEF Init
  <2>2. canceled \in BOOLEAN
    BY <2>1, Zenon
  <2>3. binding \in [Keys -> Threads \cup {None}] /\ queueWG \in Int
    BY <2>1
  <2>4. QED
    BY <1>5, <2>2, <2>3 DEF ServiceTypeOK
<1>7. QED
  BY <1>1, <1>2, <1>3, <1>6 DEF RestTypeOK

\* One step per action; a step that sets a variable sets it to a typed value.
LEMMA RestTypeStep == QueueInv /\ RestTypeOK /\ [Next]_vars => RestTypeOK'
<1> SUFFICES ASSUME QueueInv, RestTypeOK, [Next]_vars PROVE RestTypeOK'
  OBVIOUS
<1> USE DEF RestTypeOK, work, shared
<1>a. UNCHANGED inFlight => (RegistryTypeOK <=> RegistryTypeOK')
  BY DEF RegistryTypeOK
<1>b. UNCHANGED <<binding, queueWG, canceled, stops>> => (ServiceTypeOK <=> ServiceTypeOK')
  BY DEF ServiceTypeOK
<1>c. ASSUME NEW m \in Messages, NEW o \in Outcomes, Outcome(m, o)
      PROVE  outcome' \in [Messages -> Outcomes]
  BY <1>c DEF Outcome
<1>d. ASSUME NEW m \in Messages, RunCleanup(m) PROVE cleanups' \in [Messages -> Nat]
  BY <1>d DEF RunCleanup
<1>1. ASSUME NEW m \in Messages, Arrive(m) PROVE RestTypeOK'
  <2>1. CASE HandleUnadmitted(m)
    BY <1>a, <1>b, <1>c, <1>d, <2>1 DEF HandleUnadmitted, Outcomes
  <2>2. CASE PrepareMessage(m)
    BY <1>a, <1>b, <2>2 DEF PrepareMessage
  <2>3. QED
    BY <1>1, <2>1, <2>2 DEF Arrive
<1>2. ASSUME NEW m \in Messages, Admission(m) PROVE RestTypeOK'
  <2>1. CASE HandleExecuteNow(m)
    BY <1>a, <1>b, <2>1 DEF HandleExecuteNow
  <2>2. CASE HandleQueued(m)
    BY <1>a, <1>b, <2>2 DEF HandleQueued
  <2>3. CASE HandleQueueFull(m)
    BY <1>a, <1>b, <1>c, <1>d, <2>3 DEF HandleQueueFull, Outcomes
  <2>4. QED
    BY <1>2, <2>1, <2>2, <2>3 DEF Admission
<1>3. ASSUME NEW m \in Messages, RegisterInFlight(m) PROVE RestTypeOK'
  <2>1. key[m] \in Keys /\ inFlight' = Put(inFlight, key[m], m)
    BY <1>3 DEF RegisterInFlight, Goto, QueueInv, KeysKnown, SlotStates
  <2>2. RegistryTypeOK'
    BY <2>1 DEF RegistryTypeOK, Put
  <2>3. QED
    BY <1>3, <1>b, <2>2 DEF RegisterInFlight
<1>4. ASSUME NEW m \in Messages, NEW from, NEW o \in Outcomes, Return(m, from, o)
      PROVE  RestTypeOK'
  BY <1>4, <1>a, <1>b, <1>c, <1>d DEF Return
<1>5. ASSUME NEW m \in Messages, SettingUp(m) PROVE RestTypeOK'
  <2>1. CASE SetUp(m)
    BY <1>a, <1>b, <2>1 DEF SetUp
  <2>2. CASE SetUpRefused(m) \/ SetUpFails(m)
    BY <1>4, <2>2 DEF SetUpRefused, SetUpFails, Outcomes
  <2>3. QED
    BY <1>5, <2>1, <2>2 DEF SettingUp
<1>6. ASSUME NEW m \in Messages, Loading(m) PROVE RestTypeOK'
  <2>1. CASE StartTurn(m)
    <3>1. binding[key[m]] \in Threads \cup {None}
      BY <2>1 DEF StartTurn, Goto, QueueInv, KeysKnown, SlotStates, ServiceTypeOK
    <3>2. QED
      BY <1>a, <1>b, <2>1, <3>1 DEF StartTurn
  <2>2. CASE LoadBindingFails(m)
    BY <1>4, <2>2 DEF LoadBindingFails, Outcomes
  <2>3. QED
    BY <1>6, <2>1, <2>2 DEF Loading
<1>7. ASSUME NEW m \in Messages, Turn(m) \/ TurnCanceled(m) PROVE RestTypeOK'
  <2>1. CASE TurnSucceeds(m)
    BY <1>a, <1>b, <2>1 DEF TurnSucceeds, Threads
  <2>2. CASE TurnFails(m) \/ TurnCanceled(m)
    BY <1>4, <2>2 DEF TurnFails, TurnCanceled, Outcomes
  <2>3. QED
    BY <1>7, <2>1, <2>2 DEF Turn
<1>8. ASSUME NEW m \in Messages, Persisting(m) PROVE RestTypeOK'
  <2>1. CASE PersistBinding(m)
    <3>1. ServiceTypeOK'
      BY <2>1 DEF PersistBinding, ServiceTypeOK
    <3>2. "answer" \in Outcomes
      BY DEF Outcomes
    <3>3. QED
      BY <1>a, <1>c, <1>d, <2>1, <3>1, <3>2 DEF PersistBinding
  <2>2. CASE PersistFails(m)
    BY <1>4, <2>2 DEF PersistFails, Outcomes
  <2>3. QED
    BY <1>8, <2>1, <2>2 DEF Persisting
<1>9. ASSUME NEW m \in Messages, Unregister(m) PROVE RestTypeOK'
  <2>1. RegistryTypeOK'
    BY <1>9 DEF Unregister, RegistryTypeOK, Delete, Restrict
  <2>2. Verdict(m) \in Outcomes
    BY DEF Verdict, Outcomes
  <2>3. QED
    BY <1>9, <1>b, <1>c, <2>1, <2>2 DEF Unregister
<1>10. ASSUME NEW m \in Messages, Delivering(m) \/ Responding(m) PROVE RestTypeOK'
  <2>1. "none" \in Replies /\ "undelivered" \in Replies /\ outcome[m] \in Replies
    BY DEF Replies, Outcomes
  <2>2. reply' \in [Messages -> Replies]
    BY <1>10, <2>1 DEF Delivering, DropDeferred, CheckDeferred, SendDeferred, Responding,
       Respond, RespondFails
  <2>3. QED
    BY <1>10, <1>a, <1>b, <2>2 DEF Delivering, DropDeferred, CheckDeferred, SendDeferred,
       Responding, Respond, RespondFails
<1>11. ASSUME NEW m \in Messages, Completing(m) PROVE RestTypeOK'
  <2>1. queueWG' \in Int /\ UNCHANGED <<work, stopped, inFlight, binding, canceled, stops>>
    BY <1>11 DEF Completing, CompleteAndDrain, CompleteAndRelease, ServiceTypeOK
  <2>2. ServiceTypeOK'
    BY <2>1 DEF ServiceTypeOK
  <2>3. QED
    BY <1>a, <2>1, <2>2
<1>12. ASSUME NEW m \in Messages, PresentAck(m) PROVE RestTypeOK'
  BY <1>12, <1>a, <1>b DEF PresentAck
<1>13. ASSUME NEW s \in Stops, StopDropQueued(s) PROVE RestTypeOK'
  <2>1. PICK k \in Keys :
          LET dropped == {Waiting(k)[i] : i \in 1..Len(Waiting(k))}
          IN  /\ cleanups' = [m \in Messages |->
                                IF m \in dropped THEN cleanups[m] + 1 ELSE cleanups[m]]
              /\ stops' = [stops EXCEPT ![s] =
                            [pc |-> "dropped", key |-> k, dropped |-> Len(Waiting(k)),
                             hit |-> FALSE, saw |-> Active(k)]]
    BY <1>13 DEF StopDropQueued
  <2>2. Len(Waiting(k)) \in Nat
    <3>1. Waiting(k) \in Seq(Messages)
      BY DEF Waiting, QueueInv, QueueTypeOK, Entry
    <3>2. QED
      BY <3>1
  <2>3. Active(k) \in SUBSET Messages
    BY DEF Active, Holders
  <2>4. [pc |-> "dropped", key |-> k, dropped |-> Len(Waiting(k)),
         hit |-> FALSE, saw |-> Active(k)] \in StopStates
    BY <2>2, <2>3 DEF StopStates
  <2>5. ServiceTypeOK'
    BY <1>13, <2>1, <2>4 DEF StopDropQueued, ServiceTypeOK
  <2>6. cleanups' \in [Messages -> Nat]
    BY <2>1
  <2>7. QED
    BY <1>13, <1>a, <2>5, <2>6 DEF StopDropQueued
<1>14. ASSUME NEW s \in Stops, StopInFlight(s) PROVE RestTypeOK'
  <2>1. PICK hit \in BOOLEAN :
          stops' = [stops EXCEPT ![s].pc = "done", ![s].hit = hit]
    <3>1. (stops[s].key \in DOMAIN inFlight) \in BOOLEAN
      OBVIOUS
    <3>2. QED
      BY <1>14, <3>1, Zenon DEF StopInFlight
  <2>2. stops[s] \in StopStates
    BY DEF ServiceTypeOK
  <2>3. [stops[s] EXCEPT !.pc = "done", !.hit = hit] \in StopStates
    BY <2>2 DEF StopStates
  <2>4. ServiceTypeOK'
    BY <1>14, <2>1, <2>3 DEF ServiceTypeOK, StopInFlight
  <2>5. stopped' \in [Messages -> BOOLEAN]
    BY <1>14 DEF StopInFlight, RegistryTypeOK
  <2>6. QED
    BY <1>14, <1>a, <2>4, <2>5 DEF StopInFlight
<1>15. ASSUME NEW s \in Stops, StopUnresolved(s) PROVE RestTypeOK'
  <2>1. stops' = [stops EXCEPT ![s].pc = "done"] /\ stops[s] \in StopStates
    BY <1>15 DEF StopUnresolved, ServiceTypeOK
  <2>2. [stops[s] EXCEPT !.pc = "done"] \in StopStates
    BY <2>1 DEF StopStates
  <2>3. ServiceTypeOK'
    BY <1>15, <2>1, <2>2 DEF StopUnresolved, ServiceTypeOK
  <2>4. QED
    BY <1>15, <1>a, <2>3 DEF StopUnresolved
<1>16. CASE CancelLifecycle
  <2>1. ServiceTypeOK'
    BY <1>16 DEF CancelLifecycle, ServiceTypeOK
  <2>2. QED
    BY <1>16, <1>a, <2>1 DEF CancelLifecycle
<1>17. CASE Quiet \/ UNCHANGED vars
  BY <1>17, <1>a, <1>b DEF Quiet, vars
<1>18. QED
  BY <1>1, <1>2, <1>3, <1>5, <1>6, <1>7, <1>8, <1>9, <1>10, <1>11, <1>12, <1>13, <1>14,
     <1>15, <1>16, <1>17 DEF Next, Process, Stopping

\* Every variable of the service keeps its type; in particular no waiting list
\* outgrows maxWaitingMessagesPerKey.
THEOREM TypeOKAlways == Spec => []TypeOK
<1>1. QueueInv /\ RestTypeOK => TypeOK
  BY DEF QueueInv, RestTypeOK, TypeOK, WorkTypeOK
<1>2. QED
  BY <1>1, QueueInvInit, QueueInvStep, RestTypeInit, RestTypeStep, PTL DEF Spec

-----------------------------------------------------------------------------
(* What is registered for /stop *)

LEMMA InFlightInit == Init => InFlightIsLive
BY DEF Init, InFlightIsLive

\* The registry changes in two actions; every other step leaves a registered
\* message between its registration and its unregister().
LEMMA InFlightStep == QueueInv /\ RestTypeOK /\ InFlightIsLive /\ [Next]_vars => InFlightIsLive'
<1> SUFFICES ASSUME QueueInv, RestTypeOK, InFlightIsLive, [Next]_vars PROVE InFlightIsLive'
  OBVIOUS
<1> USE DEF work, shared
<1>1. /\ pc \in [Messages -> States] /\ key \in [Messages -> Keys \cup {None}]
      /\ \A k \in DOMAIN inFlight :
            inFlight[k] \in Messages /\ pc[inFlight[k]] \in RegisteredStates /\ key[inFlight[k]] = k
  BY DEF QueueInv, RestTypeOK, RegistryTypeOK, InFlightIsLive
\* Enough for most actions: what is registered stays so, and keeps its key.
<1>2. ASSUME UNCHANGED inFlight,
             \A m \in Messages : pc[m] \in RegisteredStates =>
                pc'[m] \in RegisteredStates /\ key'[m] = key[m]
      PROVE  InFlightIsLive'
  BY <1>1, <1>2 DEF InFlightIsLive
<1>3. ASSUME NEW m \in Messages, NEW from, NEW to, Goto(m, from, to), UNCHANGED inFlight,
             from \notin RegisteredStates \/ to \in RegisteredStates,
             \A n \in Messages : n # m => key'[n] = key[n],
             from # "new" => key'[m] = key[m]
      PROVE  InFlightIsLive'
  BY <1>1, <1>2, <1>3 DEF Goto, RegisteredStates
<1>4. ASSUME NEW m \in Messages, Arrive(m) \/ Admission(m) PROVE InFlightIsLive'
  BY <1>1, <1>3, <1>4 DEF Arrive, HandleUnadmitted, PrepareMessage, Admission, HandleExecuteNow,
     HandleQueued, HandleQueueFull, RegisteredStates
<1>5. ASSUME NEW m \in Messages, RegisterInFlight(m) PROVE InFlightIsLive'
  <2>1. /\ pc' = [pc EXCEPT ![m] = "registered"] /\ key' = key
        /\ inFlight' = Put(inFlight, key[m], m)
    BY <1>5 DEF RegisterInFlight, Goto
  <2>2. /\ pc'[m] \in RegisteredStates
        /\ \A n \in Messages : n # m => pc'[n] = pc[n]
    BY <1>1, <2>1 DEF RegisteredStates
  <2>3. /\ DOMAIN inFlight' = DOMAIN inFlight \cup {key[m]}
        /\ \A k \in DOMAIN inFlight' :
              inFlight'[k] = IF k = key[m] THEN m ELSE inFlight[k]
    BY <2>1 DEF Put
  <2>4. QED
    BY <1>1, <2>1, <2>2, <2>3 DEF InFlightIsLive
<1>6. ASSUME NEW m \in Messages, NEW from, NEW o, Return(m, from, o) PROVE InFlightIsLive'
  BY <1>3, <1>6 DEF Return, RegisteredStates
<1>7. ASSUME NEW m \in Messages,
             SettingUp(m) \/ Loading(m) \/ Turn(m) \/ TurnCanceled(m) \/ Persisting(m)
      PROVE  InFlightIsLive'
  <2>1. CASE SetUp(m) \/ StartTurn(m) \/ TurnSucceeds(m) \/ PersistBinding(m)
    BY <1>3, <2>1 DEF SetUp, StartTurn, TurnSucceeds, PersistBinding, RegisteredStates
  <2>2. CASE \/ SetUpRefused(m) \/ SetUpFails(m) \/ LoadBindingFails(m) \/ TurnFails(m)
             \/ TurnCanceled(m) \/ PersistFails(m)
    BY <1>6, <2>2 DEF SetUpRefused, SetUpFails, LoadBindingFails, TurnFails, TurnCanceled,
       PersistFails
  <2>3. QED
    BY <1>7, <2>1, <2>2 DEF SettingUp, Loading, Turn, Persisting
<1>8. ASSUME NEW m \in Messages, Unregister(m) PROVE InFlightIsLive'
  <2>1. key' = key /\ \A n \in Messages : n # m => pc'[n] = pc[n]
    BY <1>1, <1>8 DEF Unregister, Goto
  <2>2. \A k \in DOMAIN inFlight' :
          k \in DOMAIN inFlight /\ inFlight'[k] = inFlight[k] /\ inFlight[k] # m
    BY <1>1, <1>8 DEF Unregister, Delete, Restrict
  <2>3. QED
    BY <1>1, <2>1, <2>2 DEF InFlightIsLive
<1>9. ASSUME NEW m \in Messages, Delivering(m) \/ Responding(m) PROVE InFlightIsLive'
  BY <1>3, <1>9 DEF Delivering, DropDeferred, CheckDeferred, SendDeferred, Responding, Respond,
     RespondFails, RegisteredStates
<1>10. ASSUME NEW m \in Messages, Completing(m) PROVE InFlightIsLive'
  <2>1. CASE CompleteAndRelease(m)
    BY <1>3, <2>1 DEF CompleteAndRelease, RegisteredStates
  <2>2. CASE CompleteAndDrain(m)
    <3> DEFINE next == Head(Waiting(key[m]))
    <3>1. /\ pc[m] = "completing" /\ UNCHANGED <<inFlight, key>>
          /\ pc' = [pc EXCEPT ![m] = AfterComplete(m), ![next] = "claimed"]
      BY <2>2 DEF CompleteAndDrain
    <3>2. next \in Messages /\ pc[next] = "waiting"
      BY <2>2, HeadWaits DEF CompleteAndDrain, CompleteNext
    <3>3. QED
      BY <1>1, <1>2, <3>1, <3>2 DEF RegisteredStates
  <2>3. QED
    BY <1>10, <2>1, <2>2 DEF Completing
<1>11. ASSUME NEW s \in Stops, StopDropQueued(s) PROVE InFlightIsLive'
  <2>1. PICK k \in Keys :
          pc' = [m \in Messages |->
                   IF m \in {Waiting(k)[i] : i \in 1..Len(Waiting(k))} THEN "dropped" ELSE pc[m]]
    BY <1>11 DEF StopDropQueued
  <2>2. \A i \in 1..Len(Waiting(k)) : pc[Waiting(k)[i]] = "waiting"
    BY ListedMessagesWait
  <2>3. QED
    BY <1>2, <1>11, <2>1, <2>2 DEF StopDropQueued, RegisteredStates
<1>12. CASE \/ \E m \in Messages : PresentAck(m)
            \/ \E s \in Stops : StopUnresolved(s) \/ StopInFlight(s)
            \/ CancelLifecycle \/ Quiet \/ UNCHANGED vars
  BY <1>2, <1>12 DEF PresentAck, StopUnresolved, StopInFlight, CancelLifecycle, Quiet, vars
<1>13. QED
  BY <1>4, <1>5, <1>7, <1>8, <1>9, <1>10, <1>11, <1>12 DEF Next, Process, Stopping

\* What stopInFlight cancels is always a turn of the key it was asked for that
\* has not been unregistered: no stale and no foreign turn.
THEOREM InFlightIsLiveAlways == Spec => []InFlightIsLive
<1>1. QED
  BY QueueInvInit, QueueInvStep, RestTypeInit, RestTypeStep, InFlightInit, InFlightStep,
     PTL DEF Spec

-----------------------------------------------------------------------------
(* The Codex thread of a conversation *)

\* The binding of a key is read when a turn starts and written when it was
\* answered.  In between nobody else writes it, since the slot is exclusive:
\* the turn runs on the saved thread, or on a new one if none is saved.
TurnOnBinding == \A m \in Messages :
    pc[m] = "turn" => thread[m] = binding[key[m]]

TurnedOnThread == \A m \in Messages :
    pc[m] = "turned" => thread[m] # None /\ binding[key[m]] \in {None, thread[m]}

\* The states in which a message may have been answered.
AnsweredStates == {"returned", "delivering", "sending", "completing", "responding", "done"}

AnsweredOnBinding == \A m \in Messages : outcome[m] = "answer" =>
    /\ pc[m] \in AnsweredStates
    /\ key[m] \in Keys
    /\ thread[m] # None
    /\ binding[key[m]] = thread[m]

ThreadInv == TurnOnBinding /\ TurnedOnThread /\ AnsweredOnBinding

LEMMA ThreadInvInit == Init => ThreadInv
BY DEF Init, ThreadInv, TurnOnBinding, TurnedOnThread, AnsweredOnBinding

LEMMA ThreadInvStep == QueueInv /\ RestTypeOK /\ ThreadInv /\ [Next]_vars => ThreadInv'
<1> SUFFICES ASSUME QueueInv, RestTypeOK, ThreadInv, [Next]_vars PROVE ThreadInv'
  OBVIOUS
<1> USE DEF work, shared
<1>1. /\ pc \in [Messages -> States] /\ key \in [Messages -> Keys \cup {None}]
      /\ outcome \in [Messages -> Outcomes] /\ thread \in [Messages -> Threads \cup {None}]
      /\ binding \in [Keys -> Threads \cup {None}]
      /\ \A m \in Messages : pc[m] \in SlotStates => key[m] \in Keys
  BY DEF QueueInv, RestTypeOK, ServiceTypeOK, KeysKnown
\* Enough for most actions: no message starts or ends its turn.
<1>2. ASSUME UNCHANGED <<thread, binding>>,
             \A m \in Messages : pc'[m] \in {"turn", "turned"} => pc'[m] = pc[m] /\ key'[m] = key[m],
             \A m \in Messages : outcome'[m] = "answer" =>
                outcome[m] = "answer" /\ pc'[m] \in AnsweredStates /\ key'[m] = key[m]
      PROVE  ThreadInv'
  BY <1>1, <1>2 DEF ThreadInv, TurnOnBinding, TurnedOnThread, AnsweredOnBinding
\* One message goes on, without a turn and without an answer.
<1>3. ASSUME NEW m \in Messages, NEW from, NEW to, Goto(m, from, to),
             UNCHANGED <<key, thread, binding>>,
             to \notin {"turn", "turned"},
             to \in AnsweredStates \/ from \notin AnsweredStates,
             \/ UNCHANGED outcome
             \/ \E o : o # "answer" /\ Outcome(m, o)
      PROVE  ThreadInv'
  BY <1>1, <1>2, <1>3 DEF Goto, Outcome, ThreadInv, AnsweredOnBinding
<1>4. ASSUME NEW m \in Messages, Arrive(m) \/ Admission(m) PROVE ThreadInv'
  <2>1. CASE HandleUnadmitted(m)
    BY <1>3, <2>1 DEF HandleUnadmitted, AnsweredStates
  <2>2. CASE PrepareMessage(m)
    <3>1. /\ pc[m] = "new" /\ pc' = [pc EXCEPT ![m] = "prepared"]
          /\ \A n \in Messages : n # m => key'[n] = key[n]
      BY <1>1, <2>2 DEF PrepareMessage, Goto
    <3>2. outcome[m] # "answer"
      BY <3>1 DEF ThreadInv, AnsweredOnBinding, AnsweredStates
    <3>3. QED
      BY <1>1, <1>2, <2>2, <3>1, <3>2 DEF PrepareMessage, ThreadInv, AnsweredOnBinding
  <2>3. CASE HandleExecuteNow(m) \/ HandleQueued(m)
    BY <1>3, <2>3 DEF HandleExecuteNow, HandleQueued, AnsweredStates
  <2>4. CASE HandleQueueFull(m)
    BY <1>3, <2>4 DEF HandleQueueFull, AnsweredStates
  <2>5. QED
    BY <1>4, <2>1, <2>2, <2>3, <2>4 DEF Arrive, Admission
<1>5. ASSUME NEW m \in Messages, NEW from, NEW o, Return(m, from, o), o # "answer"
      PROVE  ThreadInv'
  BY <1>3, <1>5 DEF Return, AnsweredStates
<1>6. ASSUME NEW m \in Messages, RegisterInFlight(m) \/ SettingUp(m) PROVE ThreadInv'
  <2>1. CASE RegisterInFlight(m) \/ SetUp(m)
    BY <1>3, <2>1 DEF RegisterInFlight, SetUp, AnsweredStates
  <2>2. CASE SetUpRefused(m) \/ SetUpFails(m)
    BY <1>5, <2>2 DEF SetUpRefused, SetUpFails
  <2>3. QED
    BY <1>6, <2>1, <2>2 DEF SettingUp
<1>7. ASSUME NEW m \in Messages, LoadBindingFails(m) \/ TurnFails(m) \/ TurnCanceled(m) \/ PersistFails(m)
      PROVE  ThreadInv'
  BY <1>5, <1>7 DEF LoadBindingFails, TurnFails, TurnCanceled, PersistFails
<1>8. ASSUME NEW m \in Messages, StartTurn(m) PROVE ThreadInv'
  <2>1. /\ pc[m] = "ready" /\ pc' = [pc EXCEPT ![m] = "turn"]
        /\ thread' = [thread EXCEPT ![m] = binding[key[m]]]
        /\ UNCHANGED <<key, binding, outcome>>
    BY <1>8 DEF StartTurn, Goto
  <2>2. outcome[m] # "answer"
    BY <2>1 DEF ThreadInv, AnsweredOnBinding, AnsweredStates
  <2>3. QED
    BY <1>1, <2>1, <2>2 DEF ThreadInv, TurnOnBinding, TurnedOnThread, AnsweredOnBinding,
       AnsweredStates
<1>9. ASSUME NEW m \in Messages, TurnSucceeds(m) PROVE ThreadInv'
  <2>1. /\ pc[m] = "turn" /\ pc' = [pc EXCEPT ![m] = "turned"]
        /\ thread' = [thread EXCEPT ![m] = IF thread[m] = None THEN m ELSE thread[m]]
        /\ UNCHANGED <<key, binding, outcome>>
    BY <1>9 DEF TurnSucceeds, Goto
  <2>2. outcome[m] # "answer"
    BY <2>1 DEF ThreadInv, AnsweredOnBinding, AnsweredStates
  <2>3. m # None /\ thread[m] = binding[key[m]]
    BY <2>1, NoneAssumption DEF ThreadInv, TurnOnBinding
  <2>4. QED
    BY <1>1, <2>1, <2>2, <2>3 DEF ThreadInv, TurnOnBinding, TurnedOnThread,
       AnsweredOnBinding, AnsweredStates
<1>10. ASSUME NEW m \in Messages, PersistBinding(m) PROVE ThreadInv'
  <2>1. /\ pc[m] = "turned" /\ pc' = [pc EXCEPT ![m] = "returned"]
        /\ binding' = [binding EXCEPT ![key[m]] = thread[m]]
        /\ outcome' = [outcome EXCEPT ![m] = "answer"]
        /\ UNCHANGED <<key, thread>>
    BY <1>10 DEF PersistBinding, Goto, Outcome
  <2>2. /\ key[m] \in Keys /\ thread[m] # None
        /\ binding[key[m]] \in {None, thread[m]}
    BY <1>1, <2>1 DEF ThreadInv, TurnedOnThread, SlotStates
  \* The slot is exclusive: nobody else has a turn on this key.
  <2>3. \A n \in Messages : n # m /\ pc[n] \in SlotStates => key[n] # key[m]
    BY <2>1 DEF QueueInv, OneHolder, SlotStates
  <2>4. TurnOnBinding' /\ TurnedOnThread'
    BY <1>1, <2>1, <2>2, <2>3 DEF ThreadInv, TurnOnBinding, TurnedOnThread, SlotStates
  <2>5. AnsweredOnBinding'
    BY <1>1, <2>1, <2>2 DEF ThreadInv, AnsweredOnBinding, AnsweredStates
  <2>6. QED
    BY <2>4, <2>5 DEF ThreadInv
<1>11. ASSUME NEW m \in Messages, Unregister(m) PROVE ThreadInv'
  <2>1. PICK to \in {"delivering", "completing"} :
          pc[m] = "returned" /\ pc' = [pc EXCEPT ![m] = to]
    BY <1>11 DEF Unregister, Goto
  <2>2. outcome' = [outcome EXCEPT ![m] = Verdict(m)] /\ UNCHANGED <<key, thread, binding>>
    BY <1>11 DEF Unregister, Outcome
  <2>3. Verdict(m) = "answer" => outcome[m] = "answer"
    BY DEF Verdict
  <2>4. QED
    BY <1>1, <1>2, <2>1, <2>2, <2>3 DEF ThreadInv, AnsweredOnBinding, AnsweredStates
<1>12. ASSUME NEW m \in Messages, Delivering(m) \/ Responding(m) PROVE ThreadInv'
  BY <1>3, <1>12 DEF Delivering, DropDeferred, CheckDeferred, SendDeferred, Responding, Respond,
     RespondFails, AnsweredStates
<1>13. ASSUME NEW m \in Messages, Completing(m) PROVE ThreadInv'
  <2>1. CASE CompleteAndRelease(m)
    BY <1>3, <2>1 DEF CompleteAndRelease, AfterComplete, AnsweredStates
  <2>2. CASE CompleteAndDrain(m)
    <3> DEFINE next == Head(Waiting(key[m]))
    <3>1. /\ pc[m] = "completing" /\ UNCHANGED <<key, thread, binding, outcome>>
          /\ pc' = [pc EXCEPT ![m] = AfterComplete(m), ![next] = "claimed"]
          /\ AfterComplete(m) \in {"done", "responding"}
      BY <2>2 DEF CompleteAndDrain, AfterComplete
    <3>2. next \in Messages /\ pc[next] = "waiting"
      BY <2>2, HeadWaits DEF CompleteAndDrain, CompleteNext
    <3>3. \A n \in Messages : outcome[n] = "answer" => pc[n] # "waiting"
      BY DEF ThreadInv, AnsweredOnBinding, AnsweredStates
    <3>4. QED
      BY <1>1, <1>2, <3>1, <3>2, <3>3 DEF ThreadInv, AnsweredOnBinding, AnsweredStates
  <2>3. QED
    BY <1>13, <2>1, <2>2 DEF Completing
<1>14. ASSUME NEW s \in Stops, StopDropQueued(s) PROVE ThreadInv'
  <2>1. PICK k \in Keys :
          pc' = [m \in Messages |->
                   IF m \in {Waiting(k)[i] : i \in 1..Len(Waiting(k))} THEN "dropped" ELSE pc[m]]
    BY <1>14 DEF StopDropQueued
  <2>2. \A i \in 1..Len(Waiting(k)) : pc[Waiting(k)[i]] = "waiting"
    BY ListedMessagesWait
  <2>3. \A n \in Messages : outcome[n] = "answer" => pc[n] # "waiting"
    BY DEF ThreadInv, AnsweredOnBinding, AnsweredStates
  <2>4. QED
    BY <1>2, <1>14, <2>1, <2>2, <2>3 DEF StopDropQueued, ThreadInv, AnsweredOnBinding
<1>15. CASE \/ \E m \in Messages : PresentAck(m)
            \/ \E s \in Stops : StopUnresolved(s) \/ StopInFlight(s)
            \/ CancelLifecycle \/ Quiet \/ UNCHANGED vars
  BY <1>2, <1>15 DEF PresentAck, StopUnresolved, StopInFlight, CancelLifecycle, Quiet, vars, ThreadInv,
     AnsweredOnBinding
<1>16. QED
  BY <1>4, <1>6, <1>7, <1>8, <1>9, <1>10, <1>11, <1>12, <1>13, <1>14, <1>15
  DEF Next, Process, Stopping, Loading, Turn, Persisting

\* All answered turns of a key ran on the one Codex thread saved for it: two
\* first messages never start two threads, no binding is overwritten by another.
THEOREM OneThreadAlways == Spec => []OneThreadPerConversation
<1>1. ThreadInv => OneThreadPerConversation
  BY DEF ThreadInv, AnsweredOnBinding, OneThreadPerConversation
<1>2. QED
  BY <1>1, QueueInvInit, QueueInvStep, RestTypeInit, RestTypeStep, ThreadInvInit,
     ThreadInvStep, PTL DEF Spec

-----------------------------------------------------------------------------
(* The temporary images of a message *)

\* The states in which the images may still be needed.
Unfinished == {"new", "prepared", "waiting", "turned"} \cup TurnAhead

LEMMA CleanupInit == Init => CleanupOnceAfterTurn
BY DEF Init, CleanupOnceAfterTurn

LEMMA CleanupStep ==
  QueueInv /\ RestTypeOK /\ CleanupOnceAfterTurn /\ [Next]_vars => CleanupOnceAfterTurn'
<1> SUFFICES ASSUME QueueInv, RestTypeOK, CleanupOnceAfterTurn, [Next]_vars
             PROVE  CleanupOnceAfterTurn'
  OBVIOUS
<1> USE DEF work, shared
<1>1. /\ pc \in [Messages -> States]
      /\ cleanups \in [Messages -> Nat]
      /\ \A m \in Messages : cleanups[m] = IF pc[m] \in Unfinished THEN 0 ELSE 1
  BY DEF QueueInv, RestTypeOK, CleanupOnceAfterTurn, Unfinished
\* A step that leaves the images alone moves no message out of Unfinished ...
<1>2. ASSUME UNCHANGED cleanups,
             \A m \in Messages : pc'[m] \in Unfinished <=> pc[m] \in Unfinished
      PROVE  CleanupOnceAfterTurn'
  BY <1>1, <1>2 DEF CleanupOnceAfterTurn, Unfinished
<1>3. ASSUME NEW m \in Messages, NEW from, NEW to, Goto(m, from, to), UNCHANGED cleanups,
             to \in Unfinished <=> from \in Unfinished
      PROVE  CleanupOnceAfterTurn'
  BY <1>1, <1>2, <1>3 DEF Goto
\* ... and one that removes them does.
<1>4. ASSUME NEW m \in Messages, NEW from \in Unfinished, NEW to, Goto(m, from, to),
             RunCleanup(m), to \notin Unfinished
      PROVE  CleanupOnceAfterTurn'
  BY <1>1, <1>4 DEF Goto, RunCleanup, CleanupOnceAfterTurn, Unfinished
<1>5. ASSUME NEW m \in Messages, Arrive(m) \/ Admission(m) PROVE CleanupOnceAfterTurn'
  BY <1>3, <1>4, <1>5 DEF Arrive, HandleUnadmitted, PrepareMessage, Admission,
     HandleExecuteNow, HandleQueued, HandleQueueFull, Unfinished, TurnAhead
<1>6. ASSUME NEW m \in Messages, RegisterInFlight(m) \/ SettingUp(m) PROVE CleanupOnceAfterTurn'
  BY <1>3, <1>4, <1>6 DEF RegisterInFlight, SettingUp, SetUp, SetUpRefused, SetUpFails,
     Return, Unfinished, TurnAhead
<1>7. ASSUME NEW m \in Messages, Loading(m) \/ Turn(m) \/ TurnCanceled(m) \/ Persisting(m)
      PROVE  CleanupOnceAfterTurn'
  BY <1>3, <1>4, <1>7 DEF Loading, StartTurn, LoadBindingFails, Turn, TurnSucceeds, TurnFails,
     TurnCanceled, Persisting, PersistBinding, PersistFails, Return, Unfinished, TurnAhead
<1>8. ASSUME NEW m \in Messages, Unregister(m) \/ Delivering(m) \/ Responding(m)
      PROVE  CleanupOnceAfterTurn'
  BY <1>3, <1>8 DEF Unregister, Delivering, DropDeferred, CheckDeferred, SendDeferred, Responding,
     Respond, RespondFails, Unfinished, TurnAhead
<1>9. ASSUME NEW m \in Messages, Completing(m) PROVE CleanupOnceAfterTurn'
  <2>1. CASE CompleteAndRelease(m)
    BY <1>3, <2>1 DEF CompleteAndRelease, AfterComplete, Unfinished, TurnAhead
  <2>2. CASE CompleteAndDrain(m)
    <3> DEFINE next == Head(Waiting(key[m]))
    <3>1. next \in Messages /\ pc[next] = "waiting"
      BY <2>2, HeadWaits DEF CompleteAndDrain, CompleteNext
    <3>2. /\ pc[m] = "completing" /\ UNCHANGED cleanups
          /\ pc' = [pc EXCEPT ![m] = AfterComplete(m), ![next] = "claimed"]
          /\ AfterComplete(m) \in {"done", "responding"}
      BY <2>2 DEF CompleteAndDrain, AfterComplete
    <3>3. QED
      BY <1>1, <1>2, <3>1, <3>2 DEF Unfinished, TurnAhead
  <2>3. QED
    BY <1>9, <2>1, <2>2 DEF Completing
<1>10. ASSUME NEW s \in Stops, StopDropQueued(s) PROVE CleanupOnceAfterTurn'
  <2>1. PICK k \in Keys :
          LET dropped == {Waiting(k)[i] : i \in 1..Len(Waiting(k))}
          IN  /\ pc' = [m \in Messages |-> IF m \in dropped THEN "dropped" ELSE pc[m]]
              /\ cleanups' = [m \in Messages |->
                                IF m \in dropped THEN cleanups[m] + 1 ELSE cleanups[m]]
    BY <1>10 DEF StopDropQueued
  <2>2. \A i \in 1..Len(Waiting(k)) : pc[Waiting(k)[i]] = "waiting"
    BY ListedMessagesWait
  <2>3. QED
    BY <1>1, <2>1, <2>2 DEF CleanupOnceAfterTurn, Unfinished, TurnAhead
<1>11. CASE \/ \E m \in Messages : PresentAck(m)
            \/ \E s \in Stops : StopUnresolved(s) \/ StopInFlight(s)
            \/ CancelLifecycle \/ Quiet \/ UNCHANGED vars
  BY <1>2, <1>11 DEF PresentAck, StopUnresolved, StopInFlight, CancelLifecycle, Quiet, vars
<1>12. QED
  BY <1>5, <1>6, <1>7, <1>8, <1>9, <1>10, <1>11 DEF Next, Process, Stopping

\* The temporary images of every message are removed exactly once, by the turn,
\* the refusal or the drop that ends it, and never before its turn is over.
THEOREM CleanupOnceAlways == Spec => []CleanupOnceAfterTurn
<1>1. QED
  BY QueueInvInit, QueueInvStep, RestTypeInit, RestTypeStep, CleanupInit, CleanupStep,
     PTL DEF Spec

-----------------------------------------------------------------------------
(* Every message let in is answered *)

\* What a caller may make of a turn and answers with.
Given == {"refused", "answer", "stopped", "error"}

\* How far the answer to m has come, in each place m can be: a turn that was
\* canceled was so for a reason, and only a queued message whose process is
\* ending passes the delivery without a reply.
AnswerOnItsWay(m) ==
    /\ pc[m] = "new" => key[m] = None
    /\ pc[m] \in Unfinished => outcome[m] = "none"
    /\ pc[m] = "returned" => outcome[m] \in {"refused", "failed", "canceled", "answer"}
    /\ outcome[m] = "canceled" => stopped[m] \/ canceled
    /\ pc[m] \in {"delivering", "sending"} => outcome[m] \in Given
    /\ pc[m] = "completing" /\ queued[m] => reply[m] # "none" \/ canceled
    /\ pc[m] = "completing" /\ ~queued[m] => outcome[m] \in Given
    /\ pc[m] = "responding" /\ key[m] # None => outcome[m] \in Given \cup {"full"}
    /\ pc[m] = "done" /\ key[m] # None => reply[m] # "none" \/ canceled

AnswersOnTheirWay == \A m \in Messages : AnswerOnItsWay(m)

LEMMA AnswersInit == Init => AnswersOnTheirWay
BY DEF Init, AnswersOnTheirWay, AnswerOnItsWay, Unfinished, TurnAhead

LEMMA AnswersStep == QueueInv /\ RestTypeOK /\ AnswersOnTheirWay /\ [Next]_vars => AnswersOnTheirWay'
<1> SUFFICES ASSUME QueueInv, RestTypeOK, AnswersOnTheirWay, [Next]_vars PROVE AnswersOnTheirWay'
  OBVIOUS
<1> USE DEF work, shared
<1>1. /\ pc \in [Messages -> States] /\ key \in [Messages -> Keys \cup {None}]
      /\ queued \in [Messages -> BOOLEAN] /\ outcome \in [Messages -> Outcomes]
      /\ stopped \in [Messages -> BOOLEAN] /\ reply \in [Messages -> Replies]
  BY DEF QueueInv, RestTypeOK
<1> DEFINE Same(m) == /\ pc'[m] = pc[m] /\ key'[m] = key[m] /\ queued'[m] = queued[m]
                      /\ outcome'[m] = outcome[m] /\ reply'[m] = reply[m]
<1>2. ASSUME NEW m \in Messages, Same(m), stopped[m] => stopped'[m], canceled => canceled'
      PROVE  AnswerOnItsWay(m)'
  BY <1>2 DEF AnswersOnTheirWay, AnswerOnItsWay
\* A step of m alone.
<1>3. ASSUME NEW m \in Messages, UNCHANGED <<stopped, canceled>>,
             \A n \in Messages \ {m} : Same(n), AnswerOnItsWay(m)'
      PROVE  AnswersOnTheirWay'
  <2>1. ASSUME NEW n \in Messages PROVE AnswerOnItsWay(n)'
    BY <1>2, <1>3, <2>1
  <2>2. QED
    BY <2>1 DEF AnswersOnTheirWay
<1>4. \A m \in Messages : AnswerOnItsWay(m)
  BY DEF AnswersOnTheirWay
<1>5. ASSUME NEW m \in Messages, Arrive(m) PROVE AnswersOnTheirWay'
  <2>1. AnswerOnItsWay(m)'
    BY <1>1, <1>4, <1>5, NoneAssumption DEF Arrive, HandleUnadmitted, PrepareMessage, Goto, Outcome,
       AnswerOnItsWay, Unfinished, TurnAhead
  <2>2. QED
    BY <1>1, <1>3, <1>5, <2>1 DEF Arrive, HandleUnadmitted, PrepareMessage, Goto, Outcome
<1>6. ASSUME NEW m \in Messages, Admission(m) PROVE AnswersOnTheirWay'
  <2>1. AnswerOnItsWay(m)'
    BY <1>1, <1>4, <1>6 DEF Admission, HandleExecuteNow, HandleQueued, HandleQueueFull, Goto, Outcome,
       AnswerOnItsWay, Unfinished, TurnAhead
  <2>2. QED
    BY <1>1, <1>3, <1>6, <2>1 DEF Admission, HandleExecuteNow, HandleQueued, HandleQueueFull, Goto, Outcome
<1>7. ASSUME NEW m \in Messages, RegisterInFlight(m) \/ SettingUp(m) \/ Loading(m) PROVE AnswersOnTheirWay'
  <2>1. AnswerOnItsWay(m)'
    BY <1>1, <1>4, <1>7 DEF RegisterInFlight, SettingUp, SetUp, SetUpRefused, SetUpFails, Loading,
       StartTurn, LoadBindingFails, Return, MayBeCanceled, Goto, Outcome, AnswerOnItsWay, Unfinished, TurnAhead
  <2>2. QED
    BY <1>1, <1>3, <1>7, <2>1 DEF RegisterInFlight, SettingUp, SetUp, SetUpRefused, SetUpFails, Loading,
       StartTurn, LoadBindingFails, Return, Goto, Outcome
<1>8. ASSUME NEW m \in Messages, Turn(m) \/ TurnCanceled(m) \/ Persisting(m) PROVE AnswersOnTheirWay'
  <2>1. AnswerOnItsWay(m)'
    BY <1>1, <1>4, <1>8 DEF Turn, TurnSucceeds, TurnFails, TurnCanceled, Persisting, PersistBinding,
       PersistFails, Return, MayBeCanceled, Goto, Outcome, AnswerOnItsWay, Unfinished, TurnAhead
  <2>2. QED
    BY <1>1, <1>3, <1>8, <2>1 DEF Turn, TurnSucceeds, TurnFails, TurnCanceled, Persisting, PersistBinding,
       PersistFails, Return, Goto, Outcome
<1>9. ASSUME NEW m \in Messages, Unregister(m) PROVE AnswersOnTheirWay'
  <2>1. /\ pc[m] = "returned" /\ outcome'[m] = Verdict(m) /\ UNCHANGED <<queued, reply, stopped, canceled>>
        /\ pc'[m] = IF queued[m] /\ Verdict(m) # "ignored" THEN "delivering" ELSE "completing"
        /\ \A n \in Messages \ {m} : Same(n)
    BY <1>1, <1>9 DEF Unregister, Goto, Outcome
  <2>2. \/ Verdict(m) \in Given
        \/ Verdict(m) = "ignored" /\ queued[m] /\ canceled
    BY <1>1, <1>4, <2>1 DEF Verdict, AnswerOnItsWay, Given
  <2>3. AnswerOnItsWay(m)'
    BY <1>1, <2>1, <2>2 DEF AnswerOnItsWay, Given, Unfinished, TurnAhead
  <2>4. QED
    BY <1>3, <2>1, <2>3
<1>10. ASSUME NEW m \in Messages, Delivering(m) \/ Responding(m) PROVE AnswersOnTheirWay'
  <2>1. AnswerOnItsWay(m)'
    BY <1>1, <1>4, <1>10 DEF Delivering, DropDeferred, CheckDeferred, SendDeferred, Responding, Respond,
       RespondFails, Goto, AnswerOnItsWay, Given, Unfinished, TurnAhead
  <2>2. QED
    BY <1>1, <1>3, <1>10, <2>1 DEF Delivering, DropDeferred, CheckDeferred, SendDeferred, Responding,
       Respond, RespondFails, Goto
<1>11. ASSUME NEW m \in Messages, Completing(m) PROVE AnswersOnTheirWay'
  <2>1. ASSUME pc[m] = "completing", pc'[m] = AfterComplete(m),
               UNCHANGED <<key, queued, outcome, reply, stopped, canceled>>
        PROVE  AnswerOnItsWay(m)'
    BY <1>1, <1>4, <2>1 DEF AfterComplete, AnswerOnItsWay, Given, Unfinished, TurnAhead
  <2>2. CASE CompleteAndRelease(m)
    BY <1>1, <1>3, <2>1, <2>2 DEF CompleteAndRelease, Goto
  <2>3. CASE CompleteAndDrain(m)
    <3> DEFINE next == Head(Waiting(key[m]))
    <3>1. next \in Messages /\ pc[next] = "waiting"
      BY <2>3, HeadWaits DEF CompleteAndDrain, CompleteNext
    <3>2. /\ pc[m] = "completing" /\ UNCHANGED <<key, queued, outcome, reply, stopped, canceled>>
          /\ pc' = [pc EXCEPT ![m] = AfterComplete(m), ![next] = "claimed"]
      BY <2>3 DEF CompleteAndDrain
    <3>3. ASSUME NEW n \in Messages, n = next PROVE AnswerOnItsWay(n)'
      <4>1. pc'[n] = "claimed" /\ pc[n] = "waiting"
        BY <1>1, <3>1, <3>2, <3>3
      <4>2. QED
        BY <1>4, <3>2, <4>1 DEF AnswerOnItsWay, Given, Unfinished, TurnAhead
    <3>4. ASSUME NEW n \in Messages, n # next PROVE AnswerOnItsWay(n)'
      <4>1. CASE n = m
        BY <1>1, <2>1, <3>2, <3>4, <4>1
      <4>2. CASE n # m
        BY <1>1, <1>2, <3>2, <3>4, <4>2
      <4>3. QED
        BY <4>1, <4>2
    <3>5. QED
      BY <3>3, <3>4 DEF AnswersOnTheirWay
  <2>4. QED
    BY <1>11, <2>2, <2>3 DEF Completing
<1>12. ASSUME NEW s \in Stops, StopDropQueued(s) PROVE AnswersOnTheirWay'
  <2>1. PICK k \in Keys : pc' = [m \in Messages |-> IF m \in {Waiting(k)[i] : i \in 1..Len(Waiting(k))}
                                                  THEN "dropped" ELSE pc[m]]
    BY <1>12 DEF StopDropQueued
  <2>2. UNCHANGED <<key, queued, outcome, reply, stopped, canceled>>
    BY <1>12 DEF StopDropQueued
  <2>3. ASSUME NEW n \in Messages, pc[n] = "waiting", pc'[n] = "dropped" PROVE AnswerOnItsWay(n)'
    BY <1>4, <2>2, <2>3 DEF AnswerOnItsWay, Unfinished, TurnAhead
  <2>4. ASSUME NEW n \in Messages PROVE AnswerOnItsWay(n)'
    BY <1>2, <2>1, <2>2, <2>3, <2>4, ListedMessagesWait
  <2>5. QED
    BY <2>4 DEF AnswersOnTheirWay
<1>13. CASE \/ \E m \in Messages : PresentAck(m)
            \/ \E s \in Stops : StopUnresolved(s) \/ StopInFlight(s)
            \/ CancelLifecycle \/ Quiet \/ UNCHANGED vars
  <2>1. UNCHANGED <<pc, key, queued, outcome, reply>>
    BY <1>13 DEF PresentAck, StopUnresolved, StopInFlight, CancelLifecycle, Quiet, vars
  <2>2. \A m \in Messages : stopped[m] => stopped'[m]
    BY <1>1, <1>13 DEF PresentAck, StopUnresolved, StopInFlight, CancelLifecycle, Quiet, vars
  <2>3. UNCHANGED canceled \/ canceled'
    BY <1>13, Zenon DEF PresentAck, StopUnresolved, StopInFlight, CancelLifecycle, Quiet, vars
  <2>4. QED
    BY <1>2, <2>1, <2>2, <2>3 DEF AnswersOnTheirWay
<1>14. QED
  BY <1>5, <1>6, <1>7, <1>8, <1>9, <1>10, <1>11, <1>12, <1>13 DEF Next, Process, Stopping

LEMMA AnswersAlways == Spec => []AnswersOnTheirWay
BY QueueInvInit, QueueInvStep, RestTypeInit, RestTypeStep, AnswersInit, AnswersStep, PTL DEF Spec

\* Every message that was let in is answered, a stopped one included; only the
\* end of the process silences it.
THEOREM NoSilentLossAlways == Spec => []NoSilentLoss
<1>1. AnswersOnTheirWay => NoSilentLoss
  BY DEF AnswersOnTheirWay, AnswerOnItsWay, NoSilentLoss
<1>2. QED
  BY <1>1, AnswersAlways, PTL

-----------------------------------------------------------------------------
(* The wait group of the drain goroutines *)

\* The messages that drain goroutines work on.
Draining == {m \in Messages : queued[m] /\ pc[m] \in SlotStates}

\* queueWG counts them, and a message is marked as queued when it lines up.
CountInv ==
    /\ IsFiniteSet(Draining)
    /\ queueWG = Cardinality(Draining)
    /\ \A m \in Messages : pc[m] \in {"new", "prepared", "responding"} => ~queued[m]
    /\ \A m \in Messages : pc[m] = "waiting" => queued[m]

LEMMA CountInit == Init => CountInv
<1> SUFFICES ASSUME Init PROVE CountInv
  OBVIOUS
<1>1. pc = [m \in Messages |-> "new"] /\ queued = [m \in Messages |-> FALSE] /\ queueWG = 0
  BY DEF Init
<1>2. Draining = {}
  BY <1>1 DEF Draining
<1>3. QED
  BY <1>1, <1>2, FS_EmptySet DEF CountInv

LEMMA CountStep == QueueInv /\ RestTypeOK /\ CountInv /\ [Next]_vars => CountInv'
<1> SUFFICES ASSUME QueueInv, RestTypeOK, CountInv, [Next]_vars PROVE CountInv'
  OBVIOUS
<1> USE DEF work, shared
<1>1. pc \in [Messages -> States] /\ queued \in [Messages -> BOOLEAN]
  BY DEF QueueInv, RestTypeOK
\* Most steps neither queue a message nor take it into or out of the slot.
<1>2. ASSUME UNCHANGED <<queued, queueWG>>,
             \A m \in Messages : pc'[m] \in SlotStates <=> pc[m] \in SlotStates,
             \A m \in Messages : pc'[m] = "waiting" => pc[m] = "waiting",
             \A m \in Messages : pc'[m] \in {"new", "prepared", "responding"} =>
                                    pc[m] \in {"new", "prepared", "responding"}
      PROVE  CountInv'
  <2>1. Draining' = Draining
    BY <1>2 DEF Draining
  <2>2. QED
    BY <1>2, <2>1 DEF CountInv
<1>3. ASSUME NEW m \in Messages, NEW from, NEW to, Goto(m, from, to), UNCHANGED <<queued, queueWG>>,
             to \in SlotStates <=> from \in SlotStates, to \notin {"new", "waiting"},
             to \in {"prepared", "responding"} => from \in {"new", "prepared"}
      PROVE  CountInv'
  BY <1>1, <1>2, <1>3 DEF Goto
<1>4. ASSUME NEW m \in Messages, Arrive(m) \/ HandleQueueFull(m) PROVE CountInv'
  BY <1>3, <1>4 DEF Arrive, HandleUnadmitted, PrepareMessage, HandleQueueFull, SlotStates
\* An immediate message gets its slot without being counted.
<1>5. ASSUME NEW m \in Messages, HandleExecuteNow(m) PROVE CountInv'
  <2>1. /\ pc[m] = "prepared" /\ pc' = [pc EXCEPT ![m] = "claimed"] /\ UNCHANGED <<queued, queueWG>>
        /\ ~queued[m]
    BY <1>5 DEF HandleExecuteNow, Goto, CountInv
  <2>2. Draining' = Draining
    BY <1>1, <2>1 DEF Draining, SlotStates
  <2>3. QED
    BY <1>1, <2>1, <2>2 DEF CountInv
<1>6. ASSUME NEW m \in Messages, HandleQueued(m) PROVE CountInv'
  <2>1. /\ pc[m] = "prepared" /\ pc' = [pc EXCEPT ![m] = "waiting"] /\ UNCHANGED queueWG
        /\ queued' = [queued EXCEPT ![m] = TRUE]
    BY <1>6 DEF HandleQueued, Goto
  <2>2. Draining' = Draining
    BY <1>1, <2>1 DEF Draining, SlotStates
  <2>3. QED
    BY <1>1, <2>1, <2>2 DEF CountInv
<1>7. ASSUME NEW m \in Messages, RegisterInFlight(m) \/ SettingUp(m) \/ Loading(m) PROVE CountInv'
  BY <1>3, <1>7 DEF RegisterInFlight, SettingUp, SetUp, SetUpRefused, SetUpFails, Loading,
     StartTurn, LoadBindingFails, Return, SlotStates
<1>8. ASSUME NEW m \in Messages, Turn(m) \/ TurnCanceled(m) \/ Persisting(m) PROVE CountInv'
  BY <1>3, <1>8 DEF Turn, TurnSucceeds, TurnFails, TurnCanceled, Persisting, PersistBinding,
     PersistFails, Return, SlotStates
<1>9. ASSUME NEW m \in Messages, Unregister(m) \/ Delivering(m) \/ Responding(m) PROVE CountInv'
  BY <1>3, <1>9 DEF Unregister, Delivering, DropDeferred, CheckDeferred, SendDeferred, Responding,
     Respond, RespondFails, SlotStates
\* The goroutine of m ends, if it is a drain goroutine.
<1>10. ASSUME NEW m \in Messages, CompleteAndRelease(m) PROVE CountInv'
  <2>1. /\ pc[m] = "completing" /\ pc' = [pc EXCEPT ![m] = AfterComplete(m)] /\ UNCHANGED queued
        /\ queueWG' = (IF queued[m] THEN queueWG - 1 ELSE queueWG)
        /\ AfterComplete(m) = (IF queued[m] THEN "done" ELSE "responding")
    BY <1>10 DEF CompleteAndRelease, Goto, AfterComplete
  <2>2. Draining' = Draining \ {m}
    BY <1>1, <2>1 DEF Draining, SlotStates
  <2>3. m \in Draining <=> queued[m]
    BY <2>1 DEF Draining, SlotStates
  <2>4. IsFiniteSet(Draining') /\ queueWG' = Cardinality(Draining')
    BY <2>1, <2>2, <2>3, FS_RemoveElement DEF CountInv
  <2>5. QED
    BY <1>1, <2>1, <2>4 DEF CountInv
\* A drain goroutine goes on with the next message, or starts for it.
<1>11. ASSUME NEW m \in Messages, CompleteAndDrain(m) PROVE CountInv'
  <2> DEFINE next == Head(Waiting(key[m]))
  <2>1. next \in Messages /\ pc[next] = "waiting" /\ queued[next]
    BY <1>11, HeadWaits DEF CompleteAndDrain, CompleteNext, CountInv
  <2>2. /\ pc[m] = "completing" /\ UNCHANGED queued
        /\ pc' = [pc EXCEPT ![m] = AfterComplete(m), ![next] = "claimed"]
        /\ queueWG' = (IF queued[m] THEN queueWG ELSE queueWG + 1)
        /\ AfterComplete(m) = (IF queued[m] THEN "done" ELSE "responding")
    BY <1>11 DEF CompleteAndDrain, AfterComplete
  <2> HIDE DEF next
  <2>3. Draining' = (Draining \ {m}) \cup {next}
    BY <1>1, <2>1, <2>2 DEF Draining, SlotStates
  <2>4. (m \in Draining <=> queued[m]) /\ next \notin Draining \ {m}
    BY <2>1, <2>2 DEF Draining, SlotStates
  <2>5. /\ IsFiniteSet(Draining \ {m})
        /\ Cardinality(Draining \ {m})
               = (IF queued[m] THEN Cardinality(Draining) - 1 ELSE Cardinality(Draining))
    BY <2>4, FS_RemoveElement DEF CountInv
  <2>6. /\ IsFiniteSet((Draining \ {m}) \cup {next})
        /\ Cardinality((Draining \ {m}) \cup {next}) = Cardinality(Draining \ {m}) + 1
    BY <2>4, <2>5, FS_AddElement
  <2>7. Cardinality(Draining) \in Nat
    BY FS_CardinalityType DEF CountInv
  <2>8. queueWG' = Cardinality(Draining')
    BY <2>2, <2>3, <2>5, <2>6, <2>7 DEF CountInv
  <2>9. QED
    BY <1>1, <2>1, <2>2, <2>3, <2>6, <2>8 DEF CountInv
<1>12. ASSUME NEW s \in Stops, StopDropQueued(s) PROVE CountInv'
  <2>1. PICK k \in Keys : pc' = [m \in Messages |-> IF m \in {Waiting(k)[i] : i \in 1..Len(Waiting(k))}
                                                    THEN "dropped" ELSE pc[m]]
    BY <1>12 DEF StopDropQueued
  <2>2. UNCHANGED <<queued, queueWG>>
    BY <1>12 DEF StopDropQueued
  <2>3. QED
    BY <1>2, <2>1, <2>2, ListedMessagesWait DEF SlotStates
<1>13. CASE \/ \E m \in Messages : PresentAck(m)
            \/ \E s \in Stops : StopUnresolved(s) \/ StopInFlight(s)
            \/ CancelLifecycle \/ Quiet \/ UNCHANGED vars
  BY <1>2, <1>13 DEF PresentAck, StopUnresolved, StopInFlight, CancelLifecycle, Quiet, vars
<1>14. QED
  BY <1>4, <1>5, <1>6, <1>7, <1>8, <1>9, <1>10, <1>11, <1>12, <1>13
  DEF Next, Process, Admission, Arrive, Completing, Stopping

LEMMA CountAlways == Spec => []CountInv
BY QueueInvInit, QueueInvStep, RestTypeInit, RestTypeStep, CountInit, CountStep, PTL DEF Spec

\* queueWG is the number of drain goroutines at work: it never becomes
\* negative, and is zero only when none is left.
THEOREM DrainsAreCountedAlways == Spec => []DrainsAreCounted
<1>1. CountInv => DrainsAreCounted
  BY DEF CountInv, Draining, DrainsAreCounted
<1>2. QED
  BY <1>1, CountAlways, PTL

-----------------------------------------------------------------------------
(* The messages that /stop drops *)

\* A waiting list is as long as its messages are many: none is listed twice.
LEMMA ListsCount ==
  ASSUME QueueInv, NEW k
  PROVE  LET list == {Waiting(k)[i] : i \in 1..Len(Waiting(k))}
         IN  /\ Len(Waiting(k)) \in Nat
             /\ IsFiniteSet(list) /\ Cardinality(list) = Len(Waiting(k))
             /\ list \subseteq Messages
<1> DEFINE w == Waiting(k)
           list == {w[i] : i \in 1..Len(w)}
<1>1. w \in Seq(Messages)
  BY DEF Waiting, QueueInv, QueueTypeOK, Entry
<1>2. \A i, j \in 1..Len(w) : w[i] = w[j] => i = j
  BY DEF Waiting, QueueInv, ListedOnce
<1> HIDE DEF w
<1>3. Len(w) \in Nat /\ list \subseteq Messages
  BY <1>1
<1>4. ExistsBijection(1..Len(w), list)
  <2> DEFINE f == [i \in 1..Len(w) |-> w[i]]
  <2>1. f \in Injection(1..Len(w), list)
    BY <1>2 DEF Injection, IsInjective
  <2>2. f \in Surjection(1..Len(w), list)
    BY DEF Surjection
  <2>3. QED
    BY <2>1, <2>2 DEF ExistsBijection, Bijection
<1>5. IsFiniteSet(1..Len(w)) /\ Cardinality(1..Len(w)) = Len(w)
  <2>1. IsFiniteSet(1..Len(w)) /\ Cardinality(1..Len(w)) = IF 1 > Len(w) THEN 0 ELSE Len(w) - 1 + 1
    BY <1>3, FS_Interval
  <2>2. QED
    BY <1>3, <2>1
<1>6. QED
  BY <1>3, <1>4, <1>5, FS_Bijection DEF w

\* n messages reported by one command.
LEMMA TokensCount ==
  ASSUME NEW c, NEW n \in Nat
  PROVE  IsFiniteSet({c} \X (1..n)) /\ Cardinality({c} \X (1..n)) = n
<1> DEFINE f == [i \in 1..n |-> <<c, i>>]
<1>1. f \in Injection(1..n, {c} \X (1..n))
  BY DEF Injection, IsInjective
<1>2. f \in Surjection(1..n, {c} \X (1..n))
  <2>1. f \in [1..n -> {c} \X (1..n)]
    OBVIOUS
  <2>2. ASSUME NEW x \in {c} \X (1..n) PROVE \E i \in 1..n : f[i] = x
    <3>1. x[2] \in 1..n /\ x = <<c, x[2]>>
      OBVIOUS
    <3>2. QED
      BY <3>1
  <2>3. QED
    BY <2>1, <2>2 DEF Surjection
<1>3. ExistsBijection(1..n, {c} \X (1..n))
  BY <1>1, <1>2 DEF ExistsBijection, Bijection
<1>4. IsFiniteSet(1..n) /\ Cardinality(1..n) = n
  BY FS_Interval
<1>5. QED
  BY <1>3, <1>4, FS_Bijection

LEMMA CountsAdd ==
  ASSUME NEW S, NEW T, IsFiniteSet(S), IsFiniteSet(T), S \cap T = {}
  PROVE  IsFiniteSet(S \cup T) /\ Cardinality(S \cup T) = Cardinality(S) + Cardinality(T)
<1>1. /\ IsFiniteSet(S \cup T)
      /\ Cardinality(S \cup T) = Cardinality(S) + Cardinality(T) - Cardinality({})
  BY FS_Union
<1>2. Cardinality(S) \in Nat /\ Cardinality(T) \in Nat /\ Cardinality({}) = 0
  BY FS_CardinalityType, FS_EmptySet
<1>3. QED
  BY <1>1, <1>2

Dropped == {m \in Messages : pc[m] = "dropped"}
Reported == UNION {{c} \X (1..stops[c].dropped) : c \in Stops}

\* A command reports what it drops in one step, and has reported nothing before.
DropInv ==
    /\ \A c \in Stops : stops[c].pc = "idle" => stops[c].dropped = 0
    /\ IsFiniteSet(Dropped) /\ IsFiniteSet(Reported)
    /\ Cardinality(Dropped) = Cardinality(Reported)

LEMMA DropInit == Init => DropInv
<1> SUFFICES ASSUME Init PROVE DropInv
  OBVIOUS
<1>1. \A m \in Messages : pc[m] = "new"
  BY DEF Init
<1>2. \A c \in Stops : stops[c].dropped = 0
  BY DEF Init, NoStop
<1>3. Dropped = {} /\ Reported = {}
  BY <1>1, <1>2 DEF Dropped, Reported
<1>4. QED
  BY <1>2, <1>3, FS_EmptySet DEF DropInv

\* Only StopDropQueued drops anything, and what was dropped stays dropped.
LEMMA OnlyStopDrops ==
  ASSUME QueueInv, RestTypeOK, [Next]_vars, ~\E s \in Stops : StopDropQueued(s)
  PROVE  /\ Dropped' = Dropped
         /\ Reported' = Reported
         /\ DropInv => DropInv'
<1> USE DEF work, shared
<1>1. pc \in [Messages -> States]
  BY DEF QueueInv
<1>2. ASSUME NEW m \in Messages, NEW from, NEW to, Goto(m, from, to),
             from # "dropped", to # "dropped"
      PROVE  Dropped' = Dropped
  BY <1>1, <1>2 DEF Goto, Dropped
<1>3. UNCHANGED pc => Dropped' = Dropped
  BY DEF Dropped
<1>4. ASSUME UNCHANGED stops, Dropped' = Dropped
      PROVE  Dropped' = Dropped /\ Reported' = Reported /\ (DropInv => DropInv')
  BY <1>4 DEF Reported, DropInv
<1>5. ASSUME NEW m \in Messages, Arrive(m) \/ Admission(m)
      PROVE  UNCHANGED stops /\ Dropped' = Dropped
  BY <1>2, <1>5 DEF Arrive, HandleUnadmitted, PrepareMessage, Admission, HandleExecuteNow,
     HandleQueued, HandleQueueFull
<1>6. ASSUME NEW m \in Messages, RegisterInFlight(m) \/ SettingUp(m) \/ Loading(m)
      PROVE  UNCHANGED stops /\ Dropped' = Dropped
  BY <1>2, <1>6 DEF RegisterInFlight, SettingUp, SetUp, SetUpRefused, SetUpFails, Loading,
     StartTurn, LoadBindingFails, Return
<1>7. ASSUME NEW m \in Messages, Turn(m) \/ TurnCanceled(m) \/ Persisting(m)
      PROVE  UNCHANGED stops /\ Dropped' = Dropped
  BY <1>2, <1>7 DEF Turn, TurnSucceeds, TurnFails, TurnCanceled, Persisting, PersistBinding,
     PersistFails, Return
<1>8. ASSUME NEW m \in Messages, Unregister(m) \/ Delivering(m) \/ Responding(m) \/ CompleteAndRelease(m)
      PROVE  UNCHANGED stops /\ Dropped' = Dropped
  BY <1>2, <1>8 DEF Unregister, Delivering, DropDeferred, CheckDeferred, SendDeferred, Responding,
     Respond, RespondFails, CompleteAndRelease, AfterComplete
<1>9. ASSUME NEW m \in Messages, CompleteAndDrain(m)
      PROVE  UNCHANGED stops /\ Dropped' = Dropped
  <2>1. Head(Waiting(key[m])) \in Messages /\ pc[Head(Waiting(key[m]))] = "waiting"
    BY <1>9, HeadWaits DEF CompleteAndDrain, CompleteNext
  <2>2. QED
    BY <1>1, <1>9, <2>1 DEF CompleteAndDrain, AfterComplete, Dropped
<1>10. ASSUME NEW s \in Stops, StopUnresolved(s) \/ StopInFlight(s)
       PROVE  Dropped' = Dropped /\ Reported' = Reported /\ (DropInv => DropInv')
  <2>1. Dropped' = Dropped
    BY <1>3, <1>10 DEF StopUnresolved, StopInFlight
  <2>2. \A c \in Stops : stops'[c].dropped = stops[c].dropped /\ (stops'[c].pc = "idle" => stops[c].pc = "idle")
    <3>1. \A c \in Stops : stops[c] \in StopStates /\ stops \in [Stops -> StopStates]
      BY DEF RestTypeOK, ServiceTypeOK
    <3>2. CASE StopUnresolved(s)
      BY <1>10, <3>1, <3>2 DEF StopUnresolved, StopStates
    <3>3. CASE StopInFlight(s)
      BY <1>10, <3>1, <3>3 DEF StopInFlight, StopStates
    <3>4. QED
      BY <1>10, <3>2, <3>3
  <2>3. Reported' = Reported
    BY <2>2 DEF Reported
  <2>4. QED
    BY <2>1, <2>2, <2>3 DEF DropInv
<1>11. ASSUME \/ \E m \in Messages : PresentAck(m)
              \/ CancelLifecycle \/ Quiet \/ UNCHANGED vars
       PROVE  UNCHANGED stops /\ Dropped' = Dropped
  BY <1>3, <1>11 DEF PresentAck, CancelLifecycle, Quiet, vars
<1>12. QED
  BY <1>4, <1>5, <1>6, <1>7, <1>8, <1>9, <1>10, <1>11 DEF Next, Process, Completing, Stopping

\* A command drops the waiting list of a key, and reports its length.
LEMMA StopDropsList ==
  ASSUME QueueInv, RestTypeOK, DropInv, NEW s \in Stops, StopDropQueued(s)
  PROVE  DropInv'
<1>1. PICK k \in Keys :
        LET list == {Waiting(k)[i] : i \in 1..Len(Waiting(k))}
        IN  /\ pc' = [m \in Messages |-> IF m \in list THEN "dropped" ELSE pc[m]]
            /\ stops' = [stops EXCEPT ![s] =
                            [pc |-> "dropped", key |-> k, dropped |-> Len(Waiting(k)),
                             hit |-> FALSE, saw |-> Active(k)]]
  BY Zenon DEF StopDropQueued
<1> DEFINE n == Len(Waiting(k))
           list == {Waiting(k)[i] : i \in 1..n}
<1>2. n \in Nat /\ IsFiniteSet(list) /\ Cardinality(list) = n /\ list \subseteq Messages
  BY ListsCount
<1>3. \A m \in list : pc[m] = "waiting"
  BY ListedMessagesWait
<1>4. Dropped' = Dropped \cup list /\ Dropped \cap list = {}
  <2> HIDE DEF list
  <2>1. pc' = [m \in Messages |-> IF m \in list THEN "dropped" ELSE pc[m]]
    BY <1>1 DEF list
  <2>2. QED
    BY <1>2, <1>3, <2>1 DEF Dropped
<1> HIDE DEF list
<1>5. stops[s].pc = "idle" /\ stops[s].dropped = 0
  BY DEF StopDropQueued, DropInv
<1>6. /\ \A c \in Stops : stops'[c].dropped = IF c = s THEN n ELSE stops[c].dropped
      /\ \A c \in Stops : stops'[c].pc = IF c = s THEN "dropped" ELSE stops[c].pc
  <2>1. stops \in [Stops -> StopStates]
    BY DEF RestTypeOK, ServiceTypeOK
  <2>2. QED
    BY <1>1, <2>1
<1> HIDE DEF n
<1> DEFINE mine == {s} \X (1..n)
<1>7. Reported' = Reported \cup mine /\ Reported \cap mine = {}
  <2>1. \A x : x \in Reported <=> \E c \in Stops : x \in {c} \X (1..stops[c].dropped)
    BY DEF Reported
  <2>2. \A x : x \in Reported' <=> \E c \in Stops : x \in {c} \X (1..stops'[c].dropped)
    BY DEF Reported
  <2>3. \A x : x \notin {s} \X (1..stops[s].dropped)
    BY <1>5
  <2>4. {s} \X (1..stops'[s].dropped) = mine
    BY <1>6
  <2>5. \A c \in Stops : c # s => {c} \X (1..stops'[c].dropped) = {c} \X (1..stops[c].dropped)
    BY <1>6
  <2>6. \A x, c, S : x \in {c} \X S => x[1] = c
    OBVIOUS
  <2>7. \A x \in mine : x \notin Reported
    BY <2>1, <2>3, <2>6
  <2> HIDE DEF mine
  <2>8. \A x : x \in Reported' <=> x \in Reported \/ x \in mine
    BY <2>1, <2>2, <2>3, <2>4, <2>5, Zenon
  <2>9. QED
    BY <2>7, <2>8
<1>8. IsFiniteSet(mine) /\ Cardinality(mine) = n
  BY <1>2, TokensCount
<1>9. /\ IsFiniteSet(Dropped')
      /\ Cardinality(Dropped') = Cardinality(Dropped) + n
  BY <1>2, <1>4, CountsAdd DEF DropInv
<1> HIDE DEF mine
<1>10. /\ IsFiniteSet(Reported')
       /\ Cardinality(Reported') = Cardinality(Reported) + n
  <2>1. IsFiniteSet(Reported)
    BY DEF DropInv
  <2>2. /\ IsFiniteSet(Reported \cup mine)
        /\ Cardinality(Reported \cup mine) = Cardinality(Reported) + n
    BY <1>7, <1>8, <2>1, CountsAdd
  <2>3. QED
    BY <1>7, <2>2
<1>11. \A c \in Stops : stops'[c].pc = "idle" => stops'[c].dropped = 0
  BY <1>6 DEF DropInv
<1>12. QED
  BY <1>9, <1>10, <1>11 DEF DropInv

\* As many messages are dropped from the queues as /stop commands say they
\* dropped: none is counted by two commands, and nothing else drops one.
THEOREM DropsAreReportedAlways == Spec => []DropsAreReported
<1>1. QueueInv /\ RestTypeOK /\ DropInv /\ [Next]_vars => DropInv'
  BY OnlyStopDrops, StopDropsList
<1>2. DropInv => DropsAreReported
  BY DEF DropInv, Dropped, Reported, DropsAreReported
<1>3. QED
  BY <1>1, <1>2, QueueInvInit, QueueInvStep, RestTypeInit, RestTypeStep, DropInit, PTL DEF Spec

-----------------------------------------------------------------------------
(* MessageService implements SerialExecutor: the slot holders are the      *)
(* messages served, the coordinator's lists the lines.  First, which       *)
(* messages count as over.                                                 *)

IsOver(m) == pc[m] \in Ended \cup {"responding"} /\ LetIn(m)

\* A message has no key before it is prepared, and one that was let in was
\* not turned away.
LetInInv ==
    \A m \in Messages :
        /\ pc[m] = "new" => key[m] = None
        /\ pc[m] \in {"new", "prepared", "waiting"} \cup SlotStates => outcome[m] # "full"

LEMMA LetInInit == Init => LetInInv
BY DEF Init, LetInInv, SlotStates

\* A message is over once it leaves its slot or the line, and only then.
LeavesForGood(m) ==
    /\ pc[m] \in {"waiting"} \cup SlotStates
    /\ pc'[m] \in Ended \cup {"responding"}

OverGrows == \A m \in Messages : IsOver(m)' <=> IsOver(m) \/ LeavesForGood(m)

LEMMA OverStep == QueueInv /\ RestTypeOK /\ LetInInv /\ [Next]_vars => LetInInv' /\ OverGrows
<1> SUFFICES ASSUME QueueInv, RestTypeOK, LetInInv, [Next]_vars PROVE LetInInv' /\ OverGrows
  OBVIOUS
<1> USE DEF work, shared
<1>1. /\ pc \in [Messages -> States] /\ key \in [Messages -> Keys \cup {None}]
      /\ outcome \in [Messages -> Outcomes]
      /\ \A m \in Messages : pc[m] \in {"prepared", "waiting"} \cup SlotStates => key[m] # None
  BY NoneAssumption DEF QueueInv, RestTypeOK, KeysKnown
\* Enough for most actions: each message stays where it is or moves on from
\* the line or a slot, and no admitted message is turned away.
<1>2. ASSUME UNCHANGED key,
             \A m \in Messages : outcome'[m] = "full" <=> outcome[m] = "full",
             \A m \in Messages :
                \/ pc'[m] = pc[m]
                \/ pc[m] \in {"waiting"} \cup SlotStates /\ pc'[m] # "new"
                \/ pc[m] = "prepared" /\ pc'[m] \in {"waiting"} \cup SlotStates
                \/ pc[m] = "responding" /\ pc'[m] = "done"
      PROVE  LetInInv' /\ OverGrows
  BY <1>1, <1>2 DEF LetInInv, OverGrows, IsOver, LeavesForGood, LetIn, Ended, SlotStates
<1>3. ASSUME NEW m \in Messages, NEW from, NEW to, Goto(m, from, to), UNCHANGED key,
             \/ UNCHANGED outcome
             \/ from \in SlotStates /\ \E o : o # "full" /\ Outcome(m, o),
             \/ from \in SlotStates /\ to # "new"
             \/ from = "prepared" /\ to \in {"waiting"} \cup SlotStates
             \/ from = "responding" /\ to = "done"
      PROVE  LetInInv' /\ OverGrows
  <2>1. pc[m] = from /\ pc'[m] = to /\ \A n \in Messages : n # m => pc'[n] = pc[n]
    BY <1>1, <1>3 DEF Goto
  <2>2. \A n \in Messages : outcome'[n] = "full" <=> outcome[n] = "full"
    BY <1>1, <1>3, <2>1 DEF Outcome, LetInInv
  <2>3. QED
    BY <1>2, <1>3, <2>1, <2>2
<1>4. ASSUME NEW m \in Messages, HandleUnadmitted(m) PROVE LetInInv' /\ OverGrows
  <2>1. /\ pc[m] = "new" /\ pc'[m] = "responding" /\ key' = key /\ key[m] = None
        /\ \A n \in Messages : n # m => pc'[n] = pc[n] /\ outcome'[n] = outcome[n]
    BY <1>1, <1>4 DEF HandleUnadmitted, Goto, Outcome, LetInInv
  <2>2. QED
    BY <1>1, <2>1 DEF LetInInv, OverGrows, IsOver, LeavesForGood, LetIn, Ended, SlotStates
<1>5. ASSUME NEW m \in Messages, PrepareMessage(m) PROVE LetInInv' /\ OverGrows
  <2>1. /\ pc[m] = "new" /\ pc'[m] = "prepared" /\ outcome' = outcome
        /\ \A n \in Messages : n # m => pc'[n] = pc[n] /\ key'[n] = key[n]
    BY <1>1, <1>5 DEF PrepareMessage, Goto
  <2>2. QED
    BY <1>1, <2>1 DEF LetInInv, OverGrows, IsOver, LeavesForGood, LetIn, Ended, SlotStates
<1>6. ASSUME NEW m \in Messages, HandleExecuteNow(m) \/ HandleQueued(m)
      PROVE  LetInInv' /\ OverGrows
  BY <1>3, <1>6 DEF HandleExecuteNow, HandleQueued, SlotStates
<1>7. ASSUME NEW m \in Messages, HandleQueueFull(m) PROVE LetInInv' /\ OverGrows
  <2>1. /\ pc[m] = "prepared" /\ pc'[m] = "responding" /\ outcome'[m] = "full" /\ key' = key
        /\ \A n \in Messages : n # m => pc'[n] = pc[n] /\ outcome'[n] = outcome[n]
    BY <1>1, <1>7 DEF HandleQueueFull, Goto, Outcome
  <2>2. QED
    BY <1>1, <2>1 DEF LetInInv, OverGrows, IsOver, LeavesForGood, LetIn, Ended, SlotStates
<1>8. ASSUME NEW m \in Messages, NEW from \in SlotStates, NEW o, o # "full", Return(m, from, o)
      PROVE  LetInInv' /\ OverGrows
  BY <1>3, <1>8 DEF Return
<1>9. ASSUME NEW m \in Messages, RegisterInFlight(m) \/ SettingUp(m) \/ Loading(m)
      PROVE  LetInInv' /\ OverGrows
  <2>1. CASE RegisterInFlight(m) \/ SetUp(m) \/ StartTurn(m)
    BY <1>3, <2>1 DEF RegisterInFlight, SetUp, StartTurn, SlotStates
  <2>2. CASE SetUpRefused(m) \/ SetUpFails(m) \/ LoadBindingFails(m)
    BY <1>8, <2>2 DEF SetUpRefused, SetUpFails, LoadBindingFails, SlotStates
  <2>3. QED
    BY <1>9, <2>1, <2>2 DEF SettingUp, Loading
<1>10. ASSUME NEW m \in Messages, Turn(m) \/ TurnCanceled(m) \/ Persisting(m)
       PROVE  LetInInv' /\ OverGrows
  <2>1. CASE TurnSucceeds(m) \/ PersistBinding(m)
    BY <1>3, <2>1 DEF TurnSucceeds, PersistBinding, SlotStates
  <2>2. CASE TurnFails(m) \/ TurnCanceled(m) \/ PersistFails(m)
    BY <1>8, <2>2 DEF TurnFails, TurnCanceled, PersistFails, SlotStates
  <2>3. QED
    BY <1>10, <2>1, <2>2 DEF Turn, Persisting
<1>11. ASSUME NEW m \in Messages, Unregister(m) PROVE LetInInv' /\ OverGrows
  <2>1. pc[m] = "returned" /\ outcome[m] # "full"
    BY <1>11 DEF Unregister, Goto, LetInInv, SlotStates
  <2>2. Verdict(m) # "full"
    BY <2>1 DEF Verdict
  <2>3. QED
    BY <1>3, <1>11, <2>2 DEF Unregister, SlotStates
<1>12. ASSUME NEW m \in Messages, Delivering(m) \/ Responding(m) PROVE LetInInv' /\ OverGrows
  BY <1>3, <1>12 DEF Delivering, DropDeferred, CheckDeferred, SendDeferred, Responding, Respond,
     RespondFails, SlotStates
<1>13. ASSUME NEW m \in Messages, Completing(m) PROVE LetInInv' /\ OverGrows
  <2>1. CASE CompleteAndRelease(m)
    BY <1>3, <2>1 DEF CompleteAndRelease, AfterComplete, SlotStates
  <2>2. CASE CompleteAndDrain(m)
    <3> DEFINE next == Head(Waiting(key[m]))
    <3>1. next \in Messages /\ pc[next] = "waiting"
      BY <2>2, HeadWaits DEF CompleteAndDrain, CompleteNext
    <3>2. /\ pc[m] = "completing" /\ UNCHANGED <<key, outcome>>
          /\ pc' = [pc EXCEPT ![m] = AfterComplete(m), ![next] = "claimed"]
          /\ AfterComplete(m) \in {"done", "responding"}
      BY <2>2 DEF CompleteAndDrain, AfterComplete
    <3>3. QED
      BY <1>1, <1>2, <3>1, <3>2 DEF SlotStates
  <2>3. QED
    BY <1>13, <2>1, <2>2 DEF Completing
<1>14. ASSUME NEW s \in Stops, StopDropQueued(s) PROVE LetInInv' /\ OverGrows
  <2>1. PICK k \in Keys :
          pc' = [m \in Messages |->
                   IF m \in {Waiting(k)[i] : i \in 1..Len(Waiting(k))} THEN "dropped" ELSE pc[m]]
    BY <1>14 DEF StopDropQueued
  <2>2. \A i \in 1..Len(Waiting(k)) : pc[Waiting(k)[i]] = "waiting"
    BY ListedMessagesWait
  <2>3. QED
    BY <1>2, <1>14, <2>1, <2>2 DEF StopDropQueued
<1>15. CASE \/ \E m \in Messages : PresentAck(m)
            \/ \E s \in Stops : StopUnresolved(s) \/ StopInFlight(s)
            \/ CancelLifecycle \/ Quiet \/ UNCHANGED vars
  BY <1>2, <1>15 DEF PresentAck, StopUnresolved, StopInFlight, CancelLifecycle, Quiet, vars
<1>16. QED
  BY <1>4, <1>5, <1>6, <1>7, <1>9, <1>10, <1>11, <1>12, <1>13, <1>14, <1>15
  DEF Next, Process, Arrive, Admission, Stopping

-----------------------------------------------------------------------------
(* Each shape of a step is a step of the executor *)

serving == [k \in Keys |-> Holders(k)]
line == [k \in Keys |-> Waiting(k)]
over == {m \in Messages : pc[m] \in Ended \cup {"responding"} /\ LetIn(m)}

ExStep == [Executor!ExNext]_(Executor!exVars)

\* Nobody waits for a key without an entry, and nobody holds its slot.
LEMMA NoEntryNobody ==
  ASSUME QueueInv, NEW k \in Keys, k \notin DOMAIN entries
  PROVE  Holders(k) = {} /\ Waiting(k) = <<>>
BY DEF QueueInv, HoldersHaveEntry, Holders, Holds, Waiting

LEMMA HolderAlone ==
  ASSUME QueueInv, NEW m \in Messages, pc[m] \in SlotStates
  PROVE  key[m] \in Keys /\ Holders(key[m]) = {m}
BY DEF QueueInv, KeysKnown, OneHolder, Holders, Holds

\* A prepared message is neither served, nor in line, nor over.
LEMMA PreparedOutside ==
  ASSUME QueueInv, NEW m \in Messages, pc[m] = "prepared"
  PROVE  ~Executor!Inside(m)
<1>1. m \notin over
  BY DEF over, Ended
<1>2. ASSUME NEW k \in Keys PROVE m \notin Holders(k)
  BY DEF Holders, Holds, SlotStates
<1>3. ASSUME NEW k \in Keys, NEW i \in DOMAIN Waiting(k) PROVE Waiting(k)[i] # m
  <2>1. Waiting(k) \in Seq(Messages)
    BY DEF Waiting, QueueInv, QueueTypeOK, Entry
  <2>2. i \in 1..Len(Waiting(k))
    BY <1>3, <2>1
  <2>3. QED
    BY <2>2, ListedMessagesWait
<1>4. QED
  BY <1>1, <1>2, <1>3 DEF Executor!Inside, over

LEMMA StutterShapes ==
  ASSUME QueueInv, OverGrows, NEW m \in Messages, Aside(m) \/ Resolve(m) \/ GoOn(m)
  PROVE  UNCHANGED <<serving, line, over>>
<1>1. entries' = entries
  BY DEF Aside, Resolve, GoOn
<1>2. line' = line
  BY <1>1 DEF line, Waiting
<1>3. /\ pc \in [Messages -> States] /\ key \in [Messages -> Keys \cup {None}]
  BY DEF QueueInv
<1>4. \A n \in Messages : ~LeavesForGood(n)
  BY <1>3 DEF Aside, Resolve, GoOn, LeavesForGood, SlotStates, Ended
<1>5. over' = over
  BY <1>4 DEF OverGrows, IsOver, over
<1>6. \A n \in Messages : \A k \in Keys : Holds(n, k)' <=> Holds(n, k)
  BY <1>3 DEF Aside, Resolve, GoOn, Holds, SlotStates
<1>7. serving' = serving
  BY <1>6 DEF serving, Holders
<1>8. QED
  BY <1>2, <1>5, <1>7

LEMMA IdleStutters ==
  ASSUME OverGrows, UNCHANGED <<entries, pc, key>>
  PROVE  UNCHANGED <<serving, line, over>>
<1>1. \A n \in Messages : ~LeavesForGood(n)
  BY DEF LeavesForGood, SlotStates, Ended
<1>2. QED
  BY <1>1 DEF OverGrows, IsOver, over, serving, line, Holders, Holds, Waiting

LEMMA SeizeBegins ==
  ASSUME QueueInv, OverGrows, NEW m \in Messages, Seize(m)
  PROVE  Executor!Begin(key[m], m)
<1>1. /\ pc[m] = "prepared" /\ pc' = [pc EXCEPT ![m] = "claimed"] /\ key' = key
      /\ key[m] \in Keys /\ key[m] \notin DOMAIN entries
      /\ entries' = Put(entries, key[m], [running |-> TRUE, waiting |-> <<>>])
      /\ pc \in [Messages -> States]
  BY DEF Seize, AdmitNow, Running, QueueInv, KeysKnown, EntriesRunning
<1>2. ~Executor!Inside(m) /\ serving[key[m]] = {} /\ line[key[m]] = <<>>
  BY <1>1, PreparedOutside, NoEntryNobody DEF serving, line
<1>3. \A k \in Keys : Waiting(k)' = Waiting(k)
  BY <1>1 DEF Waiting, Put
<1>4. line' = line
  BY <1>3 DEF line
<1>5. \A n \in Messages : ~LeavesForGood(n)
  BY <1>1 DEF LeavesForGood, Ended, SlotStates
<1>6. over' = over
  BY <1>5 DEF OverGrows, IsOver, over
<1>7. \A n \in Messages : \A k \in Keys : Holds(n, k)' <=> Holds(n, k) \/ (n = m /\ k = key[m])
  BY <1>1 DEF Holds, SlotStates
<1>8. \A k \in Keys : Holders(k)' = IF k = key[m] THEN {m} ELSE Holders(k)
  BY <1>1, <1>7, NoEntryNobody DEF Holders
<1>9. serving' = [serving EXCEPT ![key[m]] = {m}]
  BY <1>1, <1>8 DEF serving
<1>10. QED
  BY <1>2, <1>4, <1>6, <1>9 DEF Executor!Begin, serving, line, over

LEMMA LineUpJoins ==
  ASSUME QueueInv, OverGrows, NEW m \in Messages, LineUp(m)
  PROVE  Executor!Join(key[m], m)
<1>1. /\ pc[m] = "prepared" /\ pc' = [pc EXCEPT ![m] = "waiting"] /\ key' = key
      /\ key[m] \in Keys /\ key[m] \in DOMAIN entries
      /\ Len(entries[key[m]].waiting) < MaxWaiting
      /\ entries' = [entries EXCEPT ![key[m]].waiting = Append(@, m)]
      /\ pc \in [Messages -> States]
      /\ entries[key[m]] \in Entry
  BY DEF LineUp, AdmitQueued, Running, QueueInv, KeysKnown, QueueTypeOK
<1>2. ~Executor!Inside(m)
  BY <1>1, PreparedOutside
<1>3. serving[key[m]] # {} /\ line[key[m]] = entries[key[m]].waiting
  BY <1>1 DEF QueueInv, EveryEntryOwned, serving, line, Waiting
<1>4. \A k \in Keys : Waiting(k)' = IF k = key[m] THEN Append(Waiting(k), m) ELSE Waiting(k)
  BY <1>1 DEF Waiting, Entry
<1>5. line' = [line EXCEPT ![key[m]] = Append(line[key[m]], m)]
  BY <1>1, <1>4 DEF line
<1>6. \A n \in Messages : ~LeavesForGood(n)
  BY <1>1 DEF LeavesForGood, Ended, SlotStates
<1>7. over' = over
  BY <1>6 DEF OverGrows, IsOver, over
<1>8. \A n \in Messages : \A k \in Keys : Holds(n, k)' <=> Holds(n, k)
  BY <1>1 DEF Holds, SlotStates
<1>9. serving' = serving
  BY <1>8 DEF serving, Holders
<1>10. QED
  BY <1>1, <1>2, <1>3, <1>5, <1>7, <1>9 DEF Executor!Join, serving, line, over

LEMMA HandOverAdvances ==
  ASSUME QueueInv, LetInInv, OverGrows, NEW m \in Messages, HandOver(m)
  PROVE  Executor!Advance(key[m])
<1> DEFINE next == Head(Waiting(key[m]))
<1>1. PICK to \in {"done", "responding"} : pc' = [pc EXCEPT ![m] = to, ![next] = "claimed"]
  BY DEF HandOver
<1>2. /\ pc[m] = "completing" /\ key' = key /\ Waiting(key[m]) # <<>>
      /\ entries' = [entries EXCEPT ![key[m]].waiting = Tail(@)]
      /\ pc \in [Messages -> States]
  BY DEF HandOver, CompleteNext, QueueInv
<1>3. key[m] \in Keys /\ Holders(key[m]) = {m}
  BY <1>2, HolderAlone DEF SlotStates
<1>4. key[m] \in DOMAIN entries /\ Waiting(key[m]) = entries[key[m]].waiting
      /\ entries[key[m]] \in Entry
  BY <1>2 DEF Waiting, QueueInv, QueueTypeOK
<1>5. next \in Messages /\ pc[next] = "waiting" /\ key[next] = key[m]
  <2>1. Waiting(key[m]) \in Seq(Messages)
    BY <1>4 DEF Entry
  <2>2. 1 \in 1..Len(Waiting(key[m])) /\ next = Waiting(key[m])[1]
    BY <1>2, <2>1
  <2>3. QED
    BY <1>2, <1>4, <2>2, HeadWaits DEF QueueInv, ListedWait
<1>6. /\ pc'[m] = to /\ pc'[next] = "claimed" /\ m # next
      /\ \A n \in Messages : n # m /\ n # next => pc'[n] = pc[n]
  BY <1>1, <1>2, <1>5
<1>7. \A k \in Keys : Waiting(k)' = IF k = key[m] THEN Tail(Waiting(k)) ELSE Waiting(k)
  BY <1>2, <1>4 DEF Waiting, Entry
<1>8. line' = [line EXCEPT ![key[m]] = Tail(line[key[m]])]
  BY <1>3, <1>7 DEF line
<1>9. \A n \in Messages : LeavesForGood(n) <=> n = m
  BY <1>2, <1>5, <1>6 DEF LeavesForGood, Ended, SlotStates
<1>10. over' = over \cup {m}
  BY <1>9 DEF OverGrows, IsOver, over
<1>11. \A n \in Messages : \A k \in Keys :
          Holds(n, k)' <=> (Holds(n, k) /\ n # m) \/ (n = next /\ k = key[m])
  BY <1>2, <1>5, <1>6 DEF Holds, SlotStates
<1>12. \A k \in Keys : Holders(k)' = IF k = key[m] THEN {next} ELSE Holders(k)
  <2>1. \A k \in Keys : m \in Holders(k) => k = key[m]
    BY DEF Holders, Holds
  <2>2. QED
    BY <1>3, <1>5, <1>11, <2>1 DEF Holders
<1>13. serving' = [serving EXCEPT ![key[m]] = {Head(line[key[m]])}]
  BY <1>3, <1>12 DEF serving, line
<1>14. serving[key[m]] = {m} /\ line[key[m]] # <<>>
  BY <1>2, <1>3 DEF serving, line
<1>15. QED
  BY <1>8, <1>10, <1>13, <1>14 DEF Executor!Advance, serving, line, over

LEMMA GiveUpAdvances ==
  ASSUME QueueInv, LetInInv, OverGrows, NEW m \in Messages, GiveUp(m)
  PROVE  Executor!Advance(key[m])
<1>1. PICK to \in {"done", "responding"} : pc' = [pc EXCEPT ![m] = to]
  BY DEF GiveUp
<1>2. /\ pc[m] = "completing" /\ key' = key /\ Waiting(key[m]) = <<>>
      /\ entries' = Delete(entries, key[m])
      /\ pc \in [Messages -> States]
  BY DEF GiveUp, CompleteEmpty, QueueInv
<1>3. key[m] \in Keys /\ Holders(key[m]) = {m}
  BY <1>2, HolderAlone DEF SlotStates
<1>4. \A k \in Keys : Waiting(k)' = Waiting(k)
  BY <1>2 DEF Waiting, Delete, Restrict
<1>5. line' = line
  BY <1>4 DEF line
<1>6. \A n \in Messages : LeavesForGood(n) <=> n = m
  BY <1>1, <1>2 DEF LeavesForGood, Ended, SlotStates
<1>7. over' = over \cup {m}
  BY <1>6 DEF OverGrows, IsOver, over
<1>8. \A n \in Messages : \A k \in Keys : Holds(n, k)' <=> Holds(n, k) /\ n # m
  BY <1>1, <1>2 DEF Holds, SlotStates
<1>9. \A k \in Keys : Holders(k)' = IF k = key[m] THEN {} ELSE Holders(k)
  <2>1. \A k \in Keys : m \in Holders(k) => k = key[m]
    BY DEF Holders, Holds
  <2>2. QED
    BY <1>3, <1>8, <2>1 DEF Holders
<1>10. serving' = [serving EXCEPT ![key[m]] = {}]
  BY <1>3, <1>9 DEF serving
<1>11. serving[key[m]] = {m} /\ line[key[m]] = <<>>
  BY <1>2, <1>3 DEF serving, line
<1>12. QED
  BY <1>5, <1>7, <1>10, <1>11 DEF Executor!Advance, serving, line, over

LEMMA SweepSendsAway ==
  ASSUME QueueInv, LetInInv, OverGrows, NEW k \in Keys, Sweep(k)
  PROVE  Executor!SendAway(k)
<1> DEFINE list == {Waiting(k)[i] : i \in 1..Len(Waiting(k))}
<1>1. /\ pc' = [m \in Messages |-> IF m \in list THEN "dropped" ELSE pc[m]]
      /\ key' = key
  BY DEF Sweep
<1>2. /\ list \subseteq Messages /\ \A n \in list : pc[n] = "waiting"
      /\ {Waiting(k)[i] : i \in DOMAIN Waiting(k)} = list
  <2>1. Waiting(k) \in Seq(Messages)
    BY DEF Waiting, QueueInv, QueueTypeOK, Entry
  <2>2. QED
    BY <2>1, ListedMessagesWait
<1>3. \A x \in Keys : Waiting(x)' = IF x = k THEN <<>> ELSE Waiting(x)
  <2>1. CASE k \in DOMAIN entries
    <3>1. entries' = [entries EXCEPT ![k].waiting = <<>>] /\ entries[k] \in Entry
      BY <2>1 DEF Sweep, DropQueued, QueueInv, QueueTypeOK
    <3>2. QED
      BY <2>1, <3>1 DEF Waiting, Entry
  <2>2. CASE k \notin DOMAIN entries
    BY <2>2 DEF Sweep, DropQueued, Waiting
  <2>3. QED
    BY <2>1, <2>2
<1>4. line' = [line EXCEPT ![k] = <<>>]
  BY <1>3 DEF line
<1>5. \A n \in Messages : LeavesForGood(n) <=> n \in list
  <2>1. \A n \in Messages : n \notin list => pc'[n] = pc[n]
    BY <1>1
  <2>2. QED
    BY <1>1, <1>2, <2>1 DEF LeavesForGood, Ended, SlotStates
<1>6. over' = over \cup {line[k][i] : i \in DOMAIN line[k]}
  BY <1>2, <1>5 DEF OverGrows, IsOver, over, line
<1>7. \A n \in Messages : \A x \in Keys : Holds(n, x)' <=> Holds(n, x)
  BY <1>1, <1>2 DEF Holds, SlotStates
<1>8. serving' = serving
  BY <1>7 DEF serving, Holders
<1>9. QED
  BY <1>4, <1>6, <1>8 DEF Executor!SendAway, serving, line, over

-----------------------------------------------------------------------------
(* The theorem *)

LEMMA ExecutorInit == Init => Executor!ExInit
<1> SUFFICES ASSUME Init PROVE Executor!ExInit
  OBVIOUS
<1>1. entries = [k \in {} |-> [running |-> FALSE, waiting |-> <<>>]]
      /\ pc = [m \in Messages |-> "new"]
  BY DEF Init, QueueInit
<1>2. \A k \in Keys : Holders(k) = {} /\ Waiting(k) = <<>>
  BY <1>1 DEF Holders, Holds, SlotStates, Waiting
<1>3. over = {}
  BY <1>1 DEF over, Ended
<1>4. QED
  BY <1>2, <1>3 DEF Executor!ExInit, over

LEMMA ExecutorStep ==
  QueueInv /\ RestTypeOK /\ LetInInv /\ [Next]_vars => ExStep
<1> SUFFICES ASSUME QueueInv, RestTypeOK, LetInInv, [Next]_vars PROVE ExStep
  OBVIOUS
<1>1. OverGrows
  BY OverStep
<1>2. UNCHANGED <<serving, line, over>> => ExStep
  BY DEF ExStep, Executor!exVars, serving, line, over
<1>3. Executor!ExNext => ExStep
  BY DEF ExStep
<1>4. ASSUME NEW m \in Messages, Aside(m) \/ Resolve(m) \/ GoOn(m) PROVE ExStep
  BY <1>1, <1>2, <1>4, StutterShapes
<1>5. ASSUME NEW m \in Messages, Seize(m) PROVE ExStep
  <2>1. key[m] \in Keys
    BY <1>5 DEF Seize, QueueInv, KeysKnown
  <2>2. QED
    BY <1>1, <1>3, <1>5, <2>1, SeizeBegins DEF Executor!ExNext
<1>6. ASSUME NEW m \in Messages, LineUp(m) PROVE ExStep
  <2>1. key[m] \in Keys
    BY <1>6 DEF LineUp, QueueInv, KeysKnown
  <2>2. QED
    BY <1>1, <1>3, <1>6, <2>1, LineUpJoins DEF Executor!ExNext
<1>7. ASSUME NEW m \in Messages, HandOver(m) \/ GiveUp(m) PROVE ExStep
  <2>1. key[m] \in Keys
    BY <1>7 DEF HandOver, GiveUp, QueueInv, KeysKnown, SlotStates
  <2>2. Executor!Advance(key[m])
    BY <1>1, <1>7, HandOverAdvances, GiveUpAdvances
  <2>3. \E k \in Keys : Executor!Advance(k)
    BY <2>1, <2>2 DEF Executor!Advance
  <2>4. Executor!ExNext
    BY <2>3 DEF Executor!ExNext
  <2>5. QED
    BY <1>3, <2>4
<1>8. ASSUME NEW k \in Keys, Sweep(k) PROVE ExStep
  BY <1>1, <1>3, <1>8, SweepSendsAway DEF Executor!ExNext
<1>9. CASE UNCHANGED <<entries, pc, key>>
  BY <1>1, <1>2, <1>9, IdleStutters
<1>10. QED
  BY <1>4, <1>5, <1>6, <1>7, <1>8, <1>9, StepShapes DEF Shape

\* The message service implements the serial executor: one message of a key is
\* served at a time, in the order of admission, with at most MaxWaiting in line
\* (Admit, Complete and DropQueued with everything the goroutines do between).
THEOREM ServiceImplementsExecutor == Spec => ImplementsExecutor
<1>1. QueueInv /\ RestTypeOK /\ LetInInv /\ [Next]_vars => LetInInv'
  BY OverStep
<1>2. Spec => Executor!ExSpec
  BY <1>1, QueueInvInit, QueueInvStep, RestTypeInit, RestTypeStep, LetInInit, ExecutorInit,
     ExecutorStep, PTL DEF Spec, ExStep, Executor!ExSpec
<1>3. QED
  BY <1>2 DEF ImplementsExecutor

=============================================================================
