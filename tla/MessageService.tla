--------------------------- MODULE MessageService ---------------------------
(***************************************************************************)
(* internal/app/message_service_impl.go on top of the queue coordinator.   *)
(*                                                                         *)
(* One message is one HandleMessage call on a goroutine of its own.  The   *)
(* coordinator either lets that goroutine run the Codex turn, or keeps the *)
(* message until a drain goroutine, started by whoever frees the key,      *)
(* takes it over.  A turn holds the key's slot from the admission (or from *)
(* the Complete that popped it) until the Complete that follows it.        *)
(* /stop commands run on further goroutines: StopCurrent drops the queue   *)
(* and then, as a separate critical section, cancels the registered turn.  *)
(*                                                                         *)
(* One action per stretch of code between two accesses to shared state:    *)
(* the coordinator (c.mu), the in-flight registry (stopMu), the thread     *)
(* bindings in SQLite, the queueWG wait group, the lifecycle context and   *)
(* the Discord channel.                                                    *)
(***************************************************************************)
EXTENDS QueueCoordinator, FiniteSets

CONSTANTS Stops,       \* /stop commands the users issue
          ThreadMode,  \* TRUE: mode thread, FALSE: mode journal
          None

ASSUME NoneAssumption == None \notin Messages /\ None \notin Keys
ASSUME ThreadModeAssumption == ThreadMode \in BOOLEAN

VARIABLES
    pc,         \* where the work on a message stands
    key,        \* the execution key its admission uses
    queued,     \* was put on the waiting list, so a drain goroutine runs it
    ack,        \* the "queued at position n" reply: "none" "pending" "shown"
    thread,     \* the Codex thread its turn runs on (None: a new one)
    outcome,    \* what executePreparedMessage, then its caller, made of it
    stopped,    \* inFlightExecution.stopped, set together with cancel()
    cleanups,   \* how often the temporary images' cleanup ran
    reply,      \* the final answer the user sees
    inFlight,   \* s.inFlight, a map from execution key to the running turn
    binding,    \* thread_bindings: the Codex thread saved for a key
    queueWG,    \* s.queueWG: drain goroutines alive
    canceled,   \* the runtime's lifecycle context is done
    stops       \* progress of each /stop command

work == <<key, queued, ack, thread, outcome, cleanups, reply>>
shared == <<entries, stopped, inFlight, binding, queueWG, canceled, stops>>
vars == <<entries, pc, key, queued, ack, thread, outcome, stopped, cleanups,
          reply, inFlight, binding, queueWG, canceled, stops>>

\* A Codex thread is named after the message whose turn started it.
Threads == Messages

\* The key's slot is held in these states ...
SlotStates == {"claimed", "registered", "ready", "turn", "turned", "returned",
               "delivering", "sending", "completing"}
\* ... and the turn is entered in inFlight in these.
RegisteredStates == {"registered", "ready", "turn", "turned", "returned"}
\* The turn of a message in these states is still to come or under way.
TurnAhead == {"claimed", "registered", "ready", "turn"}
Ended == {"done", "dropped"}

States == {"new", "prepared", "waiting", "responding"} \cup SlotStates \cup Ended
Outcomes == {"none", "ignored", "refused", "full", "answer", "failed",
             "canceled", "stopped", "error"}
Replies == Outcomes \cup {"undelivered"}

StopStates == [pc : {"idle", "dropped", "done"}, key : Keys \cup {None},
               dropped : Nat, hit : BOOLEAN, saw : SUBSET Messages]
NoStop == [pc |-> "idle", key |-> None, dropped |-> 0, hit |-> FALSE, saw |-> {}]

Holds(m, k) == pc[m] \in SlotStates /\ key[m] = k
Holders(k) == {m \in Messages : Holds(m, k)}

\* The execution context of a turn: WithCancel below the lifecycle context.
\* Its own cancel() is immediate; a lifecycle cancellation is forwarded by a
\* goroutine, so that a turn sees it now or later.
MayBeCanceled(m) == stopped[m] \/ canceled
MayProceed(m) == ~stopped[m]

Init ==
    /\ QueueInit
    /\ pc = [m \in Messages |-> "new"]
    /\ key = [m \in Messages |-> None]
    /\ queued = [m \in Messages |-> FALSE]
    /\ ack = [m \in Messages |-> "none"]
    /\ thread = [m \in Messages |-> None]
    /\ outcome = [m \in Messages |-> "none"]
    /\ stopped = [m \in Messages |-> FALSE]
    /\ cleanups = [m \in Messages |-> 0]
    /\ reply = [m \in Messages |-> "none"]
    /\ inFlight = [k \in {} |-> None]
    /\ binding = [k \in Keys |-> None]
    /\ queueWG = 0
    /\ canceled = FALSE
    /\ stops = [s \in Stops |-> NoStop]

Goto(m, from, to) ==
    /\ pc[m] = from
    /\ pc' = [pc EXCEPT ![m] = to]

RunCleanup(m) == cleanups' = [cleanups EXCEPT ![m] = @ + 1]

Outcome(m, o) == outcome' = [outcome EXCEPT ![m] = o]

-----------------------------------------------------------------------------
(* HandleMessage up to the admission *)

\* Not addressed to the bot, or refused while it is prepared (no active task,
\* a bad or unknown task override, a store error): the deferred cleanup runs
\* and the runtime presents the response, if it has one.
HandleUnadmitted(m) ==
    /\ Goto(m, "new", "responding")
    /\ \E o \in {"ignored", "refused", "error"} : Outcome(m, o)
    /\ RunCleanup(m)
    /\ UNCHANGED <<shared, key, queued, ack, thread, reply>>

\* prepareMessage resolves the key of the conversation.
PrepareMessage(m) ==
    /\ Goto(m, "new", "prepared")
    /\ \E k \in Keys : key' = [key EXCEPT ![m] = k]
    /\ UNCHANGED <<shared, queued, ack, thread, outcome, cleanups, reply>>

HandleExecuteNow(m) ==
    /\ Goto(m, "prepared", "claimed")
    /\ AdmitNow(key[m])
    /\ UNCHANGED <<work, stopped, inFlight, binding, queueWG, canceled, stops>>

\* DEFECT: the deferred cleanup of HandleMessage still runs for a queued message.
HandleQueuedKeepsCleanup(m) ==
    /\ Goto(m, "prepared", "waiting")
    /\ AdmitQueued(key[m], m)
    /\ queued' = [queued EXCEPT ![m] = TRUE]
    /\ ack' = [ack EXCEPT ![m] = "pending"]
    /\ RunCleanup(m)
    /\ UNCHANGED <<key, thread, outcome, reply, stopped, inFlight, binding,
                   queueWG, canceled, stops>>

\* `cleanup = nil`: the images now belong to the queued work.
HandleQueued(m) ==
    /\ Goto(m, "prepared", "waiting")
    /\ AdmitQueued(key[m], m)
    /\ queued' = [queued EXCEPT ![m] = TRUE]
    /\ ack' = [ack EXCEPT ![m] = "pending"]
    /\ UNCHANGED <<key, thread, outcome, cleanups, reply, stopped, inFlight,
                   binding, queueWG, canceled, stops>>

HandleQueueFull(m) ==
    /\ Goto(m, "prepared", "responding")
    /\ AdmitQueueFull(key[m])
    /\ Outcome(m, "full")
    /\ RunCleanup(m)
    /\ UNCHANGED <<key, queued, ack, thread, reply, stopped, inFlight, binding,
                   queueWG, canceled, stops>>

-----------------------------------------------------------------------------
(* executePreparedMessage: on the handler's goroutine, or on a drain         *)
(* goroutine for a message that was queued                                   *)

RegisterInFlight(m) ==
    /\ Goto(m, "claimed", "registered")
    /\ inFlight' = Put(inFlight, key[m], m)
    /\ UNCHANGED <<work, entries, stopped, binding, queueWG, canceled, stops>>

\* Every return of executePreparedMessage passes its deferred cleanup.
Return(m, from, o) ==
    /\ Goto(m, from, "returned")
    /\ Outcome(m, o)
    /\ RunCleanup(m)
    /\ UNCHANGED <<shared, key, queued, ack, thread, reply>>

\* ensureTaskReady (thread mode) or the memory refresh (journal mode, which
\* only logs its errors, a canceled context's too) lets the turn go on.
SetUp(m) ==
    /\ ThreadMode => MayProceed(m)
    /\ Goto(m, "registered", "ready")
    /\ UNCHANGED <<shared, work>>

\* The task is gone or closed, or its worktree cannot be prepared: a response
\* and no error, even when it was the cancellation that broke the setup.
SetUpRefused(m) ==
    /\ ThreadMode
    /\ Return(m, "registered", "refused")

SetUpFails(m) ==
    /\ ThreadMode
    /\ \/ Return(m, "registered", "failed")
       \/ MayBeCanceled(m) /\ Return(m, "registered", "canceled")

\* DEFECT: the saved thread is not passed on to the turn.
StartTurnFresh(m) ==
    /\ MayProceed(m)
    /\ Goto(m, "ready", "turn")
    /\ UNCHANGED <<shared, work>>

\* GetThreadBinding; RunTurn resumes the thread found.
StartTurn(m) ==
    /\ MayProceed(m)
    /\ Goto(m, "ready", "turn")
    /\ thread' = [thread EXCEPT ![m] = binding[key[m]]]
    /\ UNCHANGED <<shared, key, queued, ack, outcome, cleanups, reply>>

LoadBindingFails(m) ==
    \/ Return(m, "ready", "failed")
    \/ MayBeCanceled(m) /\ Return(m, "ready", "canceled")

\* The gateway reports success and the thread it ran on; a turn without a
\* thread to resume has created one.  A process that had already exited is
\* not affected by a cancellation.
TurnSucceeds(m) ==
    /\ Goto(m, "turn", "turned")
    /\ thread' = [thread EXCEPT ![m] = IF @ = None THEN m ELSE @]
    /\ UNCHANGED <<shared, key, queued, ack, outcome, cleanups, reply>>

\* Codex reports a failure, ends without a thread id, or its last line was
\* cut short by the kill: an error other than context.Canceled.
TurnFails(m) == Return(m, "turn", "failed")

\* DEFECT: RunTurn is given the lifecycle context instead of the turn's own.
TurnCanceledByLifecycleOnly(m) ==
    /\ canceled
    /\ Return(m, "turn", "canceled")

\* DEFECT: the turn's context is not derived from the lifecycle context.
TurnCanceledByStopOnly(m) ==
    /\ stopped[m]
    /\ Return(m, "turn", "canceled")

\* The process is killed because its context is done.
TurnCanceled(m) ==
    /\ MayBeCanceled(m)
    /\ Return(m, "turn", "canceled")

\* UpsertThreadBinding, on the turn's own context; the touch of the task's
\* last-used time that follows only logs its errors.
PersistBinding(m) ==
    /\ MayProceed(m)
    /\ Goto(m, "turned", "returned")
    /\ binding' = [binding EXCEPT ![key[m]] = thread[m]]
    /\ Outcome(m, "answer")
    /\ RunCleanup(m)
    /\ UNCHANGED <<key, queued, ack, thread, reply, entries, stopped, inFlight,
                   queueWG, canceled, stops>>

PersistFails(m) ==
    \/ Return(m, "turned", "failed")
    \/ MayBeCanceled(m) /\ Return(m, "turned", "canceled")

-----------------------------------------------------------------------------
(* After the turn *)

\* DEFECT: the test for a context error comes before the one for a /stop.
VerdictContextFirst(m) ==
    CASE outcome[m] = "canceled" /\ queued[m]  -> "ignored"
      [] outcome[m] = "canceled" /\ ~queued[m] -> IF stopped[m] THEN "stopped" ELSE "error"
      [] outcome[m] = "failed"                 -> "error"
      [] OTHER                                 -> outcome[m]

\* What the caller makes of the outcome.  A queued message whose context
\* ended with the process (and not by /stop) gets no reply: "ignored".
Verdict(m) ==
    CASE outcome[m] = "canceled" /\ stopped[m]  -> "stopped"
      [] outcome[m] = "canceled" /\ ~stopped[m] -> IF queued[m] THEN "ignored" ELSE "error"
      [] outcome[m] = "failed"                  -> "error"
      [] OTHER                                  -> outcome[m]

\* DEFECT: a failed immediate turn returns before it completes its execution.
UnregisterReturnsOnError(m) ==
    /\ Goto(m, "returned", IF queued[m]
                           THEN IF Verdict(m) # "ignored" THEN "delivering" ELSE "completing"
                           ELSE IF Verdict(m) = "error" THEN "responding" ELSE "completing")
    /\ inFlight' = Delete(inFlight, key[m])
    /\ Outcome(m, Verdict(m))
    /\ UNCHANGED <<key, queued, ack, thread, cleanups, reply, entries, stopped,
                   binding, queueWG, canceled, stops>>

\* DEFECT: the turn stays registered after it is over.
UnregisterLeaks(m) ==
    /\ Goto(m, "returned", IF queued[m] /\ Verdict(m) # "ignored"
                           THEN "delivering" ELSE "completing")
    /\ Outcome(m, Verdict(m))
    /\ UNCHANGED <<key, queued, ack, thread, cleanups, reply, entries, stopped,
                   inFlight, binding, queueWG, canceled, stops>>

\* unregister(): the entry goes if it is still this turn's.
Unregister(m) ==
    /\ Goto(m, "returned", IF queued[m] /\ Verdict(m) # "ignored"
                           THEN "delivering" ELSE "completing")
    /\ inFlight' = IF key[m] \in DOMAIN inFlight /\ inFlight[key[m]] = m
                   THEN Delete(inFlight, key[m])
                   ELSE inFlight
    /\ Outcome(m, Verdict(m))
    /\ UNCHANGED <<key, queued, ack, thread, cleanups, reply, entries, stopped,
                   binding, queueWG, canceled, stops>>

\* The deferred reply of a queued message is dropped when the lifecycle
\* context is done.
DropDeferred(m) ==
    /\ canceled
    /\ Goto(m, "delivering", "completing")
    /\ UNCHANGED <<shared, work>>

\* Otherwise it is sent, whatever becomes of the context meanwhile.
CheckDeferred(m) ==
    /\ ~canceled
    /\ Goto(m, "delivering", "sending")
    /\ UNCHANGED <<shared, work>>

\* The send can fail: Discord refuses it, or the session is gone by now.
SendDeferred(m) ==
    /\ Goto(m, "sending", "completing")
    /\ \E r \in {outcome[m], "undelivered"} : reply' = [reply EXCEPT ![m] = r]
    /\ UNCHANGED <<shared, key, queued, ack, thread, outcome, cleanups>>

\* Where the goroutine that ran m goes after Complete: a handler still has to
\* hand its response to the runtime, a drain goroutine is done with m.
AfterComplete(m) == IF queued[m] THEN "done" ELSE "responding"

\* Complete returns work.  A drain goroutine goes on with it; a handler adds
\* one to queueWG and starts a drain goroutine for it.
CompleteAndDrain(m) ==
    /\ pc[m] = "completing"
    /\ CompleteNext(key[m])
    /\ LET next == Head(Waiting(key[m]))
       IN  pc' = [pc EXCEPT ![m] = AfterComplete(m), ![next] = "claimed"]
    /\ queueWG' = IF queued[m] THEN queueWG ELSE queueWG + 1
    /\ UNCHANGED <<work, stopped, inFlight, binding, canceled, stops>>

\* DEFECT: the drain goroutine ends without Done.
CompleteAndReleaseNoDone(m) ==
    /\ Goto(m, "completing", AfterComplete(m))
    /\ CompleteEmpty(key[m])
    /\ UNCHANGED <<work, stopped, inFlight, binding, queueWG, canceled, stops>>

\* Complete finds nothing waiting: the key is free, a drain goroutine ends.
CompleteAndRelease(m) ==
    /\ Goto(m, "completing", AfterComplete(m))
    /\ CompleteEmpty(key[m])
    /\ queueWG' = IF queued[m] THEN queueWG - 1 ELSE queueWG
    /\ UNCHANGED <<work, stopped, inFlight, binding, canceled, stops>>

-----------------------------------------------------------------------------
(* The runtime's side of a HandleMessage call that returned *)

\* handleMessageCreate presents the response; an ignored message has none.
Respond(m) ==
    /\ Goto(m, "responding", "done")
    /\ reply' = [reply EXCEPT ![m] =
                    IF outcome[m] = "ignored" THEN "none" ELSE outcome[m]]
    /\ UNCHANGED <<shared, key, queued, ack, thread, outcome, cleanups>>

RespondFails(m) ==
    /\ outcome[m] # "ignored"
    /\ Goto(m, "responding", "done")
    /\ reply' = [reply EXCEPT ![m] = "undelivered"]
    /\ UNCHANGED <<shared, key, queued, ack, thread, outcome, cleanups>>

\* The acknowledgement of a queued message is presented by the handler while
\* the message waits, runs, or is over.
PresentAck(m) ==
    /\ ack[m] = "pending"
    /\ ack' = [ack EXCEPT ![m] = "shown"]
    /\ UNCHANGED <<shared, pc, key, queued, thread, outcome, cleanups, reply>>

-----------------------------------------------------------------------------
(* StopCurrent *)

\* The turns a /stop is meant for: those that hold the slot and are not over.
Active(k) == {m \in Holders(k) : pc[m] \in TurnAhead}

\* No active task or no journal session of the day, a store error, or the
\* lifecycle context is done: nothing is stopped.
StopUnresolved(s) ==
    /\ stops[s].pc = "idle"
    /\ stops' = [stops EXCEPT ![s].pc = "done"]
    /\ UNCHANGED <<work, pc, entries, stopped, inFlight, binding, queueWG, canceled>>

\* DropQueued, which runs every waiting message's onDrop under c.mu.
\* `saw` is a history variable: the turn the command was issued against.
StopDropQueued(s) ==
    /\ stops[s].pc = "idle"
    /\ \E k \in Keys :
         LET dropped == {Waiting(k)[i] : i \in 1..Len(Waiting(k))}
         IN  /\ DropQueued(k)
             /\ pc' = [m \in Messages |-> IF m \in dropped THEN "dropped" ELSE pc[m]]
             /\ cleanups' = [m \in Messages |->
                                IF m \in dropped THEN cleanups[m] + 1 ELSE cleanups[m]]
             /\ stops' = [stops EXCEPT ![s] =
                            [pc |-> "dropped", key |-> k, dropped |-> Len(Waiting(k)),
                             hit |-> FALSE, saw |-> Active(k)]]
    /\ UNCHANGED <<key, queued, ack, thread, outcome, reply, stopped, inFlight,
                   binding, queueWG, canceled>>

\* stopInFlight, and the answer to the user that follows from it.
StopInFlight(s) ==
    /\ stops[s].pc = "dropped"
    /\ LET hit == stops[s].key \in DOMAIN inFlight
       IN  /\ stopped' = IF hit THEN [stopped EXCEPT ![inFlight[stops[s].key]] = TRUE]
                                ELSE stopped
           /\ stops' = [stops EXCEPT ![s].pc = "done", ![s].hit = hit]
    /\ UNCHANGED <<work, pc, entries, inFlight, binding, queueWG, canceled>>

-----------------------------------------------------------------------------

\* Runtime.Close gives up waiting and cancels the lifecycle context.
CancelLifecycle ==
    /\ ~canceled
    /\ canceled' = TRUE
    /\ UNCHANGED <<work, pc, entries, stopped, inFlight, binding, queueWG, stops>>

\* Nothing is left to do.
Quiet ==
    /\ \A m \in Messages : pc[m] \in Ended /\ ack[m] # "pending"
    /\ \A s \in Stops : stops[s].pc = "done"
    /\ UNCHANGED vars

Arrive(m) == HandleUnadmitted(m) \/ PrepareMessage(m)
Admission(m) == HandleExecuteNow(m) \/ HandleQueued(m) \/ HandleQueueFull(m)
SettingUp(m) == SetUp(m) \/ SetUpRefused(m) \/ SetUpFails(m)
Loading(m) == StartTurn(m) \/ LoadBindingFails(m)
Turn(m) == TurnSucceeds(m) \/ TurnFails(m)
Persisting(m) == PersistBinding(m) \/ PersistFails(m)
Delivering(m) == DropDeferred(m) \/ CheckDeferred(m) \/ SendDeferred(m)
Completing(m) == CompleteAndDrain(m) \/ CompleteAndRelease(m)
Responding(m) == Respond(m) \/ RespondFails(m)
Stopping(s) == StopUnresolved(s) \/ StopDropQueued(s) \/ StopInFlight(s)

\* What the process does by itself once a message was handed to it.
Process(m) ==
    \/ Admission(m)
    \/ RegisterInFlight(m)
    \/ SettingUp(m)
    \/ Loading(m)
    \/ TurnCanceled(m)
    \/ Persisting(m)
    \/ Unregister(m)
    \/ Delivering(m)
    \/ Completing(m)
    \/ Responding(m)

Next ==
    \/ \E m \in Messages : Arrive(m) \/ Process(m) \/ Turn(m) \/ PresentAck(m)
    \/ \E s \in Stops : Stopping(s)
    \/ CancelLifecycle
    \/ Quiet

Spec == Init /\ [][Next]_vars

\* Goroutines are scheduled, store calls and sends return, a killed process
\* ends; a /stop once begun goes on.  A Codex turn has no time limit in the
\* code, so nothing is assumed of a turn that nobody cancels.
GoroutineFairness ==
    /\ \A m \in Messages : WF_vars(Process(m)) /\ WF_vars(PresentAck(m))
    /\ \A s \in Stops : WF_vars(StopInFlight(s))

\* In addition every Codex turn ends: an assumption about the environment.
TurnFairness == \A m \in Messages : WF_vars(Turn(m))

FairSpec == Spec /\ GoroutineFairness
FairTurnsSpec == FairSpec /\ TurnFairness

-----------------------------------------------------------------------------
(* Safety *)

WorkTypeOK ==
    /\ pc \in [Messages -> States]
    /\ key \in [Messages -> Keys \cup {None}]
    /\ queued \in [Messages -> BOOLEAN]
    /\ ack \in [Messages -> {"none", "pending", "shown"}]
    /\ thread \in [Messages -> Threads \cup {None}]
    /\ outcome \in [Messages -> Outcomes]
    /\ stopped \in [Messages -> BOOLEAN]
    /\ cleanups \in [Messages -> Nat]
    /\ reply \in [Messages -> Replies]

RegistryTypeOK ==
    /\ DOMAIN inFlight \subseteq Keys
    /\ \A k \in DOMAIN inFlight : inFlight[k] \in Messages

ServiceTypeOK ==
    /\ binding \in [Keys -> Threads \cup {None}]
    /\ queueWG \in Int
    /\ canceled \in BOOLEAN
    /\ stops \in [Stops -> StopStates]

\* Every variable keeps its type, the waiting lists their bound.
TypeOK == QueueTypeOK /\ WorkTypeOK /\ RegistryTypeOK /\ ServiceTypeOK

\* A logical thread key has at most one Codex turn under way, whatever is
\* queued, stopped or canceled meanwhile (ARCHITECTURE.md 8.1).
OneTurnPerKey ==
    \A m, n \in Messages :
        pc[m] = "turn" /\ pc[n] = "turn" /\ key[m] = key[n] => m = n

\* Every entry of the coordinator has an owner: a goroutine that will call
\* Complete for it.  Otherwise the key would be busy for ever and what waits
\* on it would never run.
EveryEntryOwned == \A k \in DOMAIN entries : Holders(k) # {}

\* The waiting lists hold the messages that wait, each once, on the key it
\* was resolved to: none is lost between the queue and a goroutine, or run
\* and still queued.
WaitingListsExact ==
    \A m \in Messages :
        IF pc[m] = "waiting"
        THEN /\ key[m] \in Keys
             /\ \E i \in 1..Len(Waiting(key[m])) :
                    \A j \in 1..Len(Waiting(key[m])) : Waiting(key[m])[j] = m <=> j = i
        ELSE \A k \in Keys : \A i \in 1..Len(Waiting(k)) : Waiting(k)[i] # m

\* The temporary images of a message are removed once, and never while the
\* message waits for its turn or the turn runs.
CleanupOnceAfterTurn ==
    \A m \in Messages :
        cleanups[m] = IF pc[m] \in {"new", "prepared", "waiting", "turned"} \cup TurnAhead
                      THEN 0 ELSE 1

\* All turns of a key that were answered ran on one Codex thread, the one
\* saved for the key: no two first turns create two threads, and no binding
\* is overwritten with another thread.
OneThreadPerConversation ==
    \A m \in Messages :
        outcome[m] = "answer" => thread[m] # None /\ binding[key[m]] = thread[m]

\* What /stop would cancel is a turn of that key that is not over: no stale
\* registration, and no turn of the next message by mistake.
InFlightIsLive ==
    \A k \in DOMAIN inFlight :
        pc[inFlight[k]] \in RegisteredStates /\ key[inFlight[k]] = k

\* A message that was let in gets an answer of some kind, unless the process
\* was shutting down: it is never forgotten, a stopped one included.
NoSilentLoss ==
    \A m \in Messages :
        pc[m] = "done" /\ key[m] # None /\ reply[m] = "none" => canceled

\* As many messages vanish from the queues as /stop commands report to have
\* dropped: nothing else drops a message, and none is counted twice.
DropsAreReported ==
    Cardinality({m \in Messages : pc[m] = "dropped"})
        = Cardinality(UNION {{c} \X (1..stops[c].dropped) : c \in Stops})

\* queueWG counts the drain goroutines: the queued messages that hold a slot.
\* It is never negative, which would panic, and zero only when none is left.
DrainsAreCounted ==
    queueWG = Cardinality({m \in Messages : queued[m] /\ pc[m] \in SlotStates})

(* Liveness *)

\* A stopped turn comes to its end, without any assumption on Codex.
StoppedTurnEnds == \A m \in Messages : stopped[m] ~> pc[m] \in Ended

\* When Codex turns end, every message the bot was handed is answered,
\* dropped or refused, and its acknowledgement is shown.
EveryMessageSettles ==
    \A m \in Messages :
        pc[m] # "new" ~> pc[m] \in Ended /\ ack[m] # "pending"

(* The contract *)

\* A message that reached its end by way of the queue or the slot.
LetIn(m) == key[m] # None /\ outcome[m] # "full"

\* The service implements the serial executor: the goroutines that hold a
\* slot serve, the coordinator's waiting lists are the lines.
Executor == INSTANCE SerialExecutor WITH
    serving <- [k \in Keys |-> Holders(k)],
    line <- [k \in Keys |-> Waiting(k)],
    over <- {m \in Messages : pc[m] \in Ended \cup {"responding"} /\ LetIn(m)}

\* Exclusive service in the order of admission, whatever is interleaved.
ImplementsExecutor == Executor!ExSpec

\* And, when Codex turns end, no conversation gets stuck.
ImplementsFairExecutor == Executor!ExFairSpec

(* A claim of the documentation *)

\* "action:stop cancels the active task's current Codex run and drops queued
\* messages": after a /stop was answered, a message that had the
\* conversation's slot when the command came does not run its Codex turn
\* unstopped.  The code fails it between the admission (or the Complete that
\* pops a queued message) and registerInFlight.
StopCancelsActiveTurn ==
    \A s \in Stops : stops[s].pc = "done" =>
        \A m \in stops[s].saw : pc[m] = "turn" => stopped[m]

=============================================================================
