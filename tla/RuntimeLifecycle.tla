-------------------------- MODULE RuntimeLifecycle --------------------------
(***************************************************************************)
(* internal/runtime/discord/runtime.go around the message service: the     *)
(* handlers Discord events start, the `workers` wait group that counts     *)
(* them, and Close, which refuses new events, waits for the handlers and   *)
(* then for the drain goroutines, cancels the lifecycle context when the   *)
(* grace period is over, waits once more for a second and closes the       *)
(* session.                                                                *)
(*                                                                         *)
(* The service's own steps are those of MessageService; a handler's first  *)
(* step and CancelLifecycle get the runtime's conditions added.            *)
(***************************************************************************)
EXTENDS MessageService

VARIABLES
    handler,    \* per event: "none", "live", "gone" or, after Close, "refused"
    workers,    \* r.workers
    open,       \* r.session is set
    closing,    \* r.closing
    phase,      \* where Close stands
    expired     \* history: the grace period ended before the drain did

rtVars == <<handler, workers, open, closing, phase, expired>>
allVars == <<vars, rtVars>>

Events == Messages \cup Stops

\* A wait group is waited for in the first two, both as the code orders them.
Phases == {"up", "graceWorkers", "graceQueue", "drained", "expired",
           "forcedWorkers", "forcedQueue", "ending", "closed"}

ASSUME StopsAssumption == Stops \cap Messages = {}

\* After a successful Start.
RtInit ==
    /\ Init
    /\ handler = [e \in Events |-> "none"]
    /\ workers = 0
    /\ open = TRUE
    /\ closing = FALSE
    /\ phase = "up"
    /\ expired = FALSE

-----------------------------------------------------------------------------
(* Handlers *)

\* DEFECT: the closing flag is not looked at.
BeginWorkWhileClosing(e) ==
    /\ handler[e] = "none"
    /\ open
    /\ handler' = [handler EXCEPT ![e] = "live"]
    /\ workers' = workers + 1
    /\ UNCHANGED <<vars, open, closing, phase, expired>>

\* beginWork lets the event in ...
BeginWork(e) ==
    /\ handler[e] = "none"
    /\ open /\ ~closing
    /\ handler' = [handler EXCEPT ![e] = "live"]
    /\ workers' = workers + 1
    /\ UNCHANGED <<vars, open, closing, phase, expired>>

\* DEFECT: the deferred Done runs although nothing was added.
RefuseWorkDone(e) ==
    /\ handler[e] = "none"
    /\ ~(open /\ ~closing)
    /\ handler' = [handler EXCEPT ![e] = "refused"]
    /\ workers' = workers - 1
    /\ UNCHANGED <<vars, open, closing, phase, expired>>

\* ... or the event goes unanswered.
RefuseWork(e) ==
    /\ handler[e] = "none"
    /\ ~(open /\ ~closing)
    /\ handler' = [handler EXCEPT ![e] = "refused"]
    /\ UNCHANGED <<vars, workers, open, closing, phase, expired>>

\* What a handler waits for: its own response, or only the acknowledgement
\* when its message was queued.
Answered(e) ==
    IF e \in Stops THEN stops[e].pc = "done"
    ELSE IF queued[e] THEN ack[e] = "shown"
    ELSE pc[e] = "done"

\* The deferred workers.Done().
EndWork(e) ==
    /\ handler[e] = "live"
    /\ Answered(e)
    /\ handler' = [handler EXCEPT ![e] = "gone"]
    /\ workers' = workers - 1
    /\ UNCHANGED <<vars, open, closing, phase, expired>>

HandleMessage(m) == handler[m] = "live" /\ Arrive(m) /\ UNCHANGED rtVars
HandleStop(s) == handler[s] = "live" /\ Stopping(s) /\ UNCHANGED rtVars

-----------------------------------------------------------------------------
(* Close *)

BeginClose ==
    /\ phase = "up"
    /\ closing' = TRUE
    /\ phase' = "graceWorkers"
    /\ UNCHANGED <<vars, handler, workers, open, expired>>

\* DEFECT: the drain goroutines are not waited for.
WorkersDoneSkipsQueue ==
    /\ workers = 0
    /\ \/ phase = "graceWorkers" /\ phase' = "drained"
       \/ phase = "forcedWorkers" /\ phase' = "ending"
    /\ UNCHANGED <<vars, handler, workers, open, closing, expired>>

\* workers.Wait() returns: waitForDrain goes on to the message service.
WorkersDone ==
    /\ workers = 0
    /\ \/ phase = "graceWorkers" /\ phase' = "graceQueue"
       \/ phase = "forcedWorkers" /\ phase' = "forcedQueue"
    /\ UNCHANGED <<vars, handler, workers, open, closing, expired>>

\* queueWG.Wait() returns.
QueueDone ==
    /\ queueWG = 0
    /\ \/ phase = "graceQueue" /\ phase' = "drained"
       \/ phase = "forcedQueue" /\ phase' = "ending"
    /\ UNCHANGED <<vars, handler, workers, open, closing, expired>>

\* DEFECT: Close waits for as long as the work takes.
GraceNeverExpires ==
    /\ FALSE
    /\ UNCHANGED allVars

\* shutdownDrainTimeout; it may also win against a wait that just ended.
GraceExpires ==
    /\ phase \in {"graceWorkers", "graceQueue"}
    /\ phase' = "expired"
    /\ expired' = TRUE
    /\ UNCHANGED <<vars, handler, workers, open, closing>>

\* runtimeLifecycle.Cancel(), in either case.
CancelWork ==
    /\ CancelLifecycle
    /\ \/ phase = "expired" /\ phase' = "forcedWorkers"
       \/ phase = "drained" /\ phase' = "ending"
    /\ UNCHANGED <<handler, workers, open, closing, expired>>

\* forcedShutdownWaitTimeout: Close goes on with work still alive.
ForcedWaitExpires ==
    /\ phase \in {"forcedWorkers", "forcedQueue"}
    /\ phase' = "ending"
    /\ UNCHANGED <<vars, handler, workers, open, closing, expired>>

\* The session is closed, and resetLocked forgets it.
EndClose ==
    /\ phase = "ending"
    /\ phase' = "closed"
    /\ open' = FALSE
    /\ closing' = FALSE
    /\ UNCHANGED <<vars, handler, workers, expired>>

Close == BeginClose \/ WorkersDone \/ QueueDone \/ GraceExpires \/ CancelWork
         \/ ForcedWaitExpires \/ EndClose

-----------------------------------------------------------------------------

Serve(m) == (Process(m) \/ Turn(m) \/ PresentAck(m)) /\ UNCHANGED rtVars

\* Closed, every event was answered or refused, and no goroutine is left.
Terminated ==
    /\ phase = "closed"
    /\ \A e \in Events : handler[e] \in {"gone", "refused"}
    /\ \A m \in Messages : pc[m] \in {"new"} \cup Ended
    /\ UNCHANGED allVars

RtNext ==
    \/ \E e \in Events : BeginWork(e) \/ RefuseWork(e) \/ EndWork(e)
    \/ \E m \in Messages : HandleMessage(m) \/ Serve(m)
    \/ \E s \in Stops : HandleStop(s)
    \/ Close
    \/ Terminated

RtSpec == RtInit /\ [][RtNext]_allVars

\* Goroutines are scheduled and timers fire; once Close was called it goes on.
\* Nothing is assumed of Codex turns that nobody cancels.
RtFairness ==
    /\ \A m \in Messages :
          /\ WF_allVars(HandleMessage(m))
          /\ WF_allVars(Process(m) /\ UNCHANGED rtVars)
          /\ WF_allVars(PresentAck(m) /\ UNCHANGED rtVars)
    /\ \A s \in Stops : WF_allVars(HandleStop(s))
    /\ \A e \in Events : WF_allVars(EndWork(e))
    /\ WF_allVars(phase # "up" /\ Close)

RtFairSpec == RtSpec /\ RtFairness

-----------------------------------------------------------------------------
(* Safety *)

\* The runtime's variables keep their types; workers is what it counts and
\* so never becomes negative, which would panic.
RtTypeOK ==
    /\ handler \in [Events -> {"none", "live", "gone", "refused"}]
    /\ workers = Cardinality({e \in Events : handler[e] = "live"})
    /\ open \in BOOLEAN /\ closing \in BOOLEAN /\ expired \in BOOLEAN
    /\ phase \in Phases

\* A shutdown that was not forced has finished all it had let in: when the
\* two wait groups were seen at zero, one after the other, no goroutine works
\* on a message, nothing waits, and every message got its reply
\* (ARCHITECTURE.md 8.2).
GracefulDrainIsComplete ==
    phase \in {"drained", "ending", "closed"} /\ ~expired =>
        /\ DOMAIN entries = {}
        /\ \A m \in Messages : handler[m] \in {"live", "gone"} =>
              /\ handler[m] = "gone"
              /\ pc[m] \in Ended
              /\ (pc[m] = "done" /\ key[m] # None => reply[m] # "none")

\* queueWG only falls once Close waits for it: no Add starts from zero while
\* Wait runs, which sync.WaitGroup forbids, and no work begins behind its back.
WaitedGroupNeverGrows ==
    [][(phase \in {"graceQueue", "forcedQueue", "drained"}) => queueWG' <= queueWG]_allVars

(* Liveness *)

\* Close returns within its two time limits, whatever Codex does.
CloseReturns == phase = "graceWorkers" ~> phase = "closed"

\* Once the grace period is over every message that was let in ends, those
\* still waiting in the queues included, even if Codex would never finish.
ForcedShutdownEndsWork ==
    \A m \in Messages :
        expired /\ handler[m] \in {"live", "gone"} ~> pc[m] \in Ended

=============================================================================
