------------------------------ MODULE CodexTurn ------------------------------
(***************************************************************************)
(* One Codex turn (internal/codex): the child process writes events to a   *)
(* pipe, a goroutine (executor.run) reads and parses them and hands them   *)
(* to RunTurn over a channel without a buffer.  The context may end at any *)
(* time; exec.CommandContext then kills the process.                       *)
(***************************************************************************)
EXTENDS Integers, Sequences, FiniteSetsExt

CONSTANTS Answers,   \* texts of agent messages
          Tool,      \* the progress text of a tool's use
          Blank,     \* the answer that shows nothing
          Threads,   \* Codex thread ids
          Resumed,   \* the thread RunTurn is given, or None
          MaxLines,  \* bound: lines the process writes
          None

ASSUME ResumedAssumption == Resumed \in Threads \cup {None} /\ None \notin Threads
ASSUME BlankAssumption == Blank \in Answers
ASSUME MaxLinesAssumption == MaxLines \in Nat

\* The events by which Codex says that a turn went wrong.  Each may come without
\* saying what: a turn.failed without an error, an error without a message.
FailureTypes == {"turn.failed", "error"}

Event(type, value) == [type |-> type, value |-> value]
Events ==
    {Event("thread.started", t) : t \in Threads} \cup {Event("message", a) : a \in Answers}
    \cup {Event(x, what) : x \in FailureTypes, what \in {None, "failure"}}
    \cup {Event(x, None) : x \in {"tool", "turn.completed", "garbage"}}

VARIABLES
    process,    \* the child process
    written,    \* history: the lines it wrote
    read,       \* how many of them were read
    executor,   \* where executor.run stands
    waited,     \* what it reports at its end
    thread,     \* Thread.id
    gateway,    \* where RunTurn stands
    text,       \* result.ResponseText
    progress,   \* lastProgressText
    failure,    \* turnFailure and streamFailure: what the last event of each type said
    canceled    \* the turn's context is done

turn == <<process, written, read, executor, waited, thread, gateway, text, progress, failure, canceled>>

TurnInit ==
    /\ process = "none"
    /\ written = <<>>
    /\ read = 0
    /\ executor = "none"
    /\ waited = None
    /\ thread = Resumed
    /\ gateway = "idle"
    /\ text = Blank
    /\ progress = None
    /\ failure = [x \in FailureTypes |-> None]
    /\ canceled = FALSE

Cancel ==
    /\ ~canceled
    /\ canceled' = TRUE
    /\ UNCHANGED <<process, written, read, executor, waited, thread, gateway, text, progress, failure>>

-----------------------------------------------------------------------------
(* The process *)

Write ==
    /\ process = "running"
    /\ Len(written) < MaxLines
    /\ \E e \in Events : written' = Append(written, e)
    /\ UNCHANGED <<process, read, executor, waited, thread, gateway, text, progress, failure, canceled>>

Exit ==
    /\ process = "running"
    /\ process' \in {"succeeded", "broke"}
    /\ UNCHANGED <<written, read, executor, waited, thread, gateway, text, progress, failure, canceled>>

\* DEFECT: the process is not started with the context.
KillNever == FALSE /\ UNCHANGED turn

\* By the context; what it wrote so far can still be read.
Kill ==
    /\ canceled
    /\ process = "running"
    /\ process' = "killed"
    /\ UNCHANGED <<written, read, executor, waited, thread, gateway, text, progress, failure, canceled>>

-----------------------------------------------------------------------------
(* executor.run with the callback of RunStreamed *)

Report(what) == executor' = "over" /\ waited' = what
ShutDown == process' = IF process = "running" THEN "killed" ELSE process

\* cmd.Start fails under a context that is done, or of itself.
StartProcess ==
    /\ executor = "starting"
    /\ \/ /\ ~canceled
          /\ process' = "running"
          /\ executor' = "reading"
          /\ UNCHANGED waited
       \/ Report(IF canceled THEN "canceled" ELSE "error") /\ UNCHANGED process
    /\ UNCHANGED <<written, read, thread, gateway, text, progress, failure, canceled>>

InHand == written[read]

ReadLine ==
    /\ executor = "reading"
    /\ read < Len(written)
    /\ read' = read + 1
    /\ LET e == written[read + 1]
       IN  /\ IF e.type = "garbage" THEN Report("error") /\ ShutDown
              ELSE executor' = "handing" /\ UNCHANGED <<process, waited>>
           /\ thread' = IF e.type = "thread.started" THEN e.value ELSE thread
    /\ UNCHANGED <<written, gateway, text, progress, failure, canceled>>

\* Instead of waiting for RunTurn to take the event.
HandOverCanceled ==
    /\ executor = "handing"
    /\ canceled
    /\ Report("canceled")
    /\ ShutDown
    /\ UNCHANGED <<written, read, thread, gateway, text, progress, failure, canceled>>

\* The end of the output, then cmd.Wait.
ReadEnd ==
    /\ executor = "reading"
    /\ read = Len(written)
    /\ process # "running"
    /\ \/ process = "succeeded" /\ Report("ok")
       \/ canceled /\ Report("canceled")
       \/ process = "broke" /\ ~canceled /\ Report("error")
    /\ UNCHANGED <<process, written, read, thread, gateway, text, progress, failure, canceled>>

-----------------------------------------------------------------------------
(* RunTurn *)

RunTurn ==
    /\ gateway = "idle"
    /\ gateway' = "receiving"
    /\ executor' = "starting"
    /\ UNCHANGED <<process, written, read, waited, thread, text, progress, failure, canceled>>

\* The answer has begun: tools are not shown any more.
ResponseStarted(lines) ==
    \E i \in DOMAIN lines : lines[i].type = "message" /\ lines[i].value # Blank

\* progressTextForEvent.
ProgressText(e) ==
    CASE e.type = "message" -> e.value
      [] e.type = "tool" /\ ~ResponseStarted(SubSeq(written, 1, read)) -> Tool
      [] OTHER -> Blank

\* An event changes hands; a new text is worth an update of the reply.
Receive ==
    /\ executor = "handing"
    /\ gateway = "receiving"
    /\ executor' = "reading"
    /\ text' = IF InHand.type = "message" THEN InHand.value ELSE text
    /\ failure' = IF InHand.type \in FailureTypes
                  THEN [failure EXCEPT ![InHand.type] = InHand.value] ELSE failure
    /\ IF ProgressText(InHand) \notin {Blank, progress}
       THEN gateway' = "delivering" /\ progress' = ProgressText(InHand)
       ELSE UNCHANGED <<gateway, progress>>
    /\ UNCHANGED <<process, written, read, waited, thread, canceled>>

Delivered ==
    /\ gateway = "delivering"
    /\ gateway' = "receiving"
    /\ UNCHANGED <<process, written, read, executor, waited, thread, text, progress, failure, canceled>>

\* The channel is closed and the executor's report taken.
Return ==
    /\ gateway = "receiving"
    /\ executor = "over"
    /\ gateway' = IF waited = "ok" /\ \A x \in FailureTypes : failure[x] = None
                  THEN "answered" ELSE "failed"
    /\ UNCHANGED <<process, written, read, executor, waited, thread, text, progress, failure, canceled>>

Execute == StartProcess \/ ReadLine \/ HandOverCanceled \/ ReadEnd
Returned == gateway \in {"answered", "failed"}

-----------------------------------------------------------------------------

LastOf(type, default) ==
    LET of == {i \in DOMAIN written : written[i].type = type}
    IN  IF of = {} THEN default ELSE written[Max(of)].value

\* RunTurn only answers for a process that ended well and whose last failure
\* event of either type, if any, said nothing, with the last message and the
\* thread it announced.
AnswerIsSound ==
    gateway = "answered" =>
        /\ process = "succeeded"
        /\ \A i \in DOMAIN written : written[i].type # "garbage"
        /\ \A x \in FailureTypes : LastOf(x, None) = None
        /\ text = LastOf("message", Blank)
        /\ thread = LastOf("thread.started", Resumed)

=============================================================================
