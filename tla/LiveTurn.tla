------------------------------- MODULE LiveTurn -------------------------------
(***************************************************************************)
(* An immediate message from its first sign of life to its reply: the      *)
(* placeholder, the Codex turn with its progress, and the presentation of  *)
(* the response (message_service_impl.go, runtime.go).  Progress is        *)
(* delivered by the goroutine that runs the turn; the child process and    *)
(* the goroutine that reads from it run beside it.                         *)
(***************************************************************************)
EXTENDS CodexTurn, LiveReply

CONSTANTS Thinking,   \* the placeholder
          Stopped,    \* the reply to a turn hit by /stop
          Error       \* the reply when something went wrong

ASSUME TextsAssumption == Answers \cup {Tool, Thinking, Stopped, Error} \subseteq Texts

VARIABLES handler,   \* where the handler's goroutine stands
          response   \* the text of the response

live == <<turn, reply, handler, response>>

LiveInit == TurnInit /\ ReplyInit /\ handler = "new" /\ response = Blank

\* The sink refuses under a context that is done.
Progress(t) == IF canceled THEN UNCHANGED reply ELSE Update(t)

\* "Thinking...", before RunTurn.
Think ==
    /\ handler = "new"
    /\ Progress(Thinking)
    /\ handler' = "thinking"
    /\ UNCHANGED <<turn, response>>

Begin ==
    /\ handler = "thinking"
    /\ shown # "updating"
    /\ RunTurn
    /\ handler' = "turn"
    /\ UNCHANGED <<reply, response>>

\* RunTurn's goroutine delivers, and goes on whatever became of it.
ReceiveEvent ==
    /\ Receive
    /\ IF gateway' = "delivering" THEN Progress(progress') ELSE UNCHANGED reply
    /\ UNCHANGED <<handler, response>>

Resume == shown # "updating" /\ Delivered /\ UNCHANGED <<reply, handler, response>>

ReturnTurn == Return /\ UNCHANGED <<reply, handler, response>>

\* executePreparedMessage after the turn; a turn without a thread and one whose
\* binding cannot be saved are errors.
Respond ==
    /\ handler = "turn"
    /\ Returned
    /\ \/ gateway = "answered" /\ thread # None /\ response' = text
       \/ waited = "canceled" /\ response' = Stopped
       \/ response' = Error
    /\ handler' = "responding"
    /\ UNCHANGED <<turn, reply>>

\* The live reply is brought up to date, or the response sent if there is none.
Present ==
    /\ handler = "responding"
    /\ Update(response)
    /\ handler' = "presenting"
    /\ UNCHANGED <<turn, response>>

Finish ==
    /\ handler = "presenting"
    /\ shown # "updating"
    /\ handler' = "done"
    /\ UNCHANGED <<turn, reply, response>>

Beside == UNCHANGED <<reply, handler, response>>

Quiet == handler = "done" /\ UNCHANGED live

LiveNext ==
    \/ Think \/ Begin \/ ReceiveEvent \/ Resume \/ ReturnTurn \/ Respond \/ Present \/ Finish
    \/ Sync /\ UNCHANGED <<turn, handler, response>>
    \/ Execute /\ Beside
    \/ (Write \/ Exit \/ Kill \/ Cancel) /\ Beside
    \/ Quiet

\* Goroutines are scheduled, Discord answers, a killed process ends.  Nothing is
\* assumed of a process that is not killed.
LiveSpec ==
    /\ LiveInit /\ [][LiveNext]_live
    /\ WF_live(Think \/ Begin \/ ReceiveEvent \/ Resume \/ ReturnTurn \/ Respond \/ Present \/ Finish)
    /\ WF_live(Sync /\ UNCHANGED <<turn, handler, response>>)
    /\ WF_live(Execute /\ Beside)
    /\ WF_live(Kill /\ Beside)

-----------------------------------------------------------------------------

\* When the reply was presented without an error it shows the response, all of
\* it but characters torn for want of a blank, and nothing else, whatever became
\* of the updates before it; unless the response shows nothing, or a failed call
\* of Discord had taken effect.  And the response is the last message of a process
\* that ended well with no failure left standing, or says that there is none.
ReplyIsTheAnswer ==
    /\ AnswerIsSound
    /\ handler = "done" /\ shown = "updated" /\ ~lost /\ ChunksOf[response] # <<>> =>
          /\ Shows(response)
          /\ response \in Answers \ {Error, Stopped} => gateway = "answered" /\ response = text

\* A turn whose context is done comes to its end, and the reply is presented,
\* however busy or silent the process is.
CanceledTurnEnds == canceled ~> handler = "done"

=============================================================================
