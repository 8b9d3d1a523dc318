-------------------------- MODULE JournalSessions --------------------------
(***************************************************************************)
(* Journal mode: the generations of a local day (app/daily_sessions.go and *)
(* store/sqlite/daily_sessions.go), the clear command that starts a new    *)
(* one (app/daily_command_service.go), and the memory bridge that runs a   *)
(* turn on the previous generation's Codex thread before the first turn of *)
(* a new one (dailymemory/service.go), around the message service.         *)
(*                                                                         *)
(* A logical key is a pair <<day, generation>>.  Each call of the store is *)
(* one step; CreateDailySession and RotateDailySession are transactions on *)
(* the single connection, so one step too.                                 *)
(***************************************************************************)
EXTENDS MessageService

CONSTANTS Clears,          \* clear commands the users issue
          LastDay,         \* bound: days the model lives
          MaxGeneration    \* bound: generations of a day

ASSUME JournalKeysAssumption ==
    /\ LastDay \in Nat \ {0} /\ MaxGeneration \in Nat \ {0}
    /\ Keys = (1..LastDay) \X (1..MaxGeneration)
ASSUME JournalModeAssumption == ThreadMode = FALSE
ASSUME JournalActorsAssumption == Clears \cap Messages = {}

VARIABLES
    sessions,   \* daily_sessions: a map from the keys of its rows
    today,      \* the local date
    lookup,     \* what a call of ResolveActiveDailySession knows so far
    clears,     \* progress of each clear command
    aim,        \* the key a /stop command resolved to
    refresh,    \* where the memory refresh of a message stands
    resumed     \* the Codex thread that refresh runs on

jVars == <<sessions, today, lookup, clears, aim, refresh, resumed>>
allVars == <<vars, jVars>>

Callers == Messages \cup Clears

Row == [prev : Keys \cup {None}, active : BOOLEAN]

NoLookup == [pc |-> "idle", day |-> 0, prev |-> None]
Lookups == [pc : {"idle", "missing", "previous"}, day : 0..LastDay, prev : Keys \cup {None}]

\* The last three are history variables: the messages not yet admitted when
\* clear looked at the coordinator, the generation it ended, and the messages
\* it took that generation from.
NoClear == [pc |-> "idle", key |-> None, outside |-> {}, ended |-> None, cut |-> {}]
ClearStates == [pc : {"idle", "resolved", "unoccupied", "done"}, key : Keys \cup {None},
                outside : SUBSET Messages, ended : Keys \cup {None}, cut : SUBSET Messages]

JInit ==
    /\ Init
    /\ sessions = [k \in {} |-> [prev |-> None, active |-> TRUE]]
    /\ today = 1
    /\ lookup = [a \in Callers |-> NoLookup]
    /\ clears = [c \in Clears |-> NoClear]
    /\ aim = [s \in Stops |-> None]
    /\ refresh = [m \in Messages |-> "none"]
    /\ resumed = [m \in Messages |-> None]

\* Messages that are served, or wait to be, on a key.
Engaged(k) == Holders(k) \cup {m \in Messages : pc[m] = "waiting" /\ key[m] = k}

-----------------------------------------------------------------------------
(* The sessions of the store *)

\* GetActiveDailySession; the database allows one active row for a date.
ActiveOn(d) == {k \in DOMAIN sessions : k[1] = d /\ sessions[k].active}

\* GetLatestDailySessionBefore: the last active row of the dates before d.
LatestBefore(d) ==
    LET earlier == {k \in DOMAIN sessions : k[1] < d /\ sessions[k].active}
    IN  {k \in earlier : \A j \in earlier : j[1] <= k[1]}

FindNone(a, d) ==
    /\ lookup[a].pc = "idle"
    /\ ActiveOn(d) = {}
    /\ lookup' = [lookup EXCEPT ![a] = [pc |-> "missing", day |-> d, prev |-> None]]

FindPrevious(a) ==
    /\ lookup[a].pc = "missing"
    /\ LET d == lookup[a].day
       IN  lookup' = [lookup EXCEPT ![a].pc = "previous",
                         ![a].prev = IF LatestBefore(d) = {} THEN None
                                     ELSE CHOOSE k \in LatestBefore(d) : TRUE]

\* DEFECT: the caller gets the session it asked for, not the one found.
CreateSessionReturnsOwn(a, k) ==
    /\ lookup[a].pc = "previous"
    /\ k = <<lookup[a].day, 1>>
    /\ sessions' = IF ActiveOn(k[1]) = {}
                   THEN Put(sessions, k, [prev |-> lookup[a].prev, active |-> TRUE])
                   ELSE sessions
    /\ lookup' = [lookup EXCEPT ![a] = NoLookup]

\* CreateDailySession(a's session) returns the one with key k: somebody
\* else's when there is an active one by now.
CreateSession(a, k) ==
    /\ lookup[a].pc = "previous"
    /\ LET d == lookup[a].day
       IN  \/ /\ ActiveOn(d) = {}
              /\ k = <<d, 1>>
              /\ sessions' = Put(sessions, k, [prev |-> lookup[a].prev, active |-> TRUE])
           \/ /\ k \in ActiveOn(d)
              /\ UNCHANGED sessions
    /\ lookup' = [lookup EXCEPT ![a] = NoLookup]

-----------------------------------------------------------------------------
(* prepareMessage in journal mode *)

\* A message, like a command, belongs to the date of its timestamp; it may be
\* handled later.
ResolveActive(m) ==
    /\ lookup[m].pc = "idle"
    /\ \E d \in 1..today : \E k \in ActiveOn(d) : PrepareMessage(m) /\ key'[m] = k
    /\ UNCHANGED jVars

ResolveNone(m) ==
    /\ pc[m] = "new"
    /\ \E d \in 1..today : FindNone(m, d)
    /\ UNCHANGED <<vars, sessions, today, clears, aim, refresh, resumed>>

ResolvePrevious(m) ==
    /\ FindPrevious(m)
    /\ UNCHANGED <<vars, sessions, today, clears, aim, refresh, resumed>>

ResolveCreate(m) ==
    /\ PrepareMessage(m)
    /\ CreateSession(m, key'[m])
    /\ UNCHANGED <<today, clears, aim, refresh, resumed>>

\* Not addressed to the bot, or one of the store's calls failed.
ResolveFails(m) ==
    /\ HandleUnadmitted(m)
    /\ outcome'[m] \in IF lookup[m].pc = "idle" THEN {"ignored", "error"} ELSE {"error"}
    /\ lookup' = [lookup EXCEPT ![m] = NoLookup]
    /\ UNCHANGED <<sessions, today, clears, aim, refresh, resumed>>

-----------------------------------------------------------------------------
(* Clear *)

ClearLooks(c) ==
    /\ clears[c].pc = "idle"
    /\ \/ /\ lookup[c].pc = "idle"
          /\ \E d \in 1..today : \E k \in ActiveOn(d) :
                clears' = [clears EXCEPT ![c].pc = "resolved", ![c].key = k]
          /\ UNCHANGED <<sessions, lookup>>
       \/ (\E d \in 1..today : FindNone(c, d)) /\ UNCHANGED <<sessions, clears>>
       \/ FindPrevious(c) /\ UNCHANGED <<sessions, clears>>
       \/ \E k \in Keys :
             /\ CreateSession(c, k)
             /\ clears' = [clears EXCEPT ![c].pc = "resolved", ![c].key = k]
    /\ UNCHANGED <<vars, today, aim, refresh, resumed>>

\* Snapshot shows a turn or a waiting message: the command is rejected.
ClearRejected(c) ==
    /\ clears[c].pc = "resolved"
    /\ Busy(clears[c].key)
    /\ clears' = [clears EXCEPT ![c].pc = "done"]
    /\ UNCHANGED <<vars, sessions, today, lookup, aim, refresh, resumed>>

\* DEFECT: the snapshot is not looked at.
ClearGoesAheadAnyway(c) ==
    /\ clears[c].pc = "resolved"
    /\ clears' = [clears EXCEPT ![c].pc = "unoccupied",
                     ![c].outside = {m \in Messages : pc[m] \in {"new", "prepared"}}]
    /\ UNCHANGED <<vars, sessions, today, lookup, aim, refresh, resumed>>

ClearGoesAhead(c) ==
    /\ clears[c].pc = "resolved"
    /\ ~Busy(clears[c].key)
    /\ clears' = [clears EXCEPT ![c].pc = "unoccupied",
                     ![c].outside = {m \in Messages : pc[m] \in {"new", "prepared"}}]
    /\ UNCHANGED <<vars, sessions, today, lookup, aim, refresh, resumed>>

\* DEFECT: the new generation follows the one clear resolved, not the active one.
RotateFromResolved(c) ==
    /\ clears[c].pc = "unoccupied"
    /\ \E k \in ActiveOn(clears[c].key[1]) :
          /\ k[2] < MaxGeneration
          /\ sessions' = Put([sessions EXCEPT ![k].active = FALSE], <<k[1], k[2] + 1>>,
                             [prev |-> clears[c].key, active |-> TRUE])
          /\ clears' = [clears EXCEPT ![c].pc = "done", ![c].ended = k, ![c].cut = Engaged(k)]
    /\ UNCHANGED <<vars, today, lookup, aim, refresh, resumed>>

\* DEFECT: no transaction, so that the insertion can fail after the update.
RotateInTwo(c) ==
    /\ clears[c].pc = "unoccupied"
    /\ \E k \in ActiveOn(clears[c].key[1]) :
          /\ k[2] < MaxGeneration
          /\ sessions' = [sessions EXCEPT ![k].active = FALSE]
          /\ clears' = [clears EXCEPT ![c].pc = "done", ![c].ended = k, ![c].cut = Engaged(k)]
    /\ UNCHANGED <<vars, today, lookup, aim, refresh, resumed>>

\* RotateDailySession: the day's active generation, whichever it is by now.
Rotate(c) ==
    /\ clears[c].pc = "unoccupied"
    /\ \E k \in ActiveOn(clears[c].key[1]) :
          /\ k[2] < MaxGeneration
          /\ sessions' = Put([sessions EXCEPT ![k].active = FALSE], <<k[1], k[2] + 1>>,
                             [prev |-> k, active |-> TRUE])
          /\ clears' = [clears EXCEPT ![c].pc = "done", ![c].ended = k, ![c].cut = Engaged(k)]
    /\ UNCHANGED <<vars, today, lookup, aim, refresh, resumed>>

\* A call of the store failed.
ClearFails(c) ==
    /\ clears[c].pc # "done"
    /\ clears' = [clears EXCEPT ![c].pc = "done"]
    /\ lookup' = [lookup EXCEPT ![c] = NoLookup]
    /\ UNCHANGED <<vars, sessions, today, aim, refresh, resumed>>

Clear(c) == ClearLooks(c) \/ ClearRejected(c) \/ ClearGoesAhead(c) \/ Rotate(c) \/ ClearFails(c)

-----------------------------------------------------------------------------
(* /stop *)

\* resolveStopLogicalKey: the date's active generation; none is not created.
StopResolves(s) ==
    /\ stops[s].pc = "idle" /\ aim[s] = None
    /\ \E d \in 1..today : \E k \in ActiveOn(d) : aim' = [aim EXCEPT ![s] = k]
    /\ UNCHANGED <<vars, sessions, today, lookup, clears, refresh, resumed>>

StopAims(s) ==
    /\ \/ aim[s] = None /\ StopUnresolved(s)
       \/ aim[s] # None /\ StopDropQueued(s) /\ stops'[s].key = aim[s]
       \/ StopInFlight(s)
    /\ UNCHANGED jVars

-----------------------------------------------------------------------------
(* The memory bridge: RefreshBeforeFirstDailyTurn *)

RefreshGoto(m, from, to) ==
    /\ pc[m] = "registered"
    /\ refresh[m] = from
    /\ refresh' = [refresh EXCEPT ![m] = to]
    /\ UNCHANGED <<vars, sessions, today, lookup, clears, aim>>

\* DEFECT: the generation's own binding is not looked at.
RefreshWantedAlways(m) ==
    /\ RefreshGoto(m, "none", "wanted")
    /\ MayProceed(m)
    /\ sessions[key[m]].prev # None
    /\ UNCHANGED resumed

\* Nothing is bound to the generation yet, and there is a previous one.
RefreshWanted(m) ==
    /\ RefreshGoto(m, "none", "wanted")
    /\ MayProceed(m)
    /\ binding[key[m]] = None
    /\ sessions[key[m]].prev # None
    /\ UNCHANGED resumed

\* The previous generation's thread is resumed, when it has one.
RefreshStarts(m) ==
    /\ RefreshGoto(m, "wanted", "running")
    /\ MayProceed(m)
    /\ binding[sessions[key[m]].prev] # None
    /\ resumed' = [resumed EXCEPT ![m] = binding[sessions[key[m]].prev]]

\* No refresh is due, or a call of the store or of the file system failed;
\* the caller only logs the error.
RefreshSkipped(m) ==
    /\ RefreshGoto(m, "none", "over") \/ RefreshGoto(m, "wanted", "over")
    /\ UNCHANGED resumed

\* DEFECT: the thread of the refresh is kept for the new generation.
RefreshTurnEndsBound(m) ==
    /\ pc[m] = "registered"
    /\ refresh[m] = "running"
    /\ refresh' = [refresh EXCEPT ![m] = "over"]
    /\ binding' = [binding EXCEPT ![key[m]] = resumed[m]]
    /\ UNCHANGED <<entries, pc, key, queued, ack, thread, outcome, stopped, cleanups, reply,
                   inFlight, queueWG, canceled, stops>>
    /\ UNCHANGED <<sessions, today, lookup, clears, aim, resumed>>

\* The refresh turn ends, well or badly; its thread id is not kept.
RefreshTurnEnds(m) ==
    /\ RefreshGoto(m, "running", "over")
    /\ UNCHANGED resumed

\* DEFECT: the refresh does not run under the turn's own context.
RefreshCanceledByLifecycleOnly(m) ==
    /\ RefreshGoto(m, "running", "over")
    /\ canceled
    /\ UNCHANGED resumed

RefreshCanceled(m) ==
    /\ RefreshGoto(m, "running", "over")
    /\ MayBeCanceled(m)
    /\ UNCHANGED resumed

-----------------------------------------------------------------------------

Midnight ==
    /\ today < LastDay
    /\ today' = today + 1
    /\ UNCHANGED <<vars, sessions, lookup, clears, aim, refresh, resumed>>

Resolving(m) ==
    ResolveActive(m) \/ ResolveNone(m) \/ ResolvePrevious(m) \/ ResolveCreate(m) \/ ResolveFails(m)

\* The refresh steps that do not wait for Codex.
Refreshing(m) ==
    RefreshWanted(m) \/ RefreshStarts(m) \/ RefreshSkipped(m) \/ RefreshCanceled(m)

\* The setup of a turn in journal mode is the refresh.
JProcess(m) ==
    /\ Process(m)
    /\ pc[m] = "registered" => refresh[m] = "over"
    /\ UNCHANGED jVars

JTurn(m) == Turn(m) /\ UNCHANGED jVars
JPresentAck(m) == PresentAck(m) /\ UNCHANGED jVars
JCancelLifecycle == CancelLifecycle /\ UNCHANGED jVars

JTerminated ==
    /\ Quiet
    /\ \A c \in Clears : clears[c].pc = "done"
    /\ UNCHANGED jVars

JNext ==
    \/ \E m \in Messages : \/ Resolving(m) \/ Refreshing(m) \/ RefreshTurnEnds(m)
                           \/ JProcess(m) \/ JTurn(m) \/ JPresentAck(m)
    \/ \E c \in Clears : Clear(c)
    \/ \E s \in Stops : StopResolves(s) \/ StopAims(s)
    \/ Midnight
    \/ JCancelLifecycle
    \/ JTerminated

JSpec == JInit /\ [][JNext]_allVars

\* Goroutines are scheduled and the store answers; a Codex turn, that of a
\* refresh included, need not end unless it is cancelled.
JFairSpec ==
    /\ JSpec
    /\ \A m \in Messages :
          WF_allVars(JProcess(m)) /\ WF_allVars(Refreshing(m)) /\ WF_allVars(JPresentAck(m))
    /\ \A s \in Stops : WF_allVars(StopInFlight(s) /\ UNCHANGED jVars)

-----------------------------------------------------------------------------
(* Safety *)

\* The tables and the commands keep their types, and a day has one active
\* generation once it has any.
JTypeOK ==
    /\ DOMAIN sessions \subseteq Keys
    /\ \A k \in DOMAIN sessions : sessions[k] \in Row /\ Cardinality(ActiveOn(k[1])) = 1
    /\ today \in 1..LastDay
    /\ lookup \in [Callers -> Lookups]
    /\ clears \in [Clears -> ClearStates]
    /\ aim \in [Stops -> Keys \cup {None}]
    /\ refresh \in [Messages -> {"none", "wanted", "running", "over"}]
    /\ resumed \in [Messages -> Threads \cup {None}]

\* A message is resolved to a generation that is active at that moment, also
\* when the day's first session is created by several callers at once and
\* cleared meanwhile: no mention after a clear lands on what was cleared.
ResolvedToActive ==
    [][\A m \in Messages :
          (pc[m] = "new" /\ pc'[m] = "prepared") => sessions'[key'[m]].active]_allVars

\* The generations of a day form a chain, each bridging from the one right
\* before it; the first bridges from an earlier day.  Two clears at once do
\* not make a generation that is skipped over.
GenerationsLinked ==
    \A k \in DOMAIN sessions :
        LET prev == sessions[k].prev
        IN  IF k[2] = 1
            THEN prev = None \/ (prev \in DOMAIN sessions /\ prev[1] < k[1])
            ELSE prev = <<k[1], k[2] - 1>> /\ prev \in DOMAIN sessions

\* Work the coordinator had accepted when clear looked at it does not have
\* its generation taken away, provided clear ends the generation it looked
\* at: a second clear may end the one the first has just started.
ClearSparesAdmitted ==
    \A c \in Clears : clears[c].ended = clears[c].key => clears[c].cut \subseteq clears[c].outside

\* The memory refresh runs before the generation has a conversation, never
\* beside it: a generation's own first turn is still to come.
RefreshBeforeFirstTurn ==
    \A m \in Messages :
        refresh[m] = "running" =>
            /\ binding[key[m]] = None
            /\ \A n \in Messages : key[n] = key[m] => pc[n] # "turn"

\* A new generation starts afresh: no Codex thread is bound to two of them.
GenerationsApart ==
    \A j, k \in Keys : binding[j] = binding[k] /\ binding[j] # None => j = k

(* Claims of the documentation *)

\* "action:clear rotates the shared same-day generation only when the current
\* generation is idle".  The code fails it when a message is admitted between
\* the snapshot and the rotation.
ClearOnlyWhenIdle == \A c \in Clears : clears[c].cut = {}

\* "39claw runs one Codex turn at a time for a given conversation context".
\* The code fails it when the refresh of a new day resumes the thread of a
\* generation that still has a turn under way.
OneTurnPerThread ==
    \A m, n \in Messages :
        refresh[m] = "running" /\ pc[m] = "registered" /\ pc[n] = "turn" => resumed[m] # thread[n]

=============================================================================
