--------------------------- MODULE ScheduledProofs ---------------------------
(***************************************************************************)
(* Attempts at scheduled runs are not repeated, Close of the scheduler     *)
(* waits for them, their reports are on record, ticks run what is due and  *)
(* leave nothing due behind, and the tables keep their types, whatever     *)
(* ticks, tool calls, faults, crashes and restarts there are.              *)
(***************************************************************************)
EXTENDS ScheduledProcess, WellFoundedInduction, TLAPS

-----------------------------------------------------------------------------
(* The invariant *)

\* Records, for the provers.
IsTicker(x) ==
    x = [pc |-> x.pc, at |-> x.at, seen |-> x.seen, todo |-> x.todo, task |-> x.task,
         due |-> x.due, stale |-> x.stale, sound |-> x.sound]
IsWork(w) == w = [pc |-> w.pc, target |-> w.target, context |-> w.context]
IsKey(k) == k = <<k[1], k[2], k[3]>> /\ k[3] \in {1, 2}

\* The run is in its table, or was and its task is deleted: it is not admitted again.
Recorded(k) == k \in DOMAIN runs \/ k[1] \in gone

\* The run may have its turn.
Fresh(k) == k \notin begun /\ (k[3] = 2 => <<k[1], k[2], 1>> \in broke)

\* The tick has admitted a run that it has not spawned yet.
Admitting == ticker.pc = "spawn"

WorkShape ==
    /\ work = [k \in DOMAIN work |-> work[k]]
    /\ \A k \in DOMAIN work : IsKey(k) /\ IsWork(work[k])

RunsInv ==
    /\ WorkShape
    /\ DOMAIN defs \cap gone = {}
    /\ \A k \in DOMAIN work \cup begun : Recorded(k)
    /\ \A k \in DOMAIN work :
          /\ work[k].pc \in {"admitted", "queued"} => Fresh(k)
          /\ work[k].pc = "retry" => k[3] = 1 /\ k \in broke
    /\ Admitting => Recorded(DueRun) /\ DueRun \notin DOMAIN work \cup begun

\* execute-now asks for a first attempt.
CallsInv ==
    /\ calls = [c \in Calls |-> calls[c]]
    /\ \A c \in Calls : calls[c].pc = "admit" => IsKey(calls[c].run) /\ calls[c].run[3] = 1

\* From the moment Close begins no context is live.
CloseInv ==
    /\ phase \in {"closing", "closed"} => live = {}
    /\ CloseWaitsForRuns

ProcessInv == IsTicker(ticker) /\ RunsInv /\ CallsInv

\* No turn begins in this step that may not.
TurnsAllowed == \A k \in DOMAIN work' : Begins(k) => Fresh(k)

\* What is recorded stays so.
Kept ==
    /\ \A k : Recorded(k) => Recorded(k)'
    /\ (DOMAIN defs \cap gone = {})'

-----------------------------------------------------------------------------
(* Statements *)

LEMMA KeptByStatements ==
    ASSUME DOMAIN defs \cap gone = {}
    PROVE  /\ UNCHANGED tables => Kept
           /\ \A t, d : InsertTask(t, d) /\ t \notin gone => Kept
           /\ \A t, d : UpdateTask(t, d) => Kept
           /\ \A t : DeleteTask(t) => Kept
           /\ \A k, s : UpdateRun(k, s) => Kept
           /\ \A k, s : CreateDelivery(k, s) => Kept
           /\ \A k, s : UpdateDelivery(k, s) => Kept
           /\ \A k : AdmitRun(k) => Kept /\ ~Recorded(k) /\ Recorded(k)'
<1>1. UNCHANGED tables => Kept
    BY DEF tables, Kept, Recorded
<1>2. ASSUME NEW t, NEW d, InsertTask(t, d), t \notin gone PROVE Kept
    BY <1>2 DEF InsertTask, With, Kept, Recorded
<1>3. ASSUME NEW t, NEW d, UpdateTask(t, d) PROVE Kept
    BY <1>3 DEF UpdateTask, Kept, Recorded
<1>4. ASSUME NEW t, DeleteTask(t) PROVE Kept
    BY <1>4 DEF DeleteTask, Restrict, Kept, Recorded
<1>5. ASSUME NEW k, NEW s, UpdateRun(k, s) PROVE Kept
    BY <1>5 DEF UpdateRun, Kept, Recorded
<1>6. ASSUME NEW k, NEW s, CreateDelivery(k, s) PROVE Kept
    BY <1>6 DEF CreateDelivery, Kept, Recorded
<1>7. ASSUME NEW k, NEW s, UpdateDelivery(k, s) PROVE Kept
    BY <1>7 DEF UpdateDelivery, Kept, Recorded
<1>8. ASSUME NEW k, AdmitRun(k) PROVE Kept /\ ~Recorded(k) /\ Recorded(k)'
    BY <1>8 DEF AdmitRun, With, Kept, Recorded
<1> QED BY <1>1, <1>2, <1>3, <1>4, <1>5, <1>6, <1>7, <1>8

-----------------------------------------------------------------------------
(* Executions *)

\* The effects of the operators that move executions.
LEMMA PcOf ==
    ASSUME NEW w, IsWork(w), NEW s
    PROVE  [w EXCEPT !.pc = s] = [pc |-> s, target |-> w.target, context |-> w.context]
<1> DEFINE r == [pc |-> w.pc, target |-> w.target, context |-> w.context]
<1>1. w = r BY DEF IsWork
<1>2. [r EXCEPT !.pc = s] = [pc |-> s, target |-> w.target, context |-> w.context] OBVIOUS
<1> HIDE DEF r
<1> QED BY <1>1, <1>2, Zenon

LEMMA Moved ==
    ASSUME WorkShape, NEW k \in DOMAIN work, NEW s, Reach(k, s)
    PROVE  /\ WorkShape'
           /\ DOMAIN work' = DOMAIN work
           /\ work'[k].pc = s
           /\ work'[k].target = work[k].target
           /\ work'[k].context = work[k].context
           /\ \A j \in DOMAIN work \ {k} : work'[j] = work[j]
<1>1. work' = [j \in DOMAIN work |-> IF j = k THEN [work[k] EXCEPT !.pc = s] ELSE work[j]]
    BY Zenon DEF WorkShape, Reach
<1>2. [work[k] EXCEPT !.pc = s] = [pc |-> s, target |-> work[k].target, context |-> work[k].context]
    BY PcOf DEF WorkShape
<1>3. DOMAIN work' = DOMAIN work /\ \A j \in DOMAIN work \ {k} : work'[j] = work[j]
    BY <1>1
<1>4. work'[k] = [pc |-> s, target |-> work[k].target, context |-> work[k].context]
    BY <1>1, <1>2
<1>5. ASSUME NEW j \in DOMAIN work' PROVE IsKey(j) /\ IsWork(work'[j])
    BY <1>3, <1>4 DEF WorkShape, IsWork
<1>6. work' = [j \in DOMAIN work' |-> work'[j]]
    BY <1>1, <1>3
<1> QED BY <1>3, <1>4, <1>5, <1>6 DEF WorkShape

LEMMA Ended ==
    ASSUME WorkShape, NEW k, Over(k)
    PROVE  /\ WorkShape'
           /\ DOMAIN work' = DOMAIN work \ {k}
           /\ \A j \in DOMAIN work' : work'[j] = work[j]
BY DEF WorkShape, Over, Restrict

LEMMA Put ==
    ASSUME WorkShape, NEW k, IsKey(k), NEW w, IsWork(w), work' = With(work, k, w)
    PROVE  /\ WorkShape'
           /\ DOMAIN work' = DOMAIN work \cup {k}
           /\ work'[k] = w
           /\ \A j \in DOMAIN work \ {k} : work'[j] = work[j]
BY DEF WorkShape, With

-----------------------------------------------------------------------------
(* Ways in which steps keep the invariant *)

\* No execution moves and nothing is admitted.
LEMMA AsideKeeps ==
    ASSUME RunsInv, Kept, UNCHANGED <<work, begun, broke>>,
           Admitting' => Admitting /\ UNCHANGED DueRun
    PROVE  RunsInv' /\ TurnsAllowed
<1>1. TurnsAllowed BY DEF TurnsAllowed, Begins, At
<1>2. WorkShape' BY DEF RunsInv, WorkShape
<1>3. \A k \in DOMAIN work' \cup begun' : Recorded(k)' BY DEF RunsInv, Kept
<1>4. \A k : Fresh(k) => Fresh(k)' BY DEF Fresh
<1>5. Admitting' => Recorded(DueRun)' /\ DueRun' \notin DOMAIN work' \cup begun'
    BY DEF RunsInv, Kept, Recorded
<1> QED BY <1>1, <1>2, <1>3, <1>4, <1>5 DEF RunsInv, Kept

LEMMA MoveKeeps ==
    ASSUME RunsInv, Kept, UNCHANGED ticker,
           NEW k \in DOMAIN work, NEW s, Reach(k, s),
           s \notin {"admitted", "queued"},
           s = "turn" => work[k].pc = "queued",
           s = "retry" => k[3] = 1 /\ k \in broke',
           begun' \subseteq begun \cup {k}, broke \subseteq broke'
    PROVE  RunsInv' /\ TurnsAllowed
<1>1. /\ WorkShape' /\ DOMAIN work' = DOMAIN work /\ work'[k].pc = s
      /\ \A j \in DOMAIN work \ {k} : work'[j] = work[j]
    BY Moved DEF RunsInv
<1>2. TurnsAllowed BY <1>1 DEF TurnsAllowed, Begins, At, RunsInv
<1>3. \A j \in DOMAIN work' \cup begun' : Recorded(j)' BY <1>1 DEF RunsInv, Kept
<1>4. ASSUME NEW j \in DOMAIN work'
      PROVE  /\ work'[j].pc \in {"admitted", "queued"} => Fresh(j)'
             /\ work'[j].pc = "retry" => j[3] = 1 /\ j \in broke'
    BY <1>1 DEF RunsInv, Fresh
<1>5. Admitting' => Recorded(DueRun)' /\ DueRun' \notin DOMAIN work' \cup begun'
    BY <1>1 DEF RunsInv, Kept, Admitting, DueRun
<1> QED BY <1>1, <1>2, <1>3, <1>4, <1>5 DEF RunsInv, Kept

LEMMA EndKeeps ==
    ASSUME RunsInv, Kept, UNCHANGED <<ticker, begun>>, NEW k, Over(k), broke \subseteq broke'
    PROVE  RunsInv' /\ TurnsAllowed
<1>1. /\ WorkShape' /\ DOMAIN work' = DOMAIN work \ {k}
      /\ \A j \in DOMAIN work' : work'[j] = work[j]
    BY Ended DEF RunsInv
<1>2. TurnsAllowed BY <1>1 DEF TurnsAllowed, Begins, At
<1>3. \A j \in DOMAIN work' \cup begun' : Recorded(j)' BY <1>1 DEF RunsInv, Kept
<1>4. ASSUME NEW j \in DOMAIN work'
      PROVE  /\ work'[j].pc \in {"admitted", "queued"} => Fresh(j)'
             /\ work'[j].pc = "retry" => j[3] = 1 /\ j \in broke'
    BY <1>1 DEF RunsInv, Fresh
<1>5. Admitting' => Recorded(DueRun)' /\ DueRun' \notin DOMAIN work' \cup begun'
    BY <1>1 DEF RunsInv, Kept, Admitting, DueRun
<1> QED BY <1>1, <1>2, <1>3, <1>4, <1>5 DEF RunsInv, Kept

-----------------------------------------------------------------------------
(* The executions of a run *)

LEMMA KeptByTrying ==
    ASSUME DOMAIN defs \cap gone = {}, NEW k, NEW s, NEW possible
    PROVE  /\ Try(UpdateRun(k, s), possible) => Kept
           /\ Try(CreateDelivery(k, s), possible) => Kept
           /\ Try(UpdateDelivery(k, s), possible) => Kept
BY KeptByStatements DEF Try

\* The second attempt takes the place of the first, which failed.
LEMMA RetryKeeps ==
    ASSUME RunsInv, NEW k \in DOMAIN work, Retry(k)
    PROVE  RunsInv' /\ TurnsAllowed
<1> DEFINE again == <<k[1], k[2], 2>>
           w == [work[k] EXCEPT !.pc = "queued"]
<1>1. AdmitRun(again) /\ work[k].pc = "retry" /\ UNCHANGED <<ticker, begun, broke>>
    BY DEF Retry, Aside, At
<1>2. Kept /\ ~Recorded(again) /\ Recorded(again)'
    BY <1>1, KeptByStatements DEF RunsInv
<1>3. IsWork(w) /\ w.pc = "queued" /\ w.context = work[k].context
    BY PcOf DEF RunsInv, WorkShape, IsWork
<1>4. work' = [j \in (DOMAIN work \ {k}) \cup {again} |-> IF j = again THEN w ELSE work[j]]
    BY DEF Retry, With, Restrict
<1> HIDE DEF w
<1>5. k[3] = 1 /\ k \in broke /\ k = <<k[1], k[2], 1>>
    BY <1>1 DEF RunsInv, WorkShape, IsKey
<1>6. /\ DOMAIN work' = (DOMAIN work \ {k}) \cup {again}
      /\ work'[again] = w
      /\ \A j \in DOMAIN work' \ {again} : j \in DOMAIN work /\ work'[j] = work[j]
    BY <1>4
<1>7. again \notin begun /\ Fresh(again)' /\ (\A j : Fresh(j) => Fresh(j)')
    BY <1>1, <1>2, <1>5 DEF RunsInv, Fresh
<1>8. WorkShape'
    <2>1. IsKey(again) BY DEF IsKey
    <2> QED BY <2>1, <1>3, <1>4, <1>6 DEF RunsInv, WorkShape
<1>9. TurnsAllowed
    BY <1>3, <1>6 DEF TurnsAllowed, Begins, At
<1>10. \A j \in DOMAIN work' \cup begun' : Recorded(j)'
    BY <1>1, <1>2, <1>6 DEF RunsInv, Kept
<1>11. ASSUME NEW j \in DOMAIN work'
       PROVE  /\ work'[j].pc \in {"admitted", "queued"} => Fresh(j)'
              /\ work'[j].pc = "retry" => j[3] = 1 /\ j \in broke'
    BY <1>1, <1>3, <1>6, <1>7 DEF RunsInv
<1>12. Admitting' => Recorded(DueRun)' /\ DueRun' \notin DOMAIN work' \cup begun'
    <2>1. again # DueRun BY DEF DueRun
    <2> QED BY <1>1, <1>2, <1>6, <2>1 DEF RunsInv, Kept, Admitting, DueRun
<1> QED BY <1>2, <1>8, <1>9, <1>10, <1>11, <1>12 DEF RunsInv, Kept

LEMMA ExecutionKeeps ==
    ASSUME RunsInv, NEW k \in DOMAIN work, ExecuteRun(k)
    PROVE  RunsInv' /\ TurnsAllowed
<1> USE DEF Aside, At
<1>0. DOMAIN defs \cap gone = {} BY DEF RunsInv
<1>1. CASE BeginTurn(k)
    <2>1. Kept BY <1>0, <1>1, KeptByStatements DEF BeginTurn
    <2>2. /\ Reach(k, "turn") /\ work[k].pc = "queued" /\ UNCHANGED <<ticker, broke>>
          /\ begun' = begun \cup {k}
        BY <1>1 DEF BeginTurn
    <2> QED BY <2>1, <2>2, MoveKeeps
<1>2. CASE BeginTurnFails(k)
    <2>1. Kept BY <1>0, <1>2, KeptByStatements DEF BeginTurnFails
    <2> QED BY <2>1, <1>2, EndKeeps DEF BeginTurnFails
<1>3. CASE TurnSucceeds(k)
    <2>1. Kept BY <1>0, <1>3, KeptByTrying DEF TurnSucceeds
    <2>2. Reach(k, "deliver") /\ UNCHANGED <<ticker, begun, broke>> BY <1>3 DEF TurnSucceeds
    <2> QED BY <2>1, <2>2, MoveKeeps
<1>4. CASE TurnCanceled(k)
    <2>1. Kept BY <1>0, <1>4, KeptByTrying DEF TurnCanceled
    <2> QED BY <2>1, <1>4, EndKeeps DEF TurnCanceled
<1>5. CASE TurnFails(k)
    <2>1. Kept BY <1>0, <1>5, KeptByTrying DEF TurnFails
    <2>2. UNCHANGED <<ticker, begun>> /\ broke' = broke \cup {k} BY <1>5 DEF TurnFails
    <2>3. CASE k[3] < 2
        <3>1. k[3] = 1 BY <2>3 DEF RunsInv, WorkShape, IsKey
        <3>2. Reach(k, "retry") BY <1>5, <2>3 DEF TurnFails
        <3> QED BY <2>1, <2>2, <3>1, <3>2, MoveKeeps
    <2>4. CASE ~(k[3] < 2)
        <3>1. Over(k) BY <1>5, <2>4 DEF TurnFails
        <3> QED BY <2>1, <2>2, <3>1, EndKeeps
    <2> QED BY <2>3, <2>4
<1>6. CASE Retry(k) BY <1>6, RetryKeeps
<1>7. CASE RetryFails(k)
    <2>1. Kept BY <1>0, <1>7, KeptByStatements DEF RetryFails
    <2> QED BY <2>1, <1>7, EndKeeps DEF RetryFails
<1>8. CASE OpenDelivery(k) \/ PostReport(k) \/ PostReportFails(k)
    <2>1. Kept BY <1>0, <1>8, KeptByStatements DEF OpenDelivery, PostReport, PostReportFails
    <2>2. PICK s \in {"posting", "posted", "unposted"} : Reach(k, s)
        BY <1>8 DEF OpenDelivery, PostReport, PostReportFails
    <2>3. UNCHANGED <<ticker, begun, broke>>
        BY <1>8 DEF OpenDelivery, PostReport, PostReportFails
    <2> QED BY <2>1, <2>2, <2>3, MoveKeeps
<1>9. CASE SkipDelivery(k)
    <2>1. Kept BY <1>0, <1>9, KeptByTrying DEF SkipDelivery
    <2> QED BY <2>1, <1>9, EndKeeps DEF SkipDelivery
<1>10. CASE OpenDeliveryFails(k)
    <2>1. Kept BY <1>0, <1>10, KeptByStatements DEF OpenDeliveryFails
    <2> QED BY <2>1, <1>10, EndKeeps DEF OpenDeliveryFails
<1>11. CASE CloseDelivery(k)
    <2>1. Kept BY <1>0, <1>11, KeptByTrying DEF CloseDelivery
    <2> QED BY <2>1, <1>11, EndKeeps DEF CloseDelivery
<1> QED BY <1>1, <1>2, <1>3, <1>4, <1>5, <1>6, <1>7, <1>8, <1>9, <1>10, <1>11 DEF ExecuteRun

-----------------------------------------------------------------------------
(* Ticks *)

LEMMA TickerKept ==
    ASSUME IsTicker(ticker), TickStep
    PROVE  /\ IsTicker(ticker')
           /\ Admitting' => TickAdmit /\ UNCHANGED DueRun
<1>1. CASE TickList BY <1>1, Zenon DEF TickList, Idle, Off, IsTicker, Admitting
<1>2. CASE TickAdmit BY <1>2, Zenon DEF TickAdmit, IsTicker, Admitting, DueRun
<1>3. CASE TickAdmitFails BY <1>3, Zenon DEF TickAdmitFails, TickNext, IsTicker, Admitting
<1>4. CASE TickSpawn BY <1>4, Zenon DEF TickSpawn, TickNext, IsTicker, Admitting
<1>5. CASE TickEnds BY <1>5, Zenon DEF TickEnds, Idle, Off, IsTicker, Admitting
<1>6. CASE LoopEnds BY <1>6, Zenon DEF LoopEnds, Off, IsTicker, Admitting
<1>7. ASSUME NEW t \in Ids, TickLoad(t) PROVE IsTicker(ticker') /\ ~Admitting'
    <2>1. ticker.pc = "look" BY <1>7 DEF TickLoad
    <2> QED BY <1>7, <2>1, Zenon DEF TickLoad, IsTicker, Admitting
<1>8. ASSUME NEW t \in Ids, TickLoadFails(t) PROVE IsTicker(ticker') /\ ~Admitting'
    <2>1. ticker.pc = "look" BY <1>8 DEF TickLoadFails
    <2> QED BY <1>8, <2>1, Zenon DEF TickLoadFails, IsTicker, Admitting
<1> QED BY <1>1, <1>2, <1>3, <1>4, <1>5, <1>6, <1>7, <1>8 DEF TickStep

\* A new execution, of a run that was not recorded before it was admitted.
LEMMA PutKeeps ==
    ASSUME RunsInv, Kept, NEW k, IsKey(k), k[3] = 1, k \notin begun, Recorded(k)',
           NEW w, IsWork(w), w.pc \in {"admitted", "queued"}, work' = With(work, k, w),
           UNCHANGED <<begun, broke>>,
           Admitting' => Admitting /\ UNCHANGED DueRun /\ DueRun # k
    PROVE  RunsInv' /\ TurnsAllowed
<1>1. /\ WorkShape' /\ DOMAIN work' = DOMAIN work \cup {k} /\ work'[k] = w
      /\ \A j \in DOMAIN work \ {k} : work'[j] = work[j]
    BY Put DEF RunsInv
<1>2. TurnsAllowed BY <1>1 DEF TurnsAllowed, Begins, At
<1>3. \A j \in DOMAIN work' \cup begun' : Recorded(j)' BY <1>1 DEF RunsInv, Kept
<1>4. Fresh(k)' /\ (\A j : Fresh(j) => Fresh(j)') BY DEF Fresh
<1>5. ASSUME NEW j \in DOMAIN work'
      PROVE  /\ work'[j].pc \in {"admitted", "queued"} => Fresh(j)'
             /\ work'[j].pc = "retry" => j[3] = 1 /\ j \in broke'
    BY <1>1, <1>4 DEF RunsInv
<1>6. Admitting' => Recorded(DueRun)' /\ DueRun' \notin DOMAIN work' \cup begun'
    BY <1>1 DEF RunsInv, Kept
<1> QED BY <1>1, <1>2, <1>3, <1>5, <1>6 DEF RunsInv, Kept

LEMMA TickKeeps ==
    ASSUME RunsInv, IsTicker(ticker), TickStep
    PROVE  RunsInv' /\ TurnsAllowed
<1>0. DOMAIN defs \cap gone = {} BY DEF RunsInv
<1>1. CASE TickAdmit
    <2>1. AdmitRun(DueRun) /\ UNCHANGED <<work, begun, broke>> BY <1>1 DEF TickAdmit, executions
    <2>2. Kept /\ ~Recorded(DueRun) /\ Recorded(DueRun)' /\ UNCHANGED DueRun
        <3>1. UNCHANGED DueRun BY <1>1, Zenon DEF TickAdmit, IsTicker, DueRun
        <3>2. Kept /\ ~Recorded(DueRun) BY <1>0, <2>1, KeptByStatements
        <3>3. \A k : AdmitRun(k) => k \in DOMAIN runs' BY DEF AdmitRun, With
        <3> QED BY <2>1, <3>1, <3>2, <3>3 DEF Recorded
    <2>3. DueRun' \notin DOMAIN work' \cup begun' BY <2>1, <2>2 DEF RunsInv
    <2>4. TurnsAllowed BY <2>1 DEF TurnsAllowed, Begins, At
    <2>5. WorkShape' BY <2>1 DEF RunsInv, WorkShape
    <2>6. \A k \in DOMAIN work' \cup begun' : Recorded(k)' BY <2>1, <2>2 DEF RunsInv, Kept
    <2>7. \A k : Fresh(k) => Fresh(k)' BY <2>1 DEF Fresh
    <2> QED BY <2>1, <2>2, <2>3, <2>4, <2>5, <2>6, <2>7 DEF RunsInv, Kept
<1>2. CASE TickSpawn
    <2> DEFINE w == [pc |-> "queued", target |-> ResolvesTarget(ticker.seen[ticker.task]),
                     context |-> Loop]
    <2>1. /\ Admitting /\ work' = With(work, DueRun, w)
          /\ UNCHANGED <<tables, begun, broke>>
        BY <1>2 DEF TickSpawn, Execute, Admitting
    <2>2. ~Admitting' BY <1>2, TickerKept DEF TickAdmit, TickSpawn
    <2>3. Kept BY <1>0, <2>1, KeptByStatements
    <2>4. IsKey(DueRun) /\ DueRun[3] = 1 BY DEF IsKey, DueRun
    <2>5. IsWork(w) /\ w.pc = "queued" BY DEF IsWork
    <2>6. DueRun \notin begun BY <2>1 DEF RunsInv
    <2>7. \A k : Recorded(k) => (k \in DOMAIN runs' \/ k[1] \in gone') BY <2>3 DEF Kept, Recorded
    <2>8. DueRun \in DOMAIN runs' \/ DueRun[1] \in gone' BY <2>1, <2>7 DEF RunsInv
    <2> HIDE DEF w
    <2> DEFINE d == DueRun
    <2>9. \A k : k = d => RunsInv' /\ TurnsAllowed
        <3> SUFFICES ASSUME NEW k, k = d PROVE RunsInv' /\ TurnsAllowed
            OBVIOUS
        <3>1. Recorded(k)' BY <2>8 DEF Recorded
        <3> QED BY <2>1, <2>2, <2>3, <2>4, <2>5, <2>6, <3>1, PutKeeps
    <2> QED BY <2>9
<1>3. CASE ~TickAdmit /\ ~TickSpawn
    <2>1. UNCHANGED <<work, begun, broke, tables>>
        BY <1>3 DEF TickStep, TickList, TickAdmitFails, TickEnds, LoopEnds, TickLoad,
                    TickLoadFails, executions
    <2>2. Kept BY <1>0, <2>1, KeptByStatements
    <2>3. ~Admitting' BY <1>3, TickerKept
    <2> QED BY <2>1, <2>2, <2>3, AsideKeeps
<1> QED BY <1>1, <1>2, <1>3

-----------------------------------------------------------------------------
(* Tool calls *)

\* What a call is told to do next is what is noted of it.
LEMMA CallsKept ==
    ASSUME CallsInv, NEW c \in Calls, NEW call, Goto(c, call),
           call.pc = "admit" => IsKey(call.run) /\ call.run[3] = 1
    PROVE  CallsInv'
<1>1. calls' = [d \in Calls |-> IF d = c THEN call ELSE calls[d]]
    BY Zenon DEF CallsInv, Goto
<1> QED BY <1>1 DEF CallsInv

LEMMA AnsweredKept ==
    ASSUME CallsInv, NEW c \in Calls, Answered(c)
    PROVE  CallsInv'
<1> DEFINE call == [NewCall EXCEPT !.pc = "done"]
<1>1. call.pc = "done" BY DEF NewCall
<1>2. Goto(c, call) BY DEF Answered
<1> HIDE DEF call
<1> QED BY <1>1, <1>2, CallsKept

\* An edit keeps the phase of the tick and the run it is about.
LEMMA NoteEditKeeps ==
    ASSUME IsTicker(ticker), NEW t, NoteEdit(t)
    PROVE  IsTicker(ticker') /\ (Admitting' => Admitting /\ UNCHANGED DueRun)
BY Zenon DEF NoteEdit, IsTicker, Admitting, DueRun

LEMMA EditKeeps ==
    ASSUME ProcessInv, NEW c \in Calls, Edit(c)
    PROVE  ProcessInv' /\ TurnsAllowed
<1>0. DOMAIN defs \cap gone = {} /\ RunsInv /\ CallsInv /\ IsTicker(ticker)
    BY DEF ProcessInv, RunsInv
<1> DEFINE Same == UNCHANGED <<ticker, work, begun, broke>>
<1>1. ASSUME Kept, Same, CallsInv' PROVE ProcessInv' /\ TurnsAllowed
    <2>1. IsTicker(ticker') BY <1>0, <1>1
    <2>2. Admitting' => Admitting /\ UNCHANGED DueRun BY <1>1 DEF Admitting, DueRun
    <2> QED BY <1>0, <1>1, <2>1, <2>2, AsideKeeps DEF ProcessInv
<1>2. ASSUME Kept, UNCHANGED <<work, begun, broke>>, CallsInv', NEW t, NoteEdit(t)
      PROVE  ProcessInv' /\ TurnsAllowed
    <2>1. IsTicker(ticker') /\ (Admitting' => Admitting /\ UNCHANGED DueRun)
        BY <1>0, <1>2, NoteEditKeeps
    <2> QED BY <1>0, <1>2, <2>1, AsideKeeps DEF ProcessInv
<1>3. CASE CreateTask(c)
    <2>1. PICK d : Goto(c, [NewCall EXCEPT !.pc = "insert", !.row = d])
        BY <1>3, Zenon DEF CreateTask
    <2>2. [NewCall EXCEPT !.pc = "insert", !.row = d].pc = "insert" BY Zenon DEF NewCall
    <2>3. CallsInv' BY <1>0, <2>1, <2>2, CallsKept
    <2>4. Kept /\ Same BY <1>0, <1>3, KeptByStatements DEF CreateTask, executions
    <2> QED BY <1>1, <2>3, <2>4
<1>4. CASE CreateScheduledTask(c)
    <2>0. PICK t \in Ids \ (DOMAIN defs \cup gone) : \E d : InsertTask(t, d)
        BY <1>4, Zenon DEF CreateScheduledTask
    <2>1. PICK d : InsertTask(t, d) BY <2>0
    <2>2. Kept BY <1>0, <2>1, KeptByStatements
    <2>3. Same /\ Answered(c) BY <1>4, Zenon DEF CreateScheduledTask, executions
    <2> QED BY <1>0, <1>1, <2>2, <2>3, AnsweredKept
<1>5. CASE EditTask(c)
    <2>1. PICK t, d : Goto(c, [NewCall EXCEPT !.pc = "write", !.task = t, !.row = d])
        BY <1>5, Zenon DEF EditTask
    <2>2. [NewCall EXCEPT !.pc = "write", !.task = t, !.row = d].pc = "write" BY Zenon DEF NewCall
    <2>3. CallsInv' BY <1>0, <2>1, <2>2, CallsKept
    <2>4. Kept /\ Same BY <1>0, <1>5, KeptByStatements DEF EditTask, executions
    <2> QED BY <1>1, <2>3, <2>4
<1>6. CASE UpdateScheduledTask(c)
    <2>1. Kept BY <1>0, <1>6, KeptByStatements DEF UpdateScheduledTask
    <2>2. /\ UNCHANGED <<work, begun, broke>> /\ NoteEdit(calls[c].task) /\ Answered(c)
        BY <1>6 DEF UpdateScheduledTask, executions
    <2> QED BY <1>0, <1>2, <2>1, <2>2, AnsweredKept
<1>7. CASE RemoveTask(c)
    <2>1. PICK t : Goto(c, [NewCall EXCEPT !.pc = "delete", !.task = t])
        BY <1>7, Zenon DEF RemoveTask
    <2>2. [NewCall EXCEPT !.pc = "delete", !.task = t].pc = "delete" BY Zenon DEF NewCall
    <2>3. CallsInv' BY <1>0, <2>1, <2>2, CallsKept
    <2>4. Kept /\ Same BY <1>0, <1>7, KeptByStatements DEF RemoveTask, executions
    <2> QED BY <1>1, <2>3, <2>4
<1>8. CASE DeleteScheduledTask(c)
    <2>1. Kept BY <1>0, <1>8, KeptByStatements DEF DeleteScheduledTask
    <2>2. /\ UNCHANGED <<work, begun, broke>> /\ NoteEdit(calls[c].task) /\ Answered(c)
        BY <1>8 DEF DeleteScheduledTask, executions
    <2> QED BY <1>0, <1>2, <2>1, <2>2, AnsweredKept
<1> QED BY <1>3, <1>4, <1>5, <1>6, <1>7, <1>8 DEF Edit

LEMMA ExecuteNowKeeps ==
    ASSUME ProcessInv, NEW c \in Calls, ExecuteNow(c) \/ ToolFails(c)
    PROVE  ProcessInv' /\ TurnsAllowed
<1>0. DOMAIN defs \cap gone = {} /\ RunsInv /\ CallsInv /\ IsTicker(ticker)
    BY DEF ProcessInv, RunsInv
<1>1. ASSUME UNCHANGED <<ticker, tables, work, begun, broke>>, CallsInv'
      PROVE  ProcessInv' /\ TurnsAllowed
    <2>1. Kept BY <1>0, <1>1, KeptByStatements
    <2>2. Admitting' => Admitting /\ UNCHANGED DueRun BY <1>1 DEF Admitting, DueRun
    <2> QED BY <1>0, <1>1, <2>1, <2>2, AsideKeeps DEF ProcessInv
<1>2. CASE ExecuteTaskNow(c)
    <2> DEFINE call(t) == [NewCall EXCEPT !.pc = "admit", !.task = t, !.row = defs[t],
                                          !.run = <<t, now, 1>>]
    <2>1. PICK t \in DOMAIN defs : Goto(c, call(t))
        BY <1>2, Zenon DEF ExecuteTaskNow
    <2>2. call(t).run = <<t, now, 1>> BY Zenon DEF NewCall
    <2> HIDE DEF call
    <2>3. IsKey(call(t).run) /\ call(t).run[3] = 1 BY <2>2 DEF IsKey
    <2>4. CallsInv' BY <1>0, <2>1, <2>3, CallsKept
    <2> QED BY <1>1, <1>2, <2>4 DEF ExecuteTaskNow, executions
<1>3. CASE AdmitNow(c)
    <2> DEFINE k == calls[c].run
               w == [pc |-> "admitted", target |-> ResolvesTarget(calls[c].row), context |-> c]
               call == [NewCall EXCEPT !.pc = "running", !.run = k]
    <2>1. /\ calls[c].pc = "admit" /\ AdmitRun(k) /\ work' = With(work, k, w)
          /\ UNCHANGED <<ticker, begun, broke>> /\ Goto(c, call)
        BY <1>3, Zenon DEF AdmitNow, Pending
    <2>2. call.pc = "running" BY Zenon DEF NewCall
    <2>3. IsWork(w) /\ w.pc = "admitted" BY DEF IsWork
    <2> HIDE DEF call, w
    <2>4. CallsInv' BY <1>0, <2>1, <2>2, CallsKept
    <2>5. IsKey(k) /\ k[3] = 1 BY <2>1 DEF CallsInv, ProcessInv
    <2>6. Kept /\ ~Recorded(k) BY <1>0, <2>1, KeptByStatements
    <2>7. k \in DOMAIN runs' BY <2>1 DEF AdmitRun, With
    <2>8. k \notin begun /\ (Admitting => DueRun # k) BY <1>0, <2>6 DEF RunsInv
    <2>9. Admitting' => Admitting /\ UNCHANGED DueRun BY <2>1 DEF Admitting, DueRun
    <2>10. \A j : j = k => RunsInv' /\ TurnsAllowed
        <3> SUFFICES ASSUME NEW j, j = k PROVE RunsInv' /\ TurnsAllowed
            OBVIOUS
        <3>1. Recorded(j)' BY <2>7 DEF Recorded
        <3> HIDE DEF k
        <3> QED BY <1>0, <2>1, <2>3, <2>5, <2>6, <2>8, <2>9, <3>1, PutKeeps
    <2> QED BY <1>0, <2>1, <2>4, <2>10 DEF ProcessInv
<1>4. CASE CountNow(c)
    <2> DEFINE k == calls[c].run
    <2>1. /\ k \in DOMAIN work /\ work[k].pc = "admitted" /\ Reach(k, "queued")
          /\ UNCHANGED <<ticker, tables, begun, broke, calls>>
        BY <1>4 DEF CountNow, At, Aside
    <2>2. /\ WorkShape' /\ DOMAIN work' = DOMAIN work /\ work'[k].pc = "queued"
          /\ \A j \in DOMAIN work \ {k} : work'[j] = work[j]
        BY <1>0, <2>1, Moved DEF RunsInv
    <2>3. Kept BY <1>0, <2>1, KeptByStatements
    <2>4. TurnsAllowed BY <2>2 DEF TurnsAllowed, Begins, At
    <2>5. \A j \in DOMAIN work' \cup begun' : Recorded(j)' BY <1>0, <2>1, <2>2, <2>3 DEF RunsInv, Kept
    <2>6. \A j : Fresh(j) => Fresh(j)' BY <2>1 DEF Fresh
    <2>7. ASSUME NEW j \in DOMAIN work'
          PROVE  /\ work'[j].pc \in {"admitted", "queued"} => Fresh(j)'
                 /\ work'[j].pc = "retry" => j[3] = 1 /\ j \in broke'
        BY <1>0, <2>1, <2>2, <2>6 DEF RunsInv
    <2>8. Admitting' => Recorded(DueRun)' /\ DueRun' \notin DOMAIN work' \cup begun'
        BY <1>0, <2>1, <2>2, <2>3 DEF RunsInv, Kept, Admitting, DueRun
    <2>9. RunsInv' BY <2>2, <2>3, <2>5, <2>7, <2>8 DEF RunsInv, Kept
    <2> QED BY <1>0, <2>1, <2>4, <2>9 DEF ProcessInv, CallsInv
<1>5. CASE ExecuteReturns(c)
    <2>1. Answered(c) BY <1>5 DEF ExecuteReturns
    <2> QED BY <1>0, <1>1, <1>5, <2>1, AnsweredKept DEF ExecuteReturns, executions
<1>6. CASE ClientLeaves(c)
    BY <1>0, <1>1, <1>6 DEF ClientLeaves, executions, CallsInv
<1>7. CASE ToolFails(c)
    <2>1. Answered(c) BY <1>7 DEF ToolFails
    <2> QED BY <1>0, <1>1, <1>7, <2>1, AnsweredKept DEF ToolFails, executions
<1> QED BY <1>2, <1>3, <1>4, <1>5, <1>6, <1>7 DEF ExecuteNow

-----------------------------------------------------------------------------
(* The process *)

LEMMA VanishKeeps ==
    ASSUME ProcessInv, Vanish
    PROVE  ProcessInv' /\ TurnsAllowed
<1>0. DOMAIN defs \cap gone = {} /\ RunsInv
    BY DEF ProcessInv, RunsInv
<1>1. /\ work' = <<>> /\ UNCHANGED <<tables, begun, broke>> /\ ticker' = Off
      /\ calls' = [c \in Calls |-> IF calls[c].pc = "idle" THEN NewCall ELSE [NewCall EXCEPT !.pc = "done"]]
    BY DEF Vanish
<1>2. IsTicker(ticker') /\ ~Admitting' BY <1>1 DEF Off, IsTicker, Admitting
<1>3. Kept BY <1>0, <1>1, KeptByStatements
<1>4. DOMAIN work' = {} BY <1>1
<1>5. WorkShape' BY <1>1, <1>4 DEF WorkShape
<1>6. RunsInv' BY <1>0, <1>1, <1>2, <1>3, <1>4, <1>5 DEF RunsInv, Kept
<1>7. CallsInv'
    <2>1. NewCall.pc = "idle" /\ [NewCall EXCEPT !.pc = "done"].pc = "done" BY DEF NewCall
    <2> DEFINE d == [NewCall EXCEPT !.pc = "done"]
    <2> HIDE DEF d
    <2>2. calls' = [c \in Calls |-> IF calls[c].pc = "idle" THEN NewCall ELSE d]
        BY <1>1 DEF d
    <2>3. d.pc = "done" BY <2>1 DEF d
    <2> QED BY <2>1, <2>2, <2>3 DEF CallsInv
<1> QED BY <1>2, <1>4, <1>6, <1>7 DEF ProcessInv, TurnsAllowed

LEMMA ProcessStep ==
    ASSUME ProcessInv, [ProcessNext]_processVars
    PROVE  ProcessInv' /\ TurnsAllowed
<1>0. DOMAIN defs \cap gone = {} /\ RunsInv /\ CallsInv /\ IsTicker(ticker)
    BY DEF ProcessInv, RunsInv
<1>1. ASSUME UNCHANGED <<ticker, tables, work, begun, broke, calls>>
      PROVE  ProcessInv' /\ TurnsAllowed
    <2>1. Kept BY <1>0, <1>1, KeptByStatements
    <2>2. Admitting' => Admitting /\ UNCHANGED DueRun BY <1>1 DEF Admitting, DueRun
    <2> QED BY <1>0, <1>1, <2>1, <2>2, AsideKeeps DEF ProcessInv, CallsInv
<1>2. CASE Boot \/ Terminate \/ Close \/ Pass
    BY <1>1, <1>2 DEF Boot, Terminate, Close, Pass, service, executions
<1>3. CASE Start
    <2>1. ticker' = Idle /\ UNCHANGED <<tables, work, begun, broke, calls>>
        BY <1>3 DEF Start, executions
    <2>2. IsTicker(ticker') /\ ~Admitting' BY <2>1, Zenon DEF Idle, Off, IsTicker, Admitting
    <2>3. Kept BY <1>0, <2>1, KeptByStatements
    <2> QED BY <1>0, <2>1, <2>2, <2>3, AsideKeeps DEF ProcessInv, CallsInv
<1>4. CASE CloseTimesOut \/ Exit \/ Crash
    BY <1>4, VanishKeeps DEF CloseTimesOut, Exit, Crash
<1>5. CASE TickStep /\ UNCHANGED <<phase, boots, calls>>
    BY <1>0, <1>5, TickKeeps, TickerKept DEF ProcessInv, CallsInv
<1>6. ASSUME NEW k \in DOMAIN work, ExecuteRun(k), UNCHANGED <<phase, boots, calls>>
      PROVE  ProcessInv' /\ TurnsAllowed
    <2>1. UNCHANGED ticker
        BY <1>6 DEF ExecuteRun, Aside, BeginTurn, BeginTurnFails, TurnSucceeds, TurnCanceled,
                    TurnFails, Retry, RetryFails, OpenDelivery, PostReport, PostReportFails,
                    SkipDelivery, OpenDeliveryFails,
                    CloseDelivery
    <2> QED BY <1>0, <1>6, <2>1, ExecutionKeeps DEF ProcessInv, CallsInv
<1>7. ASSUME NEW c \in Calls, Edit(c) PROVE ProcessInv' /\ TurnsAllowed
    BY <1>7, EditKeeps
<1>8. ASSUME NEW c \in Calls, ExecuteNow(c) \/ ToolFails(c) PROVE ProcessInv' /\ TurnsAllowed
    BY <1>8, ExecuteNowKeeps
<1>9. CASE UNCHANGED processVars
    BY <1>1, <1>9 DEF processVars, service, executions
<1>10. NowCalls \subseteq Calls BY NowCallsAssumption
<1> QED BY <1>2, <1>3, <1>4, <1>5, <1>6, <1>7, <1>8, <1>9, <1>10 DEF ProcessNext

LEMMA ProcessStart == ProcessInit => ProcessInv
<1> SUFFICES ASSUME ProcessInit PROVE ProcessInv OBVIOUS
<1>1. ticker = Off /\ work = <<>> /\ begun = {} /\ gone = {} /\ calls = [c \in Calls |-> NewCall]
    BY DEF ProcessInit, ServiceInit, TablesInit
<1>2. IsTicker(ticker) /\ ~Admitting BY <1>1 DEF Off, IsTicker, Admitting
<1>3. DOMAIN work = {} BY <1>1
<1>4. RunsInv BY <1>1, <1>2, <1>3 DEF RunsInv, WorkShape
<1>5. CallsInv BY <1>1 DEF CallsInv, NewCall
<1> QED BY <1>2, <1>4, <1>5 DEF ProcessInv

\* Through crashes and restarts, failures and tool calls: whatever executes or
\* has had a turn was recorded, unless its task was deleted; a run not begun has
\* had no turn, and if it is a second attempt the first has failed; and the run
\* a tick is about to start is neither executing nor has it begun.
THEOREM ProcessInvAlways == ProcessSpec => []ProcessInv
<1>1. ProcessInv /\ [ProcessNext]_processVars => ProcessInv' BY ProcessStep
<1> QED BY <1>1, ProcessStart, PTL DEF ProcessSpec

\* An attempt at an occurrence gets at most one Codex turn, and a second attempt
\* only follows a first that failed: through crashes and restarts, failures of
\* the store, execute-now and edits, no scheduled run is repeated.
THEOREM RetryOnlyAfterFailureAlways == ProcessSpec => RetryOnlyAfterFailure
<1>1. ASSUME ProcessInv, [ProcessNext]_processVars
      PROVE  [\A k \in DOMAIN work' :
                 Begins(k) => k \notin begun /\ (k[3] = 2 => <<k[1], k[2], 1>> \in broke)]_service
    BY <1>1, ProcessStep DEF TurnsAllowed, Fresh
<1> QED BY <1>1, ProcessInvAlways, PTL DEF ProcessSpec, RetryOnlyAfterFailure

-----------------------------------------------------------------------------
(* Close *)

\* Once Close has returned nothing is left that could still take a step.
LEMMA ClosedStep ==
    ASSUME ProcessInv, CloseInv, phase = "closed", phase' = "closed",
           [ProcessNext]_processVars
    PROVE  CloseInv'
<1>0. live = {} /\ ticker.pc = "off" /\ \A k \in DOMAIN work : work[k].pc \in {"admitted", "queued"}
    BY DEF CloseInv, CloseWaitsForRuns
<1>1. ASSUME live' = {}, UNCHANGED <<ticker, work>> PROVE CloseInv'
    BY <1>0, <1>1 DEF CloseInv, CloseWaitsForRuns
<1>2. ~TickStep
    BY <1>0 DEF TickStep, TickList, TickAdmit, TickAdmitFails, TickSpawn, TickEnds, LoopEnds,
                TickLoad, TickLoadFails
<1>3. ~Boot /\ ~Start /\ ~Terminate /\ ~Close /\ ~CloseTimesOut /\ ~Exit /\ ~Crash
    BY DEF Boot, Start, Terminate, Close, CloseTimesOut, Exit, Crash, Vanish
<1>4. CASE Pass \/ UNCHANGED processVars
    BY <1>0, <1>1, <1>4 DEF Pass, processVars, service, executions
<1>5. ASSUME NEW k \in DOMAIN work, ExecuteRun(k) PROVE CloseInv'
    <2>1. BeginTurnFails(k)
        BY <1>0, <1>5 DEF ExecuteRun, BeginTurn, TurnSucceeds, TurnCanceled, TurnFails, Retry,
                          RetryFails, OpenDelivery, PostReport, PostReportFails,
                          SkipDelivery, OpenDeliveryFails,
                          CloseDelivery, At, Recordable, InTime
    <2>2. Over(k) /\ UNCHANGED <<ticker, live>> BY <2>1 DEF BeginTurnFails, Aside
    <2>3. /\ DOMAIN work' = DOMAIN work \ {k}
          /\ \A j \in DOMAIN work' : work'[j] = work[j]
        BY <2>2, Ended DEF ProcessInv, RunsInv
    <2> QED BY <1>0, <2>2, <2>3 DEF CloseInv, CloseWaitsForRuns
<1>6. ASSUME NEW c \in Calls, Edit(c) PROVE FALSE
    BY <1>0, <1>6 DEF Edit, CreateTask, CreateScheduledTask, EditTask, UpdateScheduledTask,
                      RemoveTask, DeleteScheduledTask, Request, Pending
<1>7. ASSUME NEW c \in Calls, ExecuteNow(c) \/ ToolFails(c) PROVE CloseInv'
    <2>1. ~ExecuteTaskNow(c) /\ ~AdmitNow(c) /\ ~ClientLeaves(c)
        BY <1>0 DEF ExecuteTaskNow, AdmitNow, ClientLeaves, Request, Pending
    <2>2. CASE CountNow(c)
        <3> DEFINE k == calls[c].run
        <3>1. k \in DOMAIN work /\ Reach(k, "queued") /\ UNCHANGED <<ticker, live>>
            BY <2>2 DEF CountNow, At, Aside
        <3>2. /\ DOMAIN work' = DOMAIN work /\ work'[k].pc = "queued"
              /\ \A j \in DOMAIN work \ {k} : work'[j] = work[j]
            BY <3>1, Moved DEF ProcessInv, RunsInv
        <3> QED BY <1>0, <3>1, <3>2 DEF CloseInv, CloseWaitsForRuns
    <2>3. CASE ExecuteReturns(c) \/ ToolFails(c)
        <3>1. live' = live \ {c} /\ UNCHANGED <<ticker, work>>
            BY <2>3 DEF ExecuteReturns, ToolFails, Answered, executions
        <3> QED BY <1>0, <1>1, <3>1
    <2> QED BY <1>7, <2>1, <2>2, <2>3 DEF ExecuteNow
<1>8. NowCalls \subseteq Calls BY NowCallsAssumption
<1> QED BY <1>2, <1>3, <1>4, <1>5, <1>6, <1>7, <1>8 DEF ProcessNext

LEMMA CloseStep ==
    ASSUME ProcessInv, CloseInv, [ProcessNext]_processVars
    PROVE  CloseInv'
<1>1. CASE Terminate
    BY <1>1 DEF Terminate, CloseInv, CloseWaitsForRuns
<1>2. CASE Close
    BY <1>2 DEF Close, Counted, CloseInv, CloseWaitsForRuns, service, executions
<1>3. CASE phase' \notin {"closing", "closed"}
    BY <1>3 DEF CloseInv, CloseWaitsForRuns
<1>4. CASE phase = "closed" /\ phase' = "closed" BY <1>4, ClosedStep
<1>5. CASE phase = "closing" /\ phase' = "closing"
    <2>1. live = {} BY <1>5 DEF CloseInv
    <2>2. live' = {}
        <3>1. CASE Pass \/ UNCHANGED processVars BY <2>1, <3>1 DEF Pass, processVars, service
        <3>2. CASE TickStep
            BY <2>1, <3>2 DEF TickStep, TickList, TickAdmit, TickAdmitFails, TickSpawn, TickEnds,
                              LoopEnds, TickLoad, TickLoadFails
        <3>3. ASSUME NEW k, ExecuteRun(k) PROVE live' = {}
            BY <2>1, <3>3 DEF ExecuteRun, Aside, BeginTurn, BeginTurnFails, TurnSucceeds,
                              TurnCanceled, TurnFails, Retry, RetryFails, OpenDelivery, PostReport, PostReportFails,
                              SkipDelivery, OpenDeliveryFails, CloseDelivery
        <3>4. ASSUME NEW c, Edit(c) PROVE live' = {}
            BY <1>5, <2>1, <3>4 DEF Edit, CreateTask, CreateScheduledTask, EditTask,
                   UpdateScheduledTask, RemoveTask, DeleteScheduledTask, Request, Answered
        <3>5. ASSUME NEW c, ExecuteNow(c) \/ ToolFails(c) PROVE live' = {}
            BY <1>5, <2>1, <3>5 DEF ExecuteNow, ExecuteTaskNow, AdmitNow, CountNow,
                   ExecuteReturns, ClientLeaves, ToolFails, Request, Answered, Aside
        <3>6. ~Boot /\ ~Start /\ ~Terminate /\ ~Close /\ ~CloseTimesOut /\ ~Exit /\ ~Crash
            BY <1>5 DEF Boot, Start, Terminate, Close, CloseTimesOut, Exit, Crash, Vanish
        <3> QED BY <3>1, <3>2, <3>3, <3>4, <3>5, <3>6 DEF ProcessNext
    <2> QED BY <1>5, <2>2 DEF CloseInv, CloseWaitsForRuns
<1>6. ~Terminate /\ ~Close => \/ phase' \notin {"closing", "closed"}
                              \/ UNCHANGED phase
    <2>1. ASSUME NEW c, Edit(c) \/ ExecuteNow(c) \/ ToolFails(c) PROVE UNCHANGED phase
        BY <2>1 DEF Edit, CreateTask, CreateScheduledTask, EditTask, UpdateScheduledTask,
               RemoveTask, DeleteScheduledTask, ExecuteNow, ExecuteTaskNow, AdmitNow, CountNow,
               ExecuteReturns, ClientLeaves, ToolFails
    <2>2. Pass \/ UNCHANGED processVars => UNCHANGED phase BY DEF Pass, processVars
    <2>3. Boot \/ Start \/ CloseTimesOut \/ Exit \/ Crash => phase' \notin {"closing", "closed"}
        BY DEF Boot, Start, CloseTimesOut, Exit, Crash, Vanish
    <2> QED BY <2>1, <2>2, <2>3 DEF ProcessNext
<1> QED BY <1>1, <1>2, <1>3, <1>4, <1>5, <1>6

\* When Close has returned no tick is under way, and no execution is past the
\* admission of its run: none is anywhere near a Codex turn or a report.
THEOREM CloseWaitsForRunsAlways == ProcessSpec => []CloseWaitsForRuns
<1>1. ProcessInit => CloseInv BY DEF ProcessInit, CloseInv, CloseWaitsForRuns
<1>2. ProcessInv /\ CloseInv /\ [ProcessNext]_processVars => CloseInv' BY CloseStep
<1>3. CloseInv => CloseWaitsForRuns BY DEF CloseInv
<1> QED BY <1>1, <1>2, <1>3, ProcessInvAlways, PTL DEF ProcessSpec

-----------------------------------------------------------------------------
(* Reports *)

\* How far the report of a run has come, in each place its execution can be.
Report(k) ==
    /\ k \in sent => k \in shown
    /\ k \in shown =>
          /\ k \in begun
          /\ \/ k[1] \in gone
             \/ /\ k \in DOMAIN deliveries /\ deliveries[k] \in {"pending", "succeeded", "failed"}
                /\ k \in sent => deliveries[k] # "failed"
    /\ k \in DOMAIN deliveries =>
          /\ k \in begun /\ k \in DOMAIN runs /\ runs[k] \in {"running", "succeeded"}
          /\ deliveries[k] = "succeeded" => k \in sent
    /\ At(k, "turn") \/ At(k, "deliver") => k \in begun \ shown /\ k \notin DOMAIN deliveries
    /\ At(k, "posting") =>
          /\ k \in begun \ shown
          /\ k[1] \in gone \/ (k \in DOMAIN deliveries /\ deliveries[k] = "pending")
    /\ k \in DOMAIN runs =>
          /\ At(k, "turn") => runs[k] = "running"
          /\ At(k, "deliver") => runs[k] \in {"running", "succeeded"}
    /\ At(k, "posted") => k \in sent
    /\ At(k, "unposted") => k \notin sent

ReportInv == \A k : Report(k)

\* No execution of k has come further than it was.
NoFurther(k) ==
    \A s \in {"turn", "deliver", "posting", "posted", "unposted"} : At(k, s)' => At(k, s)

\* The rows of k are what they were.
SameRows(k) ==
    /\ k \in DOMAIN runs' <=> k \in DOMAIN runs
    /\ k \in DOMAIN runs => runs'[k] = runs[k]
    /\ k \in DOMAIN deliveries' <=> k \in DOMAIN deliveries
    /\ k \in DOMAIN deliveries => deliveries'[k] = deliveries[k]
    /\ gone \subseteq gone'

\* No turn of k was begun and no report sent, in whole or in part.
SameHistory(k) ==
    (k \in begun' <=> k \in begun) /\ (k \in shown' <=> k \in shown) /\ (k \in sent' <=> k \in sent)

\* The step was about another run.
LEMMA ReportKept ==
    ASSUME NEW k, Report(k), SameRows(k), SameHistory(k), NoFurther(k)
    PROVE  Report(k)'
BY DEF Report, SameRows, SameHistory, NoFurther

\* Which rows the statements of the store leave alone.
LEMMA RowsAside ==
    /\ UNCHANGED tables => \A j : SameRows(j)
    /\ \A t, d : InsertTask(t, d) \/ UpdateTask(t, d) => \A j : SameRows(j)
    /\ \A k, s : UpdateRun(k, s) \/ CreateDelivery(k, s) \/ UpdateDelivery(k, s)
                 => \A j : j # k => SameRows(j)
    /\ \A k : AdmitRun(k) => \A j : j # k => SameRows(j)
BY DEF tables, InsertTask, UpdateTask, UpdateRun, CreateDelivery, UpdateDelivery, AdmitRun, With,
       SameRows

\* A task is deleted with all its rows.
LEMMA DeletionKeeps ==
    ASSUME ReportInv, NEW t, DeleteTask(t), UNCHANGED <<work, begun, shown, sent>>
    PROVE  ReportInv'
<1> SUFFICES ASSUME NEW k PROVE Report(k)' BY DEF ReportInv
<1>1. Report(k) BY DEF ReportInv
<1>2. CASE k[1] = t
    BY <1>1, <1>2 DEF DeleteTask, Restrict, Report, At
<1>3. CASE k[1] # t
    <2>1. SameRows(k) BY <1>3 DEF DeleteTask, Restrict, SameRows
    <2> QED BY <1>1, <2>1, ReportKept DEF SameHistory, NoFurther, At
<1> QED BY <1>2, <1>3

\* A run is admitted that was not recorded before.
LEMMA AdmissionKeeps ==
    ASSUME RunsInv, ReportInv, NEW k, AdmitRun(k), ~Recorded(k), UNCHANGED <<begun, shown, sent>>,
           \A j : NoFurther(j)
    PROVE  ReportInv'
<1> SUFFICES ASSUME NEW j PROVE Report(j)' BY DEF ReportInv
<1>1. Report(j) BY DEF ReportInv
<1>2. CASE j = k
    <2>1. k \notin DOMAIN work \cup begun BY DEF RunsInv
    <2>2. k \notin DOMAIN runs BY DEF Recorded
    <2>3. k \notin shown \cup sent /\ k \notin DOMAIN deliveries BY <1>1, <1>2, <2>1, <2>2 DEF Report
    <2>4. UNCHANGED <<gone, deliveries>> BY DEF AdmitRun
    <2> QED BY <1>2, <2>1, <2>3, <2>4 DEF Report, NoFurther, At
<1>3. CASE j # k
    BY <1>1, <1>3, RowsAside, ReportKept DEF SameHistory
<1> QED BY <1>2, <1>3

\* An execution goes on, or ends.
LEMMA ReportOfExecution ==
    ASSUME RunsInv, ReportInv, NEW k \in DOMAIN work, ExecuteRun(k), ~Retry(k)
    PROVE  ReportInv'
<1> USE DEF Aside
<1>0. Report(k) /\ WorkShape BY DEF ReportInv, RunsInv
<1>1. ASSUME NEW j, j # k PROVE Report(j)'
    <2>1. SameRows(j)
        BY <1>1, RowsAside DEF ExecuteRun, BeginTurn, BeginTurnFails, TurnSucceeds, TurnCanceled,
           TurnFails, RetryFails, OpenDelivery, PostReport, PostReportFails,
           SkipDelivery, OpenDeliveryFails, CloseDelivery, Try
    <2>2. SameHistory(j)
        BY <1>1 DEF ExecuteRun, BeginTurn, BeginTurnFails, TurnSucceeds, TurnCanceled,
           TurnFails, RetryFails, OpenDelivery, PostReport, PostReportFails,
           SkipDelivery, OpenDeliveryFails, CloseDelivery,
           SameHistory
    <2>3. Over(k) \/ \E s : Reach(k, s)
        BY DEF ExecuteRun, BeginTurn, BeginTurnFails, TurnSucceeds, TurnCanceled,
           TurnFails, RetryFails, OpenDelivery, PostReport, PostReportFails,
           SkipDelivery, OpenDeliveryFails, CloseDelivery
    <2>4. NoFurther(j) BY <1>0, <1>1, <2>3, Moved, Ended DEF NoFurther, At
    <2> QED BY <2>1, <2>2, <2>4, ReportKept DEF ReportInv
<1>2. ASSUME NEW s, Reach(k, s) PROVE \A x : At(k, x)' <=> x = s
    BY <1>0, <1>2, Moved DEF At
<1>3. ASSUME Over(k) PROVE \A x : ~At(k, x)'
    BY <1>0, <1>3, Ended DEF At
<1>4. CASE BeginTurn(k)
    <2>1. k \notin begun BY <1>4 DEF BeginTurn, At, RunsInv, Fresh
    <2>2. k \notin shown \cup sent /\ k \notin DOMAIN deliveries BY <1>0, <2>1 DEF Report
    <2>3. Report(k)'
        BY <1>2, <1>4, <2>2 DEF BeginTurn, UpdateRun, Report
    <2> QED BY <1>1, <2>3 DEF ReportInv
<1>5. CASE BeginTurnFails(k) \/ RetryFails(k) \/ OpenDeliveryFails(k)
    <2>1. SameRows(k) /\ Over(k) /\ UNCHANGED <<begun, shown, sent>>
        BY <1>5, RowsAside DEF BeginTurnFails, RetryFails, OpenDeliveryFails
    <2>2. Report(k)' BY <1>0, <1>3, <2>1, ReportKept DEF SameHistory, NoFurther
    <2> QED BY <1>1, <2>2 DEF ReportInv
<1>6. CASE TurnSucceeds(k)
    <2>1. Report(k)'
        BY <1>0, <1>2, <1>6 DEF TurnSucceeds, Try, UpdateRun, tables, Report
    <2> QED BY <1>1, <2>1 DEF ReportInv
<1>7. CASE TurnCanceled(k) \/ TurnFails(k)
    <2>1. /\ At(k, "turn") /\ UNCHANGED <<begun, shown, sent>>
          /\ Over(k) \/ Reach(k, "retry")
          /\ UNCHANGED tables \/ \E s : UpdateRun(k, s)
        BY <1>7 DEF TurnCanceled, TurnFails, Try
    <2>2. k \notin shown \cup sent /\ k \notin DOMAIN deliveries BY <1>0, <2>1 DEF Report
    <2>3. UNCHANGED deliveries BY <2>1 DEF tables, UpdateRun
    <2>4. Report(k)' BY <1>2, <1>3, <2>1, <2>2, <2>3 DEF Report
    <2> QED BY <1>1, <2>4 DEF ReportInv
<1>8. CASE OpenDelivery(k) \/ PostReport(k) \/ PostReportFails(k)
    <2>1. CASE OpenDelivery(k)
        <3>1. Report(k)'
            BY <1>0, <1>2, <2>1 DEF OpenDelivery, CreateDelivery, With, Report, Recordable
        <3> QED BY <1>1, <3>1 DEF ReportInv
    <2>2. CASE PostReport(k)
        <3>1. Report(k)' BY <1>0, <1>2, <2>2 DEF PostReport, tables, Report
        <3> QED BY <1>1, <3>1 DEF ReportInv
    <2>3. CASE PostReportFails(k)
        <3>1. /\ k \in begun' /\ k \notin sent' /\ At(k, "posting") /\ Reach(k, "unposted")
              /\ UNCHANGED tables
            BY <1>0, <2>3 DEF PostReportFails, Report
        <3>2. k[1] \in gone \/ (k \in DOMAIN deliveries /\ deliveries[k] = "pending")
            BY <1>0, <3>1 DEF Report
        <3>3. \A s : At(k, s)' <=> s = "unposted" BY <1>2, <3>1
        <3>4. Report(k)' BY <1>0, <3>1, <3>2, <3>3 DEF tables, Report
        <3> QED BY <1>1, <3>4 DEF ReportInv
    <2> QED BY <1>8, <2>1, <2>2, <2>3
<1>9. CASE SkipDelivery(k)
    <2>1. Report(k)'
        BY <1>0, <1>3, <1>9 DEF SkipDelivery, Try, CreateDelivery, With, tables, Report, Recordable
    <2> QED BY <1>1, <2>1 DEF ReportInv
<1>10. CASE CloseDelivery(k)
    <2>1. Report(k)'
        BY <1>0, <1>3, <1>10 DEF CloseDelivery, Try, UpdateDelivery, tables, Report
    <2> QED BY <1>1, <2>1 DEF ReportInv
<1> QED BY <1>4, <1>5, <1>6, <1>7, <1>8, <1>9, <1>10 DEF ExecuteRun

\* Every step of the process keeps the reports in order.
LEMMA ReportStep ==
    ASSUME ProcessInv, ReportInv, [ProcessNext]_processVars
    PROVE  ReportInv'
<1>0. DOMAIN defs \cap gone = {} /\ RunsInv /\ WorkShape BY DEF ProcessInv, RunsInv
<1>1. ASSUME \A j : SameRows(j), UNCHANGED <<begun, shown, sent>>, \A j : NoFurther(j) PROVE ReportInv'
    BY <1>1, ReportKept DEF ReportInv, SameHistory
<1>2. UNCHANGED work => \A j : NoFurther(j) BY DEF NoFurther, At
<1>3. ASSUME UNCHANGED <<tables, work, begun, shown, sent>> PROVE ReportInv'
    BY <1>1, <1>2, <1>3, RowsAside
<1>4. CASE Boot \/ Start \/ Terminate \/ Close \/ Pass \/ UNCHANGED processVars
    BY <1>3, <1>4 DEF Boot, Start, Terminate, Close, Pass, processVars, service, executions
<1>5. CASE CloseTimesOut \/ Exit \/ Crash
    <2>1. work' = <<>> /\ UNCHANGED <<tables, begun, shown, sent>>
        BY <1>5 DEF CloseTimesOut, Exit, Crash, Vanish
    <2>2. \A j : NoFurther(j) BY <2>1 DEF NoFurther, At
    <2> QED BY <1>1, <2>1, <2>2, RowsAside
\* A new execution is not yet past its admission.
<1>6. ASSUME NEW k, IsKey(k), NEW w, IsWork(w), w.pc \in {"admitted", "queued"},
             work' = With(work, k, w)
      PROVE  \A j : NoFurther(j)
    <2>1. /\ DOMAIN work' = DOMAIN work \cup {k} /\ work'[k] = w
          /\ \A j \in DOMAIN work \ {k} : work'[j] = work[j]
        BY <1>0, <1>6, Put
    <2>2. w.pc \notin {"turn", "deliver", "posting", "posted", "unposted"} BY <1>6
    <2> QED BY <2>1, <2>2 DEF NoFurther, At
<1>7. CASE TickStep
    <2>1. CASE TickAdmit
        <3>1. AdmitRun(DueRun) /\ UNCHANGED <<work, begun, shown, sent>> BY <2>1 DEF TickAdmit, executions
        <3>2. \A k : AdmitRun(k) => ~Recorded(k) BY <1>0, KeptByStatements
        <3>3. \A k : AdmitRun(k) => ReportInv' BY <1>0, <1>2, <3>1, <3>2, AdmissionKeeps
        <3> QED BY <3>1, <3>3
    <2>2. CASE TickSpawn
        <3> DEFINE w == [pc |-> "queued", target |-> ResolvesTarget(ticker.seen[ticker.task]),
                         context |-> Loop]
        <3>1. work' = With(work, DueRun, w) /\ UNCHANGED <<tables, begun, shown, sent>>
            BY <2>2 DEF TickSpawn, Execute
        <3>2. IsKey(DueRun) BY DEF IsKey, DueRun
        <3>3. IsWork(w) /\ w.pc = "queued" BY DEF IsWork
        <3> HIDE DEF w
        <3>4. \A k : IsKey(k) /\ work' = With(work, k, w) => \A j : NoFurther(j)
            BY <1>6, <3>3
        <3>5. \A j : NoFurther(j) BY <3>1, <3>2, <3>4
        <3> QED BY <1>1, <3>1, <3>5, RowsAside
    <2>3. CASE ~TickAdmit /\ ~TickSpawn
        BY <1>3, <1>7, <2>3 DEF TickStep, TickList, TickAdmitFails, TickEnds, LoopEnds, TickLoad,
                         TickLoadFails, executions
    <2> QED BY <2>1, <2>2, <2>3
<1>8. ASSUME NEW k \in DOMAIN work, ExecuteRun(k) PROVE ReportInv'
    <2>1. CASE Retry(k)
        <3> DEFINE again == <<k[1], k[2], 2>>
                   w == [work[k] EXCEPT !.pc = "queued"]
        <3>1. /\ AdmitRun(again) /\ UNCHANGED <<begun, shown, sent>>
              /\ work' = With(Restrict(work, DOMAIN work \ {k}), again, w)
            BY <2>1 DEF Retry
        <3>2. w.pc = "queued" BY <1>0, PcOf DEF WorkShape
        <3> HIDE DEF w
        <3>3. \A j : NoFurther(j) BY <3>1, <3>2 DEF NoFurther, At, With, Restrict
        <3>4. ~Recorded(again) BY <1>0, <3>1, KeptByStatements
        <3> QED BY <1>0, <3>1, <3>3, <3>4, AdmissionKeeps
    <2> QED BY <1>0, <1>8, <2>1, ReportOfExecution
<1>9. ASSUME NEW c \in Calls, Edit(c) PROVE ReportInv'
    <2>1. UNCHANGED <<work, begun, shown, sent>>
        BY <1>9 DEF Edit, CreateTask, CreateScheduledTask, EditTask, UpdateScheduledTask,
                    RemoveTask, DeleteScheduledTask, executions
    <2>2. CASE DeleteScheduledTask(c)
        BY <2>1, <2>2, DeletionKeeps DEF DeleteScheduledTask
    <2>3. CASE CreateScheduledTask(c)
        <3>1. \E t, d : InsertTask(t, d) BY <2>3, Zenon DEF CreateScheduledTask
        <3> QED BY <1>1, <1>2, <2>1, <3>1, RowsAside
    <2>4. CASE UpdateScheduledTask(c)
        BY <1>1, <1>2, <2>1, <2>4, RowsAside DEF UpdateScheduledTask
    <2>5. CASE CreateTask(c) \/ EditTask(c) \/ RemoveTask(c)
        BY <1>3, <2>1, <2>5 DEF CreateTask, EditTask, RemoveTask
    <2> QED BY <1>9, <2>2, <2>3, <2>4, <2>5 DEF Edit
<1>10. ASSUME NEW c \in Calls, ExecuteNow(c) \/ ToolFails(c) PROVE ReportInv'
    <2>1. CASE AdmitNow(c)
        <3> DEFINE w == [pc |-> "admitted", target |-> ResolvesTarget(calls[c].row), context |-> c]
        <3>1. PICK k : /\ k = calls[c].run /\ AdmitRun(k) /\ work' = With(work, k, w)
                       /\ UNCHANGED <<begun, shown, sent>>
            BY <2>1, Zenon DEF AdmitNow
        <3>2. IsKey(k) BY <2>1, <3>1 DEF AdmitNow, Pending, ProcessInv, CallsInv
        <3>3. IsWork(w) /\ w.pc = "admitted" BY DEF IsWork
        <3> HIDE DEF w
        <3>4. \A j : NoFurther(j) BY <1>6, <3>1, <3>2, <3>3
        <3>5. ~Recorded(k) BY <1>0, <3>1, KeptByStatements
        <3> QED BY <1>0, <3>1, <3>4, <3>5, AdmissionKeeps
    <2>2. CASE CountNow(c)
        <3> DEFINE k == calls[c].run
        <3>1. k \in DOMAIN work /\ Reach(k, "queued") /\ UNCHANGED <<tables, begun, shown, sent>>
            BY <2>2 DEF CountNow, At
        <3>2. \A j : NoFurther(j) BY <1>0, <3>1, Moved DEF NoFurther, At
        <3> QED BY <1>1, <3>1, <3>2, RowsAside
    <2>3. CASE ExecuteTaskNow(c) \/ ExecuteReturns(c) \/ ClientLeaves(c) \/ ToolFails(c)
        BY <1>3, <2>3 DEF ExecuteTaskNow, ExecuteReturns, ClientLeaves, ToolFails, executions
    <2> QED BY <1>10, <2>1, <2>2, <2>3 DEF ExecuteNow
<1>11. NowCalls \subseteq Calls BY NowCallsAssumption
<1> QED BY <1>4, <1>5, <1>7, <1>8, <1>9, <1>10, <1>11 DEF ProcessNext

\* A report of which anything may have gone out has a delivery, unless its task
\* was deleted.  One that went out whole and was acknowledged is not put down as
\* failed, and a delivery that says it succeeded is of such a one.  Only a run
\* that had its answer is reported: whatever fails, crashes or is edited.
THEOREM ReportsAreRecordedAlways == ProcessSpec => []ReportsAreRecorded
<1>1. ProcessInit => ReportInv
    <2> SUFFICES ASSUME ProcessInit PROVE ReportInv OBVIOUS
    <2>1. DOMAIN work = {} /\ DOMAIN deliveries = {} /\ shown = {} /\ sent = {}
        BY DEF ProcessInit, ServiceInit, TablesInit
    <2> QED BY <2>1 DEF ReportInv, Report, At
<1>2. ProcessInv /\ ReportInv /\ [ProcessNext]_processVars => ReportInv' BY ReportStep
<1>3. ReportInv => ReportsAreRecorded BY DEF ReportInv, Report, ReportsAreRecorded
<1> QED BY <1>1, <1>2, <1>3, ProcessInvAlways, PTL DEF ProcessSpec

-----------------------------------------------------------------------------
(* The latest of some times *)

LEMMA EarliestExists ==
    ASSUME NEW T \in SUBSET Nat, T # {}
    PROVE  \E x \in T : \A y \in T : x <= y
<1> DEFINE R == OpToRel(<, Nat)
<1>1. IsWellFoundedOn(R, Nat) BY NatLessThanWellFounded
<1>2. \A x, y \in Nat : x < y => <<x, y>> \in R BY DEF OpToRel
<1> HIDE DEF R
<1>3. PICK x \in T : \A y \in T : ~ (<<y, x>> \in R) BY <1>1, WFMin
<1>4. \A y \in T : x \in Nat /\ y \in Nat /\ ~ (y < x) BY <1>2, <1>3
<1>5. \A y \in T : x <= y BY <1>4
<1> QED BY <1>5

LEMMA LatestIs ==
    ASSUME NEW n \in Nat, NEW T \in SUBSET (0..n), T # {}
    PROVE  Max(T) \in T /\ \A y \in T : y <= Max(T)
<1> DEFINE U == {m \in Nat : \E x \in T : m = n - x}
<1>1. U # {} /\ U \in SUBSET Nat
    <2>1. PICK x \in T : x \in 0..n OBVIOUS
    <2>2. n - x \in U BY <2>1
    <2> QED BY <2>2
<1>2. PICK u \in U : \A v \in U : u <= v BY <1>1, EarliestExists
<1>3. PICK x \in T : u = n - x BY <1>2
<1>4. ASSUME NEW y \in T PROVE x >= y
    <2>1. n - y \in U /\ x \in 0..n /\ y \in 0..n OBVIOUS
    <2> QED BY <1>2, <1>3, <2>1
<1>5. Max(T) \in T /\ \A y \in T : Max(T) >= y
    BY <1>4 DEF Max
<1> QED BY <1>5

-----------------------------------------------------------------------------
(* The tables *)

\* A task is as old as its creation, and no run is from before its task.
RowsDated ==
    /\ \A t \in DOMAIN defs : defs[t].created <= now
    /\ \A k \in DOMAIN runs : defs[k[1]].created <= k[2]

TablesInv == TablesTypeOK /\ RowsDated

\* The ids that were given out.
Issued == DOMAIN defs \cup gone

\* What a statement must be given.
Insertable(t, d) == t \in Ids \ Issued /\ d \in Definition /\ Valid(d) /\ d.created = now
Writable(t, d) ==
    /\ d \in Definition /\ Valid(d)
    /\ t \in DOMAIN defs => d.name = defs[t].name /\ d.created = defs[t].created
Admissible(k) ==
    /\ k \in Keys
    /\ k[1] \in DOMAIN defs =>
          /\ defs[k[1]].created <= k[2]
          /\ k[3] = 2 => <<k[1], k[2], 1>> \in DOMAIN runs

\* What becomes of the rows of those ids: a deleted task
\* does not come back, and its runs go with it.
Aging ==
    /\ Issued \subseteq Issued'
    /\ gone \subseteq gone'
    /\ \A t \in Issued : t \in DOMAIN defs' =>
          t \in DOMAIN defs /\ defs'[t].name = defs[t].name /\ defs'[t].created = defs[t].created
    /\ \A k \in DOMAIN runs : k \in DOMAIN runs' \/ k[1] \in gone'

\* No task is edited but, maybe, t.
OthersUnedited(t) == \A u \in DOMAIN defs \cap DOMAIN defs' : u # t => defs'[u] = defs[u]

LEMMA TablesKept ==
    ASSUME TablesInv, now' \in Times, now <= now'
    PROVE  /\ UNCHANGED tables => TablesInv' /\ Aging
           /\ \A t, d : InsertTask(t, d) /\ Insertable(t, d) => TablesInv' /\ Aging
           /\ \A t, d : UpdateTask(t, d) /\ Writable(t, d) => TablesInv' /\ Aging
           /\ \A t \in Ids : DeleteTask(t) => TablesInv' /\ Aging
           /\ \A k : AdmitRun(k) /\ Admissible(k) => TablesInv' /\ Aging
           /\ \A k : \A s \in RunStatuses : UpdateRun(k, s) => TablesInv' /\ Aging
           /\ \A k : \A s \in DeliveryStatuses : CreateDelivery(k, s) => TablesInv' /\ Aging
           /\ \A k : \A s \in DeliveryStatuses : UpdateDelivery(k, s) => TablesInv' /\ Aging
<1> USE DEF TablesInv, TablesTypeOK, Issued
<1>0. now \in Nat /\ now' \in Nat /\ \A t \in DOMAIN defs : defs[t].created \in Nat
    BY MaxTimeAssumption DEF Times, Definition
<1>1. ASSUME UNCHANGED tables PROVE TablesInv' /\ Aging
    <2>1. TablesTypeOK' /\ Aging BY <1>1 DEF tables, Aging
    <2>2. RowsDated' BY <1>0, <1>1 DEF tables, RowsDated
    <2> QED BY <2>1, <2>2
<1>2. ASSUME NEW t, NEW d, InsertTask(t, d), Insertable(t, d)
      PROVE  TablesInv' /\ Aging
    <2>1. /\ DOMAIN defs' = DOMAIN defs \cup {t} /\ defs'[t] = d
          /\ \A u \in DOMAIN defs : u # t => defs'[u] = defs[u]
          /\ \A u \in DOMAIN defs : defs[u].name # d.name
          /\ UNCHANGED <<gone, runs, deliveries>>
        BY <1>2 DEF InsertTask, With, ByName
    <2>2. t \in Ids \ Issued /\ d \in Definition /\ Valid(d) /\ d.created = now
        BY <1>2 DEF Insertable
    <2>3. \A u \in DOMAIN defs' : defs'[u] \in Definition /\ Valid(defs'[u]) BY <2>1, <2>2
    <2>4. \A u, v \in DOMAIN defs' : defs'[u].name = defs'[v].name => u = v BY <2>1
    <2>5. TablesTypeOK' BY <2>1, <2>2, <2>3, <2>4
    <2>6. \A u \in DOMAIN defs' : defs'[u].created <= now'
        BY <1>0, <2>1, <2>2 DEF RowsDated
    <2>7. \A k \in DOMAIN runs : defs'[k[1]].created <= k[2]
        BY <2>1, <2>2 DEF RowsDated
    <2>8. Aging BY <2>1, <2>2 DEF Aging
    <2> QED BY <2>1, <2>5, <2>6, <2>7, <2>8 DEF RowsDated
<1>3. ASSUME NEW t, NEW d, UpdateTask(t, d), Writable(t, d) PROVE TablesInv' /\ Aging
    <2>1. /\ DOMAIN defs' = DOMAIN defs /\ t \in DOMAIN defs /\ defs'[t] = d
          /\ \A u \in DOMAIN defs : u # t => defs'[u] = defs[u]
          /\ UNCHANGED <<gone, runs, deliveries>>
        BY <1>3 DEF UpdateTask
    <2>2. d \in Definition /\ Valid(d) /\ d.name = defs[t].name /\ d.created = defs[t].created
        BY <1>3, <2>1 DEF Writable
    <2>3. \A u \in DOMAIN defs' : defs'[u] \in Definition /\ Valid(defs'[u]) BY <2>1, <2>2
    <2>4. \A u \in DOMAIN defs : defs'[u].name = defs[u].name /\ defs'[u].created = defs[u].created
        BY <2>1, <2>2
    <2>5. \A u, v \in DOMAIN defs' : defs'[u].name = defs'[v].name => u = v BY <2>1, <2>4
    <2>6. TablesTypeOK' BY <2>1, <2>2, <2>3, <2>5
    <2>7. RowsDated'
        <3>1. \A u \in DOMAIN defs' : defs'[u].created = defs[u].created BY <2>1, <2>4
        <3>2. \A u \in DOMAIN defs' : defs'[u].created <= now' BY <1>0, <2>1, <3>1 DEF RowsDated
        <3> QED BY <2>1, <3>1, <3>2 DEF RowsDated
    <2>8. Aging BY <2>1, <2>4 DEF Aging
    <2> QED BY <2>6, <2>7, <2>8
<1>4. ASSUME NEW t \in Ids, DeleteTask(t) PROVE TablesInv' /\ Aging
    <2>1. /\ DOMAIN defs' = DOMAIN defs \ {t} /\ \A u \in DOMAIN defs' : defs'[u] = defs[u]
          /\ gone' = gone \cup {t}
          /\ DOMAIN runs' = {k \in DOMAIN runs : k[1] # t} /\ \A k \in DOMAIN runs' : runs'[k] = runs[k]
          /\ DOMAIN deliveries' = {k \in DOMAIN deliveries : k[1] # t}
          /\ \A k \in DOMAIN deliveries' : deliveries'[k] = deliveries[k]
        BY <1>4 DEF DeleteTask, Restrict
    <2>2. \A u, v \in DOMAIN defs' : defs'[u].name = defs'[v].name => u = v BY <2>1
    <2>3. ASSUME NEW k \in DOMAIN runs'
          PROVE  k[1] \in DOMAIN defs' /\ runs'[k] \in RunStatuses
                 /\ (k[3] = 2 => <<k[1], k[2], 1>> \in DOMAIN runs')
        <3>1. <<k[1], k[2], 1>>[1] = k[1] OBVIOUS
        <3> QED BY <2>1, <3>1
    <2>4. DOMAIN runs' \subseteq Keys /\ DOMAIN deliveries' \subseteq DOMAIN runs' BY <2>1
    <2>5. /\ DOMAIN defs' \cup gone' \subseteq Ids /\ DOMAIN defs' \cap gone' = {}
          /\ \A u \in DOMAIN defs' : defs'[u] \in Definition /\ Valid(defs'[u])
          /\ \A k \in DOMAIN deliveries' : deliveries'[k] \in DeliveryStatuses
        BY <2>1
    <2>6. RowsDated'
        <3>1. \A u \in DOMAIN defs' : defs'[u].created <= now' BY <1>0, <2>1 DEF RowsDated
        <3>2. \A k \in DOMAIN runs' : defs'[k[1]].created <= k[2] BY <2>1, <2>3 DEF RowsDated
        <3> QED BY <3>1, <3>2 DEF RowsDated
    <2>7. Aging BY <2>1 DEF Aging
    <2> QED BY <2>2, <2>3, <2>4, <2>5, <2>6, <2>7
<1>5. ASSUME NEW k, AdmitRun(k), Admissible(k) PROVE TablesInv' /\ Aging
    <2>1. /\ k[1] \in DOMAIN defs /\ UNCHANGED <<defs, gone, deliveries>>
          /\ DOMAIN runs' = DOMAIN runs \cup {k} /\ runs'[k] = "pending"
          /\ \A j \in DOMAIN runs \ {k} : runs'[j] = runs[j]
        BY <1>5 DEF AdmitRun, With
    <2>2. /\ k \in Keys /\ (k[3] = 2 => <<k[1], k[2], 1>> \in DOMAIN runs)
          /\ defs[k[1]].created <= k[2]
        BY <1>5, <2>1 DEF Admissible
    <2>3. "pending" \in RunStatuses BY DEF RunStatuses
    <2>4. ASSUME NEW j \in DOMAIN runs'
          PROVE  j[1] \in DOMAIN defs' /\ runs'[j] \in RunStatuses
                 /\ (j[3] = 2 => <<j[1], j[2], 1>> \in DOMAIN runs')
        <3>1. CASE j = k BY <2>1, <2>2, <2>3, <3>1
        <3>2. CASE j # k BY <2>1, <3>2
        <3> QED BY <3>1, <3>2
    <2>5. DOMAIN runs' \subseteq Keys /\ DOMAIN deliveries' \subseteq DOMAIN runs' BY <2>1, <2>2
    <2>6. RowsDated'
        <3>1. \A u \in DOMAIN defs' : defs'[u].created <= now' BY <1>0, <2>1 DEF RowsDated
        <3>2. \A j \in DOMAIN runs' : defs'[j[1]].created <= j[2] BY <2>1, <2>2 DEF RowsDated
        <3> QED BY <3>1, <3>2 DEF RowsDated
    <2>7. Aging BY <2>1 DEF Aging
    <2> QED BY <2>1, <2>4, <2>5, <2>6, <2>7
\* The other statements neither add nor remove a row of these two tables.
<1>6. ASSUME UNCHANGED <<defs, gone>>, DOMAIN runs' = DOMAIN runs PROVE RowsDated' /\ Aging
    BY <1>0, <1>6 DEF RowsDated, Aging
<1>7. ASSUME NEW k, NEW s \in RunStatuses, UpdateRun(k, s) PROVE TablesInv' /\ Aging
    BY <1>6, <1>7 DEF UpdateRun
<1>8. ASSUME NEW k, NEW s \in DeliveryStatuses, CreateDelivery(k, s) PROVE TablesInv' /\ Aging
    <2>1. /\ k \in DOMAIN runs /\ UNCHANGED <<defs, gone, runs>>
          /\ DOMAIN deliveries' = DOMAIN deliveries \cup {k} /\ deliveries'[k] = s
          /\ \A j \in DOMAIN deliveries \ {k} : deliveries'[j] = deliveries[j]
        BY <1>8 DEF CreateDelivery, With
    <2> QED BY <1>6, <2>1
<1>9. ASSUME NEW k, NEW s \in DeliveryStatuses, UpdateDelivery(k, s) PROVE TablesInv' /\ Aging
    BY <1>6, <1>9 DEF UpdateDelivery
<1> QED BY <1>1, <1>2, <1>3, <1>4, <1>5, <1>7, <1>8, <1>9

-----------------------------------------------------------------------------
(* Tool calls *)

\* A call writes a row that fits the row it replaces, whatever was done to that
\* since it was read, and runs a task that exists, or existed, since before.
CallFits(x) ==
    /\ x.pc \in {"idle", "insert", "write", "delete", "admit", "running", "done"}
    /\ x.row \in Definition \cup {None}
    /\ x.run \in Keys \cup {None}
    /\ x.pc = "insert" => x.row \in Definition /\ Valid(x.row)
    /\ x.pc \in {"write", "delete"} => x.task \in Issued
    /\ x.pc = "write" => Writable(x.task, x.row)
    /\ x.pc = "admit" =>
          /\ x.row \in Definition
          /\ x.run \in Keys /\ x.run[1] \in Issued /\ x.run[3] = 1
          /\ x.run[1] \in DOMAIN defs => defs[x.run[1]].created <= x.run[2]

CallsFit ==
    /\ calls = [c \in Calls |-> calls[c]]
    /\ \A c \in Calls : CallFits(calls[c])

\* Rows change under a call that is under way.
LEMMA CallAges ==
    ASSUME NEW x, CallFits(x), Aging
    PROVE  CallFits(x)'
BY DEF CallFits, Aging, Issued, Writable

LEMMA CallsAge ==
    ASSUME CallsFit, Aging, UNCHANGED calls
    PROVE  CallsFit'
<1>1. ASSUME NEW c \in Calls PROVE CallFits(calls[c])'
    <2>1. PICK x : x = calls[c] OBVIOUS
    <2>2. CallFits(x) BY <2>1 DEF CallsFit
    <2>3. CallFits(x)' BY <2>2, CallAges
    <2>4. x = calls'[c] BY <2>1
    <2> QED BY <2>3, <2>4
<1> QED BY <1>1 DEF CallsFit

LEMMA CallGoes ==
    ASSUME CallsFit, Aging, NEW c \in Calls, NEW call, Goto(c, call), CallFits(call)'
    PROVE  CallsFit'
<1>1. calls' = [d \in Calls |-> IF d = c THEN call ELSE calls[d]]
    BY Zenon DEF CallsFit, Goto
<1>2. ASSUME NEW d \in Calls PROVE CallFits(calls[d])'
    <2>1. CASE d = c
        <3>1. call = calls'[d] BY <1>1, <2>1
        <3> QED BY <3>1
    <2>2. CASE d # c
        <3>1. PICK x : x = calls[d] OBVIOUS
        <3>2. CallFits(x) BY <3>1 DEF CallsFit
        <3>3. CallFits(x)' BY <3>2, CallAges
        <3>4. x = calls'[d] BY <1>1, <2>2, <3>1
        <3> QED BY <3>3, <3>4
    <2> QED BY <2>1, <2>2
<1> QED BY <1>1, <1>2 DEF CallsFit

\* A call that is over, or not begun, fits anything.
LEMMA NewFits ==
    \A x \in {NewCall, [NewCall EXCEPT !.pc = "done"]} : CallFits(x)
BY DEF NewCall, CallFits

LEMMA CallEnds ==
    ASSUME CallsFit, Aging, NEW c \in Calls, Answered(c)
    PROVE  CallsFit'
<1>1. PICK x : x = [NewCall EXCEPT !.pc = "done"] OBVIOUS
<1>2. CallFits(x)' BY <1>1 DEF NewCall, CallFits
<1>3. Goto(c, x) BY <1>1 DEF Answered
<1> QED BY <1>2, <1>3, CallGoes

-----------------------------------------------------------------------------
(* Ticks *)

\* due is the latest occurrence up to at that the task may run for.
IsLatest(d, due, at) ==
    /\ due \in d.schedule.times
    /\ d.created <= due
    /\ d.schedule.kind = "cron" => startedAt <= due
    /\ \A o \in d.schedule.times : o <= at => o <= due

\* Every occurrence up to at has a run, or a later one in its place.
IsSettled(t, d, at) ==
    \A o \in d.schedule.times :
        /\ d.created <= o /\ o <= at
        /\ d.schedule.kind = "cron" => startedAt <= o
        => \E k \in DOMAIN runs : k[1] = t /\ o <= k[2]

\* The list a tick read is what the table said, but for what was edited since.
SeenFits(x) ==
    /\ DOMAIN x.seen \subseteq Issued
    /\ \A t \in DOMAIN x.seen :
          /\ x.seen[t] \in Definition /\ x.seen[t].enabled
          /\ t \in DOMAIN defs => /\ x.seen[t].created = defs[t].created
                                  /\ t \notin x.stale => x.seen[t] = defs[t]

TickerFits(x) ==
    /\ x.pc \in {"off", "idle", "look", "admit", "spawn"}
    /\ x.at \in Times
    /\ SeenFits(x)
    /\ x.pc \in {"off", "idle"} => DOMAIN x.seen = {}
    /\ x.todo \cup x.sound \subseteq DOMAIN x.seen
    /\ x.pc \in {"admit", "spawn"} => x.task \in x.todo /\ IsLatest(x.seen[x.task], x.due, x.at)
    /\ \A t \in x.sound \ gone : IsSettled(t, x.seen[t], x.at)

LEMMA TickerAges ==
    ASSUME NEW x, TickerFits(x), Aging, UNCHANGED startedAt,
           \A t \in DOMAIN x.seen \ x.stale : t \in DOMAIN defs' => defs'[t] = defs[t]
    PROVE  TickerFits(x)'
<1>1. SeenFits(x)' BY DEF SeenFits, TickerFits, Aging, Issued
<1>2. \A d, due, at : IsLatest(d, due, at) => IsLatest(d, due, at)' BY DEF IsLatest
<1>3. \A t \in x.sound \ gone' : IsSettled(t, x.seen[t], x.at)'
    BY DEF TickerFits, IsSettled, Aging
<1> QED BY <1>1, <1>2, <1>3 DEF TickerFits

\* Before a tick and after it there is nothing to fit.
LEMMA RestingFits ==
    ASSUME NEW x, x \in {Off, Idle}
    PROVE  TickerFits(x)
<1>1. /\ x.pc \in {"off", "idle"} /\ x.at = 0 /\ DOMAIN x.seen = {}
      /\ x.todo = {} /\ x.sound = {}
    BY DEF Off, Idle
<1>2. 0 \in Times BY MaxTimeAssumption DEF Times
<1> QED BY <1>1, <1>2 DEF TickerFits, SeenFits

\* An edit marks the task, and nothing else is edited.
LEMMA EditNoted ==
    ASSUME IsTicker(ticker), TickerFits(ticker), Aging, UNCHANGED startedAt,
           NEW t, NoteEdit(t), OthersUnedited(t)
    PROVE  TickerFits(ticker)'
<1>1. \A u \in DOMAIN defs' : u \in DOMAIN defs \/ u \notin Issued BY DEF Aging
<1>2. CASE ticker.pc \in {"off", "idle"}
    <2>1. PICK x : x = ticker OBVIOUS
    <2>2. x = ticker' BY <1>2, <2>1 DEF NoteEdit
    <2>3. TickerFits(x) /\ DOMAIN x.seen = {} BY <1>2, <2>1 DEF TickerFits
    <2>4. TickerFits(x)' BY <2>3, TickerAges
    <2> QED BY <2>2, <2>4
<1>3. CASE ticker.pc \notin {"off", "idle"}
    <2>1. PICK x : x = [pc |-> ticker.pc, at |-> ticker.at, seen |-> ticker.seen, todo |-> ticker.todo,
                        task |-> ticker.task, due |-> ticker.due, stale |-> ticker.stale \cup {t},
                        sound |-> ticker.sound]
        OBVIOUS
    <2>2. x = ticker' BY <1>3, <2>1, Zenon DEF NoteEdit, IsTicker
    <2>3. /\ x.pc = ticker.pc /\ x.at = ticker.at /\ x.seen = ticker.seen /\ x.todo = ticker.todo
          /\ x.task = ticker.task /\ x.due = ticker.due /\ x.stale = ticker.stale \cup {t}
          /\ x.sound = ticker.sound
        BY <2>1
    <2>4. TickerFits(x) BY <2>3 DEF TickerFits, SeenFits
    <2>5. \A u \in DOMAIN x.seen \ x.stale : u \in DOMAIN defs' => defs'[u] = defs[u]
        BY <1>1, <2>3, <2>4 DEF OthersUnedited, TickerFits, SeenFits
    <2>6. TickerFits(x)' BY <2>4, <2>5, TickerAges
    <2> QED BY <2>2, <2>6
<1> QED BY <1>2, <1>3

\* The occurrence that TickLoad picks, or that there is none left.
LEMMA PicksLatest ==
    ASSUME TablesInv, TickerFits(ticker), startedAt \in Times, NEW t \in DOMAIN ticker.seen
    PROVE  LET d == ticker.seen[t]
               due == Due(d, Anchor(t), ticker.at)
           IN  /\ due # {} => IsLatest(d, Max(due), ticker.at) /\ Max(due) \in Times
               /\ due = {} => IsSettled(t, d, ticker.at)
<1> DEFINE d == ticker.seen[t]
           at == ticker.at
           last == IF LatestRun(t) # {} THEN Max(LatestRun(t)) ELSE d.created - 1
           due == Due(d, Anchor(t), at)
<1>1. /\ d \in Definition /\ d.schedule \in Schedules /\ at \in 0..MaxTime /\ MaxTime \in Nat
      /\ d.created \in 0..MaxTime /\ startedAt \in 0..MaxTime
    BY MaxTimeAssumption DEF TickerFits, SeenFits, Times, Definition
<1>2. d.schedule.times \subseteq 0..MaxTime
    BY <1>1, SchedulesAssumption DEF Times
<1>3. LatestRun(t) \subseteq 0..MaxTime
    BY DEF LatestRun, TablesInv, TablesTypeOK, Keys, Times
<1>4. last \in Int /\ d.created - 1 <= last
    <2>1. CASE LatestRun(t) = {} BY <1>1, <2>1
    <2>2. CASE LatestRun(t) # {}
        <3>1. Max(LatestRun(t)) \in LatestRun(t) BY <1>1, <1>3, <2>2, LatestIs
        <3>2. PICK k \in DOMAIN runs : k[1] = t /\ k[2] = Max(LatestRun(t))
            BY <3>1 DEF LatestRun
        <3>3. t \in DOMAIN defs /\ defs[t].created <= k[2]
            BY <3>2 DEF TablesInv, TablesTypeOK, RowsDated
        <3>4. d.created = defs[t].created BY <3>3 DEF TickerFits, SeenFits
        <3>5. k[2] \in 0..MaxTime BY <1>3, <3>1, <3>2
        <3> QED BY <1>1, <2>2, <3>2, <3>3, <3>4, <3>5
    <2> QED BY <2>1, <2>2
<1>5. \A o \in Times : o <= last /\ d.created <= o => \E k \in DOMAIN runs : k[1] = t /\ o <= k[2]
    <2> SUFFICES ASSUME NEW o \in Times, o <= last, d.created <= o
                 PROVE  \E k \in DOMAIN runs : k[1] = t /\ o <= k[2]
        OBVIOUS
    <2>1. CASE LatestRun(t) = {} BY <1>1, <2>1 DEF Times
    <2>2. CASE LatestRun(t) # {}
        <3>1. Max(LatestRun(t)) \in LatestRun(t) BY <1>1, <1>3, <2>2, LatestIs
        <3> QED BY <2>2, <3>1 DEF LatestRun
    <2> QED BY <2>1, <2>2
<1> HIDE DEF last
<1>6. /\ Anchor(t) \in Int /\ last <= Anchor(t)
      /\ d.schedule.kind = "cron" => startedAt - 1 <= Anchor(t)
      /\ Anchor(t) = last \/ (d.schedule.kind = "cron" /\ Anchor(t) = startedAt - 1)
    <2>1. Anchor(t) = IF d.schedule.kind = "cron" THEN Max({last, startedAt - 1}) ELSE last
        BY DEF Anchor, last
    <2>2. \A a, b \in Int : Max({a, b}) \in {a, b} /\ a <= Max({a, b}) /\ b <= Max({a, b})
        <3> SUFFICES ASSUME NEW a \in Int, NEW b \in Int
                     PROVE  Max({a, b}) \in {a, b} /\ a <= Max({a, b}) /\ b <= Max({a, b})
            OBVIOUS
        <3>1. \E x \in {a, b} : \A y \in {a, b} : x >= y
            <4>1. CASE a >= b BY <4>1
            <4>2. CASE b >= a BY <4>2
            <4> QED BY <4>1, <4>2
        <3>2. Max({a, b}) \in {a, b} /\ \A y \in {a, b} : Max({a, b}) >= y BY <3>1 DEF Max
        <3> QED BY <3>2
    <2>3. startedAt - 1 \in Int BY <1>1
    <2>4. /\ Max({last, startedAt - 1}) \in {last, startedAt - 1}
          /\ last <= Max({last, startedAt - 1}) /\ startedAt - 1 <= Max({last, startedAt - 1})
        BY <1>4, <2>2, <2>3
    <2> QED BY <1>4, <2>1, <2>3, <2>4
<1>7. due = {o \in d.schedule.times : Anchor(t) < o /\ o <= at} BY DEF Due
<1> HIDE DEF d, due, at
<1>8. due # {} => IsLatest(d, Max(due), at) /\ Max(due) \in Times
    <2> SUFFICES ASSUME due # {} PROVE IsLatest(d, Max(due), at) /\ Max(due) \in Times
        OBVIOUS
    <2>1. due \subseteq 0..MaxTime BY <1>2, <1>7
    <2>2. Max(due) \in due /\ \A o \in due : o <= Max(due) BY <1>1, <2>1, LatestIs
    <2>3. \A o \in d.schedule.times : o <= at => o <= Max(due)
        BY <1>1, <1>2, <1>6, <1>7, <2>1, <2>2
    <2> QED BY <1>1, <1>2, <1>4, <1>6, <1>7, <2>1, <2>2, <2>3 DEF IsLatest, Times
<1>9. due = {} => IsSettled(t, d, at)
    <2> SUFFICES ASSUME due = {}, NEW o \in d.schedule.times, d.created <= o, o <= at,
                        d.schedule.kind = "cron" => startedAt <= o
                 PROVE  \E k \in DOMAIN runs : k[1] = t /\ o <= k[2]
        BY DEF IsSettled
    <2>1. o \in 0..MaxTime /\ o <= Anchor(t) BY <1>1, <1>2, <1>6, <1>7
    <2>2. o <= last BY <1>1, <1>4, <1>6, <2>1
    <2> QED BY <1>5, <2>1, <2>2 DEF Times
<1> QED BY <1>8, <1>9 DEF d, due, at

\* What a tick goes on to, in a step that does not edit a definition.
LEMMA TickerGoes ==
    ASSUME Aging, UNCHANGED <<startedAt, defs>>, NEW x, x = ticker', TickerFits(x)
    PROVE  TickerFits(ticker)'
<1>1. SeenFits(x) BY DEF TickerFits
<1>2. TickerFits(x)' BY TickerAges
<1> QED BY <1>2

LEMMA TickFits ==
    ASSUME IsTicker(ticker), RunsInv, TablesInv, TickerFits(ticker), startedAt \in Times, TickStep
    PROVE  TablesInv' /\ Aging /\ TickerFits(ticker)'
<1>0. now \in Times /\ now <= now BY MaxTimeAssumption DEF TablesInv, TablesTypeOK, Times
<1> DEFINE d == ticker.seen[ticker.task]
\* The tables, of which only TickAdmit writes one.
<1>1. TablesInv' /\ Aging /\ UNCHANGED <<startedAt, defs>>
    <2>1. CASE TickAdmit
        <3>1. ticker.task \in DOMAIN ticker.seen /\ IsLatest(d, ticker.due, ticker.at)
            BY <2>1 DEF TickAdmit, TickerFits
        <3>2. d \in Definition /\ d.schedule \in Schedules /\ ticker.task \in Issued
            BY <3>1 DEF TickerFits, SeenFits, Definition
        <3>3. ticker.due \in Times /\ d.created <= ticker.due
            BY <3>1, <3>2, SchedulesAssumption DEF IsLatest
        <3>4. DueRun \in Keys
            BY <3>2, <3>3 DEF DueRun, Keys, Attempts, Issued, TablesInv, TablesTypeOK
        <3>5. DueRun[1] \in DOMAIN defs => defs[DueRun[1]].created <= DueRun[2]
            BY <3>1, <3>3 DEF DueRun, TickerFits, SeenFits
        <3>6. Admissible(DueRun) BY <3>4, <3>5 DEF Admissible, DueRun
        <3>7. AdmitRun(DueRun) /\ UNCHANGED <<now, startedAt>> BY <2>1 DEF TickAdmit
        <3>8. UNCHANGED defs BY <3>7 DEF AdmitRun
        <3> QED BY <1>0, <3>6, <3>7, <3>8, TablesKept
    <2>2. CASE ~TickAdmit
        <3>1. UNCHANGED <<tables, now, startedAt>>
            BY <2>2 DEF TickStep, TickList, TickAdmitFails, TickSpawn, TickEnds, LoopEnds, TickLoad,
                        TickLoadFails
        <3>2. UNCHANGED defs BY <3>1 DEF tables
        <3> QED BY <1>0, <3>1, <3>2, TablesKept
    <2> QED BY <2>1, <2>2
<1> SUFFICES TickerFits(ticker)' BY <1>1
<1>2. ASSUME NEW x, x = ticker', TickerFits(x) PROVE TickerFits(ticker)'
    BY <1>1, <1>2, TickerGoes
<1>3. CASE TickList
    <2>1. PICK x : x = [pc |-> "look", at |-> now, seen |-> Restrict(defs, Enabled), todo |-> Enabled,
                        task |-> None, due |-> 0, stale |-> {}, sound |-> {}]
        OBVIOUS
    <2>2. x = ticker' BY <1>3, <2>1, Zenon DEF TickList, Idle, Off
    <2>3. /\ x.pc = "look" /\ x.at = now /\ x.todo = Enabled /\ x.stale = {} /\ x.sound = {}
          /\ DOMAIN x.seen = Enabled /\ \A t \in Enabled : x.seen[t] = defs[t]
        BY <2>1 DEF Restrict
    <2>4. SeenFits(x) BY <2>3 DEF SeenFits, Enabled, Issued, TablesInv, TablesTypeOK
    <2>5. TickerFits(x) BY <1>0, <2>3, <2>4 DEF TickerFits
    <2> QED BY <1>2, <2>2, <2>5
<1>4. CASE TickAdmit
    <2>1. PICK x : x = [pc |-> "spawn", at |-> ticker.at, seen |-> ticker.seen, todo |-> ticker.todo,
                        task |-> ticker.task, due |-> ticker.due, stale |-> ticker.stale,
                        sound |-> ticker.sound]
        OBVIOUS
    <2>2. x = ticker' BY <1>4, <2>1, Zenon DEF TickAdmit, IsTicker
    <2>3. TickerFits(x) BY <1>4, <2>1 DEF TickAdmit, TickerFits, SeenFits
    <2> QED BY <1>2, <2>2, <2>3
\* The occurrence is dealt with, when a run stands for it.
<1>5. ASSUME NEW sound, TickNext(sound), ticker.pc \in {"admit", "spawn"},
             sound \subseteq {ticker.task},
             sound # {} => Recorded(DueRun)
      PROVE  TickerFits(ticker)'
    <2>1. PICK x : x = [pc |-> "look", at |-> ticker.at, seen |-> ticker.seen,
                        todo |-> ticker.todo \ {ticker.task}, task |-> None, due |-> 0,
                        stale |-> ticker.stale, sound |-> ticker.sound \cup sound]
        OBVIOUS
    <2>2. x = ticker' BY <1>5, <2>1, Zenon DEF TickNext, IsTicker
    <2>3. /\ x.pc = "look" /\ x.at = ticker.at /\ x.seen = ticker.seen /\ x.stale = ticker.stale
          /\ x.todo = ticker.todo \ {ticker.task} /\ x.sound = ticker.sound \cup sound
        BY <2>1
    <2>4. ticker.task \in ticker.todo /\ IsLatest(d, ticker.due, ticker.at)
        BY <1>5 DEF TickerFits
    <2>5. ticker.task \in sound \ gone => IsSettled(ticker.task, d, ticker.at)
        <3> SUFFICES ASSUME ticker.task \in sound \ gone PROVE IsSettled(ticker.task, d, ticker.at)
            OBVIOUS
        <3>1. DueRun \in DOMAIN runs /\ DueRun[1] = ticker.task /\ DueRun[2] = ticker.due
            BY <1>5 DEF Recorded, DueRun
        <3> QED BY <2>4, <3>1 DEF IsSettled, IsLatest
    <2>6. TickerFits(x) BY <1>5, <2>3, <2>4, <2>5 DEF TickerFits, SeenFits
    <2> QED BY <1>2, <2>2, <2>6
<1>6. CASE TickAdmitFails
    <2> DEFINE sound == {ticker.task} \cap {k[1] : k \in DOMAIN runs \cap {DueRun}}
    <2>1. TickNext(sound) /\ ticker.pc = "admit" BY <1>6 DEF TickAdmitFails
    <2>2. sound \subseteq {ticker.task} /\ (sound # {} => Recorded(DueRun)) BY DEF Recorded
    <2> HIDE DEF sound
    <2> QED BY <1>5, <2>1, <2>2
<1>7. CASE TickSpawn
    <2>1. TickNext({ticker.task}) /\ ticker.pc = "spawn" BY <1>7 DEF TickSpawn
    <2>2. Recorded(DueRun) BY <2>1 DEF RunsInv, Admitting
    <2> QED BY <1>5, <2>1, <2>2
<1>8. CASE TickEnds \/ LoopEnds
    <2>1. PICK x : x = ticker' OBVIOUS
    <2>2. x \in {Off, Idle} BY <1>8, <2>1 DEF TickEnds, LoopEnds
    <2> QED BY <1>2, <2>1, <2>2, RestingFits
<1>9. ASSUME NEW t \in ticker.todo, ticker.pc = "look", NEW x,
             x = [pc |-> "look", at |-> ticker.at, seen |-> ticker.seen, todo |-> ticker.todo \ {t},
                  task |-> ticker.task, due |-> ticker.due, stale |-> ticker.stale, sound |-> x.sound],
             x.sound \in {ticker.sound, ticker.sound \cup {t}},
             t \in x.sound \ ticker.sound => IsSettled(t, ticker.seen[t], ticker.at)
      PROVE  TickerFits(x)
    <2>1. /\ x.pc = "look" /\ x.at = ticker.at /\ x.seen = ticker.seen /\ x.stale = ticker.stale
          /\ x.todo = ticker.todo \ {t}
        BY <1>9
    <2> QED BY <1>9, <2>1 DEF TickerFits, SeenFits
<1>10. ASSUME NEW t \in Ids, TickLoadFails(t) PROVE TickerFits(ticker)'
    <2>1. t \in ticker.todo /\ ticker.pc = "look" BY <1>10 DEF TickLoadFails
    <2>2. PICK x : x = [pc |-> "look", at |-> ticker.at, seen |-> ticker.seen,
                        todo |-> ticker.todo \ {t}, task |-> ticker.task, due |-> ticker.due,
                        stale |-> ticker.stale, sound |-> ticker.sound]
        OBVIOUS
    <2>3. x = ticker' BY <1>10, <2>1, <2>2, Zenon DEF TickLoadFails, IsTicker
    <2>4. x.sound = ticker.sound BY <2>2
    <2> QED BY <1>2, <1>9, <2>1, <2>2, <2>3, <2>4
<1>11. ASSUME NEW t \in Ids, TickLoad(t) PROVE TickerFits(ticker)'
    <2> DEFINE due == Due(ticker.seen[t], Anchor(t), ticker.at)
    <2>1. t \in ticker.todo /\ t \in DOMAIN ticker.seen /\ ticker.pc = "look"
        BY <1>11 DEF TickLoad, TickerFits
    <2>2. CASE due = {}
        <3>1. IsSettled(t, ticker.seen[t], ticker.at) BY <2>1, <2>2, PicksLatest
        <3>2. PICK x : x = [pc |-> "look", at |-> ticker.at, seen |-> ticker.seen,
                            todo |-> ticker.todo \ {t}, task |-> ticker.task, due |-> ticker.due,
                            stale |-> ticker.stale, sound |-> ticker.sound \cup {t}]
            OBVIOUS
        <3>3. x = ticker' BY <1>11, <2>1, <2>2, <3>2, Zenon DEF TickLoad, IsTicker
        <3>4. x.sound = ticker.sound \cup {t} BY <3>2
        <3> QED BY <1>2, <1>9, <2>1, <3>1, <3>2, <3>3, <3>4
    <2>3. CASE due # {}
        <3>1. IsLatest(ticker.seen[t], Max(due), ticker.at) BY <2>1, <2>3, PicksLatest
        <3>2. PICK x : x = [pc |-> "admit", at |-> ticker.at, seen |-> ticker.seen,
                            todo |-> ticker.todo, task |-> t, due |-> Max(due),
                            stale |-> ticker.stale, sound |-> ticker.sound]
            OBVIOUS
        <3>3. x = ticker' BY <1>11, <2>1, <2>3, <3>2, Zenon DEF TickLoad, IsTicker
        <3> HIDE DEF due
        <3>4. /\ x.pc = "admit" /\ x.at = ticker.at /\ x.seen = ticker.seen /\ x.todo = ticker.todo
              /\ x.task = t /\ x.due = Max(due) /\ x.stale = ticker.stale /\ x.sound = ticker.sound
            BY <3>2
        <3>5. TickerFits(x) BY <2>1, <3>1, <3>4 DEF TickerFits, SeenFits
        <3> QED BY <1>2, <3>3, <3>5
    <2> QED BY <2>2, <2>3
<1> QED BY <1>3, <1>4, <1>6, <1>7, <1>8, <1>10, <1>11 DEF TickStep

-----------------------------------------------------------------------------
(* Executions *)

WorkFits ==
    /\ live \subseteq Contexts
    /\ \A k \in DOMAIN work :
          /\ k \in Keys
          /\ work[k].pc \in WorkStates /\ work[k].target \in BOOLEAN /\ work[k].context \in Contexts
    /\ begun \cup broke \cup shown \cup sent \subseteq Keys

\* The bound on what goes wrong of itself.
FaultsFit == faults \in 0..MaxFaults

LEMMA FailureFits ==
    ASSUME FaultsFit, NEW hadTo, Failure(hadTo) \/ UNCHANGED faults
    PROVE  FaultsFit'
BY MaxFaultsAssumption DEF FaultsFit, Failure

\* An execution moves on, and notes no other run.
LEMMA WorkMoves ==
    ASSUME WorkShape, WorkFits, NEW k \in DOMAIN work, NEW s \in WorkStates,
           Reach(k, s) \/ Over(k), live' \subseteq Contexts,
           begun' \cup broke' \cup shown' \cup sent' \subseteq begun \cup broke \cup shown \cup sent \cup {k}
    PROVE  WorkFits'
<1>1. k \in Keys /\ begun' \cup broke' \cup shown' \cup sent' \subseteq Keys BY DEF WorkFits
<1>2. CASE Reach(k, s)
    <2>1. /\ DOMAIN work' = DOMAIN work /\ work'[k].pc = s /\ work'[k].target = work[k].target
          /\ work'[k].context = work[k].context /\ \A j \in DOMAIN work \ {k} : work'[j] = work[j]
        BY <1>2, Moved
    <2> QED BY <1>1, <2>1 DEF WorkFits
<1>3. CASE Over(k)
    <2>1. DOMAIN work' = DOMAIN work \ {k} /\ \A j \in DOMAIN work' : work'[j] = work[j]
        BY <1>3, Ended
    <2> QED BY <1>1, <2>1 DEF WorkFits
<1> QED BY <1>2, <1>3

LEMMA WorkStarts ==
    ASSUME WorkShape, WorkFits, NEW k \in Keys, IsKey(k), NEW w, IsWork(w), work' = With(work, k, w),
           w.pc \in WorkStates, w.target \in BOOLEAN, w.context \in Contexts,
           live' \subseteq Contexts, UNCHANGED <<begun, broke, shown, sent>>
    PROVE  WorkFits'
<1>1. /\ DOMAIN work' = DOMAIN work \cup {k} /\ work'[k] = w
      /\ \A j \in DOMAIN work \ {k} : work'[j] = work[j]
    BY Put
<1> QED BY <1>1 DEF WorkFits

\* An execution writes to the tables what they allow, and edits no definition.
LEMMA ExecutionTables ==
    ASSUME RunsInv, TablesInv, WorkFits, NEW k \in DOMAIN work, ExecuteRun(k)
    PROVE  TablesInv' /\ Aging /\ UNCHANGED <<defs, startedAt, ticker, live, now>>
<1> USE DEF Aside
<1>0. /\ now \in Times /\ now <= now /\ {"running", "succeeded", "canceled", "failed"} \subseteq RunStatuses
      /\ {"pending", "skipped", "succeeded", "failed"} \subseteq DeliveryStatuses
    BY MaxTimeAssumption DEF TablesInv, TablesTypeOK, Times, RunStatuses, Terminal, DeliveryStatuses
<1>1. UNCHANGED <<startedAt, ticker, live, now>>
    BY DEF ExecuteRun, BeginTurn, BeginTurnFails, TurnSucceeds, TurnCanceled, TurnFails, Retry,
           RetryFails, OpenDelivery, PostReport, PostReportFails,
           SkipDelivery, OpenDeliveryFails, CloseDelivery
<1>2. now' \in Times /\ now <= now' BY <1>0, <1>1
<1>3. CASE Retry(k)
    <2> DEFINE again == <<k[1], k[2], 2>>
    <2>1. AdmitRun(again) /\ work[k].pc = "retry" BY <1>3 DEF Retry, At
    <2>2. k = <<k[1], k[2], 1>> /\ k \in Keys BY <2>1 DEF RunsInv, WorkShape, IsKey, WorkFits
    <2>3. again \in Keys BY <2>2 DEF Keys, Attempts
    <2>4. again[1] = k[1] /\ again[2] = k[2] /\ again[3] = 2 OBVIOUS
    <2>5. k[1] \in DOMAIN defs => k \in DOMAIN runs
        BY DEF RunsInv, Recorded
    <2>6. k[1] \in DOMAIN defs => defs[k[1]].created <= k[2]
        BY <2>5 DEF TablesInv, RowsDated
    <2> HIDE DEF again
    <2>7. Admissible(again) BY <2>2, <2>3, <2>4, <2>5, <2>6 DEF Admissible
    <2>8. TablesInv' /\ Aging BY <1>2, <2>1, <2>7, TablesKept
    <2>9. UNCHANGED defs BY <2>1 DEF AdmitRun
    <2> QED BY <1>1, <2>8, <2>9
<1>4. CASE ~Retry(k)
    <2>1. \/ UNCHANGED tables
          \/ \E s \in RunStatuses : UpdateRun(k, s)
          \/ \E s \in DeliveryStatuses : CreateDelivery(k, s) \/ UpdateDelivery(k, s)
        BY <1>0, <1>4 DEF ExecuteRun, BeginTurn, BeginTurnFails, TurnSucceeds, TurnCanceled, TurnFails,
           RetryFails, OpenDelivery, PostReport, PostReportFails,
           SkipDelivery, OpenDeliveryFails, CloseDelivery, Try
    <2>2. TablesInv' /\ Aging BY <1>2, <2>1, TablesKept
    <2>3. UNCHANGED defs BY <2>1 DEF tables, UpdateRun, CreateDelivery, UpdateDelivery
    <2> QED BY <1>1, <2>2, <2>3
<1> QED BY <1>3, <1>4

LEMMA ExecutionFits ==
    ASSUME RunsInv, WorkFits, FaultsFit, NEW k \in DOMAIN work, ExecuteRun(k)
    PROVE  WorkFits' /\ FaultsFit'
<1> USE DEF Aside
<1>0. WorkShape /\ live \subseteq Contexts BY DEF RunsInv, WorkFits
<1>1. FaultsFit'
    <2>1. UNCHANGED faults \/ \E hadTo : Failure(hadTo)
        BY DEF ExecuteRun, BeginTurn, BeginTurnFails, TurnSucceeds, TurnCanceled, TurnFails, Retry,
           RetryFails, OpenDelivery, PostReport, PostReportFails,
           SkipDelivery, OpenDeliveryFails, CloseDelivery, Try
    <2> QED BY <2>1, FailureFits
<1>2. CASE Retry(k)
    <2> DEFINE again == <<k[1], k[2], 2>>
    <2>1. k \in Keys /\ IsWork(work[k]) /\ UNCHANGED <<begun, broke, shown, sent, live>>
        BY <1>2 DEF WorkFits, RunsInv, WorkShape, Retry
    <2>2. again \in Keys BY <2>1 DEF Keys, Attempts
    <2>3. PICK w : w = [work[k] EXCEPT !.pc = "queued"] OBVIOUS
    <2>4. w = [pc |-> "queued", target |-> work[k].target, context |-> work[k].context]
        BY <2>1, <2>3, PcOf
    <2>5. work' = [j \in (DOMAIN work \ {k}) \cup {again} |-> IF j = again THEN w ELSE work[j]]
        BY <1>2, <2>3 DEF Retry, With, Restrict
    <2> HIDE DEF again
    <2>6. /\ DOMAIN work' = (DOMAIN work \ {k}) \cup {again} /\ work'[again] = w
          /\ \A j \in DOMAIN work' : j # again => j \in DOMAIN work /\ work'[j] = work[j]
        BY <2>5
    <2>7. w.pc \in WorkStates /\ w.target \in BOOLEAN /\ w.context \in Contexts
        BY <2>4 DEF WorkFits, WorkStates
    <2> QED BY <1>1, <2>1, <2>2, <2>6, <2>7 DEF WorkFits
<1>3. CASE ~Retry(k)
    <2>1. /\ Over(k) \/ \E s \in WorkStates : Reach(k, s)
          /\ live' = live /\ begun' \subseteq begun \cup {k}
          /\ broke' \subseteq broke \cup {k}
          /\ shown' \subseteq shown \cup {k} /\ sent' \subseteq sent \cup {k}
        BY <1>3 DEF ExecuteRun, BeginTurn, BeginTurnFails, TurnSucceeds, TurnCanceled, TurnFails,
           RetryFails, OpenDelivery, PostReport, PostReportFails,
           SkipDelivery, OpenDeliveryFails, CloseDelivery, WorkStates
    <2>2. "queued" \in WorkStates BY DEF WorkStates
    <2> QED BY <1>0, <1>1, <2>1, <2>2, WorkMoves
<1> QED BY <1>2, <1>3

-----------------------------------------------------------------------------
(* The process *)

ProcessFits ==
    /\ TablesInv
    /\ startedAt \in Times
    /\ TickerFits(ticker)
    /\ WorkFits
    /\ FaultsFit
    /\ phase \in Phases
    /\ boots \in 0..MaxBoots
    /\ CallsFit

LEMMA FitsInit == ProcessInit => ProcessFits
<1> SUFFICES ASSUME ProcessInit PROVE ProcessFits
    OBVIOUS
<1> USE DEF ProcessInit, ServiceInit, TablesInit
<1>1. 0 \in Times /\ 0 \in 0..MaxFaults /\ 0 \in 0..MaxBoots
    BY MaxTimeAssumption, MaxFaultsAssumption, MaxBootsAssumption DEF Times
<1>2. DOMAIN runs = {} /\ DOMAIN deliveries = {} /\ DOMAIN work = {} /\ now = 0
    OBVIOUS
<1>3. /\ DOMAIN defs \subseteq Ids
      /\ \A t \in DOMAIN defs : defs[t] \in Definition /\ defs[t].created = 0 /\ Valid(defs[t])
      /\ \A t, u \in DOMAIN defs : defs[t].name = defs[u].name => t = u
    BY StoredAssumption
<1>4. TablesTypeOK BY <1>1, <1>2, <1>3 DEF TablesTypeOK
<1>5. RowsDated BY <1>2, <1>3 DEF RowsDated
<1>6. TickerFits(ticker) BY RestingFits
<1>7. WorkFits /\ FaultsFit BY <1>1, <1>2 DEF WorkFits, FaultsFit
<1>8. CallsFit
    <2>1. \A c \in Calls : calls[c] = NewCall OBVIOUS
    <2>2. CallFits(NewCall) BY NewFits
    <2> QED BY <2>1, <2>2 DEF CallsFit
<1> QED BY <1>1, <1>4, <1>5, <1>6, <1>7, <1>8 DEF ProcessFits, TablesInv, Phases

\* The parts that a step leaves alone, when it edits no definition.
LEMMA RestFits ==
    ASSUME ProcessFits, Aging, UNCHANGED <<defs, startedAt, ticker>>
    PROVE  TickerFits(ticker)' /\ (UNCHANGED calls => CallsFit')
<1>1. PICK x : x = ticker OBVIOUS
<1>2. TickerFits(x) BY <1>1 DEF ProcessFits
<1>3. TickerFits(x)' BY <1>2, TickerAges DEF TickerFits, SeenFits
<1>4. x = ticker' BY <1>1
<1> QED BY <1>3, <1>4, CallsAge DEF ProcessFits

LEMMA EditFits ==
    ASSUME ProcessInv, ProcessFits, NEW c \in Calls, Edit(c)
    PROVE  ProcessFits'
<1>0. /\ IsTicker(ticker) /\ CallsFit /\ TablesInv /\ TickerFits(ticker)
      /\ now \in Times /\ now <= now /\ 0 \in Times
    BY MaxTimeAssumption DEF ProcessInv, ProcessFits, TablesInv, TablesTypeOK, Times
<1>1. UNCHANGED <<startedAt, faults, work, begun, broke, shown, sent, phase, boots, now>>
    BY DEF Edit, CreateTask, CreateScheduledTask, EditTask, UpdateScheduledTask, RemoveTask,
           DeleteScheduledTask, executions
<1>2. live' \subseteq Contexts
    BY DEF Edit, CreateTask, CreateScheduledTask, EditTask, UpdateScheduledTask, RemoveTask,
           DeleteScheduledTask, Request, Answered, ProcessFits, WorkFits, Contexts
<1>3. now' \in Times /\ now <= now' BY <1>0, <1>1
<1>4. ASSUME TablesInv', TickerFits(ticker)', CallsFit' PROVE ProcessFits'
    <2>1. WorkFits' BY <1>1, <1>2 DEF ProcessFits, WorkFits
    <2> QED BY <1>1, <1>4, <2>1 DEF ProcessFits, FaultsFit
\* A request only reads.
<1>5. ASSUME UNCHANGED <<tables, ticker>>, NEW x, Goto(c, x), CallFits(x) PROVE ProcessFits'
    <2>1. TablesInv' /\ Aging BY <1>0, <1>3, <1>5, TablesKept
    <2>2. CallFits(x)' BY <1>5, <2>1, CallAges
    <2>3. CallsFit' BY <1>0, <1>5, <2>1, <2>2, CallGoes
    <2>4. TickerFits(ticker)' BY <1>1, <1>5, <2>1, RestFits DEF tables
    <2> QED BY <1>4, <2>1, <2>3, <2>4
<1>6. CASE CreateTask(c)
    <2>1. PICK n \in Names, x \in Inputs :
              Valid(Row(n, x, 0)) /\ Goto(c, [NewCall EXCEPT !.pc = "insert", !.row = Row(n, x, 0)])
        BY <1>6, Zenon DEF CreateTask
    <2>2. PICK d : d = Row(n, x, 0) OBVIOUS
    <2>3. d \in Definition
        BY <1>0, <2>2, InputsAssumption DEF Row, Definition, Columns
    <2>4. PICK y : y = [NewCall EXCEPT !.pc = "insert", !.row = d] OBVIOUS
    <2>5. /\ y.pc = "insert" /\ y.row = d /\ y.run = None
        BY <2>4 DEF NewCall
    <2>6. CallFits(y) BY <2>1, <2>2, <2>3, <2>5 DEF CallFits
    <2>7. Goto(c, y) BY <2>1, <2>2, <2>4
    <2> QED BY <1>5, <1>6, <2>6, <2>7 DEF CreateTask
<1>7. CASE EditTask(c)
    <2>1. PICK t \in DOMAIN defs, x \in Inputs :
              LET d == Row(defs[t].name, x, defs[t].created)
              IN  Valid(d) /\ Goto(c, [NewCall EXCEPT !.pc = "write", !.task = t, !.row = d])
        BY <1>7, Zenon DEF EditTask
    <2>2. PICK d : d = Row(defs[t].name, x, defs[t].created) OBVIOUS
    <2>3. defs[t] \in Definition BY <1>0 DEF TablesInv, TablesTypeOK
    <2>4. /\ d \in Definition /\ d.name = defs[t].name /\ d.created = defs[t].created
        BY <2>2, <2>3, InputsAssumption DEF Row, Definition, Columns
    <2>5. PICK y : y = [NewCall EXCEPT !.pc = "write", !.task = t, !.row = d] OBVIOUS
    <2>6. y.pc = "write" /\ y.task = t /\ y.row = d /\ y.run = None
        BY <2>5 DEF NewCall
    <2>7. CallFits(y) BY <2>1, <2>2, <2>4, <2>6 DEF CallFits, Writable, Issued
    <2>8. Goto(c, y) BY <2>1, <2>2, <2>5
    <2> QED BY <1>5, <1>7, <2>7, <2>8 DEF EditTask
<1>8. CASE RemoveTask(c)
    <2>1. PICK t \in DOMAIN defs : Goto(c, [NewCall EXCEPT !.pc = "delete", !.task = t])
        BY <1>8, Zenon DEF RemoveTask
    <2>2. PICK y : y = [NewCall EXCEPT !.pc = "delete", !.task = t] OBVIOUS
    <2>3. y.pc = "delete" /\ y.task = t /\ y.row = None /\ y.run = None
        BY <2>2 DEF NewCall
    <2>4. CallFits(y) BY <2>3 DEF CallFits, Issued
    <2> QED BY <1>5, <1>8, <2>1, <2>2, <2>4 DEF RemoveTask
\* The new row is of no task that any tick or call knows.
<1>9. CASE CreateScheduledTask(c)
    <2>1. PICK t \in Ids \ (DOMAIN defs \cup gone) :
              InsertTask(t, [calls[c].row EXCEPT !.created = now])
        BY <1>9, Zenon DEF CreateScheduledTask
    <2>2. PICK d : d = [calls[c].row EXCEPT !.created = now] OBVIOUS
    <2>3. calls[c].row \in Definition /\ Valid(calls[c].row)
        BY <1>0, <1>9 DEF CreateScheduledTask, Pending, CallsFit, CallFits
    <2>4. d \in Definition /\ d.created = now /\ Valid(d)
        BY <1>0, <2>2, <2>3 DEF Definition, Valid, ResolvesTarget
    <2>5. Insertable(t, d) BY <2>4 DEF Insertable, Issued
    <2>6. TablesInv' /\ Aging BY <1>0, <1>3, <2>1, <2>2, <2>5, TablesKept
    <2>7. \A u \in DOMAIN defs : defs'[u] = defs[u] BY <2>1 DEF InsertTask, With
    <2>8. Answered(c) /\ UNCHANGED ticker BY <1>9 DEF CreateScheduledTask
    <2>9. PICK x : x = ticker OBVIOUS
    <2>10. \A u \in DOMAIN x.seen : u \in DOMAIN defs' => u \in DOMAIN defs
        BY <1>0, <2>6, <2>9 DEF TickerFits, SeenFits, Aging
    <2>11. TickerFits(x)'
        BY <1>0, <1>1, <2>6, <2>7, <2>9, <2>10, TickerAges
    <2>12. x = ticker' BY <2>8, <2>9
    <2>13. CallsFit' BY <1>0, <2>6, <2>8, CallEnds
    <2> QED BY <1>4, <2>6, <2>11, <2>12, <2>13
<1>10. CASE UpdateScheduledTask(c)
    <2>1. PICK t, d : t = calls[c].task /\ d = calls[c].row OBVIOUS
    <2>2. UpdateTask(t, d) /\ NoteEdit(t) /\ Answered(c)
        BY <1>10, <2>1 DEF UpdateScheduledTask
    <2>3. Writable(t, d)
        BY <1>0, <1>10, <2>1 DEF UpdateScheduledTask, Pending, CallsFit, CallFits
    <2>4. TablesInv' /\ Aging BY <1>0, <1>3, <2>2, <2>3, TablesKept
    <2>5. OthersUnedited(t) BY <2>2 DEF UpdateTask, OthersUnedited
    <2>6. TickerFits(ticker)' BY <1>0, <1>1, <2>2, <2>4, <2>5, EditNoted
    <2>7. CallsFit' BY <1>0, <2>2, <2>4, CallEnds
    <2> QED BY <1>4, <2>4, <2>6, <2>7
<1>11. CASE DeleteScheduledTask(c)
    <2>1. PICK t : t = calls[c].task OBVIOUS
    <2>2. DeleteTask(t) /\ NoteEdit(t) /\ Answered(c)
        BY <1>11, <2>1 DEF DeleteScheduledTask
    <2>3. t \in Ids
        BY <1>0, <1>11, <2>1 DEF DeleteScheduledTask, Pending, CallsFit, CallFits, Issued, TablesInv,
           TablesTypeOK
    <2>4. TablesInv' /\ Aging BY <1>0, <1>3, <2>2, <2>3, TablesKept
    <2>5. OthersUnedited(t) BY <2>2 DEF DeleteTask, Restrict, OthersUnedited
    <2>6. TickerFits(ticker)' BY <1>0, <1>1, <2>2, <2>4, <2>5, EditNoted
    <2>7. CallsFit' BY <1>0, <2>2, <2>4, CallEnds
    <2> QED BY <1>4, <2>4, <2>6, <2>7
<1> QED BY <1>6, <1>7, <1>8, <1>9, <1>10, <1>11 DEF Edit

LEMMA ExecuteNowFits ==
    ASSUME ProcessInv, ProcessFits, NEW c \in Calls, ExecuteNow(c) \/ ToolFails(c)
    PROVE  ProcessFits'
<1>0. /\ CallsFit /\ TablesInv /\ TickerFits(ticker) /\ RunsInv /\ WorkShape /\ WorkFits /\ FaultsFit
      /\ now \in Times /\ now <= now
    BY MaxTimeAssumption DEF ProcessInv, RunsInv, ProcessFits, TablesInv, TablesTypeOK, Times
<1>1. UNCHANGED <<startedAt, ticker, begun, broke, shown, sent, phase, boots, now>>
    BY DEF ExecuteNow, ExecuteTaskNow, AdmitNow, CountNow, ExecuteReturns, ClientLeaves, ToolFails,
           executions, Aside
<1>2. live' \subseteq Contexts
    BY <1>0 DEF ExecuteNow, ExecuteTaskNow, AdmitNow, CountNow, ExecuteReturns, ClientLeaves, ToolFails,
           Request, Answered, Aside, WorkFits, Contexts
<1>3. FaultsFit'
    <2>1. UNCHANGED faults \/ \E hadTo : Failure(hadTo)
        BY DEF ExecuteNow, ExecuteTaskNow, AdmitNow, CountNow, ExecuteReturns, ClientLeaves, ToolFails
    <2> QED BY <1>0, <2>1, FailureFits
<1>4. now' \in Times /\ now <= now' BY <1>0, <1>1
<1>5. ASSUME TablesInv', Aging, UNCHANGED defs, WorkFits', CallsFit' PROVE ProcessFits'
    <2>1. TickerFits(ticker)' BY <1>1, <1>5, RestFits
    <2> QED BY <1>1, <1>3, <1>5, <2>1 DEF ProcessFits
<1>6. ASSUME UNCHANGED <<tables, work>>, CallsFit' PROVE ProcessFits'
    <2>1. TablesInv' /\ Aging /\ UNCHANGED defs BY <1>0, <1>4, <1>6, TablesKept DEF tables
    <2>2. WorkFits' BY <1>1, <1>2, <1>6 DEF ProcessFits, WorkFits
    <2> QED BY <1>5, <1>6, <2>1, <2>2
<1>7. UNCHANGED tables => Aging BY <1>0, <1>4, TablesKept
<1>8. CASE ExecuteTaskNow(c)
    <2>1. PICK t \in DOMAIN defs :
              Goto(c, [NewCall EXCEPT !.pc = "admit", !.task = t, !.row = defs[t], !.run = <<t, now, 1>>])
        BY <1>8, Zenon DEF ExecuteTaskNow
    <2>2. PICK y : y = [NewCall EXCEPT !.pc = "admit", !.task = t, !.row = defs[t], !.run = <<t, now, 1>>]
        OBVIOUS
    <2>3. y.pc = "admit" /\ y.row = defs[t] /\ y.run = <<t, now, 1>>
        BY <2>2 DEF NewCall
    <2>4. defs[t] \in Definition /\ t \in Ids /\ defs[t].created <= now
        BY <1>0 DEF TablesInv, TablesTypeOK, RowsDated
    <2>5. y.run \in Keys /\ y.run[1] = t /\ y.run[2] = now /\ y.run[3] = 1
        BY <1>0, <2>3, <2>4 DEF Keys, Attempts
    <2>6. CallFits(y) BY <2>3, <2>4, <2>5 DEF CallFits, Issued
    <2>7. UNCHANGED <<tables, work>> BY <1>8 DEF ExecuteTaskNow, executions
    <2>8. CallFits(y)' BY <1>7, <2>6, <2>7, CallAges
    <2>9. Goto(c, y) BY <2>1, <2>2
    <2>10. CallsFit' BY <1>0, <1>7, <2>7, <2>8, <2>9, CallGoes
    <2> QED BY <1>6, <2>7, <2>10
<1>9. CASE AdmitNow(c)
    <2>1. PICK k, d : k = calls[c].run /\ d = calls[c].row OBVIOUS
    <2>2. PICK w : w = [pc |-> "admitted", target |-> ResolvesTarget(d), context |-> c] OBVIOUS
    <2>3. PICK y : y = [NewCall EXCEPT !.pc = "running", !.run = k] OBVIOUS
    <2>4. AdmitRun(k) /\ work' = With(work, k, w) /\ Goto(c, y)
        BY <1>9, <2>1, <2>2, <2>3, Zenon DEF AdmitNow
    <2>5. /\ d \in Definition /\ k \in Keys /\ k[3] = 1
          /\ k[1] \in DOMAIN defs => defs[k[1]].created <= k[2]
        BY <1>0, <1>9, <2>1 DEF AdmitNow, Pending, CallsFit, CallFits
    <2>6. Admissible(k) BY <2>5 DEF Admissible
    <2>7. TablesInv' /\ Aging BY <1>0, <1>4, <2>4, <2>6, TablesKept
    <2>8. UNCHANGED defs BY <2>4 DEF AdmitRun
    <2>9. /\ IsWork(w) /\ w.pc \in WorkStates /\ w.target \in BOOLEAN /\ w.context \in Contexts
        BY <2>2, <2>5, TargetAssumption DEF IsWork, WorkStates, ResolvesTarget, Definition, Contexts
    <2>10. IsKey(k) BY <2>5 DEF IsKey, Keys, Attempts
    <2>11. WorkFits' BY <1>0, <1>1, <1>2, <2>4, <2>5, <2>9, <2>10, WorkStarts
    <2>12. y.pc = "running" /\ y.run = k /\ y.row = None BY <2>3 DEF NewCall
    <2>13. CallFits(y)' BY <2>5, <2>12 DEF CallFits
    <2>14. CallsFit' BY <1>0, <2>4, <2>7, <2>13, CallGoes
    <2> QED BY <1>5, <2>7, <2>8, <2>11, <2>14
<1>10. CASE CountNow(c)
    <2>1. PICK k : k = calls[c].run OBVIOUS
    <2>2. k \in DOMAIN work /\ Reach(k, "queued") /\ UNCHANGED <<tables, calls>>
        BY <1>10, <2>1 DEF CountNow, At
    <2>3. "queued" \in WorkStates BY DEF WorkStates
    <2>4. WorkFits' BY <1>0, <1>1, <1>2, <2>2, <2>3, WorkMoves
    <2>5. TablesInv' /\ Aging /\ UNCHANGED defs BY <1>0, <1>4, <2>2, TablesKept DEF tables
    <2>6. CallsFit' BY <1>0, <2>2, <2>5, CallsAge
    <2> QED BY <1>5, <2>4, <2>5, <2>6
<1>11. CASE ExecuteReturns(c) \/ ToolFails(c)
    <2>1. Answered(c) /\ UNCHANGED <<tables, work>>
        BY <1>11 DEF ExecuteReturns, ToolFails, executions
    <2>2. CallsFit' BY <1>0, <1>7, <2>1, CallEnds
    <2> QED BY <1>6, <2>1, <2>2
<1>12. CASE ClientLeaves(c)
    <2>1. UNCHANGED <<tables, work, calls>> BY <1>12 DEF ClientLeaves, executions
    <2>2. CallsFit' BY <1>0, <1>7, <2>1, CallsAge
    <2> QED BY <1>6, <2>1, <2>2
<1> QED BY <1>8, <1>9, <1>10, <1>11, <1>12 DEF ExecuteNow

\* A process that ends leaves nothing but the tables.
LEMMA VanishFits ==
    ASSUME ProcessInv, ProcessFits, Vanish, NEW hadTo, Failure(hadTo) \/ UNCHANGED faults
    PROVE  ProcessFits'
<1>0. CallsFit /\ TablesInv /\ WorkFits /\ now \in Times /\ now <= now
    BY MaxTimeAssumption DEF ProcessFits, TablesInv, TablesTypeOK, Times
<1>1. /\ UNCHANGED <<tables, now, begun, broke, shown, sent, boots>>
      /\ phase' = "down" /\ startedAt' = 0 /\ ticker' = Off /\ live' = {} /\ work' = <<>>
    BY DEF Vanish
<1>2. now' \in Times /\ now <= now' BY <1>0, <1>1
<1>3. TablesInv' /\ Aging BY <1>0, <1>1, <1>2, TablesKept
<1>4. startedAt' \in Times /\ phase' \in Phases BY <1>1, MaxTimeAssumption DEF Times, Phases
<1>5. TickerFits(ticker)'
    <2>1. PICK x : x = Off OBVIOUS
    <2>2. x = ticker' BY <1>1, <2>1
    <2>3. /\ x.pc = "off" /\ x.at = 0 /\ DOMAIN x.seen = {} /\ x.todo = {} /\ x.sound = {}
        BY <2>1 DEF Off
    <2>4. 0 \in Times BY MaxTimeAssumption DEF Times
    <2>5. TickerFits(x)' BY <2>3, <2>4 DEF TickerFits, SeenFits
    <2> QED BY <2>2, <2>5
<1>6. WorkFits' BY <1>0, <1>1 DEF WorkFits
<1>7. FaultsFit' BY FailureFits DEF ProcessFits
<1>8. CallsFit'
    <2>1. PICK x, y : x = NewCall /\ y = [NewCall EXCEPT !.pc = "done"] OBVIOUS
    <2>2. CallFits(x)' /\ CallFits(y)' BY <2>1 DEF NewCall, CallFits
    <2>3. calls' = [c \in Calls |-> IF calls[c].pc = "idle" THEN x ELSE y]
        BY <2>1 DEF Vanish
    <2>4. calls' = [c \in Calls |-> calls'[c]] /\ \A c \in Calls : calls'[c] \in {x, y}
        BY <2>3
    <2> QED BY <2>2, <2>4 DEF CallsFit
<1> QED BY <1>1, <1>3, <1>4, <1>5, <1>6, <1>7, <1>8 DEF ProcessFits

LEMMA FitsStep ==
    ASSUME ProcessInv, ProcessFits, [ProcessNext]_processVars
    PROVE  ProcessFits'
<1>0. /\ IsTicker(ticker) /\ CallsFit /\ TablesInv /\ TickerFits(ticker) /\ RunsInv /\ WorkShape
      /\ WorkFits /\ FaultsFit /\ now \in Times /\ now <= now /\ startedAt \in Times
    BY MaxTimeAssumption DEF ProcessInv, RunsInv, ProcessFits, TablesInv, TablesTypeOK, Times
\* The phase moves, and with it the ticker and the contexts.
<1>1. ASSUME UNCHANGED <<tables, work, begun, broke, shown, sent, faults, calls>>,
             now' \in Times, now <= now', startedAt' \in Times, phase' \in Phases,
             boots' \in 0..MaxBoots, live' \subseteq Contexts,
             UNCHANGED <<startedAt, ticker>> \/ ticker' = Idle
      PROVE  ProcessFits'
    <2>1. TablesInv' /\ Aging /\ UNCHANGED defs BY <1>0, <1>1, TablesKept DEF tables
    <2>2. CallsFit' BY <1>0, <1>1, <2>1, CallsAge
    <2>3. WorkFits' /\ FaultsFit' BY <1>0, <1>1 DEF WorkFits, FaultsFit
    <2>4. TickerFits(ticker)'
        <3>1. CASE UNCHANGED <<startedAt, ticker>> BY <2>1, <3>1, RestFits
        <3>2. CASE ticker' = Idle
            <4>1. PICK x : x = Idle OBVIOUS
            <4>2. x = ticker' BY <3>2, <4>1
            <4>3. x.pc = "idle" /\ x.at = 0 /\ DOMAIN x.seen = {} /\ x.todo = {} /\ x.sound = {}
                BY <4>1 DEF Idle, Off
            <4>4. 0 \in Times BY MaxTimeAssumption DEF Times
            <4>5. TickerFits(x)' BY <4>3, <4>4 DEF TickerFits, SeenFits
            <4> QED BY <4>2, <4>5
        <3> QED BY <1>1, <3>1, <3>2
    <2> QED BY <1>1, <2>1, <2>2, <2>3, <2>4 DEF ProcessFits
<1>2. CASE Boot
    <2>1. boots' \in 0..MaxBoots BY <1>2, MaxBootsAssumption DEF Boot, ProcessFits
    <2> QED BY <1>0, <1>1, <1>2, <2>1 DEF Boot, service, executions, Phases, WorkFits
<1>3. CASE Start
    BY <1>0, <1>1, <1>3 DEF Start, executions, Phases, WorkFits, Contexts, ProcessFits
<1>4. CASE Terminate
    BY <1>0, <1>1, <1>4 DEF Terminate, executions, Phases, ProcessFits
<1>5. CASE Close \/ UNCHANGED processVars
    BY <1>0, <1>1, <1>5 DEF Close, processVars, service, executions, Phases, WorkFits, ProcessFits
<1>6. CASE Pass
    <2>1. now' \in Times /\ now <= now' BY <1>0, <1>6, MaxTimeAssumption DEF Pass, Times
    <2> QED BY <1>0, <1>1, <1>6, <2>1 DEF Pass, executions, WorkFits, ProcessFits
<1>7. CASE CloseTimesOut \/ Exit \/ Crash
    BY <1>7, VanishFits DEF CloseTimesOut, Exit, Crash
<1>8. CASE TickStep /\ UNCHANGED <<phase, boots, calls>>
    <2>1. TablesInv' /\ Aging /\ TickerFits(ticker)' BY <1>0, <1>8, TickFits
    <2>2. CallsFit' BY <1>0, <1>8, <2>1, CallsAge
    <2>3. UNCHANGED <<startedAt, live, begun, broke, shown, sent>>
        BY <1>8 DEF TickStep, TickList, TickAdmit, TickAdmitFails, TickSpawn, TickEnds, LoopEnds,
                    TickLoad, TickLoadFails, executions
    <2>4. FaultsFit'
        <3>1. UNCHANGED faults \/ \E hadTo : Failure(hadTo)
            BY <1>8 DEF TickStep, TickList, TickAdmit, TickAdmitFails, TickSpawn, TickEnds, LoopEnds,
                        TickLoad, TickLoadFails
        <3> QED BY <1>0, <3>1, FailureFits
    <2>5. WorkFits'
        <3>1. CASE TickSpawn
            <4>1. PICK k, d : k = DueRun /\ d = ticker.seen[ticker.task] OBVIOUS
            <4>2. PICK w : w = [pc |-> "queued", target |-> ResolvesTarget(d), context |-> Loop] OBVIOUS
            <4>3. work' = With(work, k, w) BY <3>1, <4>1, <4>2, Zenon DEF TickSpawn, Execute
            <4>4. ticker.task \in DOMAIN ticker.seen /\ IsLatest(d, ticker.due, ticker.at)
                BY <1>0, <3>1, <4>1 DEF TickSpawn, TickerFits
            <4>5. d \in Definition /\ ticker.task \in Ids
                BY <1>0, <4>1, <4>4 DEF TickerFits, SeenFits, Issued, TablesInv, TablesTypeOK
            <4>6. ticker.due \in Times
                BY <4>4, <4>5, SchedulesAssumption DEF IsLatest, Definition
            <4>7. k \in Keys /\ IsKey(k) BY <4>1, <4>5, <4>6 DEF DueRun, Keys, Attempts, IsKey
            <4>8. /\ IsWork(w) /\ w.pc \in WorkStates /\ w.target \in BOOLEAN /\ w.context \in Contexts
                BY <4>2, <4>5, TargetAssumption DEF IsWork, WorkStates, ResolvesTarget, Definition, Contexts
            <4>9. live' \subseteq Contexts BY <1>0, <2>3 DEF WorkFits
            <4> QED BY <1>0, <2>3, <4>3, <4>7, <4>8, <4>9, WorkStarts
        <3>2. CASE ~TickSpawn
            <4>1. UNCHANGED work
                BY <1>8, <3>2 DEF TickStep, TickList, TickAdmit, TickAdmitFails, TickEnds, LoopEnds,
                        TickLoad, TickLoadFails, executions
            <4> QED BY <1>0, <2>3, <4>1 DEF WorkFits
        <3> QED BY <3>1, <3>2
    <2> QED BY <1>8, <2>1, <2>2, <2>3, <2>4, <2>5 DEF ProcessFits
<1>9. ASSUME NEW k \in DOMAIN work, ExecuteRun(k), UNCHANGED <<phase, boots, calls>>
      PROVE  ProcessFits'
    <2>1. TablesInv' /\ Aging /\ UNCHANGED <<defs, startedAt, ticker, live, now>>
        BY <1>0, <1>9, ExecutionTables
    <2>2. WorkFits' /\ FaultsFit' BY <1>0, <1>9, ExecutionFits
    <2>3. TickerFits(ticker)' /\ CallsFit' BY <1>9, <2>1, RestFits
    <2> QED BY <1>9, <2>1, <2>2, <2>3 DEF ProcessFits
<1>10. ASSUME NEW c \in Calls, Edit(c) PROVE ProcessFits' BY <1>10, EditFits
<1>11. ASSUME NEW c \in Calls, ExecuteNow(c) \/ ToolFails(c) PROVE ProcessFits'
    BY <1>11, ExecuteNowFits
<1>12. NowCalls \subseteq Calls BY NowCallsAssumption
<1> QED BY <1>2, <1>3, <1>4, <1>5, <1>6, <1>7, <1>8, <1>9, <1>10, <1>11, <1>12 DEF ProcessNext

LEMMA FitsAlways == ProcessSpec => [](ProcessInv /\ ProcessFits)
<1>1. ProcessFits /\ ProcessInv /\ [ProcessNext]_processVars => ProcessFits' BY FitsStep
<1> QED BY <1>1, FitsInit, ProcessInvAlways, PTL DEF ProcessSpec

\* The rows keep their types and their parents, names stay unique, what is
\* enabled has a target, although every tool call writes back a row it read
\* earlier; and the service, the ticks and the calls keep theirs.
THEOREM ProcessTypeOKAlways == ProcessSpec => []ProcessTypeOK
<1>1. ProcessInv /\ ProcessFits => ProcessTypeOK
    <2> SUFFICES ASSUME ProcessInv, ProcessFits PROVE ProcessTypeOK
        OBVIOUS
    <2>1. ticker.pc \in {"admit", "spawn"} => DueRun \in Keys
        <3> SUFFICES ASSUME ticker.pc \in {"admit", "spawn"} PROVE DueRun \in Keys
            OBVIOUS
        <3> DEFINE d == ticker.seen[ticker.task]
        <3>1. ticker.task \in DOMAIN ticker.seen /\ IsLatest(d, ticker.due, ticker.at)
            BY DEF ProcessFits, TickerFits
        <3>2. d \in Definition /\ ticker.task \in Ids
            BY <3>1 DEF ProcessFits, TickerFits, SeenFits, Issued, TablesInv, TablesTypeOK
        <3>3. ticker.due \in Times BY <3>1, <3>2, SchedulesAssumption DEF IsLatest, Definition
        <3> QED BY <3>2, <3>3 DEF DueRun, Keys, Attempts
    <2>2. ServiceTypeOK
        BY <2>1 DEF ProcessFits, TickerFits, WorkFits, FaultsFit, ServiceTypeOK
    <2> QED BY <2>2 DEF ProcessFits, TablesInv, CallsFit, CallFits, ProcessTypeOK
<1> QED BY <1>1, FitsAlways, PTL

\* What a tick admits is due, and the latest that is: for an enabled task, at a
\* time of its schedule that has come, not from before the task and for cron not
\* from before the start; unless the task was edited while the tick was at work.
THEOREM AdmittedRunsAreDueAlways == ProcessSpec => AdmittedRunsAreDue
<1>1. ASSUME ProcessInv, ProcessFits, [ProcessNext]_processVars,
             ticker.pc = "admit", ticker'.pc = "spawn"
      PROVE  LET d == defs[ticker.task]
             IN  \/ ticker.task \in ticker.stale
                 \/ /\ d.enabled
                    /\ ticker.due \in d.schedule.times
                    /\ d.created <= ticker.due
                    /\ d.schedule.kind = "cron" => startedAt <= ticker.due
                    /\ \A o \in d.schedule.times : o <= ticker.at => o <= ticker.due
    <2>1. TickAdmit
        <3>1. CASE TickStep BY <1>1, <3>1, TickerKept DEF Admitting, ProcessInv
        <3>2. CASE UNCHANGED ticker BY <1>1, <3>2
        <3>3. CASE ticker' \in {Off, Idle} BY <1>1, <3>3 DEF Off, Idle
        <3>4. ASSUME NEW t, NoteEdit(t) PROVE FALSE
            <4>1. Admitting' => Admitting BY <1>1, <3>4, NoteEditKeeps DEF ProcessInv
            <4> QED BY <1>1, <4>1 DEF Admitting
        <3>5. \/ TickStep \/ UNCHANGED ticker \/ ticker' \in {Off, Idle}
              \/ \E t : NoteEdit(t)
            BY <1>1 DEF ProcessNext, Boot, Start, Terminate, Close, CloseTimesOut, Exit, Crash, Vanish,
               Pass, ExecuteRun, BeginTurn, BeginTurnFails, TurnSucceeds, TurnCanceled, TurnFails, Retry,
               RetryFails, OpenDelivery, PostReport, PostReportFails,
               SkipDelivery, OpenDeliveryFails, CloseDelivery, Edit,
               CreateTask, CreateScheduledTask, EditTask, UpdateScheduledTask, RemoveTask,
               DeleteScheduledTask, ExecuteNow, ExecuteTaskNow, AdmitNow, CountNow, ExecuteReturns,
               ClientLeaves, ToolFails, Aside, processVars, service
        <3> QED BY <3>1, <3>2, <3>3, <3>4, <3>5
    <2>2. ticker.task \in DOMAIN defs BY <2>1 DEF TickAdmit, AdmitRun, DueRun
    <2>3. /\ ticker.task \in DOMAIN ticker.seen
          /\ IsLatest(ticker.seen[ticker.task], ticker.due, ticker.at)
        BY <1>1 DEF ProcessFits, TickerFits
    <2>4. SeenFits(ticker) BY <1>1 DEF ProcessFits, TickerFits
    <2>5. \/ ticker.task \in ticker.stale
          \/ ticker.seen[ticker.task] = defs[ticker.task] /\ ticker.seen[ticker.task].enabled
        BY <2>2, <2>3, <2>4 DEF SeenFits
    <2> QED BY <2>3, <2>5 DEF IsLatest
<1>2. UNCHANGED service => ~(ticker.pc = "admit" /\ ticker'.pc = "spawn") BY DEF service
<1>3. (ProcessInv /\ ProcessFits) /\ [ProcessNext]_processVars
      => [(ticker.pc = "admit" /\ ticker'.pc = "spawn") =>
          LET d == defs[ticker.task]
          IN  \/ ticker.task \in ticker.stale
              \/ /\ d.enabled
                 /\ ticker.due \in d.schedule.times
                 /\ d.created <= ticker.due
                 /\ d.schedule.kind = "cron" => startedAt <= ticker.due
                 /\ \A o \in d.schedule.times : o <= ticker.at => o <= ticker.due]_service
    BY <1>1
<1> QED BY <1>3, FitsAlways, PTL DEF ProcessSpec, AdmittedRunsAreDue

\* A tick that ends leaves no occurrence behind that had come when it began, of
\* a task it was able to evaluate: a run stands for it, or a later one.
THEOREM NothingDueIsLeftAlways == ProcessSpec => NothingDueIsLeft
<1>1. ProcessInv /\ ProcessFits
      => [(ticker.pc = "look" /\ ticker'.pc = "idle") =>
          \A t \in ticker.sound \ gone :
             LET d == ticker.seen[t]
             IN  \A o \in d.schedule.times :
                    /\ d.created <= o /\ o <= ticker.at
                    /\ d.schedule.kind = "cron" => startedAt <= o
                    => \E k \in DOMAIN runs : k[1] = t /\ o <= k[2]]_service
    BY DEF ProcessFits, TickerFits, IsSettled
<1> QED BY <1>1, FitsAlways, PTL DEF ProcessSpec, NothingDueIsLeft

=============================================================================
