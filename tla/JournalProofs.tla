---------------------------- MODULE JournalProofs ----------------------------
(***************************************************************************)
(* Proofs about journal mode, for any number of messages, commands, days   *)
(* and generations.  The message service keeps all that is proved of it,   *)
(* since the journal only restricts it; the rest is about the sessions and *)
(* the memory bridge.                                                      *)
(***************************************************************************)
EXTENDS JournalSessions, MessageTurnProofs, FiniteSetTheorems

-----------------------------------------------------------------------------
(* The service in journal mode is the service *)

\* A step of the journal is a step of the service, or leaves it alone.
LEMMA JournalStep == [JNext]_allVars => [Next]_vars
<1> SUFFICES ASSUME [JNext]_allVars PROVE [Next]_vars
  OBVIOUS
<1>1. ASSUME NEW m \in Messages, Resolving(m) PROVE [Next]_vars
  <2>1. CASE ResolveActive(m) \/ ResolveCreate(m) \/ ResolveFails(m)
    <3>1. PrepareMessage(m) \/ HandleUnadmitted(m)
      BY <2>1 DEF ResolveActive, ResolveCreate, ResolveFails
    <3>2. QED
      BY <3>1 DEF Next, Arrive
  <2>2. CASE ResolveNone(m) \/ ResolvePrevious(m)
    BY <2>2 DEF ResolveNone, ResolvePrevious
  <2>3. QED
    BY <1>1, <2>1, <2>2 DEF Resolving
<1>2. ASSUME NEW m \in Messages, Refreshing(m) \/ RefreshTurnEnds(m) PROVE UNCHANGED vars
  BY <1>2 DEF Refreshing, RefreshWanted, RefreshStarts, RefreshSkipped, RefreshCanceled,
     RefreshTurnEnds, RefreshGoto
<1>3. ASSUME NEW m \in Messages, JProcess(m) \/ JTurn(m) \/ JPresentAck(m) PROVE Next
  BY <1>3 DEF JProcess, JTurn, JPresentAck, Next
<1>4. ASSUME NEW c \in Clears, Clear(c) PROVE UNCHANGED vars
  BY <1>4 DEF Clear, ClearLooks, ClearRejected, ClearGoesAhead, Rotate, ClearFails
<1>5. ASSUME NEW s \in Stops, StopResolves(s) \/ StopAims(s) PROVE [Next]_vars
  BY <1>5 DEF StopResolves, StopAims, Stopping, Next
<1>6. CASE Midnight \/ JCancelLifecycle \/ JTerminated \/ UNCHANGED allVars
  BY <1>6 DEF Midnight, JCancelLifecycle, JTerminated, Quiet, Next, allVars
<1>7. QED
  BY <1>1, <1>2, <1>3, <1>4, <1>5, <1>6 DEF JNext

\* Sessions, clear and the memory bridge restrict the service and add nothing
\* to it: whatever is proved of Spec holds in journal mode.
THEOREM JournalImplementsService == JSpec => Spec
<1>1. JInit => Init
  BY DEF JInit
<1>2. QED
  BY <1>1, JournalStep, PTL DEF JSpec, Spec

-----------------------------------------------------------------------------
(* Codex threads stay in their generation *)

\* The steps that touch a Codex thread or a binding.
LEMMA ThreadSteps ==
  ASSUME [Next]_vars
  PROVE  \/ UNCHANGED <<thread, binding>>
         \/ \E m \in Messages : StartTurn(m) \/ TurnSucceeds(m) \/ PersistBinding(m)
<1> USE DEF work, shared, Return
<1>1. ASSUME NEW m \in Messages, Arrive(m) \/ Admission(m) \/ RegisterInFlight(m) \/ PresentAck(m)
      PROVE  UNCHANGED <<thread, binding>>
  BY <1>1 DEF Arrive, HandleUnadmitted, PrepareMessage, Admission, HandleExecuteNow,
     HandleQueued, HandleQueueFull, RegisterInFlight, PresentAck
<1>2. ASSUME NEW m \in Messages, SettingUp(m) \/ LoadBindingFails(m) \/ TurnFails(m)
             \/ TurnCanceled(m) \/ PersistFails(m)
      PROVE  UNCHANGED <<thread, binding>>
  BY <1>2 DEF SettingUp, SetUp, SetUpRefused, SetUpFails, LoadBindingFails, TurnFails,
     TurnCanceled, PersistFails
<1>3. ASSUME NEW m \in Messages, Unregister(m) \/ Delivering(m) \/ Completing(m) \/ Responding(m)
      PROVE  UNCHANGED <<thread, binding>>
  BY <1>3 DEF Unregister, Delivering, DropDeferred, CheckDeferred, SendDeferred, Completing,
     CompleteAndDrain, CompleteAndRelease, Responding, Respond, RespondFails
<1>4. ASSUME NEW s \in Stops, Stopping(s) PROVE UNCHANGED <<thread, binding>>
  BY <1>4 DEF Stopping, StopUnresolved, StopDropQueued, StopInFlight
<1>5. CASE CancelLifecycle \/ Quiet \/ UNCHANGED vars
  BY <1>5 DEF CancelLifecycle, Quiet, vars
<1>6. QED
  BY <1>1, <1>2, <1>3, <1>4, <1>5 DEF Next, Process, Loading, Turn, Persisting

\* A Codex thread belongs to the key of the message whose turn created it.
ThreadOfKey(t, k) == t \in Messages /\ pc[t] # "new" /\ key[t] = k

ApartInv ==
    /\ \A k \in Keys : binding[k] # None => ThreadOfKey(binding[k], k)
    /\ \A m \in Messages : thread[m] # None => pc[m] # "new" /\ ThreadOfKey(thread[m], key[m])

LEMMA ApartInit == Init => ApartInv
BY DEF Init, ApartInv

LEMMA ApartStep == QueueInv /\ RestTypeOK /\ ApartInv /\ [Next]_vars => ApartInv'
<1> SUFFICES ASSUME QueueInv, RestTypeOK, ApartInv, [Next]_vars PROVE ApartInv'
  OBVIOUS
<1>1. \A t, k : ThreadOfKey(t, k) => ThreadOfKey(t, k)'
  BY ResolvedForGood DEF ThreadOfKey
<1>2. \A m \in Messages : pc[m] # "new" => pc'[m] # "new" /\ key'[m] = key[m]
  BY ResolvedForGood
<1>3. /\ thread \in [Messages -> Threads \cup {None}]
      /\ binding \in [Keys -> Threads \cup {None}]
      /\ \A m \in Messages : pc[m] \in SlotStates => key[m] \in Keys
  BY DEF RestTypeOK, ServiceTypeOK, QueueInv, KeysKnown
<1>4. CASE UNCHANGED <<thread, binding>>
  BY <1>1, <1>2, <1>4 DEF ApartInv
<1>5. ASSUME NEW m \in Messages, StartTurn(m) PROVE ApartInv'
  <2>1. pc[m] = "ready" /\ key[m] \in Keys /\ UNCHANGED binding
    BY <1>3, <1>5 DEF StartTurn, Goto, SlotStates, shared
  <2>2. thread' = [thread EXCEPT ![m] = binding[key[m]]]
    BY <1>5 DEF StartTurn
  <2>3. QED
    BY <1>1, <1>2, <1>3, <2>1, <2>2 DEF ApartInv
<1>6. ASSUME NEW m \in Messages, TurnSucceeds(m) PROVE ApartInv'
  <2>1. pc[m] = "turn" /\ ThreadOfKey(m, key[m]) /\ UNCHANGED binding
    BY <1>6 DEF TurnSucceeds, Goto, ThreadOfKey, shared
  <2>2. thread' = [thread EXCEPT ![m] = IF @ = None THEN m ELSE @]
    BY <1>6 DEF TurnSucceeds
  <2>3. QED
    BY <1>1, <1>2, <1>3, <2>1, <2>2 DEF ApartInv
<1>7. ASSUME NEW m \in Messages, PersistBinding(m) PROVE ApartInv'
  <2>1. pc[m] = "turned" /\ key[m] \in Keys /\ UNCHANGED thread
    BY <1>3, <1>7 DEF PersistBinding, Goto, SlotStates
  <2>2. binding' = [binding EXCEPT ![key[m]] = thread[m]]
    BY <1>7 DEF PersistBinding
  <2>3. QED
    BY <1>1, <1>2, <1>3, <2>1, <2>2 DEF ApartInv
<1>8. QED
  BY <1>4, <1>5, <1>6, <1>7, ThreadSteps

\* The Codex thread of one generation is never bound to another: neither
\* clear, nor the change of the date, nor the turn the memory bridge runs on
\* the previous generation's thread carries it over.
THEOREM GenerationsApartAlways == JSpec => []GenerationsApart
<1>1. ApartInv => GenerationsApart
  BY DEF ApartInv, ThreadOfKey, GenerationsApart
<1>2. Spec => []ApartInv
  BY ApartInit, ApartStep, QueueInvInit, QueueInvStep, RestTypeInit, RestTypeStep, PTL DEF Spec
<1>3. QED
  BY <1>1, <1>2, JournalImplementsService, PTL

-----------------------------------------------------------------------------
(* The sessions *)

\* A day has one active generation once it has any; generations form a chain.
RowsInv ==
    /\ DOMAIN sessions \subseteq Keys
    /\ \A k \in DOMAIN sessions : sessions[k] \in Row /\ \E j : ActiveOn(k[1]) = {j}
    /\ GenerationsLinked

\* What a caller of ResolveActiveDailySession found stays true while it waits
\* for the store.
LookupInv ==
    /\ lookup \in [Callers -> Lookups]
    /\ \A a \in Callers :
          /\ lookup[a].pc # "idle" => lookup[a].day \in 1..LastDay
          /\ lookup[a].prev # None =>
                lookup[a].prev \in DOMAIN sessions /\ lookup[a].prev[1] < lookup[a].day

LEMMA NoneIsNoKey == None \notin Keys
BY NoneAssumption

LEMMA KeyParts ==
  /\ \A k \in Keys : k[1] \in 1..LastDay /\ k[2] \in 1..MaxGeneration /\ k = <<k[1], k[2]>>
  /\ \A d \in 1..LastDay, g \in 1..MaxGeneration : <<d, g>> \in Keys
BY JournalKeysAssumption

\* The day's first session is created at most once, after the one it follows.
LEMMA CreateKeeps ==
  ASSUME RowsInv, LookupInv, NEW a \in Callers, NEW k, CreateSession(a, k)
  PROVE  RowsInv' /\ LookupInv' /\ k \in Keys /\ k \in DOMAIN sessions' /\ sessions'[k].active
<1> DEFINE d == lookup[a].day
<1>1. /\ lookup[a] \in Lookups /\ lookup[a].pc = "previous" /\ d \in 1..LastDay
      /\ lookup' = [lookup EXCEPT ![a] = NoLookup]
  BY DEF CreateSession, LookupInv
<1>2. DOMAIN sessions \subseteq DOMAIN sessions' => LookupInv'
  <2>1. NoLookup \in Lookups /\ NoLookup.prev = None /\ NoLookup.pc = "idle"
    BY JournalKeysAssumption DEF NoLookup, Lookups
  <2>2. QED
    BY <1>1, <2>1 DEF LookupInv
<1>3. CASE ActiveOn(d) = {} /\ k = <<d, 1>>
           /\ sessions' = Put(sessions, k, [prev |-> lookup[a].prev, active |-> TRUE])
  <2>1. k \in Keys /\ k[1] = d /\ k[2] = 1
    BY <1>1, <1>3, KeyParts, JournalKeysAssumption
  <2>2. /\ DOMAIN sessions' = DOMAIN sessions \cup {k}
        /\ sessions'[k] = [prev |-> lookup[a].prev, active |-> TRUE]
        /\ \A j \in DOMAIN sessions : j # k => sessions'[j] = sessions[j]
    BY <1>3 DEF Put
  <2>3. sessions'[k] \in Row /\ sessions'[k].active /\ sessions'[k].prev = lookup[a].prev
    BY <1>1, <2>2 DEF Row, Lookups
  <2>4. ASSUME NEW j \in DOMAIN sessions PROVE j # k /\ j[1] # d
    BY <1>3, <2>1, <2>4 DEF RowsInv, ActiveOn
  <2>5. ActiveOn(k[1])' = {k}
    BY <2>1, <2>2, <2>3, <2>4 DEF ActiveOn
  <2>6. ASSUME NEW j \in DOMAIN sessions PROVE ActiveOn(j[1])' = ActiveOn(j[1])
    BY <2>1, <2>2, <2>4, <2>6 DEF ActiveOn
  <2>7. GenerationsLinked'
    BY <1>1, <2>1, <2>2, <2>3, <2>4 DEF GenerationsLinked, RowsInv, LookupInv
  <2>8. ASSUME NEW j \in DOMAIN sessions'
        PROVE  sessions'[j] \in Row /\ \E i : ActiveOn(j[1])' = {i}
    <3>1. CASE j = k
      BY <2>3, <2>5, <3>1
    <3>2. CASE j # k
      <4>1. j \in DOMAIN sessions /\ sessions'[j] = sessions[j]
        BY <2>2, <3>2
      <4>2. QED
        BY <2>6, <4>1 DEF RowsInv
    <3>3. QED
      BY <3>1, <3>2
  <2>9. QED
    BY <1>2, <2>1, <2>2, <2>3, <2>7, <2>8 DEF RowsInv
<1>4. CASE k \in ActiveOn(d) /\ UNCHANGED sessions
  <2>1. \A e : ActiveOn(e)' = ActiveOn(e)
    BY <1>4 DEF ActiveOn
  <2>2. k \in DOMAIN sessions /\ sessions[k].active
    BY <1>4 DEF ActiveOn
  <2>3. QED
    BY <1>2, <1>4, <2>1, <2>2 DEF RowsInv, GenerationsLinked
<1>5. QED
  BY <1>3, <1>4 DEF CreateSession

\* A rotation ends the active generation and starts the one after it.
LEMMA RotateKeeps ==
  ASSUME RowsInv, LookupInv, NEW c \in Clears, Rotate(c)
  PROVE  RowsInv' /\ LookupInv'
<1>1. PICK k \in ActiveOn(clears[c].key[1]) :
        /\ k[2] < MaxGeneration
        /\ sessions' = Put([sessions EXCEPT ![k].active = FALSE], <<k[1], k[2] + 1>>,
                           [prev |-> k, active |-> TRUE])
  BY DEF Rotate
<1> DEFINE d == k[1]
           n == <<k[1], k[2] + 1>>
<1>2. /\ k \in DOMAIN sessions /\ k \in Keys /\ k \in ActiveOn(d)
      /\ d \in 1..LastDay /\ k[2] \in 1..MaxGeneration
  BY <1>1, KeyParts DEF ActiveOn, RowsInv
<1>3. n \in Keys /\ n # k /\ n[1] = d /\ n[2] = k[2] + 1
  BY <1>1, <1>2, KeyParts, JournalKeysAssumption
<1>4. ActiveOn(d) = {k}
  BY <1>2 DEF RowsInv
<1>5. /\ DOMAIN sessions' = DOMAIN sessions \cup {n}
      /\ sessions'[n] = [prev |-> k, active |-> TRUE]
      /\ sessions'[k] = [sessions EXCEPT ![k].active = FALSE][k]
      /\ \A j \in DOMAIN sessions : j # n /\ j # k => sessions'[j] = sessions[j]
  BY <1>1, <1>2, <1>3 DEF Put
<1>6. /\ sessions[k] \in Row /\ sessions'[k] \in Row /\ sessions'[n] \in Row
      /\ ~sessions'[k].active /\ sessions'[n].active /\ sessions'[n].prev = k
      /\ sessions'[k].prev = sessions[k].prev
  <2>1. sessions[k] \in Row
    BY <1>2 DEF RowsInv
  <2>2. /\ sessions'[k].prev = sessions[k].prev /\ sessions'[k].active = FALSE
        /\ sessions'[k] \in Row
    BY <1>2, <1>5, <2>1 DEF Row
  <2>3. sessions'[n] \in Row
    BY <1>2, <1>5 DEF Row
  <2>4. QED
    BY <1>5, <2>1, <2>2, <2>3
<1>7. ActiveOn(d)' = {n}
  BY <1>3, <1>4, <1>5, <1>6 DEF ActiveOn
<1>8. ASSUME NEW j \in DOMAIN sessions, j[1] # d PROVE ActiveOn(j[1])' = ActiveOn(j[1])
  BY <1>2, <1>3, <1>5, <1>8 DEF ActiveOn
<1>9. GenerationsLinked'
  <2> SUFFICES ASSUME NEW j \in DOMAIN sessions'
               PROVE  IF j[2] = 1
                      THEN \/ sessions'[j].prev = None
                           \/ sessions'[j].prev \in DOMAIN sessions' /\ sessions'[j].prev[1] < j[1]
                      ELSE /\ sessions'[j].prev = <<j[1], j[2] - 1>>
                           /\ sessions'[j].prev \in DOMAIN sessions'
    BY DEF GenerationsLinked
  <2>1. CASE j = n
    <3>1. j[2] # 1 /\ <<j[1], j[2] - 1>> = k
      BY <1>2, <1>3, <2>1, KeyParts
    <3>2. QED
      BY <1>2, <1>5, <1>6, <2>1, <3>1
  <2>2. CASE j # n
    <3>1. j \in DOMAIN sessions /\ sessions'[j].prev = sessions[j].prev
      BY <1>5, <1>6, <2>2
    <3>2. QED
      BY <1>5, <3>1 DEF RowsInv, GenerationsLinked
  <2>3. QED
    BY <2>1, <2>2
<1>10. RowsInv'
  <2>1. ASSUME NEW j \in DOMAIN sessions'
        PROVE  j \in Keys /\ sessions'[j] \in Row /\ \E i : ActiveOn(j[1])' = {i}
    <3>1. j = n \/ j \in DOMAIN sessions
      BY <1>5, <2>1
    <3>2. CASE j = n \/ j[1] = d
      BY <1>3, <1>5, <1>6, <1>7, <3>1, <3>2 DEF RowsInv
    <3>3. CASE j # n /\ j[1] # d
      BY <1>5, <1>8, <3>1, <3>3 DEF RowsInv
    <3>4. QED
      BY <3>2, <3>3
  <2>2. QED
    BY <1>9, <2>1 DEF RowsInv
<1>11. LookupInv'
  BY <1>5 DEF LookupInv, Rotate
<1>12. QED
  BY <1>10, <1>11

\* No session is ever deleted, and none gets another predecessor.
SessionsGrow ==
    /\ DOMAIN sessions \subseteq DOMAIN sessions'
    /\ \A k \in DOMAIN sessions : sessions'[k].prev = sessions[k].prev

LEMMA CreateGrows ==
  ASSUME RowsInv, LookupInv, NEW a \in Callers, NEW k, CreateSession(a, k) PROVE SessionsGrow
<1>1. CASE UNCHANGED sessions
  BY <1>1 DEF SessionsGrow
<1>2. CASE /\ ActiveOn(lookup[a].day) = {} /\ k = <<lookup[a].day, 1>>
           /\ sessions' = Put(sessions, k, [prev |-> lookup[a].prev, active |-> TRUE])
  <2>1. k \notin DOMAIN sessions
    BY <1>2 DEF RowsInv
  <2>2. QED
    BY <1>2, <2>1 DEF Put, SessionsGrow
<1>3. QED
  BY <1>1, <1>2 DEF CreateSession

LEMMA RotateGrows == ASSUME RowsInv, NEW c \in Clears, Rotate(c) PROVE SessionsGrow
<1>1. PICK k \in ActiveOn(clears[c].key[1]) :
        /\ k[2] < MaxGeneration
        /\ sessions' = Put([sessions EXCEPT ![k].active = FALSE], <<k[1], k[2] + 1>>,
                           [prev |-> k, active |-> TRUE])
  BY DEF Rotate
<1> DEFINE n == <<k[1], k[2] + 1>>
<1>2. k \in DOMAIN sessions /\ k[2] \in 1..MaxGeneration /\ k = <<k[1], k[2]>>
  BY <1>1, KeyParts DEF ActiveOn, RowsInv
<1>3. n[1] = k[1] /\ n[2] = k[2] + 1 /\ n[2] # 1 /\ <<n[1], n[2] - 1>> = k
  BY <1>2, JournalKeysAssumption
<1>4. n \in DOMAIN sessions => sessions[n].prev = k
  BY <1>3 DEF RowsInv, GenerationsLinked
<1>5. sessions[k] \in Row
  BY <1>2 DEF RowsInv
<1>6. QED
  BY <1>1, <1>2, <1>4, <1>5 DEF Put, SessionsGrow, Row

\* The two reads that precede a creation.
LEMMA FindKeeps ==
  ASSUME RowsInv, LookupInv, UNCHANGED sessions, NEW a \in Callers,
         (\E d \in 1..LastDay : FindNone(a, d)) \/ FindPrevious(a)
  PROVE  LookupInv'
<1>1. ASSUME NEW d \in 1..LastDay, FindNone(a, d) PROVE LookupInv'
  BY <1>1, JournalKeysAssumption DEF FindNone, LookupInv, Lookups
<1>2. CASE FindPrevious(a)
  <2> DEFINE d == lookup[a].day
             p == IF LatestBefore(d) = {} THEN None ELSE CHOOSE k \in LatestBefore(d) : TRUE
  <2>1. /\ lookup[a] \in Lookups /\ lookup[a].pc = "missing" /\ d \in 1..LastDay
        /\ lookup' = [lookup EXCEPT ![a].pc = "previous", ![a].prev = p]
    BY <1>2 DEF FindPrevious, LookupInv
  <2>2. p # None => p \in DOMAIN sessions /\ p \in Keys /\ p[1] < d
    BY DEF LatestBefore, RowsInv
  <2>3. /\ lookup'[a].pc = "previous" /\ lookup'[a].prev = p /\ lookup'[a].day = d
        /\ lookup'[a] \in Lookups
        /\ \A b \in Callers : b # a => lookup'[b] = lookup[b]
    BY <2>1, <2>2 DEF LookupInv, Lookups
  <2>4. QED
    BY <2>1, <2>2, <2>3 DEF LookupInv
<1>3. QED
  BY <1>1, <1>2

-----------------------------------------------------------------------------
(* The inductive invariant of the journal *)

\* Types of what is left.
CommandTypes ==
    /\ today \in 1..LastDay
    /\ clears \in [Clears -> ClearStates]
    /\ aim \in [Stops -> Keys \cup {None}]
    /\ refresh \in [Messages -> {"none", "wanted", "running", "over"}]
    /\ resumed \in [Messages -> Threads \cup {None}]

\* A generation has no thread of its own from the moment the refresh found it
\* has none until the refresh is over: the slot is held all the while.
RefreshInv ==
    \A m \in Messages :
        /\ pc[m] \in {"prepared", "waiting"} \cup SlotStates => key[m] \in DOMAIN sessions
        /\ refresh[m] \in {"wanted", "running"} =>
              /\ pc[m] = "registered"
              /\ binding[key[m]] = None
              /\ sessions[key[m]].prev # None

JournalInv == RowsInv /\ LookupInv /\ CommandTypes /\ RefreshInv

LEMMA JournalInvInit == JInit => JournalInv
<1> SUFFICES ASSUME JInit PROVE JournalInv
  OBVIOUS
<1>1. RowsInv
  BY DEF JInit, RowsInv, GenerationsLinked
<1>2. LookupInv
  <2>1. NoLookup \in Lookups /\ NoLookup.pc = "idle" /\ NoLookup.prev = None
    BY JournalKeysAssumption DEF NoLookup, Lookups
  <2>2. QED
    BY <2>1 DEF JInit, LookupInv
<1>3. CommandTypes
  <2>1. NoClear \in ClearStates
    BY DEF NoClear, ClearStates
  <2>2. QED
    BY <2>1, JournalKeysAssumption DEF JInit, CommandTypes
<1>4. RefreshInv
  BY DEF JInit, Init, RefreshInv, SlotStates
<1>5. QED
  BY <1>1, <1>2, <1>3, <1>4 DEF JournalInv

\* Rows and lookups: what each step does to the two tables.
LEMMA TablesStep ==
  ASSUME JournalInv, [JNext]_allVars
  PROVE  RowsInv' /\ LookupInv' /\ SessionsGrow
<1> USE DEF JournalInv
<1>1. CASE UNCHANGED <<sessions, lookup>>
  <2>1. \A e : ActiveOn(e)' = ActiveOn(e)
    BY <1>1 DEF ActiveOn
  <2>2. QED
    BY <1>1, <2>1 DEF SessionsGrow, RowsInv, GenerationsLinked, LookupInv
<1>2. ASSUME UNCHANGED sessions, NEW a \in Callers, LookupInv'
      PROVE  RowsInv'
  <2>1. \A e : ActiveOn(e)' = ActiveOn(e)
    BY <1>2 DEF ActiveOn
  <2>2. QED
    BY <1>2, <2>1 DEF RowsInv, GenerationsLinked
<1>3. ASSUME NEW a \in Callers, lookup' = [lookup EXCEPT ![a] = NoLookup]
      PROVE  SessionsGrow => LookupInv'
  <2>1. NoLookup \in Lookups /\ NoLookup.prev = None /\ NoLookup.pc = "idle"
    BY JournalKeysAssumption DEF NoLookup, Lookups
  <2>2. QED
    BY <1>3, <2>1 DEF LookupInv, SessionsGrow
<1>a. UNCHANGED sessions => SessionsGrow
  BY DEF SessionsGrow
<1>4. ASSUME NEW m \in Messages, Resolving(m)
      PROVE  RowsInv' /\ LookupInv' /\ SessionsGrow
  <2>1. m \in Callers
    BY DEF Callers
  <2>2. CASE ResolveActive(m)
    BY <1>1, <1>a, <2>2 DEF ResolveActive, jVars
  <2>3. CASE ResolveNone(m)
    BY <1>2, <1>a, <2>1, <2>3, FindKeeps, JournalKeysAssumption DEF ResolveNone, CommandTypes
  <2>4. CASE ResolvePrevious(m)
    BY <1>2, <1>a, <2>1, <2>4, FindKeeps DEF ResolvePrevious
  <2>5. CASE ResolveCreate(m)
    BY <2>1, <2>5, CreateKeeps, CreateGrows DEF ResolveCreate
  <2>6. CASE ResolveFails(m)
    BY <1>2, <1>a, <1>3, <2>1, <2>6 DEF ResolveFails
  <2>7. QED
    BY <1>4, <2>2, <2>3, <2>4, <2>5, <2>6 DEF Resolving
<1>5. ASSUME NEW c \in Clears, Clear(c)
      PROVE  RowsInv' /\ LookupInv' /\ SessionsGrow
  <2>1. c \in Callers
    BY DEF Callers
  <2>2. CASE ClearLooks(c)
    <3>1. CASE UNCHANGED <<sessions, lookup>>
      BY <1>1, <1>a, <3>1
    <3>2. CASE ((\E d \in 1..today : FindNone(c, d)) \/ FindPrevious(c)) /\ UNCHANGED sessions
      BY <1>2, <1>a, <2>1, <3>2, FindKeeps, JournalKeysAssumption DEF CommandTypes
    <3>3. ASSUME NEW k \in Keys, CreateSession(c, k)
          PROVE  RowsInv' /\ LookupInv' /\ SessionsGrow
      BY <2>1, <3>3, CreateKeeps, CreateGrows
    <3>4. QED
      BY <2>2, <3>1, <3>2, <3>3 DEF ClearLooks
  <2>3. CASE ClearRejected(c) \/ ClearGoesAhead(c)
    BY <1>1, <1>a, <2>3 DEF ClearRejected, ClearGoesAhead
  <2>4. CASE Rotate(c)
    BY <2>4, RotateKeeps, RotateGrows
  <2>5. CASE ClearFails(c)
    BY <1>2, <1>a, <1>3, <2>1, <2>5 DEF ClearFails
  <2>6. QED
    BY <1>5, <2>2, <2>3, <2>4, <2>5 DEF Clear
<1>6. ASSUME NEW m \in Messages, Refreshing(m) \/ RefreshTurnEnds(m)
      PROVE  UNCHANGED <<sessions, lookup>>
  BY <1>6 DEF Refreshing, RefreshWanted, RefreshStarts, RefreshSkipped, RefreshCanceled,
     RefreshTurnEnds, RefreshGoto
<1>7. ASSUME NEW m \in Messages, JProcess(m) \/ JTurn(m) \/ JPresentAck(m)
      PROVE  UNCHANGED <<sessions, lookup>>
  BY <1>7 DEF JProcess, JTurn, JPresentAck, jVars
<1>8. ASSUME NEW s \in Stops, StopResolves(s) \/ StopAims(s) PROVE UNCHANGED <<sessions, lookup>>
  BY <1>8 DEF StopResolves, StopAims, jVars
<1>9. CASE Midnight \/ JCancelLifecycle \/ JTerminated \/ UNCHANGED allVars
  BY <1>1, <1>a, <1>9 DEF Midnight, JCancelLifecycle, JTerminated, allVars, jVars
<1>10. QED
  BY <1>1, <1>a, <1>4, <1>5, <1>6, <1>7, <1>8, <1>9 DEF JNext

\* Clear and stop commands, and the refresh, keep their types.
LEMMA CommandStep ==
  ASSUME JournalInv, RestTypeOK, [JNext]_allVars
  PROVE  CommandTypes'
<1> USE DEF JournalInv, CommandTypes
<1>1. CASE UNCHANGED <<today, clears, aim, refresh, resumed>>
  BY <1>1
<1>2. ASSUME NEW m \in Messages, Resolving(m) PROVE CommandTypes'
  BY <1>1, <1>2 DEF Resolving, ResolveActive, ResolveNone, ResolvePrevious, ResolveCreate,
     ResolveFails, jVars
<1>3. ASSUME NEW m \in Messages, Refreshing(m) \/ RefreshTurnEnds(m) PROVE CommandTypes'
  <2>1. CASE RefreshStarts(m)
    <3>1. sessions[key[m]].prev \in Keys
      BY <2>1 DEF RefreshStarts, RefreshGoto, RefreshInv, SlotStates, RowsInv, Row
    <3>2. binding[sessions[key[m]].prev] \in Threads \cup {None}
      BY <3>1 DEF RestTypeOK, ServiceTypeOK
    <3>3. QED
      BY <2>1, <3>2 DEF RefreshStarts, RefreshGoto
  <2>2. CASE RefreshWanted(m) \/ RefreshSkipped(m) \/ RefreshCanceled(m) \/ RefreshTurnEnds(m)
    BY <2>2 DEF RefreshWanted, RefreshSkipped, RefreshCanceled, RefreshTurnEnds, RefreshGoto
  <2>3. QED
    BY <1>3, <2>1, <2>2 DEF Refreshing
<1>4. ASSUME NEW m \in Messages, JProcess(m) \/ JTurn(m) \/ JPresentAck(m) PROVE CommandTypes'
  BY <1>1, <1>4 DEF JProcess, JTurn, JPresentAck, jVars
<1>5. \A d : ActiveOn(d) \subseteq Keys
  BY DEF ActiveOn, RowsInv
<1>6. ASSUME NEW c \in Clears, Clear(c) PROVE CommandTypes'
  <2>1. UNCHANGED <<today, aim, refresh, resumed>>
    BY <1>6 DEF Clear, ClearLooks, ClearRejected, ClearGoesAhead, Rotate, ClearFails
  <2>2. clears[c] \in ClearStates
    OBVIOUS
  <2>3. CASE ClearLooks(c)
    <3>1. \/ UNCHANGED clears
          \/ \E k \in Keys : clears' = [clears EXCEPT ![c].pc = "resolved", ![c].key = k]
      BY <1>5, <2>3 DEF ClearLooks
    <3>2. QED
      BY <2>1, <2>2, <3>1 DEF ClearStates
  <2>4. CASE ClearRejected(c) \/ ClearFails(c)
    BY <2>1, <2>2, <2>4 DEF ClearRejected, ClearFails, ClearStates
  <2>5. CASE ClearGoesAhead(c)
    <3>1. {m \in Messages : pc[m] \in {"new", "prepared"}} \in SUBSET Messages
      OBVIOUS
    <3>2. QED
      BY <2>1, <2>2, <2>5, <3>1 DEF ClearGoesAhead, ClearStates
  <2>6. CASE Rotate(c)
    <3>1. \A k : Engaged(k) \in SUBSET Messages
      BY DEF Engaged, Holders
    <3>2. PICK k \in Keys : clears' = [clears EXCEPT ![c].pc = "done", ![c].ended = k,
                                                 ![c].cut = Engaged(k)]
      BY <1>5, <2>6 DEF Rotate
    <3>3. QED
      BY <2>1, <2>2, <3>1, <3>2 DEF ClearStates
  <2>7. QED
    BY <1>6, <2>3, <2>4, <2>5, <2>6 DEF Clear
<1>7. ASSUME NEW s \in Stops, StopResolves(s) \/ StopAims(s) PROVE CommandTypes'
  <2>1. CASE StopResolves(s)
    BY <1>5, <2>1 DEF StopResolves
  <2>2. CASE StopAims(s)
    BY <1>1, <2>2 DEF StopAims, jVars
  <2>3. QED
    BY <1>7, <2>1, <2>2
<1>8. CASE Midnight
  BY <1>8, JournalKeysAssumption DEF Midnight
<1>9. CASE JCancelLifecycle \/ JTerminated \/ UNCHANGED allVars
  BY <1>1, <1>9 DEF JCancelLifecycle, JTerminated, allVars, jVars
<1>10. QED
  BY <1>2, <1>3, <1>4, <1>6, <1>7, <1>8, <1>9 DEF JNext

-----------------------------------------------------------------------------
(* The refresh *)

\* What the goroutine of one message does leaves the others where they are,
\* but for the one it hands the slot to; and their binding, which only the
\* holder of the slot writes.
LEMMA OthersStay ==
  ASSUME QueueInv, RestTypeOK, NEW n \in Messages, Process(n) \/ Turn(n) \/ PresentAck(n),
         NEW m \in Messages, m # n
  PROVE  /\ pc[m] # "waiting" => pc'[m] = pc[m]
         /\ pc[m] = "registered" => binding'[key[m]] = binding[key[m]]
<1>0. pc \in [Messages -> States] /\ binding \in [Keys -> Threads \cup {None}]
  BY DEF QueueInv, RestTypeOK, ServiceTypeOK
<1> USE <1>0 DEF work, shared, Return, Goto
<1>1. CASE Admission(n) \/ RegisterInFlight(n) \/ PresentAck(n)
  BY <1>1 DEF Admission, HandleExecuteNow, HandleQueued, HandleQueueFull, RegisterInFlight,
     PresentAck
<1>2. CASE SettingUp(n) \/ Loading(n) \/ Turn(n) \/ TurnCanceled(n) \/ PersistFails(n)
  BY <1>2 DEF SettingUp, SetUp, SetUpRefused, SetUpFails, Loading, StartTurn, LoadBindingFails,
     Turn, TurnSucceeds, TurnFails, TurnCanceled, PersistFails
<1>3. CASE PersistBinding(n)
  <2>1. pc[n] = "turned" /\ pc' = [pc EXCEPT ![n] = "returned"]
        /\ binding' = [binding EXCEPT ![key[n]] = thread[n]]
    BY <1>3 DEF PersistBinding
  <2>2. pc[m] = "registered" => key[m] # key[n]
    BY <2>1 DEF QueueInv, OneHolder, SlotStates
  <2>3. QED
    BY <2>1, <2>2
<1>4. CASE Unregister(n) \/ Delivering(n) \/ Responding(n) \/ CompleteAndRelease(n)
  BY <1>4 DEF Unregister, Delivering, DropDeferred, CheckDeferred, SendDeferred, Responding,
     Respond, RespondFails, CompleteAndRelease
<1>5. CASE CompleteAndDrain(n)
  <2> DEFINE next == Head(Waiting(key[n]))
  <2>1. pc[next] = "waiting"
    BY <1>5, HeadWaits DEF CompleteAndDrain, CompleteNext
  <2>2. pc' = [pc EXCEPT ![n] = AfterComplete(n), ![next] = "claimed"] /\ binding' = binding
    BY <1>5 DEF CompleteAndDrain
  <2>3. QED
    BY <2>1, <2>2
<1>6. QED
  BY <1>1, <1>2, <1>3, <1>4, <1>5 DEF Process, Persisting, Completing

\* A goroutine that serves a message was started for one that was resolved.
LEMMA ServedIsResolved ==
  ASSUME NEW n \in Messages, Process(n) \/ Turn(n)
  PROVE  pc[n] # "new"
BY DEF Process, Turn, Goto, Return, Admission, HandleExecuteNow, HandleQueued, HandleQueueFull,
   RegisterInFlight, SettingUp, SetUp, SetUpRefused, SetUpFails, Loading, StartTurn,
   LoadBindingFails, TurnSucceeds, TurnFails, TurnCanceled, Persisting, PersistBinding,
   PersistFails, Unregister, Delivering, DropDeferred, CheckDeferred, SendDeferred, Responding,
   Respond, RespondFails, Completing, CompleteAndDrain, CompleteAndRelease

\* A /stop takes messages off the waiting list, and writes no binding.
LEMMA StopStays ==
  ASSUME QueueInv, NEW s \in Stops, StopAims(s), NEW m \in Messages
  PROVE  /\ pc'[m] \in {pc[m], "dropped"}
         /\ pc[m] = "registered" => pc'[m] = pc[m]
         /\ UNCHANGED binding
<1>1. pc \in [Messages -> States]
  BY DEF QueueInv
<1>2. CASE StopUnresolved(s) \/ StopInFlight(s)
  BY <1>2 DEF StopUnresolved, StopInFlight
<1>3. CASE StopDropQueued(s)
  <2>1. PICK k \in Keys :
          /\ UNCHANGED binding
          /\ pc' = [i \in Messages |->
                      IF i \in {Waiting(k)[j] : j \in 1..Len(Waiting(k))} THEN "dropped" ELSE pc[i]]
    BY <1>3 DEF StopDropQueued
  <2>2. \A i \in {Waiting(k)[j] : j \in 1..Len(Waiting(k))} : pc[i] = "waiting"
    BY DEF Waiting, QueueInv, ListedWait
  <2>3. QED
    BY <1>1, <2>1, <2>2
<1>4. QED
  BY <1>2, <1>3 DEF StopAims

\* prepareMessage gives a message a generation that is active.
LEMMA PreparedInTable ==
  ASSUME JournalInv, QueueInv, NEW n \in Messages, Resolving(n), NEW m \in Messages,
         pc[m] = "new", pc'[m] \in Admitted
  PROVE  /\ m = n /\ (ResolveActive(m) \/ ResolveCreate(m))
         /\ key'[m] \in DOMAIN sessions' /\ sessions'[key'[m]].active
<1>1. pc \in [Messages -> States] /\ key \in [Messages -> Keys \cup {None}]
  BY DEF QueueInv
<1> USE <1>1 DEF Admitted, SlotStates
<1>2. CASE ResolveActive(n)
  <2>1. PICK d \in 1..today : \E k \in ActiveOn(d) : PrepareMessage(n) /\ key'[n] = k
    BY <1>2 DEF ResolveActive
  <2>2. m = n /\ UNCHANGED sessions
    BY <1>2, <2>1 DEF ResolveActive, PrepareMessage, Goto, jVars
  <2>3. QED
    BY <1>2, <2>1, <2>2 DEF ActiveOn
<1>3. CASE ResolveCreate(n)
  <2>1. PrepareMessage(n) /\ CreateSession(n, key'[n])
    BY <1>3 DEF ResolveCreate
  <2>2. m = n
    BY <2>1 DEF PrepareMessage, Goto
  <2>3. key'[n] \in DOMAIN sessions' /\ sessions'[key'[n]].active
    BY <2>1, CreateKeeps DEF JournalInv, Callers
  <2>4. QED
    BY <1>3, <2>2, <2>3
<1>4. CASE ResolveNone(n) \/ ResolvePrevious(n)
  BY <1>4 DEF ResolveNone, ResolvePrevious, vars
<1>5. CASE ResolveFails(n)
  BY <1>5 DEF ResolveFails, HandleUnadmitted, Goto
<1>6. QED
  BY <1>2, <1>3, <1>4, <1>5 DEF Resolving

\* No other step of the journal brings a message to the coordinator.
LEMMA OnlyResolving ==
  ASSUME QueueInv, RestTypeOK, [JNext]_allVars,
         NEW m \in Messages, pc[m] = "new", pc'[m] \in Admitted
  PROVE  \E n \in Messages : Resolving(n)
<1> USE DEF Admitted, SlotStates
<1>1. ASSUME NEW n \in Messages, Process(n) \/ Turn(n) PROVE pc'[m] = pc[m]
  BY <1>1, ServedIsResolved, OthersStay
<1>2. ASSUME NEW n \in Messages, PresentAck(n) PROVE pc'[m] = pc[m]
  BY <1>2 DEF PresentAck
<1>3. ASSUME NEW s \in Stops, StopAims(s) PROVE pc'[m] \in {pc[m], "dropped"}
  BY <1>3, StopStays
<1>4. ASSUME NEW s \in Stops, StopResolves(s) PROVE pc' = pc
  BY <1>4 DEF StopResolves, vars
<1>5. ASSUME NEW n \in Messages, Refreshing(n) \/ RefreshTurnEnds(n) PROVE pc' = pc
  BY <1>5 DEF Refreshing, RefreshWanted, RefreshStarts, RefreshSkipped, RefreshCanceled,
     RefreshTurnEnds, RefreshGoto, vars
<1>6. ASSUME NEW c \in Clears, Clear(c) PROVE pc' = pc
  BY <1>6 DEF Clear, ClearLooks, ClearRejected, ClearGoesAhead, Rotate, ClearFails, vars
<1>7. ~(Midnight \/ JCancelLifecycle \/ JTerminated \/ UNCHANGED allVars)
  BY DEF Midnight, JCancelLifecycle, CancelLifecycle, JTerminated, Quiet, allVars, vars
<1>8. QED
  BY <1>1, <1>2, <1>3, <1>4, <1>5, <1>6, <1>7 DEF JNext, JProcess, JTurn, JPresentAck

\* A message gets to the coordinator only with a generation of the table.
LEMMA AdmissionsStep ==
  ASSUME QueueInv, RestTypeOK, JournalInv, [JNext]_allVars,
         NEW m \in Messages, pc'[m] \in Admitted
  PROVE  key'[m] \in DOMAIN sessions'
<1>1. [Next]_vars /\ SessionsGrow
  BY JournalStep, TablesStep
<1>2. CASE pc[m] # "new"
  <2>1. pc[m] \in Admitted /\ key'[m] = key[m]
    BY <1>1, <1>2, AdmittedBefore, ResolvedForGood
  <2>2. QED
    BY <1>1, <2>1 DEF JournalInv, RefreshInv, SessionsGrow, Admitted
<1>3. CASE pc[m] = "new"
  BY <1>3, OnlyResolving, PreparedInTable
<1>4. QED
  BY <1>2, <1>3

\* What RefreshInv says of a message whose refresh is due or runs.
RefreshDue(m) ==
    /\ pc[m] = "registered"
    /\ binding[key[m]] = None
    /\ sessions[key[m]].prev # None

LEMMA DueStays ==
  ASSUME QueueInv, RestTypeOK, JournalInv, [JNext]_allVars, NEW m \in Messages, RefreshDue(m),
         pc'[m] = pc[m], binding'[key[m]] = binding[key[m]]
  PROVE  RefreshDue(m)'
<1>1. [Next]_vars /\ SessionsGrow
  BY JournalStep, TablesStep
<1>2. key'[m] = key[m]
  BY <1>1, ResolvedForGood DEF RefreshDue
<1>3. key[m] \in DOMAIN sessions
  BY DEF RefreshDue, JournalInv, RefreshInv, SlotStates
<1>4. QED
  BY <1>1, <1>2, <1>3 DEF RefreshDue, SessionsGrow

LEMMA RefreshStep ==
  ASSUME QueueInv, RestTypeOK, JournalInv, [JNext]_allVars PROVE RefreshInv'
<1>1. ASSUME NEW m \in Messages, pc'[m] \in Admitted PROVE key'[m] \in DOMAIN sessions'
  BY <1>1, AdmissionsStep
<1>2. SUFFICES ASSUME NEW m \in Messages, refresh'[m] \in {"wanted", "running"}
               PROVE  RefreshDue(m)'
  BY <1>1 DEF RefreshInv, RefreshDue, Admitted
<1>3. refresh \in [Messages -> {"none", "wanted", "running", "over"}]
  BY DEF JournalInv, CommandTypes
<1>4. refresh[m] \in {"wanted", "running"} => RefreshDue(m)
  BY DEF JournalInv, RefreshInv, RefreshDue
<1>5. CASE UNCHANGED <<vars, refresh>>
  BY <1>2, <1>4, <1>5, DueStays DEF vars
<1>6. ASSUME NEW n \in Messages, Resolving(n) PROVE RefreshDue(m)'
  <2>1. UNCHANGED refresh
    BY <1>6 DEF Resolving, ResolveActive, ResolveNone, ResolvePrevious, ResolveCreate,
       ResolveFails, jVars
  <2>2. RefreshDue(m)
    BY <1>2, <1>4, <2>1
  <2>3. pc'[m] = pc[m] /\ UNCHANGED binding
    <3>1. pc \in [Messages -> States] /\ pc[m] = "registered"
      BY <2>2 DEF RefreshDue, QueueInv
    <3>2. CASE PrepareMessage(n) \/ HandleUnadmitted(n)
      BY <3>1, <3>2 DEF PrepareMessage, HandleUnadmitted, Goto, shared
    <3>3. CASE UNCHANGED vars
      BY <3>3 DEF vars, shared
    <3>4. QED
      BY <1>6, <3>2, <3>3 DEF Resolving, ResolveActive, ResolveNone, ResolvePrevious,
         ResolveCreate, ResolveFails
  <2>4. QED
    BY <2>2, <2>3, DueStays
<1>7. ASSUME NEW n \in Messages, Refreshing(n) \/ RefreshTurnEnds(n) PROVE RefreshDue(m)'
  <2>1. UNCHANGED <<pc, key, binding, sessions>>
    BY <1>7 DEF Refreshing, RefreshWanted, RefreshStarts, RefreshSkipped, RefreshCanceled,
       RefreshTurnEnds, RefreshGoto, vars
  <2>2. CASE refresh'[m] = refresh[m]
    BY <1>2, <1>4, <2>1, <2>2 DEF RefreshDue
  <2>3. CASE refresh'[m] # refresh[m]
    <3>1. m = n /\ (RefreshWanted(m) \/ RefreshStarts(m))
      BY <1>2, <1>3, <1>7, <2>3 DEF Refreshing, RefreshWanted, RefreshStarts, RefreshSkipped,
         RefreshCanceled, RefreshTurnEnds, RefreshGoto
    <3>2. RefreshDue(m)
      BY <1>4, <3>1 DEF RefreshWanted, RefreshStarts, RefreshGoto, RefreshDue
    <3>3. QED
      BY <2>1, <3>2 DEF RefreshDue
  <2>4. QED
    BY <2>2, <2>3
<1>8. ASSUME NEW n \in Messages, JProcess(n) \/ JTurn(n) \/ JPresentAck(n) PROVE RefreshDue(m)'
  <2>1. RefreshDue(m) /\ refresh[m] # "over"
    BY <1>2, <1>4, <1>8 DEF JProcess, JTurn, JPresentAck, jVars
  <2>2. CASE n # m
    BY <1>8, <2>1, <2>2, OthersStay, DueStays DEF RefreshDue, JProcess, JTurn, JPresentAck
  <2>3. CASE n = m
    <3>1. ~JProcess(m)
      BY <2>1 DEF JProcess, RefreshDue
    <3>2. ~JTurn(m)
      BY <2>1 DEF JTurn, Turn, TurnSucceeds, TurnFails, Return, Goto, RefreshDue
    <3>3. pc'[m] = pc[m] /\ UNCHANGED binding
      BY <1>8, <2>3, <3>1, <3>2 DEF JPresentAck, PresentAck, shared
    <3>4. QED
      BY <2>1, <3>3, DueStays
  <2>4. QED
    BY <2>2, <2>3
<1>9. ASSUME NEW c \in Clears, Clear(c) PROVE UNCHANGED <<vars, refresh>>
  BY <1>9 DEF Clear, ClearLooks, ClearRejected, ClearGoesAhead, Rotate, ClearFails
<1>10. ASSUME NEW s \in Stops, StopAims(s) PROVE RefreshDue(m)'
  <2>1. RefreshDue(m)
    BY <1>2, <1>4, <1>10 DEF StopAims, jVars
  <2>2. QED
    BY <1>10, <2>1, StopStays, DueStays DEF RefreshDue
<1>11. ASSUME NEW s \in Stops, StopResolves(s) PROVE UNCHANGED <<vars, refresh>>
  BY <1>11 DEF StopResolves
<1>12. CASE Midnight \/ JTerminated \/ UNCHANGED allVars
  BY <1>5, <1>12 DEF Midnight, JTerminated, Quiet, allVars, jVars
<1>13. CASE JCancelLifecycle
  <2>1. UNCHANGED <<pc, binding, refresh>>
    BY <1>13 DEF JCancelLifecycle, CancelLifecycle, jVars
  <2>2. QED
    BY <1>2, <1>4, <2>1, DueStays
<1>14. QED
  BY <1>5, <1>6, <1>7, <1>8, <1>9, <1>10, <1>11, <1>12, <1>13 DEF JNext

-----------------------------------------------------------------------------
(* The theorems of the journal *)

LEMMA JournalInvAlways == JSpec => [](QueueInv /\ RestTypeOK /\ JournalInv)
<1>1. JInit => QueueInv /\ RestTypeOK /\ JournalInv
  BY QueueInvInit, RestTypeInit, JournalInvInit DEF JInit
<1>2. QueueInv /\ RestTypeOK /\ JournalInv /\ [JNext]_allVars
      => QueueInv' /\ RestTypeOK' /\ JournalInv'
  <2> SUFFICES ASSUME QueueInv, RestTypeOK, JournalInv, [JNext]_allVars
               PROVE  QueueInv' /\ RestTypeOK' /\ JournalInv'
    OBVIOUS
  <2>1. QueueInv' /\ RestTypeOK'
    BY JournalStep, QueueInvStep, RestTypeStep
  <2>2. JournalInv'
    BY TablesStep, CommandStep, RefreshStep DEF JournalInv
  <2>3. QED
    BY <2>1, <2>2
<1>3. QED
  BY <1>1, <1>2, PTL DEF JSpec

\* The journal's tables and commands keep their types, and a day with a
\* session has exactly one active generation, however many callers create it
\* and however many clear commands rotate it at once.
THEOREM JTypeOKAlways == JSpec => []JTypeOK
<1>1. JournalInv => JTypeOK
  <2> SUFFICES ASSUME JournalInv PROVE JTypeOK
    OBVIOUS
  <2>1. ASSUME NEW k \in DOMAIN sessions PROVE Cardinality(ActiveOn(k[1])) = 1
    <3>1. PICK j : ActiveOn(k[1]) = {j}
      BY DEF JournalInv, RowsInv
    <3>2. QED
      BY <3>1, FS_Singleton
  <2>2. QED
    BY <2>1 DEF JournalInv, RowsInv, LookupInv, CommandTypes, JTypeOK
<1>2. QED
  BY <1>1, JournalInvAlways, PTL

\* The generations of a day form a chain without gaps, each bridging from the
\* one before it: the transaction of RotateDailySession reads the active
\* generation itself, whatever clear saw before it.
THEOREM GenerationsLinkedAlways == JSpec => []GenerationsLinked
<1>1. JournalInv => GenerationsLinked
  BY DEF JournalInv, RowsInv
<1>2. QED
  BY <1>1, JournalInvAlways, PTL

\* The memory refresh runs only while its generation has no conversation: the
\* goroutine that refreshes holds the slot from the look at the binding on.
THEOREM RefreshBeforeFirstTurnAlways == JSpec => []RefreshBeforeFirstTurn
<1>1. QueueInv /\ JournalInv => RefreshBeforeFirstTurn
  <2> SUFFICES ASSUME QueueInv, JournalInv, NEW m \in Messages, refresh[m] = "running"
               PROVE  /\ binding[key[m]] = None
                      /\ \A n \in Messages : key[n] = key[m] => pc[n] # "turn"
    BY DEF RefreshBeforeFirstTurn
  <2>1. pc[m] = "registered" /\ binding[key[m]] = None
    BY DEF JournalInv, RefreshInv
  <2>2. QED
    BY <2>1 DEF QueueInv, OneHolder, SlotStates
<1>2. QED
  BY <1>1, JournalInvAlways, PTL

\* A message is resolved to a generation that is active at that very step,
\* although the lookup takes up to three calls of the store.
THEOREM ResolvedToActiveAlways == JSpec => ResolvedToActive
<1> DEFINE Resolved(m) == (pc[m] = "new" /\ pc'[m] = "prepared") => sessions'[key'[m]].active
<1>1. QueueInv /\ RestTypeOK /\ JournalInv /\ [JNext]_allVars => \A m \in Messages : Resolved(m)
  <2> SUFFICES ASSUME QueueInv, RestTypeOK, JournalInv, [JNext]_allVars, NEW m \in Messages,
                      pc[m] = "new", pc'[m] = "prepared"
               PROVE  sessions'[key'[m]].active
    OBVIOUS
  <2>1. pc'[m] \in Admitted
    BY DEF Admitted
  <2>2. PICK n \in Messages : Resolving(n)
    BY <2>1, OnlyResolving
  <2>3. QED
    BY <2>1, <2>2, PreparedInTable
<1>2. QED
  BY <1>1, JournalInvAlways, PTL DEF JSpec, ResolvedToActive

-----------------------------------------------------------------------------
(* Clear spares the admitted work *)

\* Whoever has not been admitted was not when clear looked either, and
\* whatever is engaged on the key since then was not admitted at that time.
ClearInv ==
    \A c \in Clears :
        /\ clears[c].ended = clears[c].key => clears[c].cut \subseteq clears[c].outside
        /\ clears[c].pc # "done" => clears[c].ended = None /\ clears[c].cut = {}
        /\ clears[c].pc = "unoccupied" =>
              /\ {m \in Messages : pc[m] \in {"new", "prepared"}} \subseteq clears[c].outside
              /\ Engaged(clears[c].key) \subseteq clears[c].outside

\* What a waiting command relies on survives the steps of the service.
LEMMA OutsideStays ==
  ASSUME QueueInv, [Next]_vars, ClearInv, NEW c \in Clears, clears[c].pc = "unoccupied"
  PROVE  /\ {m \in Messages : pc'[m] \in {"new", "prepared"}} \subseteq clears[c].outside
         /\ \A m \in Messages :
               pc'[m] \in {"waiting"} \cup SlotStates /\ key'[m] = clears[c].key
               => m \in clears[c].outside
<1>1. {m \in Messages : pc'[m] \in {"new", "prepared"}} \subseteq clears[c].outside
  BY OutsideBefore DEF ClearInv
<1>2. ASSUME NEW m \in Messages, pc'[m] \in {"waiting"} \cup SlotStates, key'[m] = clears[c].key
      PROVE  m \in clears[c].outside
  <2>1. CASE pc[m] \in {"new", "prepared"}
    BY <2>1 DEF ClearInv
  <2>2. CASE pc[m] \notin {"new", "prepared"}
    <3>1. pc[m] \in Admitted /\ key[m] = clears[c].key
      BY <1>2, <2>2, AdmittedBefore, ResolvedForGood DEF Admitted
    <3>2. m \in Engaged(clears[c].key)
      BY <2>2, <3>1 DEF Engaged, Holders, Holds, Admitted
    <3>3. QED
      BY <3>2 DEF ClearInv
  <2>3. QED
    BY <2>1, <2>2
<1>3. QED
  BY <1>1, <1>2

LEMMA ClearStep ==
  ASSUME QueueInv, JournalInv, ClearInv, [JNext]_allVars PROVE ClearInv'
<1>1. [Next]_vars
  BY JournalStep
<1>2. clears \in [Clears -> ClearStates]
  BY DEF JournalInv, CommandTypes
<1>3. CASE UNCHANGED clears
  BY <1>1, <1>3, OutsideStays DEF ClearInv, Engaged, Holders, Holds
<1>4. ASSUME NEW c \in Clears, Clear(c) PROVE ClearInv'
  <2>1. UNCHANGED vars
    BY <1>4 DEF Clear, ClearLooks, ClearRejected, ClearGoesAhead, Rotate, ClearFails
  <2>2. UNCHANGED <<pc, key>> /\ \A k : Engaged(k)' = Engaged(k)
    BY <2>1 DEF vars, work, Engaged, Holders, Holds
  <2>3. CASE ClearLooks(c)
    <3>1. \/ UNCHANGED clears
          \/ /\ clears[c].pc = "idle"
             /\ \E k : clears' = [clears EXCEPT ![c].pc = "resolved", ![c].key = k]
      BY <2>3 DEF ClearLooks
    <3>2. QED
      BY <1>2, <1>3, <2>2, <3>1 DEF ClearInv, ClearStates
  <2>4. CASE ClearRejected(c) \/ ClearFails(c)
    BY <1>2, <2>2, <2>4 DEF ClearRejected, ClearFails, ClearInv, ClearStates
  <2>5. CASE ClearGoesAhead(c)
    <3>1. Engaged(clears[c].key) = {}
      BY <2>5 DEF ClearGoesAhead, Busy, Engaged, Holders, Holds, QueueInv, HoldersHaveEntry,
         EntriesRunning, WaitersListed
    <3>2. QED
      BY <1>2, <2>2, <2>5, <3>1 DEF ClearGoesAhead, ClearInv, ClearStates
  <2>6. CASE Rotate(c)
    <3>1. PICK k \in ActiveOn(clears[c].key[1]) :
            clears' = [clears EXCEPT ![c].pc = "done", ![c].ended = k, ![c].cut = Engaged(k)]
      BY <2>6 DEF Rotate
    <3>2. QED
      BY <1>2, <2>2, <3>1 DEF ClearInv, ClearStates
  <2>7. QED
    BY <1>4, <2>3, <2>4, <2>5, <2>6 DEF Clear
<1>5. ASSUME NEW m \in Messages, \/ Resolving(m) \/ Refreshing(m) \/ RefreshTurnEnds(m)
                                 \/ JProcess(m) \/ JTurn(m) \/ JPresentAck(m)
      PROVE  UNCHANGED clears
  BY <1>5 DEF Resolving, ResolveActive, ResolveNone, ResolvePrevious, ResolveCreate,
     ResolveFails, Refreshing, RefreshWanted, RefreshStarts, RefreshSkipped, RefreshCanceled,
     RefreshTurnEnds, RefreshGoto, JProcess, JTurn, JPresentAck, jVars
<1>6. ASSUME NEW s \in Stops, StopResolves(s) \/ StopAims(s) PROVE UNCHANGED clears
  BY <1>6 DEF StopResolves, StopAims, jVars
<1>7. CASE Midnight \/ JCancelLifecycle \/ JTerminated \/ UNCHANGED allVars
  BY <1>3, <1>7 DEF Midnight, JCancelLifecycle, JTerminated, allVars, jVars
<1>8. QED
  BY <1>3, <1>4, <1>5, <1>6, <1>7 DEF JNext

\* A clear command that ends the generation it looked at takes it from no
\* message the coordinator had accepted by then.
THEOREM ClearSparesAdmittedAlways == JSpec => []ClearSparesAdmitted
<1>1. JInit => ClearInv
  BY DEF JInit, NoClear, ClearInv
<1>2. ClearInv => ClearSparesAdmitted
  BY DEF ClearInv, ClearSparesAdmitted
<1>3. QueueInv /\ RestTypeOK /\ JournalInv /\ ClearInv /\ [JNext]_allVars => ClearInv'
  BY ClearStep
<1>4. QED
  BY <1>1, <1>2, <1>3, JournalInvAlways, PTL DEF JSpec

=============================================================================
