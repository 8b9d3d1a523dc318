------------------------ MODULE MessageServiceProofs ------------------------
(***************************************************************************)
(* Proofs about MessageService, for every set of messages, keys and /stop  *)
(* commands and every MaxWaiting.                                          *)
(*                                                                         *)
(* The invariants about the queue speak of pc, key and entries only.  The  *)
(* service's many actions do one of eight things to these three (lemma     *)
(* StepShapes), so that each invariant is proved for eight shapes instead  *)
(* of action by action.                                                    *)
(***************************************************************************)
EXTENDS MessageService, TLAPS

-----------------------------------------------------------------------------
(* The inductive invariant of the queue *)

KeysKnown == \A m \in Messages :
    pc[m] \in {"prepared", "waiting"} \cup SlotStates => key[m] \in Keys

\* Whatever is on a waiting list waits, on that key, and is listed once ...
ListedWait == \A k \in DOMAIN entries : \A i \in 1..Len(entries[k].waiting) :
    pc[entries[k].waiting[i]] = "waiting" /\ key[entries[k].waiting[i]] = k

ListedOnce == \A k \in DOMAIN entries : \A i, j \in 1..Len(entries[k].waiting) :
    entries[k].waiting[i] = entries[k].waiting[j] => i = j

\* ... and whatever waits is on the list.
WaitersListed == \A m \in Messages : pc[m] = "waiting" =>
    /\ key[m] \in DOMAIN entries
    /\ \E i \in 1..Len(entries[key[m]].waiting) : entries[key[m]].waiting[i] = m

\* A key has an entry exactly while one goroutine holds its slot.
OneHolder == \A m, n \in Messages :
    pc[m] \in SlotStates /\ pc[n] \in SlotStates /\ key[m] = key[n] => m = n

HoldersHaveEntry == \A m \in Messages : pc[m] \in SlotStates => key[m] \in DOMAIN entries

EntriesRunning == \A k \in DOMAIN entries : entries[k].running

QueueInv ==
    /\ QueueTypeOK
    /\ pc \in [Messages -> States]
    /\ key \in [Messages -> Keys \cup {None}]
    /\ KeysKnown
    /\ ListedWait
    /\ ListedOnce
    /\ WaitersListed
    /\ OneHolder
    /\ HoldersHaveEntry
    /\ EntriesRunning
    /\ EveryEntryOwned

-----------------------------------------------------------------------------
(* The eight shapes of a step *)

\* A message that neither waits nor holds a slot is refused or answered.
Aside(m) ==
    /\ pc[m] \in {"new", "prepared", "responding"}
    /\ \E to \in {"responding", "done"} : pc' = [pc EXCEPT ![m] = to]
    /\ UNCHANGED <<entries, key>>

Resolve(m) ==
    /\ pc[m] = "new"
    /\ pc' = [pc EXCEPT ![m] = "prepared"]
    /\ \E k \in Keys : key' = [key EXCEPT ![m] = k]
    /\ UNCHANGED entries

Seize(m) ==
    /\ pc[m] = "prepared"
    /\ pc' = [pc EXCEPT ![m] = "claimed"]
    /\ AdmitNow(key[m])
    /\ UNCHANGED key

LineUp(m) ==
    /\ pc[m] = "prepared"
    /\ pc' = [pc EXCEPT ![m] = "waiting"]
    /\ AdmitQueued(key[m], m)
    /\ UNCHANGED key

\* The holder of a slot goes on.
GoOn(m) ==
    /\ pc[m] \in SlotStates
    /\ \E to \in SlotStates : pc' = [pc EXCEPT ![m] = to]
    /\ UNCHANGED <<entries, key>>

HandOver(m) ==
    /\ pc[m] = "completing"
    /\ CompleteNext(key[m])
    /\ \E to \in {"done", "responding"} :
          pc' = [pc EXCEPT ![m] = to, ![Head(Waiting(key[m]))] = "claimed"]
    /\ UNCHANGED key

GiveUp(m) ==
    /\ pc[m] = "completing"
    /\ CompleteEmpty(key[m])
    /\ \E to \in {"done", "responding"} : pc' = [pc EXCEPT ![m] = to]
    /\ UNCHANGED key

Sweep(k) ==
    /\ DropQueued(k)
    /\ pc' = [m \in Messages |->
                IF m \in {Waiting(k)[i] : i \in 1..Len(Waiting(k))} THEN "dropped" ELSE pc[m]]
    /\ UNCHANGED key

Shape ==
    \/ \E m \in Messages : \/ Aside(m) \/ Resolve(m) \/ Seize(m) \/ LineUp(m)
                           \/ GoOn(m) \/ HandOver(m) \/ GiveUp(m)
    \/ \E k \in Keys : Sweep(k)
    \/ UNCHANGED <<entries, pc, key>>

\* Every step of the service has one of the shapes.
LEMMA StepShapes == [Next]_vars => Shape
<1> SUFFICES ASSUME [Next]_vars PROVE Shape
  OBVIOUS
<1> USE DEF Shape, work, shared, Goto, SlotStates
<1>1. ASSUME NEW m \in Messages, Arrive(m) PROVE Shape
  BY <1>1 DEF Arrive, HandleUnadmitted, PrepareMessage, Aside, Resolve
<1>2. ASSUME NEW m \in Messages, HandleExecuteNow(m) PROVE Shape
  BY <1>2 DEF HandleExecuteNow, Seize
<1>3. ASSUME NEW m \in Messages, HandleQueued(m) PROVE Shape
  BY <1>3 DEF HandleQueued, LineUp
<1>4. ASSUME NEW m \in Messages, HandleQueueFull(m) PROVE Shape
  BY <1>4 DEF HandleQueueFull, AdmitQueueFull, Aside
<1>5. ASSUME NEW m \in Messages, RegisterInFlight(m) PROVE Shape
  BY <1>5 DEF RegisterInFlight, GoOn
<1>6. ASSUME NEW m \in Messages, NEW from \in SlotStates, NEW o, Return(m, from, o)
      PROVE  Shape
  BY <1>6 DEF Return, GoOn
<1>7. ASSUME NEW m \in Messages, SettingUp(m) \/ Loading(m) PROVE Shape
  BY <1>6, <1>7 DEF SettingUp, SetUp, SetUpRefused, SetUpFails, Loading, StartTurn,
                    LoadBindingFails, GoOn
<1>8. ASSUME NEW m \in Messages, Turn(m) \/ TurnCanceled(m) PROVE Shape
  BY <1>6, <1>8 DEF Turn, TurnSucceeds, TurnFails, TurnCanceled, GoOn
<1>9. ASSUME NEW m \in Messages, Persisting(m) PROVE Shape
  BY <1>6, <1>9 DEF Persisting, PersistBinding, PersistFails, GoOn
<1>10. ASSUME NEW m \in Messages, Unregister(m) PROVE Shape
  BY <1>10 DEF Unregister, GoOn
<1>11. ASSUME NEW m \in Messages, Delivering(m) PROVE Shape
  BY <1>11 DEF Delivering, DropDeferred, CheckDeferred, SendDeferred, GoOn
<1>12. ASSUME NEW m \in Messages, CompleteAndDrain(m) PROVE Shape
  BY <1>12 DEF CompleteAndDrain, AfterComplete, HandOver
<1>13. ASSUME NEW m \in Messages, CompleteAndRelease(m) PROVE Shape
  BY <1>13 DEF CompleteAndRelease, AfterComplete, GiveUp
<1>14. ASSUME NEW m \in Messages, Responding(m) PROVE Shape
  BY <1>14 DEF Responding, Respond, RespondFails, Aside
<1>15. ASSUME NEW m \in Messages, PresentAck(m) PROVE Shape
  BY <1>15 DEF PresentAck
<1>16. ASSUME NEW s \in Stops, Stopping(s) PROVE Shape
  BY <1>16 DEF Stopping, StopUnresolved, StopDropQueued, StopInFlight, Sweep
<1>17. CASE CancelLifecycle \/ Quiet \/ UNCHANGED vars
  BY <1>17 DEF CancelLifecycle, Quiet, vars
<1>18. QED
  BY <1>1, <1>2, <1>3, <1>4, <1>5, <1>7, <1>8, <1>9, <1>10, <1>11, <1>12, <1>13,
     <1>14, <1>15, <1>16, <1>17 DEF Next, Process, Admission, Completing

-----------------------------------------------------------------------------
(* Each shape keeps the queue's invariant *)

\* With no entries and every message new, nothing can disagree.
LEMMA QueueInvInit == Init => QueueInv
<1> SUFFICES ASSUME Init PROVE QueueInv
  OBVIOUS
<1>1. QueueTypeOK /\ DOMAIN entries = {}
  BY DEF Init, QueueInit, QueueTypeOK
<1>2. /\ pc \in [Messages -> States]
      /\ key \in [Messages -> Keys \cup {None}]
      /\ \A m \in Messages : pc[m] = "new"
  BY DEF Init, States
<1>3. QED
  BY <1>1, <1>2 DEF QueueInv, KeysKnown, ListedWait, ListedOnce, WaitersListed, OneHolder,
     HoldersHaveEntry, EntriesRunning, EveryEntryOwned, SlotStates

\* Answering or refusing a message touches neither lists nor slots.
LEMMA AsideKeeps == ASSUME NEW m \in Messages, QueueInv, Aside(m) PROVE QueueInv'
BY DEF Aside, QueueInv, QueueTypeOK, KeysKnown, ListedWait, ListedOnce, WaitersListed,
   OneHolder, HoldersHaveEntry, EntriesRunning, EveryEntryOwned, Holders, Holds,
   SlotStates, States, Ended, Entry

\* A holder that goes on stays a holder.
LEMMA GoOnKeeps == ASSUME NEW m \in Messages, QueueInv, GoOn(m) PROVE QueueInv'
BY DEF GoOn, QueueInv, QueueTypeOK, KeysKnown, ListedWait, ListedOnce, WaitersListed,
   OneHolder, HoldersHaveEntry, EntriesRunning, EveryEntryOwned, Holders, Holds,
   SlotStates, States, Ended, Entry

\* A message that is only prepared is on no list and holds nothing.
LEMMA ResolveKeeps == ASSUME NEW m \in Messages, QueueInv, Resolve(m) PROVE QueueInv'
BY DEF Resolve, QueueInv, QueueTypeOK, KeysKnown, ListedWait, ListedOnce, WaitersListed,
   OneHolder, HoldersHaveEntry, EntriesRunning, EveryEntryOwned, Holders, Holds,
   SlotStates, States, Ended, Entry

\* A free key has no entry, hence no holder and nobody listed: its newcomer is
\* the only holder, and its list starts empty.
LEMMA SeizeKeeps == ASSUME NEW m \in Messages, QueueInv, Seize(m) PROVE QueueInv'
<1>1. key[m] \in Keys /\ key[m] \notin DOMAIN entries
  BY DEF Seize, AdmitNow, Running, QueueInv, KeysKnown, EntriesRunning
<1>2. /\ DOMAIN entries' = DOMAIN entries \cup {key[m]}
      /\ entries'[key[m]] = [running |-> TRUE, waiting |-> <<>>]
      /\ \A k \in DOMAIN entries : entries'[k] = entries[k]
  BY <1>1 DEF Seize, AdmitNow, Put
<1>3. /\ pc[m] = "prepared" /\ pc' = [pc EXCEPT ![m] = "claimed"] /\ key' = key
      /\ pc' \in [Messages -> States] /\ key' \in [Messages -> Keys \cup {None}]
  BY DEF Seize, QueueInv, States, SlotStates
<1>4. /\ Len(entries'[key[m]].waiting) = 0
      /\ entries'[key[m]] \in Entry
  BY <1>2 DEF Entry
<1>5. QueueTypeOK'
  <2>1. DOMAIN entries' \subseteq Keys
    BY <1>1, <1>2 DEF QueueInv, QueueTypeOK
  <2>2. ASSUME NEW k \in DOMAIN entries'
        PROVE  entries'[k] \in Entry /\ Len(entries'[k].waiting) <= MaxWaiting
    <3>1. CASE k = key[m]
      BY <1>4, <3>1, MaxWaitingAssumption
    <3>2. CASE k # key[m]
      BY <1>2, <3>2 DEF QueueInv, QueueTypeOK
    <3>3. QED
      BY <3>1, <3>2
  <2>3. QED
    BY <2>1, <2>2 DEF QueueTypeOK
<1>6. KeysKnown'
  BY <1>1, <1>3 DEF QueueInv, KeysKnown
<1>7. ListedWait' /\ ListedOnce'
  \* The new entry lists nobody, and who is listed in another is not m.
  <2>1. ASSUME NEW k \in DOMAIN entries', NEW i \in 1..Len(entries'[k].waiting)
        PROVE  /\ k \in DOMAIN entries /\ entries'[k] = entries[k]
               /\ entries[k].waiting[i] \in Messages
    <3>1. k # key[m]
      BY <1>4, <2>1
    <3>2. k \in DOMAIN entries /\ entries'[k] = entries[k]
      BY <1>2, <3>1
    <3>3. entries[k].waiting \in Seq(Messages)
      BY <3>2 DEF QueueInv, QueueTypeOK, Entry
    <3>4. QED
      BY <2>1, <3>2, <3>3
  <2>2. ListedWait'
    BY <1>3, <2>1 DEF QueueInv, ListedWait
  <2>3. ListedOnce'
    BY <2>1 DEF QueueInv, ListedOnce
  <2>4. QED
    BY <2>2, <2>3
<1>8. WaitersListed'
  BY <1>1, <1>2, <1>3 DEF QueueInv, WaitersListed
<1>9. OneHolder' /\ HoldersHaveEntry'
  BY <1>1, <1>2, <1>3 DEF QueueInv, OneHolder, HoldersHaveEntry, SlotStates
<1>10. EntriesRunning'
  BY <1>2 DEF QueueInv, EntriesRunning
<1>11. EveryEntryOwned'
  <2> SUFFICES ASSUME NEW k \in DOMAIN entries' PROVE \E h \in Messages : Holds(h, k)'
    BY DEF EveryEntryOwned, Holders
  <2>1. CASE k = key[m]
    BY <1>3, <2>1 DEF Holds, SlotStates, QueueInv
  <2>2. CASE k # key[m]
    <3>1. PICK h \in Messages : Holds(h, k)
      BY <1>2, <2>2 DEF QueueInv, EveryEntryOwned, Holders
    <3>2. Holds(h, k)'
      BY <1>3, <3>1 DEF Holds, SlotStates, QueueInv
    <3>3. QED
      BY <3>2
  <2>3. QED
    BY <2>1, <2>2
<1>12. QED
  BY <1>3, <1>5, <1>6, <1>7, <1>8, <1>9, <1>10, <1>11 DEF QueueInv

\* The newcomer was on no list, since it did not wait, and is now last on one.
LEMMA LineUpKeeps == ASSUME NEW m \in Messages, QueueInv, LineUp(m) PROVE QueueInv'
<1> DEFINE old == entries[key[m]].waiting
           new == entries'[key[m]].waiting
<1>1. key[m] \in DOMAIN entries /\ Len(old) < MaxWaiting
  BY DEF LineUp, AdmitQueued, Running
<1>2. old \in Seq(Messages) /\ entries[key[m]] \in Entry
  BY <1>1 DEF QueueInv, QueueTypeOK, Entry
<1>3. /\ DOMAIN entries' = DOMAIN entries
      /\ entries'[key[m]] = [entries[key[m]] EXCEPT !.waiting = Append(old, m)]
      /\ \A k \in DOMAIN entries : k # key[m] => entries'[k] = entries[k]
  BY <1>1 DEF LineUp, AdmitQueued
<1>4. new = Append(old, m) /\ entries'[key[m]].running = entries[key[m]].running
  BY <1>2, <1>3 DEF Entry
<1>5. /\ new \in Seq(Messages)
      /\ Len(new) = Len(old) + 1
      /\ new[Len(old) + 1] = m
      /\ \A i \in 1..Len(old) : new[i] = old[i]
      /\ Len(old) \in Nat
  BY <1>2, <1>4
<1>6. /\ pc[m] = "prepared" /\ pc' = [pc EXCEPT ![m] = "waiting"] /\ key' = key
      /\ pc' \in [Messages -> States] /\ key' \in [Messages -> Keys \cup {None}]
  BY DEF LineUp, QueueInv, States
<1>7. \A i \in 1..Len(old) : old[i] # m
  BY <1>1, <1>6 DEF QueueInv, ListedWait
<1>8. QueueTypeOK'
  BY <1>1, <1>2, <1>3, <1>4, <1>5, MaxWaitingAssumption DEF QueueInv, QueueTypeOK, Entry
<1>9. KeysKnown'
  BY <1>6 DEF QueueInv, KeysKnown
<1>10. ListedWait'
  <2> SUFFICES ASSUME NEW k \in DOMAIN entries, NEW i \in 1..Len(entries'[k].waiting)
               PROVE  pc'[entries'[k].waiting[i]] = "waiting" /\ key'[entries'[k].waiting[i]] = k
    BY <1>3 DEF ListedWait
  <2>1. CASE k # key[m]
    <3>1. i \in 1..Len(entries[k].waiting) /\ entries'[k].waiting[i] = entries[k].waiting[i]
      BY <1>3, <2>1
    <3>2. entries[k].waiting[i] \in Messages
      BY <3>1 DEF QueueInv, QueueTypeOK, Entry
    <3>3. QED
      BY <1>6, <3>1, <3>2 DEF QueueInv, ListedWait
  <2>2. CASE k = key[m] /\ i = Len(old) + 1
    BY <1>5, <1>6, <2>2 DEF QueueInv
  <2>3. CASE k = key[m] /\ i # Len(old) + 1
    <3>1. i \in 1..Len(old) /\ new[i] = old[i]
      BY <1>5, <2>3
    <3>2. old[i] \in Messages
      BY <1>2, <3>1
    <3>3. QED
      BY <1>1, <1>6, <2>3, <3>1, <3>2 DEF QueueInv, ListedWait
  <2>4. QED
    BY <2>1, <2>2, <2>3
<1>11. ListedOnce'
  <2> SUFFICES ASSUME NEW k \in DOMAIN entries, NEW i \in 1..Len(entries'[k].waiting),
                      NEW j \in 1..Len(entries'[k].waiting),
                      entries'[k].waiting[i] = entries'[k].waiting[j]
               PROVE  i = j
    BY <1>3 DEF ListedOnce
  <2>1. CASE k # key[m]
    BY <1>3, <2>1 DEF QueueInv, ListedOnce
  <2>2. CASE k = key[m]
    <3>1. i \in 1..Len(new) /\ j \in 1..Len(new) /\ new[i] = new[j]
      BY <2>2
    <3> HIDE DEF old, new
    <3>2. CASE i = Len(old) + 1 \/ j = Len(old) + 1
      BY <1>5, <1>7, <3>1, <3>2
    <3>3. CASE i # Len(old) + 1 /\ j # Len(old) + 1
      <4>1. i \in 1..Len(old) /\ j \in 1..Len(old) /\ old[i] = old[j]
        BY <1>5, <3>1, <3>3
      <4>2. QED
        BY <1>1, <4>1 DEF QueueInv, ListedOnce, old
    <3>4. QED
      BY <3>2, <3>3
  <2>3. QED
    BY <2>1, <2>2
<1>12. WaitersListed'
  <2> SUFFICES ASSUME NEW n \in Messages, pc'[n] = "waiting"
               PROVE  /\ key[n] \in DOMAIN entries
                      /\ \E i \in 1..Len(entries'[key[n]].waiting) : entries'[key[n]].waiting[i] = n
    BY <1>3, <1>6 DEF WaitersListed
  <2>1. CASE n = m
    BY <1>1, <1>5, <2>1
  <2>2. CASE n # m
    <3>1. PICK i \in 1..Len(entries[key[n]].waiting) : entries[key[n]].waiting[i] = n
      BY <1>6, <2>2 DEF QueueInv, WaitersListed
    <3>2. key[n] \in DOMAIN entries
      BY <1>6, <2>2 DEF QueueInv, WaitersListed
    <3>3. CASE key[n] = key[m]
      <4>1. i \in 1..Len(old) /\ old[i] = n
        BY <3>1, <3>3
      <4>2. i \in 1..Len(new) /\ new[i] = n
        BY <1>5, <4>1
      <4>3. QED
        BY <3>2, <3>3, <4>2
    <3>4. CASE key[n] # key[m]
      BY <1>3, <3>1, <3>2, <3>4
    <3>5. QED
      BY <3>3, <3>4
  <2>3. QED
    BY <2>1, <2>2
<1>13. OneHolder' /\ HoldersHaveEntry'
  BY <1>3, <1>6 DEF QueueInv, OneHolder, HoldersHaveEntry, SlotStates
<1>14. EntriesRunning'
  BY <1>1, <1>3, <1>4 DEF QueueInv, EntriesRunning
<1>15. EveryEntryOwned'
  BY <1>3, <1>6 DEF QueueInv, EveryEntryOwned, Holders, Holds, SlotStates
<1>16. QED
  BY <1>6, <1>8, <1>9, <1>10, <1>11, <1>12, <1>13, <1>14, <1>15 DEF QueueInv

\* The head of the list stops waiting and inherits the slot of the message that
\* leaves it.
LEMMA HandOverKeeps == ASSUME NEW m \in Messages, QueueInv, HandOver(m) PROVE QueueInv'
<1> DEFINE old == entries[key[m]].waiting
           new == entries'[key[m]].waiting
           next == Head(old)
<1>1. key[m] \in DOMAIN entries /\ old # <<>> /\ Waiting(key[m]) = old
  BY DEF HandOver, CompleteNext, Waiting
<1>2. old \in Seq(Messages) /\ entries[key[m]] \in Entry
  BY <1>1 DEF QueueInv, QueueTypeOK, Entry
<1>3. /\ DOMAIN entries' = DOMAIN entries
      /\ entries'[key[m]] = [entries[key[m]] EXCEPT !.waiting = Tail(old)]
      /\ \A k \in DOMAIN entries : k # key[m] => entries'[k] = entries[k]
  BY <1>1 DEF HandOver, CompleteNext
<1>4. new = Tail(old) /\ entries'[key[m]].running = entries[key[m]].running
  BY <1>2, <1>3 DEF Entry
<1>5. /\ new \in Seq(Messages)
      /\ Len(old) \in Nat /\ Len(old) >= 1
      /\ Len(new) = Len(old) - 1
      /\ \A i \in 1..Len(new) : new[i] = old[i + 1]
      /\ next = old[1] /\ next \in Messages
  BY <1>1, <1>2, <1>4
<1>6. pc[next] = "waiting" /\ key[next] = key[m] /\ next # m
  BY <1>1, <1>5 DEF HandOver, QueueInv, ListedWait
<1>7. PICK to \in {"done", "responding"} : pc' = [pc EXCEPT ![m] = to, ![next] = "claimed"]
  BY <1>1 DEF HandOver
<1>8. /\ pc[m] = "completing" /\ pc'[m] = to /\ pc'[next] = "claimed"
      /\ \A n \in Messages : n # m /\ n # next => pc'[n] = pc[n]
      /\ key' = key
      /\ pc' \in [Messages -> States]
  BY <1>5, <1>6, <1>7 DEF HandOver, QueueInv, States, SlotStates, Ended
<1>9. QueueTypeOK'
  <2>1. DOMAIN entries' \subseteq Keys
    BY <1>3 DEF QueueInv, QueueTypeOK
  <2>2. entries'[key[m]] \in Entry
    BY <1>2, <1>3, <1>5 DEF Entry
  <2>3. Len(old) <= MaxWaiting
    BY <1>1 DEF QueueInv, QueueTypeOK
  <2>4. Len(new) <= MaxWaiting
    BY <1>5, <2>3, MaxWaitingAssumption
  <2>5. \A k \in DOMAIN entries : k # key[m] =>
           entries'[k] \in Entry /\ Len(entries'[k].waiting) <= MaxWaiting
    BY <1>3 DEF QueueInv, QueueTypeOK
  <2>6. QED
    BY <1>3, <2>1, <2>2, <2>4, <2>5 DEF QueueTypeOK
<1>10. KeysKnown'
  BY <1>5, <1>6, <1>8 DEF QueueInv, KeysKnown
<1>11. ListedWait'
  <2> SUFFICES ASSUME NEW k \in DOMAIN entries, NEW i \in 1..Len(entries'[k].waiting)
               PROVE  pc'[entries'[k].waiting[i]] = "waiting" /\ key'[entries'[k].waiting[i]] = k
    BY <1>3 DEF ListedWait
  <2>1. CASE k # key[m]
    <3> DEFINE w == entries[k].waiting[i]
    <3>1. i \in 1..Len(entries[k].waiting) /\ entries'[k].waiting[i] = w
      BY <1>3, <2>1
    <3>2. w \in Messages /\ pc[w] = "waiting" /\ key[w] = k
      BY <3>1 DEF QueueInv, QueueTypeOK, Entry, ListedWait
    <3>3. w # m /\ w # next
      BY <1>6, <1>8, <2>1, <3>2
    <3>4. QED
      BY <1>8, <3>1, <3>2, <3>3
  <2>2. CASE k = key[m]
    <3> DEFINE w == old[i + 1]
    <3>1. i + 1 \in 1..Len(old) /\ new[i] = w /\ i + 1 # 1
      <4>1. i \in 1..Len(new)
        BY <2>2
      <4> HIDE DEF old, new
      <4>2. QED
        BY <1>5, <4>1
    <3>2. w \in Messages /\ pc[w] = "waiting" /\ key[w] = k
      BY <1>1, <1>2, <2>2, <3>1 DEF QueueInv, ListedWait
    <3>3. w # next
      BY <1>1, <1>5, <3>1 DEF QueueInv, ListedOnce
    <3>4. QED
      BY <1>8, <2>2, <3>1, <3>2, <3>3
  <2>3. QED
    BY <2>1, <2>2
<1>12. ListedOnce'
  <2> SUFFICES ASSUME NEW k \in DOMAIN entries, NEW i \in 1..Len(entries'[k].waiting),
                      NEW j \in 1..Len(entries'[k].waiting),
                      entries'[k].waiting[i] = entries'[k].waiting[j]
               PROVE  i = j
    BY <1>3 DEF ListedOnce
  <2>1. CASE k # key[m]
    BY <1>3, <2>1 DEF QueueInv, ListedOnce
  <2>2. CASE k = key[m]
    <3>1. i \in 1..Len(new) /\ j \in 1..Len(new) /\ new[i] = new[j]
      BY <2>2
    <3>2. i + 1 \in 1..Len(old) /\ j + 1 \in 1..Len(old) /\ old[i + 1] = old[j + 1]
      <4> HIDE DEF old, new
      <4>1. QED
        BY <1>5, <3>1
    <3>3. i + 1 = j + 1
      BY <1>1, <3>2 DEF QueueInv, ListedOnce
    <3>4. QED
      BY <3>3
  <2>3. QED
    BY <2>1, <2>2
<1>13. WaitersListed'
  <2> SUFFICES ASSUME NEW n \in Messages, pc'[n] = "waiting"
               PROVE  /\ key[n] \in DOMAIN entries
                      /\ \E i \in 1..Len(entries'[key[n]].waiting) : entries'[key[n]].waiting[i] = n
    BY <1>3, <1>8 DEF WaitersListed
  <2>1. n # m /\ n # next /\ pc[n] = "waiting"
    BY <1>8
  <2>2. key[n] \in DOMAIN entries
    BY <2>1 DEF QueueInv, WaitersListed
  <2>3. PICK i \in 1..Len(entries[key[n]].waiting) : entries[key[n]].waiting[i] = n
    BY <2>1 DEF QueueInv, WaitersListed
  <2>4. CASE key[n] # key[m]
    BY <1>3, <2>2, <2>3, <2>4
  <2>5. CASE key[n] = key[m]
    <3>1. i # 1
      BY <1>5, <2>1, <2>3, <2>5
    <3>2. i - 1 \in 1..Len(new) /\ new[i - 1] = n
      BY <1>5, <2>3, <2>5, <3>1
    <3>3. QED
      BY <2>2, <2>5, <3>2
  <2>6. QED
    BY <2>4, <2>5
<1>14. OneHolder'
  BY <1>5, <1>6, <1>8 DEF QueueInv, OneHolder, SlotStates
<1>15. HoldersHaveEntry' /\ EntriesRunning'
  BY <1>1, <1>3, <1>4, <1>5, <1>6, <1>8 DEF QueueInv, HoldersHaveEntry, EntriesRunning, SlotStates
<1>16. EveryEntryOwned'
  <2> SUFFICES ASSUME NEW k \in DOMAIN entries PROVE \E h \in Messages : Holds(h, k)'
    BY <1>3 DEF EveryEntryOwned, Holders
  <2>1. CASE k = key[m]
    BY <1>5, <1>6, <1>8, <2>1 DEF Holds, SlotStates
  <2>2. CASE k # key[m]
    <3>1. PICK h \in Messages : Holds(h, k)
      BY DEF QueueInv, EveryEntryOwned, Holders
    <3>2. h # m /\ h # next
      BY <1>6, <2>2, <3>1 DEF Holds
    <3>3. Holds(h, k)'
      BY <1>8, <3>1, <3>2 DEF Holds
    <3>4. QED
      BY <3>3
  <2>3. QED
    BY <2>1, <2>2
<1>17. QED
  BY <1>8, <1>9, <1>10, <1>11, <1>12, <1>13, <1>14, <1>15, <1>16 DEF QueueInv

\* The only holder goes and takes the entry with it; nobody is listed there.
LEMMA GiveUpKeeps == ASSUME NEW m \in Messages, QueueInv, GiveUp(m) PROVE QueueInv'
BY DEF GiveUp, CompleteEmpty, Waiting, Delete, Restrict, QueueInv, QueueTypeOK, KeysKnown,
       ListedWait, ListedOnce, WaitersListed,
   OneHolder, HoldersHaveEntry, EntriesRunning, EveryEntryOwned, Holders, Holds,
   SlotStates, States, Ended, Entry

\* Exactly the messages that waited on the key are dropped.
LEMMA SweepKeeps == ASSUME NEW k \in Keys, QueueInv, Sweep(k) PROVE QueueInv'
<1> DEFINE list == {Waiting(k)[i] : i \in 1..Len(Waiting(k))}
<1>1. CASE k \notin DOMAIN entries
  <2>1. list = {} /\ entries' = entries
    BY <1>1 DEF Waiting, Sweep, DropQueued
  <2>2. pc' = pc /\ key' = key
    BY <2>1 DEF Sweep, QueueInv
  <2>3. QED
    BY <2>1, <2>2 DEF QueueInv, QueueTypeOK, KeysKnown, ListedWait, ListedOnce, WaitersListed,
       OneHolder, HoldersHaveEntry, EntriesRunning, EveryEntryOwned, Holders, Holds
<1>2. CASE k \in DOMAIN entries
  <2>1. /\ Waiting(k) = entries[k].waiting /\ entries[k] \in Entry
        /\ entries' = [entries EXCEPT ![k].waiting = <<>>]
    BY <1>2 DEF Waiting, Sweep, DropQueued, QueueInv, QueueTypeOK
  <2>2. /\ DOMAIN entries' = DOMAIN entries
        /\ entries'[k].waiting = <<>> /\ Len(entries'[k].waiting) = 0
        /\ entries'[k] \in Entry /\ entries'[k].running = entries[k].running
        /\ \A x \in DOMAIN entries : x # k => entries'[x] = entries[x]
    <3>1. <<>> \in Seq(Messages) /\ Len(<<>>) = 0
      OBVIOUS
    <3>2. entries'[k] = [entries[k] EXCEPT !.waiting = <<>>] /\ DOMAIN entries' = DOMAIN entries
      BY <1>2, <2>1
    <3>3. /\ entries'[k].waiting = <<>> /\ entries'[k].running = entries[k].running
          /\ entries'[k] \in Entry
      BY <2>1, <3>1, <3>2 DEF Entry
    <3>4. \A x \in DOMAIN entries : x # k => entries'[x] = entries[x]
      BY <2>1
    <3>5. QED
      BY <3>1, <3>2, <3>3, <3>4
  <2>3. \A n \in list : pc[n] = "waiting" /\ key[n] = k
    BY <1>2, <2>1 DEF QueueInv, ListedWait
  <2>4. /\ \A n \in Messages : pc'[n] = IF n \in list THEN "dropped" ELSE pc[n]
        /\ key' = key
        /\ pc' \in [Messages -> States]
    BY DEF Sweep, QueueInv, States, Ended
  <2>5. \A n \in Messages : pc[n] = "waiting" /\ key[n] = k => n \in list
    BY <2>1 DEF QueueInv, WaitersListed
  <2>6. QueueTypeOK'
    BY <2>2, MaxWaitingAssumption DEF QueueInv, QueueTypeOK
  <2>7. KeysKnown'
    BY <2>4 DEF QueueInv, KeysKnown, SlotStates
  <2>8. ListedWait' /\ ListedOnce'
    <3>1. \A x \in DOMAIN entries : \A i \in 1..Len(entries'[x].waiting) :
             /\ x # k
             /\ entries'[x] = entries[x]
             /\ entries[x].waiting[i] \in Messages
      BY <2>2 DEF QueueInv, QueueTypeOK, Entry
    <3>2. QED
      BY <2>2, <2>3, <2>4, <3>1 DEF QueueInv, ListedWait, ListedOnce
  <2>9. WaitersListed'
    BY <2>2, <2>4, <2>5 DEF QueueInv, WaitersListed
  <2>10. \A n \in Messages : pc'[n] \in SlotStates <=> pc[n] \in SlotStates
    BY <2>3, <2>4 DEF SlotStates
  <2>11. OneHolder' /\ HoldersHaveEntry' /\ EntriesRunning'
    BY <2>2, <2>4, <2>10 DEF QueueInv, OneHolder, HoldersHaveEntry, EntriesRunning
  <2>12. EveryEntryOwned'
    BY <2>2, <2>4, <2>10 DEF QueueInv, EveryEntryOwned, Holders, Holds
  <2>13. key' \in [Messages -> Keys \cup {None}]
    BY <2>4 DEF QueueInv
  <2>14. QED
    BY <2>4, <2>6, <2>7, <2>8, <2>9, <2>11, <2>12, <2>13 DEF QueueInv
<1>3. QED
  BY <1>1, <1>2

\* A step that touches none of entries, pc and key changes nothing here.
LEMMA IdleKeeps == ASSUME QueueInv, UNCHANGED <<entries, pc, key>> PROVE QueueInv'
BY DEF QueueInv, QueueTypeOK, KeysKnown, ListedWait, ListedOnce, WaitersListed,
   OneHolder, HoldersHaveEntry, EntriesRunning, EveryEntryOwned, Holders, Holds

\* The queue's invariant is inductive.
LEMMA QueueInvStep == QueueInv /\ [Next]_vars => QueueInv'
<1> SUFFICES ASSUME QueueInv, [Next]_vars PROVE QueueInv'
  OBVIOUS
<1>1. Shape
  BY StepShapes
<1>2. QED
  BY <1>1, AsideKeeps, ResolveKeeps, SeizeKeeps, LineUpKeeps, GoOnKeeps, HandOverKeeps,
     GiveUpKeeps, SweepKeeps, IdleKeeps DEF Shape

\* The coordinator, the goroutines that hold slots and the messages that wait
\* agree in every reachable state, whatever is stopped or canceled meanwhile.
THEOREM QueueInvAlways == Spec => []QueueInv
<1>1. QED
  BY QueueInvInit, QueueInvStep, PTL DEF Spec

-----------------------------------------------------------------------------
(* What follows for the runs' invariants *)

\* A conversation never has two Codex turns under way (the slot taken in Admit
\* or inherited in Complete is exclusive).
THEOREM OneTurnPerKeyAlways == Spec => []OneTurnPerKey
<1>1. QueueInv => OneTurnPerKey
  BY DEF QueueInv, OneHolder, OneTurnPerKey, SlotStates
<1>2. QED
  BY <1>1, QueueInvAlways, PTL

\* No entry of the coordinator is left behind by the goroutine it was made for:
\* completeExecution and drainQueue reach Complete on every path.
THEOREM EveryEntryOwnedAlways == Spec => []EveryEntryOwned
<1>1. QueueInv => EveryEntryOwned
  BY DEF QueueInv
<1>2. QED
  BY <1>1, QueueInvAlways, PTL

\* Admit, Complete and DropQueued neither lose nor duplicate queued work.
THEOREM WaitingListsExactAlways == Spec => []WaitingListsExact
<1>1. ASSUME QueueInv PROVE WaitingListsExact
  <2> SUFFICES ASSUME NEW m \in Messages
               PROVE  IF pc[m] = "waiting"
                      THEN /\ key[m] \in Keys
                           /\ \E i \in 1..Len(Waiting(key[m])) :
                                 \A j \in 1..Len(Waiting(key[m])) :
                                    Waiting(key[m])[j] = m <=> j = i
                      ELSE \A k \in Keys : \A i \in 1..Len(Waiting(k)) : Waiting(k)[i] # m
    BY DEF WaitingListsExact
  <2>1. CASE pc[m] = "waiting"
    <3>1. key[m] \in Keys /\ key[m] \in DOMAIN entries
      BY <1>1, <2>1 DEF QueueInv, KeysKnown, WaitersListed
    <3>2. PICK i \in 1..Len(entries[key[m]].waiting) : entries[key[m]].waiting[i] = m
      BY <1>1, <2>1 DEF QueueInv, WaitersListed
    <3>3. \A j \in 1..Len(entries[key[m]].waiting) :
             entries[key[m]].waiting[j] = m <=> j = i
      BY <1>1, <3>1, <3>2 DEF QueueInv, ListedOnce
    <3>4. Waiting(key[m]) = entries[key[m]].waiting
      BY <3>1 DEF Waiting
    <3>5. QED
      BY <2>1, <3>1, <3>2, <3>3, <3>4
  <2>2. CASE pc[m] # "waiting"
    <3>1. ASSUME NEW k \in Keys, NEW i \in 1..Len(Waiting(k)) PROVE Waiting(k)[i] # m
      <4>1. CASE k \in DOMAIN entries
        BY <1>1, <2>2, <3>1, <4>1 DEF Waiting, QueueInv, ListedWait
      <4>2. CASE k \notin DOMAIN entries
        BY <3>1, <4>2 DEF Waiting
      <4>3. QED
        BY <4>1, <4>2
    <3>2. QED
      BY <2>2, <3>1
  <2>3. QED
    BY <2>1, <2>2
<1>2. QED
  BY <1>1, QueueInvAlways, PTL

-----------------------------------------------------------------------------
(* What Complete hands out and DropQueued drops was waiting *)

LEMMA ListedMessagesWait ==
  ASSUME QueueInv, NEW k
  PROVE  \A i \in 1..Len(Waiting(k)) : pc[Waiting(k)[i]] = "waiting"
<1>1. CASE k \in DOMAIN entries
  BY <1>1 DEF Waiting, QueueInv, ListedWait
<1>2. CASE k \notin DOMAIN entries
  BY <1>2 DEF Waiting
<1>3. QED
  BY <1>1, <1>2

LEMMA HeadWaits ==
  ASSUME QueueInv, NEW k, Waiting(k) # <<>>
  PROVE  Head(Waiting(k)) \in Messages /\ pc[Head(Waiting(k))] = "waiting"
<1>1. k \in DOMAIN entries
  BY DEF Waiting
<1>2. Waiting(k) \in Seq(Messages)
  BY <1>1 DEF Waiting, QueueInv, QueueTypeOK, Entry
<1>3. 1 \in 1..Len(Waiting(k)) /\ Head(Waiting(k)) = Waiting(k)[1]
  BY <1>2
<1>4. QED
  BY <1>2, <1>3, ListedMessagesWait

-----------------------------------------------------------------------------
(* What a message never takes back *)

\* A message that was resolved to a key keeps it.
LEMMA ResolvedForGood ==
  ASSUME QueueInv, [Next]_vars, NEW m \in Messages, pc[m] # "new"
  PROVE  pc'[m] # "new" /\ key'[m] = key[m]
<1>1. Shape /\ pc \in [Messages -> States]
  BY StepShapes DEF QueueInv
<1> USE <1>1
<1>2. ASSUME NEW n \in Messages, Aside(n) \/ Seize(n) \/ LineUp(n) \/ GoOn(n) \/ GiveUp(n)
      PROVE  pc'[m] # "new" /\ key'[m] = key[m]
  BY <1>2 DEF Aside, Seize, LineUp, GoOn, GiveUp, SlotStates
<1>3. ASSUME NEW n \in Messages, Resolve(n) PROVE pc'[m] # "new" /\ key'[m] = key[m]
  BY <1>3 DEF Resolve, QueueInv
<1>4. ASSUME NEW n \in Messages, HandOver(n) PROVE pc'[m] # "new" /\ key'[m] = key[m]
  BY <1>4 DEF HandOver
<1>5. ASSUME NEW k \in Keys, Sweep(k) PROVE pc'[m] # "new" /\ key'[m] = key[m]
  BY <1>5 DEF Sweep
<1>6. CASE UNCHANGED <<entries, pc, key>>
  BY <1>6
<1>7. QED
  BY <1>2, <1>3, <1>4, <1>5, <1>6 DEF Shape

\* No message goes back to before its admission.
LEMMA OutsideBefore ==
  ASSUME QueueInv, [Next]_vars, NEW m \in Messages, pc'[m] \in {"new", "prepared"}
  PROVE  pc[m] \in {"new", "prepared"}
<1>1. Shape /\ pc \in [Messages -> States]
  BY StepShapes DEF QueueInv
<1> USE <1>1
<1>2. ASSUME NEW n \in Messages, Aside(n) \/ Resolve(n) \/ Seize(n) \/ LineUp(n) \/ GoOn(n)
             \/ HandOver(n) \/ GiveUp(n)
      PROVE  pc[m] \in {"new", "prepared"}
  BY <1>2 DEF Aside, Resolve, Seize, LineUp, GoOn, HandOver, GiveUp, SlotStates
<1>3. ASSUME NEW k \in Keys, Sweep(k) PROVE pc[m] \in {"new", "prepared"}
  BY <1>3 DEF Sweep
<1>4. CASE UNCHANGED <<entries, pc, key>>
  BY <1>4
<1>5. QED
  BY <1>2, <1>3, <1>4 DEF Shape

Admitted == {"prepared", "waiting"} \cup SlotStates

\* Only prepareMessage brings a message to the coordinator.
LEMMA AdmittedBefore ==
  ASSUME QueueInv, [Next]_vars, NEW m \in Messages, pc'[m] \in Admitted, pc[m] # "new"
  PROVE  pc[m] \in Admitted
<1>1. Shape /\ pc \in [Messages -> States]
  BY StepShapes DEF QueueInv
<1> USE <1>1 DEF Admitted, SlotStates
<1>2. ASSUME NEW n \in Messages, Aside(n) \/ Resolve(n) \/ Seize(n) \/ LineUp(n) \/ GoOn(n) \/ GiveUp(n)
      PROVE  pc[m] \in Admitted
  BY <1>2 DEF Aside, Resolve, Seize, LineUp, GoOn, GiveUp
<1>3. ASSUME NEW n \in Messages, HandOver(n) PROVE pc[m] \in Admitted
  <2>1. pc[Head(Waiting(key[n]))] = "waiting"
    BY <1>3, HeadWaits DEF HandOver, CompleteNext
  <2>2. QED
    BY <1>3, <2>1 DEF HandOver
<1>4. ASSUME NEW k \in Keys, Sweep(k) PROVE pc[m] \in Admitted
  BY <1>4 DEF Sweep
<1>5. CASE UNCHANGED <<entries, pc, key>>
  BY <1>5
<1>6. QED
  BY <1>2, <1>3, <1>4, <1>5 DEF Shape

=============================================================================
