-------------------------- MODULE QueueCoordinator --------------------------
(***************************************************************************)
(* internal/thread/queue.go: the in-memory coordinator that serialises     *)
(* Codex turns per execution key.  Every method of the Go type holds c.mu  *)
(* from its first to its last line, so each of its return paths is one     *)
(* atomic action here.  A unit of queued work (the pair of closures run    *)
(* and onDrop) is identified by the message it was built for.              *)
(*                                                                         *)
(* The actions say what becomes of `entries`; MessageService conjoins each *)
(* of them with what the caller does with the result.                      *)
(***************************************************************************)
EXTENDS Integers, Sequences, Functions

CONSTANTS Keys,        \* execution keys: mode ":" logical key
          Messages,    \* the user messages, identities of the queued work
          MaxWaiting   \* maxWaitingMessagesPerKey (5 in the code)

ASSUME MaxWaitingAssumption == MaxWaiting \in Nat

VARIABLE entries       \* c.entries, a map: absent keys are outside DOMAIN

Entry == [running : BOOLEAN, waiting : Seq(Messages)]

\* Assignment to a key of a Go map, and delete(m, k).
Put(map, k, v) == [x \in DOMAIN map \cup {k} |-> IF x = k THEN v ELSE map[x]]
Delete(map, k) == Restrict(map, DOMAIN map \ {k})

\* No waiting list outgrows maxWaitingMessagesPerKey.
QueueTypeOK ==
    /\ DOMAIN entries \subseteq Keys
    /\ \A k \in DOMAIN entries :
          entries[k] \in Entry /\ Len(entries[k].waiting) <= MaxWaiting

QueueInit == entries = [k \in {} |-> [running |-> FALSE, waiting |-> <<>>]]

\* Negated, `!ok || !entry.running`: when Admit lets the caller run.
Running(k) == k \in DOMAIN entries /\ entries[k].running

\* The waiting list of a key; no entry has none.
Waiting(k) == IF k \in DOMAIN entries THEN entries[k].waiting ELSE <<>>

\* Snapshot: what task-reset-context and journal clear look at.
Busy(k) == k \in DOMAIN entries /\ (entries[k].running \/ entries[k].waiting # <<>>)

-----------------------------------------------------------------------------
(* Admit *)

\* Operators marked DEFECT are not part of the model: each is an action with
\* a plausible bug in it, against which the properties are tried.

\* DEFECT: one message too many is let into the waiting list.
AdmitQueuedOffByOne(k, m) ==
    /\ Running(k)
    /\ Len(entries[k].waiting) <= MaxWaiting
    /\ entries' = [entries EXCEPT ![k].waiting = Append(@, m)]

\* DEFECT: the newcomer goes to the front.
AdmitQueuedLifo(k, m) ==
    /\ Running(k)
    /\ Len(entries[k].waiting) < MaxWaiting
    /\ entries' = [entries EXCEPT ![k].waiting = <<m>> \o @]

AdmitNow(k) ==
    /\ ~Running(k)
    /\ entries' = Put(entries, k, [running |-> TRUE, waiting |-> <<>>])

AdmitQueueFull(k) ==
    /\ Running(k)
    /\ Len(entries[k].waiting) >= MaxWaiting
    /\ UNCHANGED entries

AdmitQueued(k, m) ==
    /\ Running(k)
    /\ Len(entries[k].waiting) < MaxWaiting
    /\ entries' = [entries EXCEPT ![k].waiting = Append(@, m)]

-----------------------------------------------------------------------------
(* Complete *)

\* DEFECT: the slot is given up while work is still waiting.
CompleteEmptyEager(k) ==
    /\ entries' = Delete(entries, k)

\* DEFECT: the head is handed out and stays in the list.
CompleteNextKeepsHead(k) ==
    /\ Waiting(k) # <<>>
    /\ UNCHANGED entries

\* `nil, false`: the key has no entry, or nothing waits and it is deleted.
CompleteEmpty(k) ==
    /\ Waiting(k) = <<>>
    /\ entries' = Delete(entries, k)

\* `next, true`: the head is handed to the caller and running stays set.
CompleteNext(k) ==
    /\ Waiting(k) # <<>>
    /\ entries' = [entries EXCEPT ![k].waiting = Tail(@)]

-----------------------------------------------------------------------------
(* DropQueued *)

\* DEFECT: the head of the list survives.
DropQueuedKeepsHead(k) ==
    entries' = IF k \in DOMAIN entries /\ entries[k].waiting # <<>>
               THEN [entries EXCEPT ![k].waiting = <<Head(@)>>]
               ELSE entries

\* DEFECT: the whole entry goes, and with it the mark that a turn is running.
DropQueuedForgetsRunning(k) ==
    entries' = Delete(entries, k)

\* The waiting list is emptied; the caller runs onDrop for each Waiting(k).
DropQueued(k) ==
    entries' = IF k \in DOMAIN entries
               THEN [entries EXCEPT ![k].waiting = <<>>]
               ELSE entries

=============================================================================
