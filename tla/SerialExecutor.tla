--------------------------- MODULE SerialExecutor ---------------------------
(***************************************************************************)
(* What the message service promises about execution, without goroutines,  *)
(* locks or closures: each conversation serves one message at a time, lets *)
(* a bounded number of others stand in line, serves them in the order in   *)
(* which they were let in, and may send the whole line away.  This is the  *)
(* contract of ARCHITECTURE.md 6.5 and 8.1 that MessageService implements. *)
(***************************************************************************)
EXTENDS Integers, Sequences

CONSTANTS Keys, Messages, MaxWaiting

VARIABLES serving,   \* the messages being served, per conversation
          line,      \* those standing in line
          over       \* served or sent away

exVars == <<serving, line, over>>

ExInit ==
    /\ serving = [k \in Keys |-> {}]
    /\ line = [k \in Keys |-> <<>>]
    /\ over = {}

Inside(m) == \/ m \in over
             \/ \E k \in Keys : m \in serving[k] \/ \E i \in DOMAIN line[k] : line[k][i] = m

\* An idle conversation serves a newcomer at once.
Begin(k, m) ==
    /\ ~Inside(m)
    /\ serving[k] = {}
    /\ line[k] = <<>>
    /\ serving' = [serving EXCEPT ![k] = {m}]
    /\ UNCHANGED <<line, over>>

\* A busy one lets it stand in line while there is room.
Join(k, m) ==
    /\ ~Inside(m)
    /\ serving[k] # {}
    /\ Len(line[k]) < MaxWaiting
    /\ line' = [line EXCEPT ![k] = Append(@, m)]
    /\ UNCHANGED <<serving, over>>

\* Whoever has stood longest is next.
Advance(k) ==
    /\ \E m \in Messages :
         /\ serving[k] = {m}
         /\ over' = over \cup {m}
    /\ IF line[k] = <<>>
       THEN /\ serving' = [serving EXCEPT ![k] = {}]
            /\ UNCHANGED line
       ELSE /\ serving' = [serving EXCEPT ![k] = {Head(line[k])}]
            /\ line' = [line EXCEPT ![k] = Tail(@)]

SendAway(k) ==
    /\ line' = [line EXCEPT ![k] = <<>>]
    /\ over' = over \cup {line[k][i] : i \in DOMAIN line[k]}
    /\ UNCHANGED serving

ExNext ==
    \E k \in Keys :
        \/ \E m \in Messages : Begin(k, m) \/ Join(k, m)
        \/ Advance(k)
        \/ SendAway(k)

ExSpec == ExInit /\ [][ExNext]_exVars

\* Nobody is served for ever.
ExFairSpec == ExSpec /\ \A k \in Keys : WF_exVars(Advance(k))

=============================================================================
