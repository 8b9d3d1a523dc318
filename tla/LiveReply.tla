------------------------------ MODULE LiveReply ------------------------------
(***************************************************************************)
(* The reply to a message while its turn runs (runtime/discord/            *)
(* live_message.go, presenter.go): messages that are edited, sent and      *)
(* deleted one by one until they show the chunks of the latest text.  A    *)
(* call of Discord may fail, and may have taken effect nevertheless.       *)
(***************************************************************************)
EXTENDS Chunker

CONSTANTS Texts,      \* names of texts
          Lines,      \* the lines of each
          Loops,      \* the states of chunkText's loop over each
          ChunksOf,   \* the chunks of each
          MaxFaults   \* bound: calls of Discord that fail of themselves

ASSUME LinesAssumption == \A t \in Texts : IsText(Lines[t])

\* The loop comes to its end, as it does unless a fence is half a message long.
ASSUME LoopsAssumption == \A t \in Texts : Loop(Loops[t], Lines[t])

\* The chunks are those of chunkText; given as a constant, they are not computed
\* again in every state.
ASSUME ChunksAssumption == \A t \in Texts : ChunksOf[t] = Chunks(Last(Loops[t]), Lines[t])

ASSUME MaxFaultsAssumption == MaxFaults \in Nat

VARIABLES
    posts,     \* what the channel shows: messages of an id and a chunk
    known,     \* messageIDs and contents of the presenter
    target,    \* the chunks an update is bringing about, or <<>>
    shown,     \* how the last update ended
    lost,      \* history: a call failed although it took effect
    faults     \* failed calls so far

reply == <<posts, known, target, shown, lost, faults>>

ReplyInit ==
    /\ posts = <<>>
    /\ known = <<>>
    /\ target = <<>>
    /\ shown = "nothing"
    /\ lost = FALSE
    /\ faults = 0

Show(text, chunk) == [text |-> text, chunk |-> chunk]
Active == known # <<>>

\* syncText: a blank text changes nothing, and is no error.
Update(t) ==
    /\ target' = [j \in DOMAIN ChunksOf[t] |-> Show(t, ChunksOf[t][j])]
    /\ shown' = IF ChunksOf[t] = <<>> THEN "updated" ELSE "updating"
    /\ UNCHANGED <<posts, known, lost, faults>>

\* The known message that has to be edited next.
Differing == {j \in DOMAIN known \cap DOMAIN target : known[j].content # target[j]}
Position(id) == CHOOSE p \in DOMAIN posts : posts[p].id = id

\* Discord counts characters: it takes a chunk of Limit bytes, and may take or
\* refuse one that is longer.
Fits(content) == Used(content.chunk) <= Limit

Took(yes) ==
    \/ yes /\ UNCHANGED <<shown, lost, faults>>
    \/ ~yes /\ faults < MaxFaults /\ faults' = faults + 1 /\ shown' = "failed" /\ lost' = TRUE

\* DEFECT: the new content is noted before the edit is known to have worked.
EditNotedEarly ==
    /\ shown = "updating"
    /\ Differing # {}
    /\ LET j == Min(Differing)
       IN  /\ known' = [known EXCEPT ![j].content = target[j]]
           /\ \/ /\ posts' = [posts EXCEPT ![Position(known[j].id)].content = target[j]]
                 /\ UNCHANGED <<shown, lost, faults>>
              \/ /\ faults < MaxFaults /\ faults' = faults + 1 /\ shown' = "failed"
                 /\ UNCHANGED <<posts, lost>>
    /\ UNCHANGED target

\* The edit takes effect, and the presenter learns of it unless the answer is lost.
Edit ==
    /\ shown = "updating"
    /\ Differing # {}
    /\ LET j == Min(Differing)
       IN  /\ known[j].id \in {posts[p].id : p \in DOMAIN posts}
           /\ posts' = [posts EXCEPT ![Position(known[j].id)].content = target[j]]
           /\ \E yes \in BOOLEAN :
                 /\ Took(yes)
                 /\ known' = IF yes THEN [known EXCEPT ![j].content = target[j]] ELSE known
    /\ UNCHANGED target

\* Ids are numbered as the messages are sent.
Send ==
    /\ shown = "updating"
    /\ Differing = {}
    /\ Len(known) < Len(target)
    /\ LET content == target[Len(known) + 1]
           id == 1 + Max({0} \cup {posts[p].id : p \in DOMAIN posts}
                              \cup {known[p].id : p \in DOMAIN known})
           post == [id |-> id, content |-> content]
       IN  /\ posts' = Append(posts, post)
           /\ \E yes \in BOOLEAN :
                 /\ Took(yes)
                 /\ known' = IF yes THEN Append(known, post) ELSE known
    /\ UNCHANGED target

Delete ==
    /\ shown = "updating"
    /\ Differing = {}
    /\ Len(known) > Len(target)
    /\ LET id == Last(known).id
       IN  /\ id \in {posts[p].id : p \in DOMAIN posts}
           /\ posts' = RemoveAt(posts, Position(id))
    /\ \E yes \in BOOLEAN : Took(yes) /\ known' = IF yes THEN Front(known) ELSE known
    /\ UNCHANGED target

\* The call fails without effect: of itself, as the content is too long, or as
\* the message is not there any more; only the first is bounded.
CallFails ==
    /\ shown = "updating"
    /\ \/ Differing # {} \/ Len(known) # Len(target)
    /\ LET next == IF Differing # {} THEN Min(Differing)
                   ELSE IF Len(known) < Len(target) THEN Len(known) + 1 ELSE Len(known)
           hadTo == \/ next \in DOMAIN target /\ ~Fits(target[next])
                    \/ next \in DOMAIN known /\ \A p \in DOMAIN posts : posts[p].id # known[next].id
       IN  IF hadTo THEN UNCHANGED faults ELSE faults < MaxFaults /\ faults' = faults + 1
    /\ shown' = "failed"
    /\ UNCHANGED <<posts, known, target, lost>>

UpdateEnds ==
    /\ shown = "updating"
    /\ Differing = {}
    /\ Len(known) = Len(target)
    /\ shown' = "updated"
    /\ UNCHANGED <<posts, known, target, lost, faults>>

Sync == Edit \/ Send \/ Delete \/ CallFails \/ UpdateEnds

\* The channel shows the text, all of it and nothing else.
Shows(t) ==
    /\ \A p \in DOMAIN posts : posts[p].content.text = t
    /\ ReadsAs([p \in DOMAIN posts |-> posts[p].content.chunk], Lines[t])

=============================================================================
