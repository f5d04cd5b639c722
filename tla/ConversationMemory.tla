----------------------------- MODULE ConversationMemory -----------------------------
(***************************************************************************)
(* What the client promises about conversations: a memory of at most       *)
(* MaxRemembered of them, each reached by any of its few names, with what  *)
(* the hub last stated of it.  The memory is ordered by use; one that does *)
(* not fit any more is lost whole, and it is the one used longest ago.     *)
(***************************************************************************)
EXTENDS Naturals, Sequences, SequencesExt

CONSTANTS Names, Kept, MaxRemembered, MaxAliases

VARIABLE memory  \* the conversations, least recently used first

Conversation == [names : (SUBSET Names) \ {{}}, kept : Kept]

Init == memory = <<>>

Without(c) == SelectSeq(memory, LAMBDA d : d # c)

\* The next utterance of a conversation is sent, under any of its names.
Continue(c) == memory' = Append(Without(c), c)

\* The end of a turn that went by the names in ids.  Every conversation one
\* of them reaches is the same conversation from now on; no other is touched,
\* unless it is the oldest and has to make room.
Untouched(ids) == SelectSeq(memory, LAMBDA d : d.names \cap ids = {})
Reached(ids)   == ids \cup UNION {d.names : d \in {e \in ToSet(memory) : e.names \cap ids # {}}}

State(ids, kept) ==
  \E names \in SUBSET Reached(ids) :
    /\ Len(SetToSeq(names)) <= MaxAliases
    /\ ids \subseteq names
    /\ LET all == Append(Untouched(ids), [names |-> names, kept |-> kept])
       IN  memory' = IF Len(all) > MaxRemembered THEN Tail(all) ELSE all

Forget(ids) == memory' = Untouched(ids)

Next ==
  \/ \E c \in ToSet(memory) : Continue(c)
  \/ \E ids \in (SUBSET Names) \ {{}} : Forget(ids) \/ \E kept \in Kept : State(ids, kept)

Spec == Init /\ [][Next]_memory
================================================================================
