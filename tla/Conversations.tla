-------------------------------- MODULE Conversations --------------------------------
(***************************************************************************)
(* The conversations a client carries from one turn to the next            *)
(* (client.go): a map from session ids to entries, where several ids share *)
(* one entry, ordered by a sequence number and bounded in conversations    *)
(* and in ids of a conversation.  An ask continues the conversation of its *)
(* session; the end of its turn names it by the id the ask used and by the *)
(* one the hub answered with, and states what to carry.                    *)
(***************************************************************************)
EXTENDS Naturals, Sequences, FiniteSets, Functions, SequencesExt

CONSTANTS
  Ids,            \* session ids
  Blank,          \* an id of white space only, which names nothing
  Carried,        \* the non-empty things a hub can state of a conversation
  MaxRemembered,  \* maxRememberedConversations (32 in the code)
  MaxAliases,     \* maxConversationAliases (8 in the code)
  MaxTurns        \* bound: conversations continued and remembered

ASSUME ConversationsAssumption ==
  /\ Blank \in Ids
  /\ MaxRemembered \in Nat \ {0} /\ MaxAliases \in Nat \ {0, 1} /\ MaxTurns \in Nat

VARIABLES
  conversations,   \* the entry each id reaches; equal entries are one object
  conversationSeq

conversationVars == <<conversations, conversationSeq>>

Entry == [group : Seq(Ids), kept : Carried, seq : 1 .. MaxTurns]

ConversationsInit == conversations = <<>> /\ conversationSeq = 0

Known(id) == id \in DOMAIN conversations

--------------------------------------------------------------------------------
\* Mutant: white space is an id like any other.
KeysOfAnyKind(ids) == FoldLeft(LAMBDA keys, id :
                        IF id \in Range(keys) THEN keys ELSE Append(keys, id), <<>>, ids)

\* The ids a turn really names: no white space, each once.
Keys(ids) ==
  LET keys[n \in 0 .. Len(ids)] ==
        IF n = 0 THEN <<>>
        ELSE IF ids[n] = Blank \/ ids[n] \in Range(keys[n - 1]) THEN keys[n - 1]
        ELSE Append(keys[n - 1], ids[n])
  IN  keys[Len(ids)]

GroupOf(id) == IF Known(id) THEN conversations[id].group ELSE <<>>

\* This turn's ids first, then those every entry they reach was filed under.
WithSiblings(keys) ==
  LET all[n \in 0 .. Len(keys)] ==
        IF n = 0 THEN keys ELSE all[n - 1] \o GroupOf(keys[n])
  IN  Keys(all[Len(keys)])

LeftAlone(ids) == Restrict(conversations, DOMAIN conversations \ ids)

\* What is left once whole conversations, the oldest first, made room.
Evicted(filed) ==
  LET seqs == {filed[id].seq : id \in DOMAIN filed}
      kept == {n \in seqs : Cardinality({m \in seqs : m > n}) < MaxRemembered}
  IN  Restrict(filed, {id \in DOMAIN filed : filed[id].seq \in kept})

Filed(keys, kept) ==
  LET entry == [group |-> SubSeq(keys, 1, IF Len(keys) > MaxAliases THEN MaxAliases
                                          ELSE Len(keys)),
                kept  |-> kept,
                seq   |-> conversationSeq + 1]
      rest  == LeftAlone(Range(keys))
  IN  [id \in DOMAIN rest \cup Range(entry.group) |->
         IF id \in DOMAIN rest THEN rest[id] ELSE entry]

\* rememberConversation: the turn ended, and the hub stated what to carry.
RememberConversation(ids, kept) ==
  /\ conversationSeq < MaxTurns
  /\ Keys(ids) # <<>>
  /\ conversations' = Evicted(Filed(WithSiblings(Keys(ids)), kept))
  /\ conversationSeq' = conversationSeq + 1

\* rememberConversation: nothing is active any more.
ForgetConversation(ids) ==
  /\ Keys(ids) # <<>>
  /\ conversations' = LeftAlone(Range(WithSiblings(Keys(ids))))
  /\ UNCHANGED conversationSeq

\* Mutant: only the id that is used ages anew, not its conversation.
ContinueAlias(id) ==
  /\ conversationSeq < MaxTurns
  /\ Known(id)
  /\ conversations' = [conversations EXCEPT ![id].seq = conversationSeq + 1]
  /\ conversationSeq' = conversationSeq + 1

\* continueConversation: found, so it is the one used last.
ContinueConversation(id) ==
  /\ conversationSeq < MaxTurns
  /\ Known(id)
  /\ conversations' = [other \in DOMAIN conversations |->
       IF conversations[other].seq = conversations[id].seq
       THEN [conversations[other] EXCEPT !.seq = conversationSeq + 1]
       ELSE conversations[other]]
  /\ conversationSeq' = conversationSeq + 1

\* What a turn hands over (client.go:829-838): the ask's own id and, unless it
\* says nothing new, the id the hub answered with.
TurnIds(asked, answered) ==
  IF answered \in {Blank, asked} THEN <<asked>> ELSE <<asked, answered>>

ConversationsNext ==
  \/ \E id \in Ids : ContinueConversation(id)
  \/ \E asked, answered \in Ids :
       \/ ForgetConversation(TurnIds(asked, answered))
       \/ \E kept \in Carried : RememberConversation(TurnIds(asked, answered), kept)

ConversationsSpec == ConversationsInit /\ [][ConversationsNext]_conversationVars

--------------------------------------------------------------------------------
\* Every id an entry is filed under reaches that entry, and no other id does;
\* the bounds hold, and white space is never an id conversations could share
\* (client.go:34-41, 43-53, 74-79).
WholeConversations ==
  /\ conversations \in [DOMAIN conversations -> Entry]
  /\ DOMAIN conversations \subseteq Ids \ {Blank}
  /\ \A id \in DOMAIN conversations :
       /\ {x \in DOMAIN conversations : conversations[x].seq = conversations[id].seq}
            = Range(conversations[id].group)
       /\ Len(conversations[id].group) <= MaxAliases
       /\ \A x \in Range(conversations[id].group) : conversations[x] = conversations[id]
  /\ Cardinality(Range(conversations)) <= MaxRemembered

\* The entries by age are the memory of conversations a client promises.
Memory == INSTANCE ConversationMemory WITH
  Names  <- Ids,
  Kept   <- Carried,
  memory <- LET aged == SetToSortSeq(Range(conversations), LAMBDA a, b : a.seq < b.seq)
            IN  [i \in DOMAIN aged |-> [names |-> Range(aged[i].group),
                                        kept  |-> aged[i].kept]]

\* The client keeps its promise: names are never split from their
\* conversation, none but the oldest makes room, and continuing one keeps it
\* (client.go:127-146, 150-170).
RemembersConversations == Memory!Spec
================================================================================
