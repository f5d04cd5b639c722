-------------------------------- MODULE RuntimeClient --------------------------------
(***************************************************************************)
(* The runtime client as a whole: its connection gate, its requests, the   *)
(* conversations it remembers, the streams it hands out and the home       *)
(* requests it answers.  The parts share no state but what one hands to    *)
(* another as an input every module already leaves open (a send's result,  *)
(* a readiness, the ids of a turn), so a behaviour is one of one part, the *)
(* others at rest, and one run covers all of them.                         *)
(***************************************************************************)
EXTENDS ConnectionGate, Conversations, AskReply, EventListener, HomeRequests,
        IntentQueries, OriginChoice

CONSTANT Parts  \* the parts checked, among those below

ASSUME PartsAssumption == Parts \subseteq {"gate", "conversations", "ask", "listen", "home",
                                              "intents", "origin"}

VARIABLE part  \* the part this behaviour is about

clientVars == <<part, gateVars, conversationVars, askVars, listenVars, homeVars, intentVars,
                originVars>>

AtRest(p) ==
  /\ p # "gate"          => UNCHANGED gateVars
  /\ p # "conversations" => UNCHANGED conversationVars
  /\ p # "ask"           => UNCHANGED askVars
  /\ p # "listen"        => UNCHANGED listenVars
  /\ p # "home"          => UNCHANGED homeVars
  /\ p # "intents"       => UNCHANGED intentVars
  /\ p # "origin"        => UNCHANGED originVars

\* What a hub may have: nothing to say, names only, and sentences in one
\* language or under two spellings of it.
EnUS  == Tag("en", "", "US", TRUE)
Mixed == Tag("en", "", "US", FALSE)
EsES  == Tag("es", "", "ES", TRUE)
ZhHK  == Tag("zh", "", "HK", TRUE)

Asked == {<<Tag("en", "", "CA", FALSE), Tag("es", "", "MX", FALSE)>>, <<Tag("zh", "", "TW", FALSE), Mixed>>,
          <<Tag("xx", "", "", TRUE), EnUS>>}

Manifests == {<<Row("i", EnUS, FALSE), Row("j", EsES, FALSE)>>,
              <<Row("i", EnUS, TRUE), Row("j", Mixed, TRUE), Row("k", EsES, FALSE)>>,
              <<Row("i", Tag("en", "", "CA", FALSE), FALSE), Row("i", EsES, TRUE), Row("j", ZhHK, TRUE),
                Row("k", EsES, TRUE)>>}

ASSUME NoTagAssumption == \A rows \in Manifests : \A n \in DOMAIN rows : rows[n].lang # NoTag

SilentHub   == [rows |-> << >>, speaks |-> NoTag, attaches |-> FALSE, echoes |-> TRUE, denies |-> {}]
NothingElse == [describe |-> FALSE, fallback |-> FALSE, nearest |-> FALSE]

OpenHubs  == {h \in [rows : Manifests, speaks : {NoTag}, attaches : {FALSE}, echoes : BOOLEAN, denies : {{}}] :
                h.echoes \/ Len(h.rows) <= 3}
OtherHubs == [rows : Manifests, speaks : {EsES}, attaches : {TRUE}, echoes : {TRUE},
              denies : {{"list"}, {"list", "adapt"}}] \union
             [rows : Manifests, speaks : {EsES}, attaches : {FALSE}, echoes : {TRUE},
              denies : {{}, {"describe"}}]

LeftOn == {o \in [describe : BOOLEAN, fallback : BOOLEAN, nearest : BOOLEAN] :
             Cardinality({f \in DOMAIN o : o[f]}) >= 2}

Init ==
  /\ part \in Parts
  /\ GateInit /\ ConversationsInit /\ ListenInit /\ HomeInit
  /\ IF part = "ask" THEN AskInit ELSE AskInitOf({})
  /\ OriginInit
  /\ IF part = "intents" THEN IntentsInitWith(Asked, OpenHubs \union OtherHubs, LeftOn)
     ELSE IntentsInitWith({<<EnUS>>}, {SilentHub}, {NothingElse})
  /\ part # "listen" => flavour = "bus" /\ wanted = 0

Next ==
  /\ UNCHANGED part
  /\ \/ part = "gate"          /\ GateNext          /\ AtRest("gate")
     \/ part = "conversations" /\ ConversationsNext /\ AtRest("conversations")
     \/ part = "ask"           /\ AskNext           /\ AtRest("ask")
     \/ part = "listen"        /\ ListenNext        /\ AtRest("listen")
     \/ part = "home"          /\ HomeNext          /\ AtRest("home")
     \/ part = "intents"       /\ IntentsNext       /\ AtRest("intents")
     \/ part = "origin"        /\ OriginNext        /\ AtRest("origin")

\* What each part justifies: contexts end and goroutines are scheduled, while
\* transports, predicates and handlers need not return.
Fairness ==
  \/ part = "gate" /\ GateFairness
  \/ part = "listen" /\ ListenFairness
  \/ part = "home" /\ HomeFairness
  \/ part = "intents" /\ IntentsFairness
  \/ part \in {"conversations", "ask", "origin"}

Spec == Init /\ [][Next]_clientVars /\ Fairness

--------------------------------------------------------------------------------
\* The types of every part.
TypeOK == GateIInv /\ WholeConversations /\ AskTypeOK /\ ListenTypeOK /\ HomeTypeOK /\ OriginTypeOK
          /\ IntentsTypeOK

\* Nobody waits for ever: not a caller for a transport that hangs, nor a
\* listener for its predicate, nor a hub for a home's handler
\* (client.go:399, listen.go:99-100, home.go:283-284).
NobodyWaitsForEver ==
  /\ part = "gate" => GateServes
  /\ part = "listen" => ListenEnds /\ ListenersLeave
  /\ part = "home" => HomeRequestsEnd
  /\ part = "intents" => IntentsEnd

\* Nothing a caller is told is untrue: who is inside the transport, how a stream
\* ended, what a hub got, what it can be asked, which client is held.
ClientTruth == OneOperation /\ StreamTellsTruth /\ HomeToldTruth /\ DescriptionsTrue /\ SomethingToSay
               /\ OneClient

\* A sound link is kept and a failing origin left alone for their own failures
\* only, not because a caller left (client.go:406-423, session.go:848-853).
BlamedForTheirOwn == [][SoundLinkKept /\ BlamedFairly]_clientVars

\* An ask is refused by a denial of its own, and loses no reply that arrived
\* before its end (client.go:788-800, 853-870).
AskHeardRight == [][RefusalNotAnothers /\ SpeechNotLost]_clientVars

\* A home request's caller is told once, and no reply is begun behind it
\* (home.go:249-258).
HomeAnswersStand == [][AnswerStands]_clientVars
================================================================================
