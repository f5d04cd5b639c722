---------------------------------- MODULE AskReply ----------------------------------
(***************************************************************************)
(* Ask and Query of the runtime client (client.go:693-1098), with the      *)
(* utterances it sends and forgets.  All of them share one link: the hub's *)
(* events reach the subscription of every ask that waits, its hive frames  *)
(* that of every query, and each request picks out what is its own.  What  *)
(* the hub refuses comes back without a request id.  A request ends by a   *)
(* terminal event, a timer, a send that failed, its deadline or its        *)
(* caller, and may leave its utterance with the hub when it does.          *)
(***************************************************************************)
EXTENDS Naturals, Sequences, FiniteSets, SequencesExt

CONSTANTS
  Asks, Queries,  \* requests, each with a correlation id of its own
  Sends,          \* fire-and-forget utterances
  NoId,           \* no request id
  ReplyCapacity,  \* capacity of a request's subscription (256 in the code)
  MaxReplies,     \* bound: events the hub sends, over all utterances
  MaxMade         \* bound: utterances the client makes in one behaviour

Requests   == Asks \cup Queries
Utterances == Requests \cup Sends

ASSUME RequestsAssumption ==
  /\ Asks \cap Queries = {} /\ Requests \cap Sends = {} /\ NoId \notin Utterances
  /\ ReplyCapacity \in Nat \ {0} /\ MaxReplies \in Nat /\ MaxMade \in Nat

VARIABLES
  request,  \* request[r]: one Ask or Query, its subscription and what it heard
  verdict,  \* what the request that ended last told its caller, and on whose refusal
  untold,   \* untold[s]: a fire-and-forget utterance; "tracked" within the grace
  held,     \* utterances the hub holds
  refused,  \* those it refused: the last that is heard of them
  replies   \* how many events the hub sent

askVars == <<request, verdict, untold, held, refused, replies>>
hub     == <<held, refused, replies>>

Names    == {"speak", "blank", "unmatched", "handled", "timeout", "denied", "denied_other", "complete"}
ReplyEvent == [name : Names, id : Utterances \cup {NoId}, of : Utterances]
Outcomes == {"none", "reply", "half_reply", "denied", "fault", "unanswered", "timeout",
             "canceled", "overflow", "send_failed", "not_connected"}

\* What a request heard: fragments, failures, which timer runs, whether the
\* last event ended the turn.
Silence == [spoken |-> FALSE, hard |-> <<>>, soft |-> FALSE, timer |-> "none", over |-> FALSE]

AskTypeOK ==
  /\ request \in [Requests ->
       [at : {"new", "connecting", "waiting", "ended"},
        send : {"none", "sending", "failed"},
        queue : Seq(ReplyEvent), open : BOOLEAN,
        heard : [spoken : BOOLEAN, hard : Seq(ReplyEvent), soft : BOOLEAN,
                 timer : {"none", "empty", "settle"}, over : BOOLEAN]]]
  /\ verdict \in [of : Requests \cup {NoId}, outcome : Outcomes, hard : Seq(ReplyEvent)]
  /\ untold \in [Sends -> {"new", "tracked", "aged"}]
  /\ held \subseteq Utterances
  /\ refused \subseteq held
  /\ replies \in 0 .. MaxReplies
  /\ \A r \in Requests : Len(request[r].queue) <= ReplyCapacity

\* The utterances of made are still to come; the others are long over.
AskInitOf(made) ==
  /\ request = [r \in Requests |->
       [at |-> IF r \in made THEN "new" ELSE "ended",
        send |-> "none", queue |-> <<>>, open |-> TRUE, heard |-> Silence]]
  /\ verdict = [of |-> NoId, outcome |-> "none", hard |-> <<>>]
  /\ untold = [s \in Sends |-> IF s \in made THEN "new" ELSE "aged"]
  /\ held = {}
  /\ refused = {}
  /\ replies = 0

AskInit == \E made \in SUBSET Utterances : Cardinality(made) = MaxMade /\ AskInitOf(made)

--------------------------------------------------------------------------------
(***************************************************************************)
(* Attribution.                                                            *)
(***************************************************************************)
Reserved == {r \in Requests : request[r].at \in {"connecting", "waiting"}}
Tracked  == {s \in Sends : untold[s] = "tracked"}

\* Mutant: only the asks that wait are counted.
OnlyAsk(r) == Reserved \cap Asks = {r}

\* utterancesInFlight is this ask and nothing else.
OnlyUtterance(r) == Reserved = {r} /\ Tracked = {}

RefusalBelongsToAsk(r, event) ==
  IF event.id # NoId THEN event.id = r
  ELSE event.name = "denied" /\ OnlyUtterance(r)

IsOwn(r, event) ==
  IF r \in Asks /\ event.name \in {"denied", "denied_other"}
  THEN RefusalBelongsToAsk(r, event)
  ELSE event.id = r

\* accept: what one event of its own does to an ask.  The first fragment
\* starts the settle timer, replacing the wait of a turn that said nothing.
AskHeard(heard, event) ==
  CASE event.name = "speak"     -> [heard EXCEPT !.spoken = TRUE, !.timer = "settle"]
    [] event.name \in {"denied", "timeout"}
                                -> [heard EXCEPT !.hard = <<event>>, !.over = TRUE]
    [] event.name = "unmatched" -> [heard EXCEPT !.soft = TRUE,
                                      !.timer = IF @ = "none" THEN "empty" ELSE @]
    [] event.name = "handled"   -> [heard EXCEPT !.timer = IF @ = "none" THEN "empty" ELSE @]
    [] OTHER                    -> heard

QueryHeard(heard, event) ==
  CASE event.name = "speak"     -> [heard EXCEPT !.spoken = TRUE]
    [] event.name = "complete"  -> [heard EXCEPT !.over = TRUE]
    [] event.name \in {"denied", "timeout"}
                                -> [heard EXCEPT !.hard = <<event>>, !.over = TRUE]
    [] event.name = "unmatched" -> [heard EXCEPT !.soft = TRUE]
    [] OTHER                    -> heard

Accepted(r, heard, event) ==
  IF ~IsOwn(r, event) THEN heard
  ELSE IF r \in Asks THEN AskHeard(heard, event) ELSE QueryHeard(heard, event)

\* Mutant: what is still queued is not looked at.
NotDrained(r) == request[r].heard

\* drain: the events queued so far, up to one that ends the turn.
Drained(r) ==
  LET queue == request[r].queue
      heard[n \in 0 .. Len(queue)] ==
        IF n = 0 THEN request[r].heard
        ELSE IF heard[n - 1].over THEN heard[n - 1]
        ELSE Accepted(r, heard[n - 1], queue[n])
  IN  heard[Len(queue)]

--------------------------------------------------------------------------------
(***************************************************************************)
(* The requests.                                                           *)
(***************************************************************************)
\* finish: an overflown subscription first; speech outweighs what failed softly.
Verdict(r, heard) ==
  IF ~request[r].open THEN "overflow"
  ELSE IF heard.spoken THEN (IF heard.hard = <<>> THEN "reply" ELSE "half_reply")
  ELSE IF heard.hard # <<>> THEN (IF heard.hard[1].name = "denied" THEN "denied" ELSE "fault")
  ELSE IF heard.soft THEN "unanswered" ELSE "timeout"

Ends(r, heard, outcome) ==
  /\ request' = [request EXCEPT ![r] =
       [@ EXCEPT !.at = "ended", !.heard = Silence, !.queue = <<>>, !.open = TRUE,
                 !.send = IF request[r].send = "sending" THEN "sending" ELSE "none"]]
  /\ verdict' = [of |-> r, outcome |-> outcome,
                 hard |-> IF outcome = "denied" THEN heard.hard ELSE <<>>]

Finishes(r, heard) == Ends(r, heard, Verdict(r, heard))

RequestBegins(r) ==
  /\ request[r].at = "new"
  /\ request' = [request EXCEPT ![r].at = "connecting"]
  /\ UNCHANGED <<verdict, untold, hub>>

RequestConnected(r) ==
  /\ request[r].at = "connecting"
  /\ \/ request' = [request EXCEPT ![r] = [@ EXCEPT !.at = "waiting", !.send = "sending"]]
        /\ UNCHANGED verdict
     \/ Ends(r, Silence, "not_connected")
  /\ UNCHANGED <<untold, hub>>

\* The goroutine that sends; it may have written all of a frame it reports
\* as failed, and it may do so after its request has ended.
FrameWritten(r) ==
  /\ request[r].send = "sending" /\ r \notin held
  /\ held' = held \cup {r}
  /\ UNCHANGED <<request, verdict, untold, refused, replies>>

SendReturns(r) ==
  /\ request[r].send = "sending"
  /\ \/ request[r].at = "waiting" /\ request' = [request EXCEPT ![r].send = "failed"]
     \/ request[r].at = "waiting" /\ r \in held /\ request' = [request EXCEPT ![r].send = "none"]
     \/ request[r].at = "ended" /\ request' = [request EXCEPT ![r].send = "none"]
  /\ UNCHANGED <<verdict, untold, hub>>

RequestReads(r) ==
  /\ request[r].at = "waiting" /\ request[r].queue # <<>>
  /\ LET heard == Accepted(r, request[r].heard, Head(request[r].queue))
     IN  IF heard.over
         THEN Finishes(r, heard)
         ELSE request' = [request EXCEPT ![r] =
                [@ EXCEPT !.heard = heard, !.queue = Tail(request[r].queue)]]
              /\ UNCHANGED verdict
  /\ UNCHANGED <<untold, hub>>

StreamClosed(r) ==
  /\ request[r].at = "waiting" /\ request[r].queue = <<>> /\ ~request[r].open
  /\ Ends(r, request[r].heard, "overflow")
  /\ UNCHANGED <<untold, hub>>

\* The settle timer or the wait for a turn without speech is over.
ReplySettles(r) ==
  /\ request[r].at = "waiting" /\ request[r].heard.timer # "none"
  /\ Finishes(r, Drained(r))
  /\ UNCHANGED <<untold, hub>>

\* Ask finishes on what it has; a query ends in nothing but its terminal event.
RequestDeadline(r) ==
  /\ request[r].at = "waiting"
  /\ IF r \in Asks \/ Drained(r).over THEN Finishes(r, Drained(r))
     ELSE Ends(r, Drained(r), "timeout")
  /\ UNCHANGED <<untold, hub>>

RequestCanceled(r) ==
  /\ request[r].at = "waiting"
  /\ Ends(r, request[r].heard, "canceled")
  /\ UNCHANGED <<untold, hub>>

SendFailureSeen(r) ==
  /\ request[r].at = "waiting" /\ request[r].send = "failed"
  /\ LET heard == Drained(r)
     IN  IF heard.over THEN Finishes(r, heard) ELSE Ends(r, heard, "send_failed")
  /\ UNCHANGED <<untold, hub>>

--------------------------------------------------------------------------------
(***************************************************************************)
(* Emit of an utterance nobody waits for: noted before it is published,    *)
(* and for as long as its refusal can be expected.                         *)
(***************************************************************************)
SendUntracked(s) ==
  /\ untold[s] = "new"
  /\ untold' = [untold EXCEPT ![s] = "tracked"]
  /\ held' \in {held, held \cup {s}}
  /\ UNCHANGED <<request, verdict, refused, replies>>

GraceOver(s) ==
  /\ untold[s] = "tracked"
  /\ untold' = [untold EXCEPT ![s] = "aged"]
  /\ UNCHANGED <<request, verdict, hub>>

--------------------------------------------------------------------------------
(***************************************************************************)
(* The hub.                                                                *)
(***************************************************************************)
\* eventStream.publish to the subscriptions of readers.
Published(event, readers) ==
  [r \in Requests |->
     IF r \notin readers \/ request[r].at # "waiting" \/ ~request[r].open THEN request[r]
     ELSE IF Len(request[r].queue) < ReplyCapacity
          THEN [request[r] EXCEPT !.queue = Append(@, event)]
          ELSE [request[r] EXCEPT !.open = FALSE]]

\* An ask is answered on the bus under its request id, a query in hive
\* frames under its query id.
HubAnswers(u, name) ==
  /\ u \in (held \ refused) \cap Requests /\ replies < MaxReplies
  /\ name = "complete" => u \in Queries
  /\ request' = Published([name |-> name, id |-> u, of |-> u],
                          IF u \in Asks THEN Asks ELSE Queries)
  /\ replies' = replies + 1
  /\ UNCHANGED <<verdict, untold, held, refused>>

\* Refused on the bus: no request id, only the refused type, and the last
\* that is heard of that utterance.  "denied_other" is a message refused
\* that was no utterance.
HubRefuses(u, name) ==
  /\ u \in held \ refused /\ replies < MaxReplies
  /\ request' = Published([name |-> name, id |-> NoId, of |-> u], Asks)
  /\ refused' = refused \cup {u}
  /\ replies' = replies + 1
  /\ UNCHANGED <<verdict, untold, held>>

AskNext ==
  \/ \E r \in Requests :
       \/ RequestBegins(r) \/ RequestConnected(r) \/ FrameWritten(r) \/ SendReturns(r)
       \/ RequestReads(r) \/ StreamClosed(r) \/ SendFailureSeen(r)
       \/ RequestDeadline(r) \/ RequestCanceled(r)
  \/ \E r \in Asks : ReplySettles(r)
  \/ \E s \in Sends : SendUntracked(s) \/ GraceOver(s)
  \/ \E u \in Utterances :
       \/ \E name \in {"speak", "blank", "unmatched", "handled", "timeout", "complete", "denied"} :
            HubAnswers(u, name)
       \/ \E name \in {"denied", "denied_other"} : HubRefuses(u, name)

AskSpec == AskInit /\ [][AskNext]_askVars

--------------------------------------------------------------------------------
\* An utterance whose refusal the client does not expect any more.
Over(u) == u \notin Reserved \cup Tracked

\* This step ends request r, in one of these ways.
EndsAs(r, outcomes) ==
  /\ request[r].at # "ended" /\ request'[r].at = "ended"
  /\ verdict'.outcome \in outcomes

\* A request that ends as refused was refused, or what was refused is an
\* utterance the client has given up on: never one that is still in flight,
\* and never a message that was no utterance (client.go:788-797,
\* errors.go:297-310).
RefusalNotAnothers ==
  \A r \in Requests : EndsAs(r, {"denied"}) =>
    LET refusal == verdict'.hard[1]
    IN  refusal.name = "denied" /\ (refusal.of = r \/ Over(refusal.of))

\* "counts the utterances this client may still have refused" (client.go:176):
\* what an ask takes for its refusal is one.
RefusalIsOwn ==
  verdict.outcome = "denied" => verdict.hard[1].of = verdict.of

Spoken(r) == request[r].heard.spoken

\* Speech of this turn that waits in the queue, before anything that ends it.
Waiting(r) ==
  \E i \in DOMAIN request[r].queue :
    /\ request[r].queue[i].id = r /\ request[r].queue[i].name = "speak"
    /\ \A j \in 1 .. i - 1 : ~Accepted(r, Silence, request[r].queue[j]).over

\* An ask the hub has answered, be the answer still in its queue, does not
\* end as unanswered, refused or out of time when its deadline or its timer
\* races that answer; whatever the order, the speech is in the reply
\* (client.go:859-904).
SpeechNotLost ==
  \A r \in Asks : EndsAs(r, {"denied", "fault", "unanswered", "timeout"}) =>
    ~Spoken(r) /\ ~Waiting(r)
================================================================================
