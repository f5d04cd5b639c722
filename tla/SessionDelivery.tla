----------------------------- MODULE SessionDelivery -----------------------------
(***************************************************************************)
(* How a HubSession hands out the events of the link it holds (session.go, *)
(* subscriptions.go).  Each link the session takes gets a source, a        *)
(* bounded subscription on the client's stream, and a relay goroutine that *)
(* reads it.  The relay publishes each event to the session's own          *)
(* subscribers and then runs the On handlers, outside the session's lock,  *)
(* so a relay can outlive its link.  Taking and dropping a link are the    *)
(* critical sections of ensure and drop (module HubSession); here only     *)
(* their effect on delivery is kept.  All events carry the one event name  *)
(* the handlers are registered for.                                        *)
(***************************************************************************)
EXTENDS Naturals, Sequences, Functions

CONSTANTS
  MaxGeneration,  \* bound: links taken and dropped, two generations each
  MaxEvents,      \* bound: events the hub sends, over all links
  SourceCapacity, \* capacity of a relay's source (256 in the code)
  Capacity,       \* capacity of a session subscription
  Handlers,       \* On registrations
  Subscribers     \* SubscribeEvents callers

ASSUME BoundsAssumption ==
  /\ MaxGeneration \in Nat /\ MaxEvents \in Nat
  /\ SourceCapacity \in Nat \ {0} /\ Capacity \in Nat \ {0}

Generations == 1 .. MaxGeneration
Event       == Generations \X (1 .. MaxEvents)

VARIABLES
  generation, \* s.generation
  held,       \* s.client is not nil
  closed,     \* s.closed
  source,     \* source[g]: the subscription the relay of link g reads
  relay,      \* relay[g]: the relay goroutine of link g
  sent,       \* events the hub has sent, which numbers them
  handlers,   \* s.handlers: the registered handlers, in order
  entry,      \* entry[h]: the life of an On registration
  subs        \* subs[s]: the subscription of s, and the event it read last

vars == <<generation, held, closed, source, relay, sent, handlers, entry, subs>>

link     == <<generation, held, closed>>
handling == <<handlers, entry>>

RelayPlaces == {"none", "select", "taken", "check", "call", "busy", "gone"}
Endings     == {"none", "overflow", "connection"}

TypeOK ==
  /\ generation \in 0 .. MaxGeneration + 1
  /\ held \in BOOLEAN
  /\ closed \in BOOLEAN
  /\ source \in [Generations -> [queue : Seq(Event), open : BOOLEAN,
                                 err : Endings]]
  /\ relay \in [Generations -> [at : RelayPlaces, event : Seq(Event),
                                todo : Seq(Handlers)]]
  /\ sent \in 0 .. MaxEvents
  /\ handlers \in Seq(Handlers)
  /\ entry \in [Handlers -> {"new", "on", "marked", "off"}]
  /\ subs \in [Subscribers -> [queue : Seq(Event), open : BOOLEAN,
                               err : Endings, last : Seq(Event)]]
  /\ \A g \in Generations : Len(source[g].queue) <= SourceCapacity
  /\ \A s \in Subscribers : Len(subs[s].queue) <= Capacity

Init ==
  /\ generation = 0
  /\ held = FALSE
  /\ closed = FALSE
  /\ source = [g \in Generations |->
                 [queue |-> <<>>, open |-> FALSE, err |-> "none"]]
  /\ relay = [g \in Generations |-> [at |-> "none", event |-> <<>>, todo |-> <<>>]]
  /\ sent = 0
  /\ handlers = <<>>
  /\ entry = [h \in Handlers |-> "new"]
  /\ subs = [s \in Subscribers |->
               [queue |-> <<>>, open |-> FALSE, err |-> "none", last |-> <<>>]]

--------------------------------------------------------------------------------
(***************************************************************************)
(* Bounded streams (eventStream).                                          *)
(***************************************************************************)

\* mutants: a full queue loses the event, or takes one more than it holds
OfferOrLose(sub, event, capacity) ==
  IF sub.open /\ Len(sub.queue) < capacity
    THEN [sub EXCEPT !.queue = Append(@, event)] ELSE sub
OfferOneMore(sub, event, capacity) ==
  IF ~sub.open THEN sub
  ELSE IF Len(sub.queue) <= capacity
         THEN [sub EXCEPT !.queue = Append(@, event)]
         ELSE [sub EXCEPT !.open = FALSE, !.err = "overflow"]

\* publish to one subscription: a full queue ends it with an error instead of
\* losing the event silently.
Offer(sub, event, capacity) ==
  IF ~sub.open THEN sub
  ELSE IF Len(sub.queue) < capacity
         THEN [sub EXCEPT !.queue = Append(@, event)]
         ELSE [sub EXCEPT !.open = FALSE, !.err = "overflow"]

Publish(event) ==
  subs' = [s \in Subscribers |-> Offer(subs[s], event, Capacity)]

\* failEvents: every subscriber is told why its stream ends.
FailEvents(why) ==
  subs' = [s \in Subscribers |->
             IF subs[s].open THEN [subs[s] EXCEPT !.open = FALSE, !.err = why]
             ELSE subs[s]]

--------------------------------------------------------------------------------
(***************************************************************************)
(* The link.                                                               *)
(***************************************************************************)

\* ensure takes a new client: its events get a source and a relay.
Take ==
  /\ ~held /\ ~closed
  /\ generation < MaxGeneration
  /\ held' = TRUE
  /\ generation' = generation + 1
  /\ source' = [source EXCEPT ![generation + 1].open = TRUE]
  /\ relay' = [relay EXCEPT ![generation + 1].at = "select"]
  /\ UNCHANGED <<closed, sent, handling, subs>>

\* mutant: drop leaves the generation alone
SameGeneration == generation
NextGeneration == generation + 1

\* drop lets the client go: the generation moves on and the relay is stopped,
\* all in one critical section.
Drop ==
  /\ held
  /\ held' = FALSE
  /\ generation' = NextGeneration
  /\ source' = [source EXCEPT ![generation].open = FALSE]
  /\ UNCHANGED <<closed, relay, sent, handling, subs>>

\* Close marks the session closed and ends its subscribers.
Close ==
  /\ ~closed
  /\ closed' = TRUE
  /\ FailEvents("connection")
  /\ UNCHANGED <<generation, held, source, relay, sent, handling>>

\* The hub sends an event on the held link; the client's stream offers it to
\* the relay's source.
HubSends ==
  /\ held
  /\ sent < MaxEvents
  /\ sent' = sent + 1
  /\ LET event == <<generation, sent + 1>>
     IN source' = [source EXCEPT ![generation] = Offer(@, event, SourceCapacity)]
  /\ UNCHANGED <<link, relay, handling, subs>>

--------------------------------------------------------------------------------
(***************************************************************************)
(* The relay goroutine of link g.                                          *)
(***************************************************************************)

\* The link this relay reads has been dropped.
Stopped(g) == ~(held /\ generation = g)

\* mutant: the check forgets the generation
CurrentWhateverLink(g) == ~closed

\* What the relay may still publish is decided under the session's lock.
Current(g) == generation = g /\ ~closed

RelayTakes(g) ==
  /\ relay[g].at = "select"
  /\ source[g].queue # <<>>
  /\ source' = [source EXCEPT ![g].queue = Tail(@)]
  /\ relay' = [relay EXCEPT ![g].at = "taken",
                            ![g].event = <<Head(source[g].queue)>>]
  /\ UNCHANGED <<link, sent, handling, subs>>

\* The relay publishes and copies the handlers in one critical section.
RelayPublishes(g) ==
  /\ relay[g].at = "taken"
  /\ IF Current(g)
       THEN /\ Publish(relay[g].event[1])
            /\ relay' = [relay EXCEPT
                           ![g].at = IF handlers = <<>> THEN "select" ELSE "check",
                           ![g].event = IF handlers = <<>> THEN <<>> ELSE @,
                           ![g].todo = handlers]
       ELSE /\ relay' = [relay EXCEPT ![g].at = "select", ![g].event = <<>>]
            /\ UNCHANGED subs
  /\ UNCHANGED <<link, source, sent, handling>>

\* mutant: the handler is called again and again
SameHandlerAgain(r) == [r EXCEPT !.at = "check"]

\* The next handler's turn, or the next event's.
NextHandler(r) ==
  IF Len(r.todo) = 1
    THEN [at |-> "select", event |-> <<>>, todo |-> <<>>]
    ELSE [r EXCEPT !.at = "check", !.todo = Tail(@)]

\* deliver looks whether the handler was removed ...
RelayChecks(g) ==
  /\ relay[g].at = "check"
  /\ relay' = [relay EXCEPT
                 ![g] = IF entry[Head(@.todo)] \in {"marked", "off"}
                          THEN NextHandler(@)
                          ELSE [@ EXCEPT !.at = "call"]]
  /\ UNCHANGED <<link, source, sent, handling, subs>>

\* ... then calls it, with no lock held.
RelayCalls(g) ==
  /\ relay[g].at = "call"
  /\ relay' = [relay EXCEPT ![g].at = "busy"]
  /\ UNCHANGED <<link, source, sent, handling, subs>>

\* mutant: a handler that panics takes the relay with it
HandlerKillsRelay(g) ==
  /\ relay[g].at = "busy"
  /\ relay' = [relay EXCEPT ![g].at = "gone"]
  /\ UNCHANGED <<link, source, sent, handling, subs>>

\* The handler returns, or panics, which deliver recovers.
HandlerReturns(g) ==
  /\ relay[g].at = "busy"
  /\ relay' = [relay EXCEPT ![g] = NextHandler(@)]
  /\ UNCHANGED <<link, source, sent, handling, subs>>

\* The relay ends when its link was dropped, or when its source ended, which
\* the subscribers are told if the link is still the current one.
RelayStops(g) ==
  /\ relay[g].at = "select"
  /\ Stopped(g)
  /\ relay' = [relay EXCEPT ![g].at = "gone"]
  /\ UNCHANGED <<link, source, sent, handling, subs>>

RelayEnds(g) ==
  /\ relay[g].at = "select"
  /\ ~source[g].open /\ source[g].queue = <<>>
  /\ relay' = [relay EXCEPT ![g].at = "gone"]
  /\ IF Current(g)
       THEN FailEvents(IF source[g].err = "none" THEN "connection" ELSE source[g].err)
       ELSE UNCHANGED subs
  /\ UNCHANGED <<link, source, sent, handling>>

--------------------------------------------------------------------------------
(***************************************************************************)
(* Handlers and subscribers.                                               *)
(***************************************************************************)

On(h) ==
  /\ entry[h] = "new"
  /\ entry' = [entry EXCEPT ![h] = "on"]
  /\ handlers' = Append(handlers, h)
  /\ UNCHANGED <<link, source, relay, sent, subs>>

\* The function On returned marks the entry removed ...
Unsubscribe(h) ==
  /\ entry[h] = "on"
  /\ entry' = [entry EXCEPT ![h] = "marked"]
  /\ UNCHANGED <<link, source, relay, sent, handlers, subs>>

\* ... takes it out of the list, from the place where it finds it, and returns.
Unsubscribed(h) ==
  /\ entry[h] = "marked"
  /\ entry' = [entry EXCEPT ![h] = "off"]
  /\ \E i \in DOMAIN handlers :
       /\ handlers[i] = h
       /\ handlers' = SubSeq(handlers, 1, i - 1) \o SubSeq(handlers, i + 1, Len(handlers))
  /\ UNCHANGED <<link, source, relay, sent, subs>>

\* mutant: SubscribeEvents without the look at closed
SubscribeAnyway(s) ==
  /\ subs[s].queue = <<>> /\ ~subs[s].open /\ subs[s].err = "none"
  /\ subs[s].last = <<>>
  /\ subs' = [subs EXCEPT ![s].open = TRUE]
  /\ UNCHANGED <<link, source, relay, sent, handling>>

\* SubscribeEvents: a closed session ends the new stream at once.
Subscribe(s) ==
  /\ subs[s].queue = <<>> /\ ~subs[s].open /\ subs[s].err = "none"
  /\ subs[s].last = <<>>
  /\ subs' = [subs EXCEPT ![s].open = ~closed,
                          ![s].err = IF closed THEN "connection" ELSE "none"]
  /\ UNCHANGED <<link, source, relay, sent, handling>>

\* The subscriber closes its own subscription; what it has not read stays.
Leave(s) ==
  /\ subs[s].open
  /\ subs' = [subs EXCEPT ![s].open = FALSE]
  /\ UNCHANGED <<link, source, relay, sent, handling>>

Receive(s) ==
  /\ subs[s].queue # <<>>
  /\ subs' = [subs EXCEPT ![s].queue = Tail(@),
                          ![s].last = <<Head(subs[s].queue)>>]
  /\ UNCHANGED <<link, source, relay, sent, handling>>

--------------------------------------------------------------------------------

RelayStep(g) ==
  \/ RelayTakes(g) \/ RelayPublishes(g) \/ RelayChecks(g) \/ RelayCalls(g)
  \/ HandlerReturns(g) \/ RelayStops(g) \/ RelayEnds(g)

Next ==
  \/ Take \/ Drop \/ Close \/ HubSends
  \/ \E g \in Generations : RelayStep(g)
  \/ \E h \in Handlers : On(h) \/ Unsubscribe(h) \/ Unsubscribed(h)
  \/ \E s \in Subscribers : Subscribe(s) \/ Leave(s) \/ Receive(s)

Spec == Init /\ [][Next]_vars

\* Relay goroutines are scheduled and handlers return.
FairSpec == Spec /\ \A g \in Generations : WF_vars(RelayStep(g))

--------------------------------------------------------------------------------
(***************************************************************************)
(* Properties.                                                             *)
(***************************************************************************)

\* What subscriber s read last and has yet to read.
Stream(s) == subs[s].last \o subs[s].queue

\* A session subscription is one ordered stream over every link: an older
\* link's event never follows a newer link's, and within a link no event is
\* missing between two that were delivered (publish, eventStream).
StreamIntact ==
  \A s \in Subscribers : \A i \in 1 .. Len(Stream(s)) - 1 :
    LET e == Stream(s)[i]
        f == Stream(s)[i + 1]
    IN e[1] < f[1] \/ (e[1] = f[1] /\ f[2] = e[2] + 1)

\* A relay that outlived its link, or its session, adds nothing to a stream,
\* wherever it was when the link was dropped (ensure's relay, drop, Close).
StaleNeverPublished ==
  \A s \in Subscribers :
    Len(subs'[s].queue) > Len(subs[s].queue) =>
      /\ subs'[s].queue[Len(subs'[s].queue)][1] = generation
      /\ held /\ ~closed

\* Losing or dropping a link never fails a session subscription: only Close does,
\* or a queue that overflowed (drop, failEvents).
OnlyCloseOrOverflowEnds ==
  \A s \in Subscribers :
    subs'[s].err # subs[s].err => closed' \/ subs'[s].err = "overflow"

\* No subscription of a closed session is left open, whichever came first
\* (Close, SubscribeEvents).
ClosedEndsSubscribers == closed => \A s \in Subscribers : ~subs[s].open

\* What a subscriber reads is whole and ordered, and ends with the session
\* (publish, failEvents, SubscribeEvents).
StreamsHonest == StreamIntact /\ ClosedEndsSubscribers

\* A link that is no longer the session's neither adds to a subscription nor
\* ends it (ensure's relay, drop).
OldLinksSilent == [][StaleNeverPublished /\ OnlyCloseOrOverflowEnds]_vars

\* A relay whose link was dropped ends, so reconnecting leaks no goroutine.
RelaysEnd ==
  \A g \in Generations :
    (relay[g].at # "none" /\ Stopped(g)) ~> relay[g].at = "gone"

\* The handlers the relay of link g still has to look at for its event.
Waiting(g) ==
  CASE relay[g].at \in {"check", "call"} -> Range(relay[g].todo)
    [] relay[g].at = "busy" -> Range(Tail(relay[g].todo))
    [] OTHER -> {}

\* A handler that waits for an event is called with it, or was unsubscribed
\* first, whatever the handlers before it do (deliver).
EveryHandlerCalled ==
  [][\A g \in Generations : \A h \in Waiting(g) \ Waiting(g)' :
       \/ relay'[g].at = "busy" /\ Head(relay[g].todo) = h
       \/ entry[h] # "on"]_vars

(***************************************************************************)
(* What the comments say and the code does not do.                         *)
(***************************************************************************)

\* "Handlers run one at a time, in order, on the session's delivery goroutine"
\* (On).  Each link has a relay of its own.
OneHandlerAtATime ==
  \A g, k \in Generations : relay[g].at = "busy" /\ relay[k].at = "busy" => g = k

\* "once it has returned, no delivery calls handler again" (On).
NoCallAfterUnsubscribe ==
  [][\A g \in Generations :
       relay[g].at = "call" /\ relay'[g].at = "busy"
         => entry[Head(relay[g].todo)] # "off"]_vars

\* "On calls handler for every event named eventType the session receives, on the
\* client it holds now and on every client it builds after a reconnect" (On): while
\* a link is held, a registered handler has a relay that will call it.
NoDeafHandler ==
  held /\ ~closed /\ handlers # <<>> => relay[generation].at # "gone"

================================================================================
