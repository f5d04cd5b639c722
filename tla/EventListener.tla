-------------------------------- MODULE EventListener --------------------------------
(***************************************************************************)
(* Listen and the streams of hive frames (listen.go, hive.go).  A stream   *)
(* that a caller ranges over is fed by a collector goroutine from a source *)
(* of its own on the client's events; a caller's Close, the end of the     *)
(* context, the link, a full queue, a panic and MaxEvents all end it, from *)
(* three goroutines, and the first of them gives the reason.  Listen's     *)
(* predicate is the caller's and may never return; ending must not wait    *)
(* for it.                                                                 *)
(***************************************************************************)
EXTENDS Naturals, Sequences

CONSTANTS
  StreamCapacity,  \* capacity of source and stream (256 in the code)
  MaxWanted,       \* bound of ListenOptions.MaxEvents
  MaxHeard         \* bound: events of the kind listened to

ASSUME ListenerAssumption ==
  StreamCapacity \in Nat \ {0} /\ MaxWanted \in Nat /\ MaxHeard \in Nat

VARIABLES
  flavour,    \* Listen, or listenHiveFrames
  wanted,     \* ListenOptions.MaxEvents; 0 for no bound
  source,     \* the subscription on the transport: numbers of events that fit, 0 for others
  stream,     \* what the caller ranges over: its queue, whether C is closed, and Err
  context,    \* "live" or "over"
  reachable,  \* the transport is connected and its handshake complete
  collector,  \* the goroutine that filters, and the event it holds
  watcher,    \* Listen's goroutine that looks at the context and the source
  delivered,  \* events put into the stream
  heard       \* events of the kind listened to, which numbers them

asked == <<flavour, wanted>>
listenVars == <<asked, source, stream, context, reachable, collector, watcher,
                delivered, heard>>

Reasons == {"none", "overflow", "timeout", "connection", "panic"}

ListenTypeOK ==
  /\ flavour \in {"bus", "hive"} /\ wanted \in 0 .. MaxWanted
  /\ source \in [queue : Seq(0 .. MaxHeard), open : BOOLEAN, err : {"none", "overflow"}]
  /\ stream \in [queue : Seq(1 .. MaxHeard), closed : BOOLEAN, err : Reasons, byCaller : BOOLEAN]
  /\ context \in {"live", "over"}
  /\ reachable \in BOOLEAN
  /\ collector \in [at : {"select", "judging", "holding", "ending", "ended"},
                    event : 0 .. MaxHeard, why : Reasons]
  /\ watcher \in {"select", "ended"}
  /\ delivered \in 0 .. MaxHeard /\ heard \in 0 .. MaxHeard

ListenInit ==
  /\ flavour \in {"bus", "hive"} /\ wanted \in 0 .. MaxWanted
  /\ source = [queue |-> <<>>, open |-> TRUE, err |-> "none"]
  /\ stream = [queue |-> <<>>, closed |-> FALSE, err |-> "none", byCaller |-> FALSE]
  /\ context = "live"
  /\ reachable = TRUE
  /\ collector = [at |-> "select", event |-> 0, why |-> "none"]
  /\ watcher = IF flavour = "bus" THEN "select" ELSE "ended"
  /\ delivered = 0
  /\ heard = 0

--------------------------------------------------------------------------------
\* finish: only the first call does anything; it also closes the source and
\* ends the context.
StreamFinish(err) ==
  IF stream.closed THEN UNCHANGED <<stream, source, context>>
  ELSE /\ stream' = [stream EXCEPT !.closed = TRUE, !.err = err]
       /\ source' = [source EXCEPT !.open = FALSE]
       /\ context' = "over"

CallerCloses ==
  /\ ~stream.closed
  /\ stream' = [stream EXCEPT !.closed = TRUE, !.byCaller = TRUE]
  /\ source' = [source EXCEPT !.open = FALSE]
  /\ context' = "over"
  /\ UNCHANGED <<asked, reachable, collector, watcher, delivered, heard>>

CallerReads ==
  /\ stream.queue # <<>>
  /\ stream' = [stream EXCEPT !.queue = Tail(@)]
  /\ UNCHANGED <<asked, source, context, reachable, collector, watcher, delivered, heard>>

ListenContextEnds ==
  /\ context = "live" /\ context' = "over"
  /\ UNCHANGED <<asked, source, stream, reachable, collector, watcher, delivered, heard>>

Reachability ==
  /\ reachable' = ~reachable
  /\ UNCHANGED <<asked, source, stream, context, collector, watcher, delivered, heard>>

\* Mutant: an event that does not fit is left out.
PublishesOrDrops(event) ==
  /\ source.open
  /\ IF event = 0 THEN UNCHANGED heard
     ELSE event = heard + 1 /\ heard' = event
  /\ source' = IF Len(source.queue) < StreamCapacity
               THEN [source EXCEPT !.queue = Append(@, event)] ELSE source
  /\ UNCHANGED <<asked, stream, context, reachable, collector, watcher, delivered>>

\* eventStream.publish into the source.
TransportPublishes(event) ==
  /\ source.open
  /\ IF event = 0 THEN UNCHANGED heard
     ELSE event = heard + 1 /\ heard' = event
  /\ source' = IF Len(source.queue) < StreamCapacity
               THEN [source EXCEPT !.queue = Append(@, event)]
               ELSE [source EXCEPT !.open = FALSE, !.err = "overflow"]
  /\ UNCHANGED <<asked, stream, context, reachable, collector, watcher, delivered>>

--------------------------------------------------------------------------------
WatcherActs ==
  /\ watcher = "select"
  /\ \/ stream.closed /\ UNCHANGED <<stream, source, context>>
     \/ context = "over" /\ StreamFinish("timeout")
     \/ source.err # "none" /\ StreamFinish(source.err)
  /\ watcher' = "ended"
  /\ UNCHANGED <<asked, reachable, collector, delivered, heard>>

CollectorAt(place, why) == collector' = [at |-> place, event |-> 0, why |-> why]

CollectorEnds(why) == CollectorAt("ended", "none") /\ StreamFinish(why)

CollectorLooks ==
  /\ collector.at = "select"
  /\ \/ /\ stream.closed
        /\ CollectorAt("ended", "none") /\ UNCHANGED <<stream, source, context>>
     \/ flavour = "hive" /\ context = "over" /\ CollectorEnds("timeout")
     \/ ~reachable /\ CollectorEnds("connection")
     \/ /\ source.queue = <<>> /\ ~source.open
        /\ CollectorEnds(IF source.err = "none" THEN "connection" ELSE source.err)
  /\ UNCHANGED <<asked, reachable, watcher, delivered, heard>>

CollectorTakes ==
  /\ collector.at = "select" /\ source.queue # <<>>
  /\ collector' = [collector EXCEPT !.at = "judging", !.event = Head(source.queue)]
  /\ source' = [source EXCEPT !.queue = Tail(@)]
  /\ UNCHANGED <<asked, stream, context, reachable, watcher, delivered, heard>>

\* Name, context and the caller's predicate; only the predicate can panic.
Judged ==
  /\ collector.at = "judging"
  /\ \/ collector.event = 0 /\ CollectorAt("select", "none")
     \/ collector.event # 0 /\ collector' = [collector EXCEPT !.at = "holding"]
     \/ flavour = "bus" /\ CollectorAt("ending", "panic")
  /\ UNCHANGED <<asked, source, stream, context, reachable, watcher, delivered, heard>>

\* The look and the send are under stream.mu: nothing ends the stream between.
CollectorDelivers ==
  /\ collector.at = "holding"
  /\ \/ /\ flavour = "bus" /\ context = "over"
        /\ CollectorAt("ending", "timeout") /\ UNCHANGED <<stream, delivered>>
     \/ /\ ~(flavour = "bus" /\ context = "over") /\ stream.closed
        /\ CollectorAt("ended", "none") /\ UNCHANGED <<stream, delivered>>
     \/ /\ ~(flavour = "bus" /\ context = "over") /\ ~stream.closed
        /\ IF Len(stream.queue) < StreamCapacity
           THEN /\ stream' = [stream EXCEPT !.queue = Append(@, collector.event)]
                /\ delivered' = delivered + 1
                /\ CollectorAt(IF delivered' = wanted THEN "ending" ELSE "select", "none")
           ELSE CollectorAt("ending", "overflow") /\ UNCHANGED <<stream, delivered>>
  /\ UNCHANGED <<asked, source, context, reachable, watcher, heard>>

\* Out of stream.mu again: another goroutine may have ended the stream first.
CollectorFinishes ==
  /\ collector.at = "ending"
  /\ CollectorEnds(collector.why)
  /\ UNCHANGED <<asked, reachable, watcher, delivered, heard>>

CollectorStep == CollectorLooks \/ CollectorTakes \/ CollectorDelivers \/ CollectorFinishes

ListenNext ==
  \/ CallerCloses \/ CallerReads \/ ListenContextEnds \/ Reachability
  \/ \E event \in 0 .. MaxHeard : TransportPublishes(event)
  \/ WatcherActs \/ CollectorStep \/ Judged

\* The goroutines are scheduled, and a select picks among its ready cases at
\* random, so that none is passed over for ever.  A hive frame is judged by
\* its kind alone, while Listen's predicate is free never to return.
ListenFairness ==
  /\ WF_listenVars(WatcherActs) /\ WF_listenVars(CollectorStep)
  /\ SF_listenVars(CollectorLooks)
  /\ WF_listenVars(flavour = "hive" /\ Judged)

ListenSpec == ListenInit /\ [][ListenNext]_listenVars /\ ListenFairness

--------------------------------------------------------------------------------
\* The stream is the events of its kind, each once and in order from the
\* first, and no more than asked for.  A stream that ended without error was
\* closed by its caller or had delivered all it was asked for, and one that
\* ended with an error ended for that reason (listen.go:12-14, 50-53).
StreamTellsTruth ==
  /\ \A i \in DOMAIN stream.queue : stream.queue[i] = delivered - Len(stream.queue) + i
  /\ wanted > 0 => delivered <= wanted
  /\ stream.closed /\ stream.err = "none" => stream.byCaller \/ (wanted > 0 /\ delivered = wanted)
  /\ stream.closed /\ stream.err = "overflow" =>
       source.err = "overflow" \/ heard > delivered

\* Once its context is over a stream ends, though its predicate never
\* returns (listen.go:99-100: "remain observable").
ListenEnds == context = "over" ~> stream.closed

\* A stream that ended leaves no goroutine behind, except inside a predicate
\* that does not return, whatever the source still holds (listen.go:101-164,
\* hive.go:177-228).
ListenersLeave ==
  stream.closed ~> [](watcher = "ended" /\ collector.at \in {"ended", "judging"})
================================================================================
