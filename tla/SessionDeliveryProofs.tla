------------------------- MODULE SessionDeliveryProofs -------------------------
(***************************************************************************)
(* Proofs about SessionDelivery, for any number of links, events,          *)
(* handlers and subscribers and for every capacity.  The invariant follows *)
(* an event from the hub to a subscriber: what a relay holds (RelayKnows), *)
(* what its source holds (SourceKnows), and how the event a subscriber has *)
(* last in its stream relates to the one the current relay will publish    *)
(* next (SubKnows).                                                        *)
(***************************************************************************)
EXTENDS SessionDelivery, SequenceTheorems, TLAPS

Sources == [queue : Seq(Event), open : BOOLEAN, err : Endings]
Relays  == [at : RelayPlaces, event : Seq(Event), todo : Seq(Handlers)]
Streams == [queue : Seq(Event), open : BOOLEAN, err : Endings, last : Seq(Event)]

\* Event f is the next of its link after e, or the first heard of a newer link.
Follows(e, f) == e[1] < f[1] \/ (e[1] = f[1] /\ f[2] = e[2] + 1)

\* The relay of link g has an event to publish.
Pending(g) == relay[g].at = "taken" \/ source[g].queue # <<>>

\* The number of the event the relay of link g will publish next.
NextOf(g) ==
  IF relay[g].at = "taken" THEN relay[g].event[1][2]
  ELSE IF source[g].queue # <<>> THEN source[g].queue[1][2]
  ELSE sent + 1

\* A relay at work has the event it works on, and handlers to go through while it
\* delivers; only the relays of links taken so far have started, and the current
\* one has its link.  Its source ended early only by overflowing.
RelayKnows(g) ==
  /\ relay[g].at = "taken" => Len(relay[g].event) = 1 /\ relay[g].event[1][1] = g
  /\ relay[g].at \in {"check", "call", "busy"} => relay[g].todo # <<>>
  /\ relay[g].at # "none" => g < generation \/ (g = generation /\ held)
  /\ relay[g].at # "none" /\ g = generation /\ ~source[g].open
       => source[g].err = "overflow"

\* What the source of link g holds is of that link, without a gap, up to the last
\* event the hub sent while the source is open, and follows what the relay took.
SourceKnows(g) ==
  /\ source[g].open => held /\ g = generation /\ relay[g].at # "none"
  /\ relay[g].at = "none" => source[g].queue = <<>>
  /\ \A i \in 1 .. Len(source[g].queue) :
       /\ source[g].queue[i][1] = g
       /\ i < Len(source[g].queue)
            => source[g].queue[i + 1][2] = source[g].queue[i][2] + 1
  /\ source[g].open /\ source[g].queue # <<>>
       => source[g].queue[Len(source[g].queue)][2] = sent
  /\ relay[g].at = "taken" /\ source[g].queue # <<>>
       => source[g].queue[1][2] = relay[g].event[1][2] + 1
  /\ relay[g].at = "taken" /\ source[g].open /\ source[g].queue = <<>>
       => relay[g].event[1][2] = sent

\* The last event of a subscriber's stream, when there is one.
Heard(s)  == subs[s].queue # <<>> \/ subs[s].last # <<>>
Newest(s) == IF subs[s].queue # <<>> THEN subs[s].queue[Len(subs[s].queue)]
             ELSE subs[s].last[1]

\* A subscriber's stream is whole, and while it is open the event the current relay
\* publishes next is the one after its newest.
SubKnows(s) ==
  /\ Len(subs[s].last) <= 1
  /\ \A i \in 1 .. Len(subs[s].queue) - 1 :
       Follows(subs[s].queue[i], subs[s].queue[i + 1])
  /\ subs[s].queue # <<>> /\ subs[s].last # <<>>
       => Follows(subs[s].last[1], subs[s].queue[1])
  /\ Heard(s) => Newest(s)[1] <= generation
  /\ \A g \in Generations :
       (/\ subs[s].open /\ Heard(s) /\ g = generation /\ Newest(s)[1] = g
        /\ Pending(g) \/ source[g].open) => NextOf(g) = Newest(s)[2] + 1

DeliveryKnows ==
  /\ held => generation \in Generations
  /\ \A g \in Generations : RelayKnows(g) /\ SourceKnows(g)
  /\ \A s \in Subscribers : SubKnows(s)
  /\ ClosedEndsSubscribers

IInv == TypeOK /\ DeliveryKnows

--------------------------------------------------------------------------------
(***************************************************************************)
(* What offering an event does to a source and to a subscription.          *)
(***************************************************************************)

LEMMA OfferToSource ==
  ASSUME NEW sub \in Sources, NEW e \in Event, NEW c \in Nat, Len(sub.queue) <= c
  PROVE  /\ Offer(sub, e, c) \in Sources
         /\ Len(Offer(sub, e, c).queue) <= c
         /\ \/ /\ sub.open /\ Len(sub.queue) < c
               /\ Offer(sub, e, c).queue = Append(sub.queue, e)
               /\ Offer(sub, e, c).open /\ Offer(sub, e, c).err = sub.err
            \/ /\ sub.open => Len(sub.queue) = c /\ Offer(sub, e, c).err = "overflow"
               /\ ~sub.open => Offer(sub, e, c).err = sub.err
               /\ Offer(sub, e, c).queue = sub.queue /\ ~Offer(sub, e, c).open
<1>1. CASE sub.open /\ Len(sub.queue) < c
  <2>1. Append(sub.queue, e) \in Seq(Event) /\ Len(Append(sub.queue, e)) <= c
    BY <1>1 DEF Sources
  <2>2. Offer(sub, e, c) = [sub EXCEPT !.queue = Append(@, e)]
    BY <1>1 DEF Offer
  <2>3. QED
    BY <1>1, <2>1, <2>2 DEF Sources
<1>2. CASE sub.open /\ ~(Len(sub.queue) < c)
  <2>1. Offer(sub, e, c) = [sub EXCEPT !.open = FALSE, !.err = "overflow"]
    BY <1>2 DEF Offer
  <2>2. Len(sub.queue) = c
    BY <1>2 DEF Sources
  <2>3. QED
    BY <1>2, <2>1, <2>2 DEF Sources, Endings
<1>3. CASE ~sub.open
  BY <1>3 DEF Offer
<1>4. QED
  BY <1>1, <1>2, <1>3

LEMMA OfferToSubscriber ==
  ASSUME NEW sub \in Streams, NEW e \in Event, NEW c \in Nat, Len(sub.queue) <= c
  PROVE  /\ Offer(sub, e, c) \in Streams
         /\ Len(Offer(sub, e, c).queue) <= c
         /\ Offer(sub, e, c).last = sub.last
         /\ \/ /\ sub.open /\ Len(sub.queue) < c
               /\ Offer(sub, e, c).queue = Append(sub.queue, e)
               /\ Offer(sub, e, c).open /\ Offer(sub, e, c).err = sub.err
            \/ /\ sub.open => Len(sub.queue) = c /\ Offer(sub, e, c).err = "overflow"
               /\ ~sub.open => Offer(sub, e, c).err = sub.err
               /\ Offer(sub, e, c).queue = sub.queue /\ ~Offer(sub, e, c).open
<1>1. CASE sub.open /\ Len(sub.queue) < c
  <2>1. Append(sub.queue, e) \in Seq(Event) /\ Len(Append(sub.queue, e)) <= c
    BY <1>1 DEF Streams
  <2>2. Offer(sub, e, c) = [sub EXCEPT !.queue = Append(@, e)]
    BY <1>1 DEF Offer
  <2>3. QED
    BY <1>1, <2>1, <2>2 DEF Streams
<1>2. CASE sub.open /\ ~(Len(sub.queue) < c)
  <2>1. Offer(sub, e, c) = [sub EXCEPT !.open = FALSE, !.err = "overflow"]
    BY <1>2 DEF Offer
  <2>2. Len(sub.queue) = c
    BY <1>2 DEF Streams
  <2>3. QED
    BY <1>2, <2>1, <2>2 DEF Streams, Endings
<1>3. CASE ~sub.open
  BY <1>3 DEF Offer
<1>4. QED
  BY <1>1, <1>2, <1>3

LEMMA SomeOrNone ==
  ASSUME NEW S, NEW t \in Seq(S)
  PROVE  Len(t) \in Nat /\ (t # <<>> <=> Len(t) > 0)
OBVIOUS

\* The sets of the type invariant, by name.
LEMMA Parts ==
  ASSUME TypeOK
  PROVE  /\ source \in [Generations -> Sources]
         /\ relay \in [Generations -> Relays]
         /\ subs \in [Subscribers -> Streams]
         /\ \A g \in Generations :
              /\ source[g] \in Sources /\ relay[g] \in Relays
              /\ source[g].queue \in Seq(Event) /\ relay[g].event \in Seq(Event)
         /\ \A s \in Subscribers :
              /\ subs[s] \in Streams
              /\ subs[s].queue \in Seq(Event) /\ subs[s].last \in Seq(Event)
<1>1. /\ source \in [Generations -> Sources]
      /\ relay \in [Generations -> Relays]
      /\ subs \in [Subscribers -> Streams]
  BY DEF TypeOK, Sources, Relays, Streams
<1>2. QED
  BY <1>1 DEF Sources, Relays, Streams

LEMMA NewestIsEvent ==
  ASSUME TypeOK, NEW s \in Subscribers, Heard(s)
  PROVE  Newest(s) \in Event /\ Newest(s)[1] \in Nat /\ Newest(s)[2] \in Nat
<1>1. subs[s].queue \in Seq(Event) /\ subs[s].last \in Seq(Event)
  BY Parts
<1>2. CASE subs[s].queue # <<>>
  <2>1. Len(subs[s].queue) \in 1 .. Len(subs[s].queue)
    BY <1>1, <1>2
  <2>2. Newest(s) \in Event
    BY <1>1, <1>2, <2>1 DEF Newest
  <2>3. QED
    BY <2>2 DEF Event, Generations
<1>3. CASE subs[s].queue = <<>>
  <2>1. 1 \in 1 .. Len(subs[s].last)
    BY <1>1, <1>3 DEF Heard
  <2>2. Newest(s) \in Event
    BY <1>1, <1>3, <2>1 DEF Newest
  <2>3. QED
    BY <2>2 DEF Event, Generations
<1>4. QED
  BY <1>2, <1>3

\* What relays and sources know depends on these alone, and so does the event that
\* comes next.
LEMMA RelaysUntouched ==
  ASSUME DeliveryKnows, UNCHANGED <<generation, held, source, relay, sent>>
  PROVE  /\ \A g \in Generations : RelayKnows(g)' /\ SourceKnows(g)'
         /\ \A g \in Generations : NextOf(g)' = NextOf(g) /\ (Pending(g)' <=> Pending(g))
         /\ (held => generation \in Generations)'
BY DEF DeliveryKnows, RelayKnows, SourceKnows, NextOf, Pending

--------------------------------------------------------------------------------
(***************************************************************************)
(* The link: what ensure, drop, Close and the hub leave behind.            *)
(***************************************************************************)

\* The relay of the link just taken has neither read nor missed anything, and what
\* subscribers heard is of older links.
LEMMA TakeKeeps ==
  ASSUME IInv, Take
  PROVE  IInv'
<1> USE BoundsAssumption DEF IInv, Generations
<1> DEFINE k == generation + 1
<1>1. /\ k \in Generations /\ generation' = k /\ generation \in Nat /\ held'
      /\ relay[k].at = "none" /\ source[k].queue = <<>>
  BY DEF Take, DeliveryKnows, RelayKnows, SourceKnows, TypeOK
<1>2. /\ source' = [source EXCEPT ![k] = [source[k] EXCEPT !.open = TRUE]]
      /\ relay' = [relay EXCEPT ![k] = [relay[k] EXCEPT !.at = "select"]]
  BY DEF Take
<1> HIDE DEF k
<1>3. /\ [source[k] EXCEPT !.open = TRUE] \in Sources
      /\ [relay[k] EXCEPT !.at = "select"] \in Relays
      /\ source'[k].queue = source[k].queue /\ source'[k].open
      /\ relay'[k].at = "select"
      /\ source' \in [Generations -> Sources] /\ relay' \in [Generations -> Relays]
      /\ \A g \in Generations \ {k} : source'[g] = source[g] /\ relay'[g] = relay[g]
  <2>1. /\ [source[k] EXCEPT !.open = TRUE] \in Sources
        /\ [relay[k] EXCEPT !.at = "select"] \in Relays
    BY <1>1, Parts DEF Sources, Relays, RelayPlaces
  <2>2. source' \in [Generations -> Sources] /\ relay' \in [Generations -> Relays]
    BY <1>1, <1>2, <2>1, Parts
  <2>3. /\ source'[k] = [source[k] EXCEPT !.open = TRUE]
        /\ relay'[k] = [relay[k] EXCEPT !.at = "select"]
    BY <1>1, <1>2, Parts
  <2>4. /\ source'[k].queue = source[k].queue /\ source'[k].open
        /\ relay'[k].at = "select"
    BY <1>1, <2>3, Parts DEF Sources, Relays
  <2>5. \A g \in Generations \ {k} : source'[g] = source[g] /\ relay'[g] = relay[g]
    BY <1>1, <1>2, Parts
  <2>6. QED
    BY <2>1, <2>2, <2>4, <2>5
<1>4. TypeOK'
  <2>1. \A g \in Generations : Len(source'[g].queue) <= SourceCapacity
    BY <1>1, <1>3 DEF TypeOK
  <2>2. generation' \in 0 .. MaxGeneration + 1
    BY <1>1
  <2>3. UNCHANGED <<closed, sent, handlers, entry, subs>> /\ held' \in BOOLEAN
    BY <1>1 DEF Take, handling
  <2>4. QED
    BY <1>3, <2>1, <2>2, <2>3 DEF TypeOK, Sources, Relays
<1>5. ASSUME NEW g \in Generations
      PROVE  RelayKnows(g)' /\ SourceKnows(g)'
  BY <1>1, <1>3 DEF Take, DeliveryKnows, RelayKnows, SourceKnows
<1>6. ASSUME NEW s \in Subscribers
      PROVE  SubKnows(s)'
  <2>1. (Heard(s) => Newest(s)[1] <= generation /\ Newest(s)[1] \in Nat)
    BY NewestIsEvent DEF DeliveryKnows, SubKnows
  <2>2. QED
    <3>1. /\ UNCHANGED subs /\ generation' = generation + 1 /\ generation \in Nat
          /\ SubKnows(s)
      BY <1>1 DEF Take, DeliveryKnows
    <3>2. Heard(s)' = Heard(s) /\ Newest(s)' = Newest(s)
      BY <3>1 DEF Heard, Newest
    <3>3. Heard(s)' => Newest(s)'[1] <= generation' /\ Newest(s)'[1] # generation'
      BY <2>1, <3>1, <3>2
    <3>4. QED
      BY <3>1, <3>2, <3>3 DEF SubKnows
<1>7. QED
  BY <1>1, <1>4, <1>5, <1>6 DEF Take, DeliveryKnows, ClosedEndsSubscribers

\* The generation moves on, so nothing is of the current link any more.
LEMMA DropKeeps ==
  ASSUME IInv, Drop
  PROVE  IInv'
<1> USE BoundsAssumption DEF IInv, Generations
<1>1. generation \in Generations /\ generation' = generation + 1 /\ ~held'
  BY DEF Drop, NextGeneration, DeliveryKnows
<1>2. /\ source' \in [Generations -> Sources]
      /\ source'[generation].queue = source[generation].queue
      /\ ~source'[generation].open
      /\ \A g \in Generations \ {generation} : source'[g] = source[g]
  <2>1. [source[generation] EXCEPT !.open = FALSE] \in Sources
    BY <1>1, Parts DEF Sources
  <2>2. source' = [source EXCEPT ![generation] = [source[generation] EXCEPT !.open = FALSE]]
    BY DEF Drop
  <2>3. source'[generation] = [source[generation] EXCEPT !.open = FALSE]
    BY <1>1, <2>2, Parts
  <2>4. source'[generation].queue = source[generation].queue /\ ~source'[generation].open
    BY <1>1, <2>3, Parts DEF Sources
  <2>5. QED
    BY <1>1, <2>1, <2>2, <2>4, Parts
<1>3. TypeOK'
  <2>1. \A g \in Generations : Len(source'[g].queue) <= SourceCapacity
    BY <1>1, <1>2 DEF TypeOK
  <2>2. generation' \in 0 .. MaxGeneration + 1
    BY <1>1
  <2>3. UNCHANGED <<closed, relay, sent, handlers, entry, subs>> /\ held' \in BOOLEAN
    BY <1>1 DEF Drop, handling
  <2>4. QED
    BY <1>2, <2>1, <2>2, <2>3 DEF TypeOK, Sources
<1>4. ASSUME NEW g \in Generations
      PROVE  RelayKnows(g)' /\ SourceKnows(g)'
  BY <1>1, <1>2 DEF Drop, DeliveryKnows, RelayKnows, SourceKnows
<1>5. ASSUME NEW s \in Subscribers
      PROVE  SubKnows(s)'
  <2>1. (Heard(s) => Newest(s)[1] <= generation /\ Newest(s)[1] \in Nat)
    BY NewestIsEvent DEF DeliveryKnows, SubKnows
  <2>2. QED
    <3>1. /\ UNCHANGED subs /\ generation' = generation + 1 /\ generation \in Nat
          /\ SubKnows(s)
      BY <1>1 DEF Drop, DeliveryKnows, handling
    <3>2. Heard(s)' = Heard(s) /\ Newest(s)' = Newest(s)
      BY <3>1 DEF Heard, Newest
    <3>3. Heard(s)' => Newest(s)'[1] <= generation' /\ Newest(s)'[1] # generation'
      BY <2>1, <3>1, <3>2
    <3>4. QED
      BY <3>1, <3>2, <3>3 DEF SubKnows
<1>6. QED
  BY <1>1, <1>3, <1>4, <1>5 DEF Drop, DeliveryKnows, ClosedEndsSubscribers

\* Ending streams keeps what is in them.
LEMMA FailKeeps ==
  ASSUME IInv, NEW why \in Endings, FailEvents(why)
  PROVE  \A s \in Subscribers :
           /\ subs'[s] \in Streams /\ ~subs'[s].open
           /\ subs'[s].queue = subs[s].queue /\ subs'[s].last = subs[s].last
           /\ subs'[s].err = IF subs[s].open THEN why ELSE subs[s].err
<1> SUFFICES ASSUME NEW s \in Subscribers
             PROVE  /\ subs'[s] \in Streams /\ ~subs'[s].open
                    /\ subs'[s].queue = subs[s].queue /\ subs'[s].last = subs[s].last
                    /\ subs'[s].err = IF subs[s].open THEN why ELSE subs[s].err
  OBVIOUS
<1>1. subs'[s] = IF subs[s].open THEN [subs[s] EXCEPT !.open = FALSE, !.err = why]
                 ELSE subs[s]
  BY DEF FailEvents
<1>2. subs[s] \in Streams
  BY Parts DEF IInv
<1>3. QED
  BY <1>1, <1>2 DEF Streams

LEMMA CloseKeeps ==
  ASSUME IInv, Close
  PROVE  IInv'
<1> USE DEF IInv
<1>1. "connection" \in Endings /\ FailEvents("connection")
  BY DEF Close, Endings
<1>2. \A s \in Subscribers :
         /\ subs'[s] \in Streams /\ ~subs'[s].open
         /\ subs'[s].queue = subs[s].queue /\ subs'[s].last = subs[s].last
  BY <1>1, FailKeeps
<1>3. TypeOK'
  <2>1. subs' \in [Subscribers -> Streams]
    BY <1>1, <1>2 DEF FailEvents
  <2>2. QED
    BY <1>2, <2>1 DEF Close, TypeOK, handling, Streams
<1>4. ASSUME NEW s \in Subscribers
      PROVE  SubKnows(s)'
  BY <1>2 DEF Close, DeliveryKnows, SubKnows, Heard, Newest
<1>5. QED
  BY <1>2, <1>3, <1>4, RelaysUntouched DEF Close, DeliveryKnows, ClosedEndsSubscribers

\* The event goes behind what the source holds, or ends the source.
LEMMA HubSendsKeeps ==
  ASSUME IInv, HubSends
  PROVE  IInv'
<1> USE BoundsAssumption DEF IInv, Generations
<1> DEFINE e == <<generation, sent + 1>>
           old == source[generation]
           new == Offer(old, e, SourceCapacity)
<1>1. /\ generation \in Generations /\ held /\ sent \in Nat /\ sent' = sent + 1
      /\ sent + 1 \in 1 .. MaxEvents
  BY DEF HubSends, DeliveryKnows, TypeOK
<1>2. e \in Event /\ e[1] = generation /\ e[2] = sent + 1
  BY <1>1 DEF Event
<1>3. old \in Sources /\ old.queue \in Seq(Event) /\ Len(old.queue) <= SourceCapacity
  BY <1>1, Parts DEF TypeOK
<1>4. source' = [source EXCEPT ![generation] = new]
  BY DEF HubSends
<1> HIDE DEF e, old, new
<1>5. /\ new \in Sources /\ Len(new.queue) <= SourceCapacity
      /\ \/ /\ old.open /\ Len(old.queue) < SourceCapacity
            /\ new.queue = Append(old.queue, e) /\ new.open /\ new.err = old.err
         \/ /\ old.open => Len(old.queue) = SourceCapacity /\ new.err = "overflow"
            /\ ~old.open => new.err = old.err
            /\ new.queue = old.queue /\ ~new.open
  BY <1>2, <1>3, OfferToSource DEF new
<1>6. /\ source' \in [Generations -> Sources] /\ source'[generation] = new
      /\ \A g \in Generations \ {generation} : source'[g] = source[g]
  BY <1>1, <1>4, <1>5, Parts
<1>7. TypeOK'
  <2>1. \A g \in Generations : Len(source'[g].queue) <= SourceCapacity
    BY <1>5, <1>6 DEF TypeOK
  <2>2. UNCHANGED <<generation, held, closed, relay, handlers, entry, subs>>
    BY DEF HubSends, link, handling
  <2>3. QED
    BY <1>1, <1>6, <2>1, <2>2 DEF TypeOK, Sources
<1>8. ASSUME NEW g \in Generations \ {generation}
      PROVE  RelayKnows(g)' /\ SourceKnows(g)'
  BY <1>6 DEF HubSends, link, DeliveryKnows, RelayKnows, SourceKnows
<1>9. RelayKnows(generation) /\ SourceKnows(generation) /\ relay[generation] \in Relays
  BY <1>1, Parts DEF DeliveryKnows
<1>10. relay' = relay /\ generation' = generation /\ held' = held
  BY DEF HubSends, link
<1>11. RelayKnows(generation)'
  BY <1>1, <1>5, <1>6, <1>9, <1>10 DEF RelayKnows, old
<1>12. SourceKnows(generation)' /\ (Pending(generation) \/ old.open => NextOf(generation)' = NextOf(generation))
       /\ (Pending(generation)' \/ new.open => Pending(generation) \/ old.open)
  <2>1. CASE old.open /\ new.queue = Append(old.queue, e) /\ new.open
    <3>1. \A i \in 1 .. Len(new.queue) :
             new.queue[i] = IF i <= Len(old.queue) THEN old.queue[i] ELSE e
      BY <1>3, <2>1
    <3>2. Len(new.queue) = Len(old.queue) + 1 /\ Len(old.queue) \in Nat /\ new.queue # <<>>
      BY <1>2, <1>3, <2>1
    <3>3. old.queue # <<>> => Len(old.queue) >= 1
      BY <1>3
    <3>4. \A i \in 1 .. Len(new.queue) :
            /\ new.queue[i][1] = generation
            /\ i < Len(new.queue) => new.queue[i + 1][2] = new.queue[i][2] + 1
      <4>1. /\ \A i \in 1 .. Len(old.queue) :
                 /\ old.queue[i][1] = generation
                 /\ i < Len(old.queue) => old.queue[i + 1][2] = old.queue[i][2] + 1
            /\ old.queue # <<>> => old.queue[Len(old.queue)][2] = sent
        BY <1>9, <2>1 DEF SourceKnows, old
      <4> SUFFICES ASSUME NEW i \in 1 .. Len(new.queue)
                   PROVE  /\ new.queue[i][1] = generation
                          /\ i < Len(new.queue)
                               => new.queue[i + 1][2] = new.queue[i][2] + 1
        OBVIOUS
      <4>2. CASE i = Len(new.queue)
        BY <1>2, <3>1, <3>2, <4>2
      <4>3. CASE i = Len(old.queue)
        <5>1. old.queue # <<>> /\ new.queue[i] = old.queue[i] /\ new.queue[i + 1] = e
          BY <3>1, <3>2, <4>3
        <5>2. QED
          BY <1>1, <1>2, <4>1, <4>3, <5>1
      <4>4. CASE i < Len(old.queue)
        <5>1. new.queue[i] = old.queue[i] /\ new.queue[i + 1] = old.queue[i + 1]
          BY <3>1, <3>2, <4>4
        <5>2. QED
          BY <3>2, <4>1, <4>4, <5>1
      <4>5. QED
        BY <3>2, <4>2, <4>3, <4>4
    <3>5. /\ new.queue[Len(new.queue)][2] = sent'
          /\ relay[generation].at = "taken"
               => new.queue[1][2] = relay[generation].event[1][2] + 1
      <4>1. new.queue[Len(new.queue)] = e
        BY <3>1, <3>2
      <4>2. CASE old.queue = <<>>
        <5>1. new.queue[1] = e
          BY <3>1, <3>2, <4>2
        <5>2. QED
          BY <1>1, <1>2, <1>9, <2>1, <4>1, <4>2, <5>1 DEF SourceKnows, old
      <4>3. CASE old.queue # <<>>
        <5>1. new.queue[1] = old.queue[1]
          BY <3>1, <3>2, <3>3, <4>3
        <5>2. QED
          BY <1>1, <1>2, <1>9, <2>1, <4>1, <4>3, <5>1 DEF SourceKnows, old
      <4>4. QED
        BY <4>2, <4>3
    <3>6. NextOf(generation)' = NextOf(generation)
      <4>1. NextOf(generation)' = IF relay[generation].at = "taken"
                                    THEN relay[generation].event[1][2]
                                    ELSE new.queue[1][2]
        BY <1>6, <1>10, <3>2 DEF NextOf
      <4>2. CASE old.queue = <<>>
        <5>1. new.queue[1] = e
          BY <3>1, <3>2, <4>2
        <5>2. QED
          BY <1>2, <4>1, <4>2, <5>1 DEF NextOf, old
      <4>3. CASE old.queue # <<>>
        <5>1. new.queue[1] = old.queue[1]
          BY <3>1, <3>2, <3>3, <4>3
        <5>2. QED
          BY <4>1, <4>3, <5>1 DEF NextOf, old
      <4>4. QED
        BY <4>2, <4>3
    <3>7. QED
      BY <1>1, <1>6, <1>9, <1>10, <2>1, <3>2, <3>4, <3>5, <3>6 DEF SourceKnows, old
  <2>2. CASE new.queue = old.queue /\ ~new.open /\ (old.open => Len(old.queue) = SourceCapacity)
    <3>1. old.open => old.queue # <<>>
      BY <1>3, <2>2
    <3>2. SourceKnows(generation)'
      BY <1>1, <1>6, <1>9, <1>10, <2>2 DEF SourceKnows, old
    <3>3. Pending(generation)' <=> Pending(generation)
      BY <1>6, <1>10, <2>2 DEF Pending, old
    <3>4. Pending(generation) => NextOf(generation)' = NextOf(generation)
      BY <1>6, <1>10, <2>2 DEF Pending, NextOf, old
    <3>5. QED
      BY <2>2, <3>1, <3>2, <3>3, <3>4 DEF Pending, old
  <2>3. QED
    BY <1>5, <2>1, <2>2
<1>13. ASSUME NEW s \in Subscribers
       PROVE  SubKnows(s)'
  BY <1>1, <1>6, <1>10, <1>12 DEF HubSends, DeliveryKnows, SubKnows, Heard, Newest, old
<1>14. QED
  BY <1>1, <1>7, <1>8, <1>10, <1>11, <1>12, <1>13
     DEF HubSends, link, DeliveryKnows, ClosedEndsSubscribers

--------------------------------------------------------------------------------
(***************************************************************************)
(* The relay.                                                              *)
(***************************************************************************)

\* The oldest event goes from the source to the relay: the next to publish is the
\* same.
LEMMA RelayTakesKeeps ==
  ASSUME IInv, NEW g \in Generations, RelayTakes(g)
  PROVE  IInv'
<1> USE BoundsAssumption DEF IInv
<1> DEFINE q == source[g].queue
           r == [relay[g] EXCEPT !.at = "taken", !.event = <<Head(q)>>]
<1>1. /\ q \in Seq(Event) /\ q # <<>> /\ relay[g].at = "select"
      /\ source[g] \in Sources /\ relay[g] \in Relays
      /\ RelayKnows(g) /\ SourceKnows(g)
  BY Parts DEF RelayTakes, DeliveryKnows
<1>2. /\ Head(q) \in Event /\ Head(q) = q[1] /\ Tail(q) \in Seq(Event)
      /\ Len(q) \in Nat /\ Len(q) >= 1 /\ Len(Tail(q)) = Len(q) - 1
      /\ \A i \in 1 .. Len(Tail(q)) : Tail(q)[i] = q[i + 1]
      /\ Tail(q) # <<>> <=> Len(q) > 1
  <2>1. /\ Head(q) \in Event /\ Head(q) = q[1] /\ Tail(q) \in Seq(Event)
        /\ Len(Tail(q)) = Len(q) - 1
        /\ \A i \in 1 .. Len(Tail(q)) : Tail(q)[i] = q[i + 1]
    BY <1>1, HeadTailProperties
  <2>2. Len(q) \in Nat /\ Len(q) >= 1
    BY <1>1
  <2>3. Tail(q) # <<>> <=> Len(Tail(q)) > 0
    BY <2>1, SomeOrNone
  <2>4. QED
    BY <2>1, <2>2, <2>3
<1>3. /\ source' = [source EXCEPT ![g] = [source[g] EXCEPT !.queue = Tail(q)]]
      /\ relay' = [relay EXCEPT ![g] = r]
      /\ UNCHANGED <<generation, held, closed, sent, handlers, entry, subs>>
  BY DEF RelayTakes, link, handling
<1>4. /\ r \in Relays /\ r.at = "taken" /\ r.event = <<Head(q)>> /\ r.todo = relay[g].todo
      /\ [source[g] EXCEPT !.queue = Tail(q)] \in Sources
  <2>1. <<Head(q)>> \in Seq(Event)
    BY <1>2
  <2>2. /\ r \in Relays /\ r.at = "taken" /\ r.event = <<Head(q)>>
        /\ r.todo = relay[g].todo
    BY <1>1, <2>1 DEF Relays, RelayPlaces
  <2>3. [source[g] EXCEPT !.queue = Tail(q)] \in Sources
    BY <1>1, <1>2 DEF Sources
  <2>4. QED
    BY <2>2, <2>3
<1>5. /\ source' \in [Generations -> Sources] /\ relay' \in [Generations -> Relays]
      /\ source'[g].queue = Tail(q) /\ source'[g].open = source[g].open
      /\ source'[g].err = source[g].err /\ relay'[g] = r
      /\ \A k \in Generations \ {g} : source'[k] = source[k] /\ relay'[k] = relay[k]
  <2>1. source'[g] = [source[g] EXCEPT !.queue = Tail(q)]
    BY <1>3, Parts
  <2>2. /\ source'[g].queue = Tail(q) /\ source'[g].open = source[g].open
        /\ source'[g].err = source[g].err
    BY <1>1, <2>1 DEF Sources
  <2>3. QED
    BY <1>3, <1>4, <2>2, Parts
<1> HIDE DEF q, r
<1>6. TypeOK'
  <2>1. \A k \in Generations : Len(source'[k].queue) <= SourceCapacity
    <3>1. Len(q) <= SourceCapacity /\ SourceCapacity \in Nat
      BY DEF TypeOK, q
    <3>2. Len(Tail(q)) <= SourceCapacity
      BY <1>2, <3>1
    <3>3. QED
      BY <1>5, <3>2 DEF TypeOK
  <2>2. QED
    BY <1>3, <1>5, <2>1 DEF TypeOK, Sources, Relays
<1>7. ASSUME NEW k \in Generations \ {g}
      PROVE  RelayKnows(k)' /\ SourceKnows(k)'
  BY <1>3, <1>5 DEF DeliveryKnows, RelayKnows, SourceKnows
<1>8. /\ \A i \in 1 .. Len(q) :
           /\ q[i][1] = g
           /\ i < Len(q) => q[i + 1][2] = q[i][2] + 1
      /\ source[g].open => q[Len(q)][2] = sent
  BY <1>1 DEF SourceKnows, q
<1>9. r.event[1] = q[1] /\ Len(r.event) = 1 /\ q[1][1] = g
  BY <1>2, <1>4, <1>8
<1>10. RelayKnows(g)'
  BY <1>1, <1>3, <1>4, <1>5, <1>9 DEF RelayKnows
<1>11. SourceKnows(g)'
  <2>1. \A i \in 1 .. Len(Tail(q)) :
           /\ Tail(q)[i][1] = g
           /\ i < Len(Tail(q)) => Tail(q)[i + 1][2] = Tail(q)[i][2] + 1
    BY <1>2, <1>8
  <2>2. /\ source[g].open /\ Tail(q) # <<>> => Tail(q)[Len(Tail(q))][2] = sent
        /\ Tail(q) # <<>> => Tail(q)[1][2] = q[1][2] + 1
        /\ source[g].open /\ Tail(q) = <<>> => q[1][2] = sent
    BY <1>2, <1>8
  <2>3. QED
    BY <1>1, <1>3, <1>4, <1>5, <1>9, <2>1, <2>2 DEF SourceKnows
<1>12. Pending(g) /\ NextOf(g)' = NextOf(g)
  BY <1>1, <1>4, <1>5, <1>9 DEF Pending, NextOf, q
<1>13. \A k \in Generations \ {g} : (Pending(k)' <=> Pending(k)) /\ NextOf(k)' = NextOf(k)
  BY <1>3, <1>5 DEF Pending, NextOf
<1>14. ASSUME NEW s \in Subscribers
       PROVE  SubKnows(s)'
  BY <1>3, <1>5, <1>12, <1>13 DEF DeliveryKnows, SubKnows, Heard, Newest
<1>15. QED
  BY <1>3, <1>6, <1>7, <1>10, <1>11, <1>14 DEF DeliveryKnows, ClosedEndsSubscribers

\* A relay that no longer holds an event to publish, whatever else it does, knows
\* as much as before.
LEMMA RelayMoves ==
  ASSUME IInv, NEW g \in Generations, NEW r \in Relays,
         relay' = [relay EXCEPT ![g] = r],
         relay[g].at # "none", r.at \notin {"none", "taken"},
         r.at \in {"check", "call", "busy"} => r.todo # <<>>,
         UNCHANGED <<generation, held, source, sent>>
  PROVE  /\ relay' \in [Generations -> Relays] /\ relay'[g] = r
         /\ \A k \in Generations : RelayKnows(k)' /\ SourceKnows(k)'
         /\ \A k \in Generations \ {g} :
              (Pending(k)' <=> Pending(k)) /\ NextOf(k)' = NextOf(k)
         /\ relay[g].at # "taken"
              => (Pending(g)' <=> Pending(g)) /\ NextOf(g)' = NextOf(g)
<1>1. /\ relay' \in [Generations -> Relays] /\ relay'[g] = r
      /\ \A k \in Generations \ {g} : relay'[k] = relay[k]
  BY Parts DEF IInv
<1>2. RelayKnows(g) /\ SourceKnows(g)
  BY DEF IInv, DeliveryKnows
<1>3. RelayKnows(g)' /\ SourceKnows(g)'
  BY <1>1, <1>2 DEF RelayKnows, SourceKnows
<1>4. ASSUME NEW k \in Generations \ {g}
      PROVE  RelayKnows(k)' /\ SourceKnows(k)'
  BY <1>1 DEF IInv, DeliveryKnows, RelayKnows, SourceKnows
<1>5. \A k \in Generations \ {g} :
         (Pending(k)' <=> Pending(k)) /\ NextOf(k)' = NextOf(k)
  BY <1>1 DEF Pending, NextOf
<1>6. relay[g].at # "taken"
        => (Pending(g)' <=> Pending(g)) /\ NextOf(g)' = NextOf(g)
  BY <1>1 DEF Pending, NextOf
<1>7. QED
  BY <1>1, <1>3, <1>4, <1>5, <1>6

\* When nothing but the relay moves, and it publishes nothing, the rest holds too.
LEMMA RelayMovesAlone ==
  ASSUME IInv, NEW g \in Generations, NEW r \in Relays,
         relay' = [relay EXCEPT ![g] = r],
         relay[g].at \notin {"none", "taken"}, r.at \notin {"none", "taken"},
         r.at \in {"check", "call", "busy"} => r.todo # <<>>,
         UNCHANGED <<link, source, sent, handling, subs>>
  PROVE  IInv'
<1> USE DEF IInv, link, handling
<1>1. /\ relay' \in [Generations -> Relays]
      /\ \A k \in Generations : RelayKnows(k)' /\ SourceKnows(k)'
      /\ \A k \in Generations : (Pending(k)' <=> Pending(k)) /\ NextOf(k)' = NextOf(k)
  BY RelayMoves
<1>2. TypeOK'
  BY <1>1 DEF TypeOK, Relays
<1>3. ASSUME NEW s \in Subscribers
      PROVE  SubKnows(s)'
  BY <1>1 DEF DeliveryKnows, SubKnows, Heard, Newest
<1>4. QED
  BY <1>1, <1>2, <1>3 DEF DeliveryKnows, ClosedEndsSubscribers

\* What is left to do after a handler: the rest of the handlers, or the next event.
LEMMA NextHandlerIs ==
  ASSUME NEW r \in Relays, r.todo # <<>>
  PROVE  /\ NextHandler(r) \in Relays
         /\ \/ /\ Len(r.todo) = 1
               /\ NextHandler(r).at = "select" /\ NextHandler(r).todo = <<>>
            \/ /\ Len(r.todo) # 1
               /\ NextHandler(r).at = "check" /\ NextHandler(r).todo = Tail(r.todo)
               /\ Tail(r.todo) # <<>>
<1>1. CASE Len(r.todo) = 1
  BY <1>1 DEF NextHandler, Relays, RelayPlaces
<1>2. CASE Len(r.todo) # 1
  <2> DEFINE n == Len(r.todo)
  <2>1. /\ r.todo \in Seq(Handlers) /\ Tail(r.todo) \in Seq(Handlers)
        /\ Len(Tail(r.todo)) = Len(r.todo) - 1
    BY HeadTailProperties DEF Relays
  <2>2. Len(r.todo) \in Nat /\ Len(r.todo) > 0
    BY <2>1, SomeOrNone
  <2>3. Tail(r.todo) # <<>>
    <3>1. n \in Nat /\ n > 0 /\ n # 1 /\ Len(Tail(r.todo)) = n - 1
      BY <1>2, <2>1, <2>2
    <3> HIDE DEF n
    <3>2. Len(Tail(r.todo)) > 0
      BY <3>1
    <3>3. QED
      BY <2>1, <3>2, SomeOrNone
  <2>4. NextHandler(r) = [r EXCEPT !.at = "check", !.todo = Tail(r.todo)]
    BY <1>2 DEF NextHandler
  <2>5. QED
    BY <1>2, <2>1, <2>3, <2>4 DEF Relays, RelayPlaces
<1>3. QED
  BY <1>1, <1>2

LEMMA RelayChecksKeeps ==
  ASSUME IInv, NEW g \in Generations, RelayChecks(g)
  PROVE  IInv'
<1>1. relay[g] \in Relays /\ relay[g].at = "check" /\ relay[g].todo # <<>>
  BY Parts DEF IInv, DeliveryKnows, RelayKnows, RelayChecks
<1>2. CASE entry[Head(relay[g].todo)] \in {"marked", "off"}
  <2>1. relay' = [relay EXCEPT ![g] = NextHandler(relay[g])]
    BY <1>2 DEF RelayChecks
  <2>2. /\ NextHandler(relay[g]) \in Relays
        /\ NextHandler(relay[g]).at \notin {"none", "taken"}
        /\ NextHandler(relay[g]).at \in {"check", "call", "busy"}
             => NextHandler(relay[g]).todo # <<>>
    BY <1>1, NextHandlerIs
  <2>3. QED
    BY <1>1, <2>1, <2>2, RelayMovesAlone DEF RelayChecks
<1>3. CASE entry[Head(relay[g].todo)] \notin {"marked", "off"}
  <2> DEFINE r == [relay[g] EXCEPT !.at = "call"]
  <2>1. relay' = [relay EXCEPT ![g] = r]
    BY <1>3 DEF RelayChecks
  <2>2. r \in Relays /\ r.at = "call" /\ r.todo # <<>>
    BY <1>1 DEF Relays, RelayPlaces
  <2> HIDE DEF r
  <2>3. QED
    BY <1>1, <2>1, <2>2, RelayMovesAlone DEF RelayChecks
<1>4. QED
  BY <1>2, <1>3

LEMMA RelayCallsKeeps ==
  ASSUME IInv, NEW g \in Generations, RelayCalls(g)
  PROVE  IInv'
<1> DEFINE r == [relay[g] EXCEPT !.at = "busy"]
<1>1. relay[g] \in Relays /\ relay[g].at = "call" /\ relay[g].todo # <<>>
  BY Parts DEF IInv, DeliveryKnows, RelayKnows, RelayCalls
<1>2. r \in Relays /\ r.at = "busy" /\ r.todo # <<>>
  BY <1>1 DEF Relays, RelayPlaces
<1>3. relay' = [relay EXCEPT ![g] = r]
  BY DEF RelayCalls
<1> HIDE DEF r
<1>4. QED
  BY <1>1, <1>2, <1>3, RelayMovesAlone DEF RelayCalls

LEMMA HandlerReturnsKeeps ==
  ASSUME IInv, NEW g \in Generations, HandlerReturns(g)
  PROVE  IInv'
<1>1. relay[g] \in Relays /\ relay[g].at = "busy" /\ relay[g].todo # <<>>
  BY Parts DEF IInv, DeliveryKnows, RelayKnows, HandlerReturns
<1>2. relay' = [relay EXCEPT ![g] = NextHandler(relay[g])]
  BY DEF HandlerReturns
<1>3. /\ NextHandler(relay[g]) \in Relays
      /\ NextHandler(relay[g]).at \notin {"none", "taken"}
      /\ NextHandler(relay[g]).at \in {"check", "call", "busy"}
           => NextHandler(relay[g]).todo # <<>>
  BY <1>1, NextHandlerIs
<1>4. QED
  BY <1>1, <1>2, <1>3, RelayMovesAlone DEF HandlerReturns

LEMMA RelayStopsKeeps ==
  ASSUME IInv, NEW g \in Generations, RelayStops(g)
  PROVE  IInv'
<1> DEFINE r == [relay[g] EXCEPT !.at = "gone"]
<1>1. relay[g] \in Relays /\ relay[g].at = "select"
  BY Parts DEF IInv, RelayStops
<1>2. r \in Relays /\ r.at = "gone"
  BY <1>1 DEF Relays, RelayPlaces
<1>3. relay' = [relay EXCEPT ![g] = r]
  BY DEF RelayStops
<1> HIDE DEF r
<1>4. QED
  BY <1>1, <1>2, <1>3, RelayMovesAlone DEF RelayStops

\* The source ended: the relay goes, and if its link is still the current one every
\* stream ends with it.
LEMMA RelayEndsKeeps ==
  ASSUME IInv, NEW g \in Generations, RelayEnds(g)
  PROVE  IInv'
<1> USE DEF IInv, link, handling
<1> DEFINE r == [relay[g] EXCEPT !.at = "gone"]
           why == IF source[g].err = "none" THEN "connection" ELSE source[g].err
<1>1. relay[g] \in Relays /\ relay[g].at = "select"
  BY Parts DEF RelayEnds
<1>2. r \in Relays /\ r.at = "gone"
  BY <1>1 DEF Relays, RelayPlaces
<1>3. relay' = [relay EXCEPT ![g] = r]
      /\ UNCHANGED <<generation, held, closed, source, sent, handlers, entry>>
  BY DEF RelayEnds
<1> HIDE DEF r
<1>4. CASE ~Current(g)
  BY <1>1, <1>2, <1>3, <1>4, RelayMovesAlone DEF RelayEnds
<1>5. CASE Current(g)
  <2>1. why \in Endings /\ FailEvents(why)
    BY <1>5, Parts DEF RelayEnds, Sources, Endings
  <2>2. \A s \in Subscribers :
           /\ subs'[s] \in Streams /\ ~subs'[s].open
           /\ subs'[s].queue = subs[s].queue /\ subs'[s].last = subs[s].last
    BY <2>1, FailKeeps
  <2>3. subs' \in [Subscribers -> Streams]
    BY <2>1, <2>2 DEF FailEvents
  <2>4. /\ relay' \in [Generations -> Relays]
        /\ \A k \in Generations : RelayKnows(k)' /\ SourceKnows(k)'
    BY <1>1, <1>2, <1>3, RelayMoves
  <2>5. TypeOK'
    BY <1>3, <2>2, <2>3, <2>4 DEF TypeOK, Relays, Streams
  <2>6. ASSUME NEW s \in Subscribers
        PROVE  SubKnows(s)'
    BY <1>3, <2>2 DEF DeliveryKnows, SubKnows, Heard, Newest
  <2>7. QED
    BY <1>3, <2>2, <2>4, <2>5, <2>6 DEF DeliveryKnows, ClosedEndsSubscribers
<1>6. QED
  BY <1>4, <1>5

\* The event is published to every open stream, where it follows what is there: the
\* invariant says the newest event of an open stream is the one before it.
LEMMA PublishKeeps ==
  ASSUME IInv, NEW g \in Generations, relay[g].at = "taken", g = generation,
         Publish(relay[g].event[1]), relay'[g].at # "taken",
         UNCHANGED <<generation, source, sent>>
  PROVE  /\ subs' \in [Subscribers -> Streams]
         /\ \A s \in Subscribers : Len(subs'[s].queue) <= Capacity
         /\ \A s \in Subscribers : SubKnows(s)' /\ (subs'[s].open => subs[s].open)
<1> USE BoundsAssumption DEF IInv
<1> DEFINE e == relay[g].event[1]
<1>1. e \in Event /\ e[1] = g /\ e[2] \in Nat /\ e = relay[g].event[1]
  <2>1. Len(relay[g].event) = 1 /\ e[1] = g /\ relay[g].event \in Seq(Event)
    BY Parts DEF DeliveryKnows, RelayKnows
  <2>2. e \in Event
    BY <2>1
  <2>3. QED
    BY <2>1, <2>2 DEF Event
<1>2. NextOf(g) = e[2] /\ Pending(g)
  BY DEF NextOf, Pending
<1>3. Pending(g)' \/ source[g].open => NextOf(g)' = e[2] + 1
  <2>1. SourceKnows(g)
    BY DEF DeliveryKnows
  <2>2. CASE source[g].queue # <<>>
    BY <1>1, <2>1, <2>2 DEF SourceKnows, NextOf
  <2>3. CASE source[g].queue = <<>>
    BY <1>1, <2>1, <2>3 DEF SourceKnows, NextOf, Pending
  <2>4. QED
    BY <2>2, <2>3
<1> HIDE DEF e
<1>4. ASSUME NEW s \in Subscribers
      PROVE  /\ subs'[s] = Offer(subs[s], e, Capacity)
             /\ subs'[s] \in Streams /\ Len(subs'[s].queue) <= Capacity
             /\ subs'[s].last = subs[s].last
             /\ \/ /\ subs[s].open /\ Len(subs[s].queue) < Capacity
                   /\ subs'[s].queue = Append(subs[s].queue, e) /\ subs'[s].open
                \/ subs'[s].queue = subs[s].queue /\ ~subs'[s].open
  <2>1. subs'[s] = Offer(subs[s], e, Capacity)
    BY <1>1 DEF Publish
  <2>2. subs[s] \in Streams /\ Len(subs[s].queue) <= Capacity
    BY Parts DEF TypeOK
  <2>3. QED
    BY <1>1, <2>1, <2>2, OfferToSubscriber
<1>5. subs' \in [Subscribers -> Streams]
  BY <1>4 DEF Publish
<1>6. ASSUME NEW s \in Subscribers
      PROVE  SubKnows(s)' /\ (subs'[s].open => subs[s].open)
  <2> DEFINE q == subs[s].queue
             l == subs[s].last
  <2>1. q \in Seq(Event) /\ l \in Seq(Event) /\ Len(q) \in Nat /\ SubKnows(s)
    BY Parts DEF DeliveryKnows
  <2>2. CASE subs'[s].queue = q /\ ~subs'[s].open
    BY <1>4, <2>1, <2>2 DEF SubKnows, Heard, Newest
  <2>3. CASE subs[s].open /\ subs'[s].queue = Append(q, e) /\ subs'[s].open
    <3>1. /\ Len(Append(q, e)) = Len(q) + 1 /\ Append(q, e) # <<>>
          /\ Append(q, e)[Len(q) + 1] = e
          /\ \A i \in 1 .. Len(q) : Append(q, e)[i] = q[i]
      BY <1>1, <2>1
    <3>2. ASSUME Heard(s)
          PROVE  Follows(Newest(s), e)
      <4>1. Newest(s)[1] \in Nat /\ Newest(s)[2] \in Nat /\ Newest(s)[1] <= g
        BY <2>1, <3>2, NewestIsEvent DEF SubKnows
      <4>2. Newest(s)[1] = g => e[2] = Newest(s)[2] + 1
        BY <1>2, <2>1, <2>3, <3>2 DEF SubKnows
      <4>3. g \in Nat
        BY DEF Generations
      <4>4. QED
        BY <1>1, <4>1, <4>2, <4>3 DEF Follows
    <3>3. \A i \in 1 .. Len(Append(q, e)) - 1 :
             Follows(Append(q, e)[i], Append(q, e)[i + 1])
      <4> SUFFICES ASSUME NEW i \in 1 .. Len(q)
                   PROVE  Follows(Append(q, e)[i], Append(q, e)[i + 1])
        BY <2>1, <3>1
      <4>1. CASE i = Len(q)
        <5>1. q # <<>>
          BY <2>1, <4>1, SomeOrNone
        <5>2. QED
          BY <3>1, <3>2, <4>1, <5>1 DEF Heard, Newest
      <4>2. CASE i < Len(q)
        <5>1. /\ i \in 1 .. Len(q) - 1 /\ i + 1 \in 1 .. Len(q)
              /\ \A j \in 1 .. Len(q) - 1 : Follows(q[j], q[j + 1])
          BY <2>1, <4>2 DEF SubKnows
        <5>2. Append(q, e)[i] = q[i] /\ Append(q, e)[i + 1] = q[i + 1]
          BY <3>1, <5>1
        <5>3. Follows(q[i], q[i + 1])
          BY <5>1
        <5>4. QED
          BY <5>2, <5>3
      <4>3. QED
        <5>1. Len(q) \in Nat
          BY <2>1
        <5>2. QED
          BY <4>1, <4>2, <5>1
    <3>4. l # <<>> => Follows(l[1], Append(q, e)[1])
      <4>1. CASE q = <<>>
        BY <2>1, <3>1, <3>2, <4>1 DEF Heard, Newest
      <4>2. CASE q # <<>>
        BY <2>1, <3>1, <4>2, SomeOrNone DEF SubKnows
      <4>3. QED
        BY <4>1, <4>2
    <3>5. Newest(s)' = e /\ Heard(s)'
      BY <2>1, <2>3, <3>1 DEF Newest, Heard
    <3>6. QED
      <4>1. /\ subs'[s].last = l /\ Len(l) <= 1 /\ e[1] <= generation'
        BY <1>1, <1>4, <2>1 DEF SubKnows, Generations
      <4>2. ASSUME NEW k \in Generations, k = generation', Newest(s)'[1] = k,
                   Pending(k)' \/ source'[k].open
            PROVE  NextOf(k)' = Newest(s)'[2] + 1
        <5>1. k = g /\ source' = source
          BY <4>2
        <5>2. QED
          BY <1>3, <3>5, <4>2, <5>1
      <4>3. QED
        BY <2>3, <3>3, <3>4, <3>5, <4>1, <4>2 DEF SubKnows
  <2>4. QED
    BY <1>4, <2>2, <2>3
<1>7. QED
  BY <1>4, <1>5, <1>6

LEMMA RelayPublishesKeeps ==
  ASSUME IInv, NEW g \in Generations, RelayPublishes(g)
  PROVE  IInv'
<1> USE DEF IInv, link, handling
<1>1. /\ relay[g] \in Relays /\ relay[g].at = "taken"
      /\ UNCHANGED <<generation, held, closed, source, sent, handlers, entry>>
  BY Parts DEF RelayPublishes
<1>2. CASE Current(g)
  <2> DEFINE r == [relay[g] EXCEPT
                     !.at = IF handlers = <<>> THEN "select" ELSE "check",
                     !.event = IF handlers = <<>> THEN <<>> ELSE @,
                     !.todo = handlers]
  <2>1. relay' = [relay EXCEPT ![g] = r] /\ Publish(relay[g].event[1])
    BY <1>2 DEF RelayPublishes
  <2>2. /\ r \in Relays /\ r.at \notin {"none", "taken"}
        /\ r.at \in {"check", "call", "busy"} => r.todo # <<>>
    <3>1. handlers \in Seq(Handlers) /\ relay[g].event \in Seq(Event)
      BY <1>1 DEF TypeOK, Relays
    <3>2. CASE handlers = <<>>
      <4>1. r = [relay[g] EXCEPT !.at = "select", !.event = <<>>, !.todo = handlers]
        BY <3>2
      <4>2. <<>> \in Seq(Event)
        OBVIOUS
      <4>3. QED
        BY <1>1, <3>1, <4>1, <4>2 DEF Relays, RelayPlaces
    <3>3. CASE handlers # <<>>
      <4>1. r = [relay[g] EXCEPT !.at = "check", !.event = relay[g].event,
                                 !.todo = handlers]
        BY <3>3
      <4>2. QED
        BY <1>1, <3>1, <3>3, <4>1 DEF Relays, RelayPlaces
    <3>4. QED
      BY <3>2, <3>3
  <2> HIDE DEF r
  <2>3. /\ relay' \in [Generations -> Relays] /\ relay'[g] = r
        /\ \A k \in Generations : RelayKnows(k)' /\ SourceKnows(k)'
    BY <1>1, <2>1, <2>2, RelayMoves
  <2>4. /\ subs' \in [Subscribers -> Streams]
        /\ \A s \in Subscribers : Len(subs'[s].queue) <= Capacity
        /\ \A s \in Subscribers : SubKnows(s)' /\ (subs'[s].open => subs[s].open)
    BY <1>1, <1>2, <2>1, <2>2, <2>3, PublishKeeps DEF Current
  <2>5. TypeOK'
    BY <1>1, <2>3, <2>4 DEF TypeOK, Relays, Streams
  <2>6. QED
    BY <1>1, <2>3, <2>4, <2>5 DEF DeliveryKnows, ClosedEndsSubscribers
<1>3. CASE ~Current(g)
  <2> DEFINE r == [relay[g] EXCEPT !.at = "select", !.event = <<>>]
  <2>1. relay' = [relay EXCEPT ![g] = r] /\ subs' = subs
    BY <1>3 DEF RelayPublishes
  <2>2. r \in Relays /\ r.at = "select"
    <3>1. <<>> \in Seq(Event)
      OBVIOUS
    <3>2. QED
      BY <1>1, <3>1 DEF Relays, RelayPlaces
  <2> HIDE DEF r
  <2>3. /\ relay' \in [Generations -> Relays]
        /\ \A k \in Generations : RelayKnows(k)' /\ SourceKnows(k)'
        /\ \A k \in Generations \ {g} :
             (Pending(k)' <=> Pending(k)) /\ NextOf(k)' = NextOf(k)
    BY <1>1, <2>1, <2>2, RelayMoves
  <2>4. TypeOK'
    BY <1>1, <2>1, <2>3 DEF TypeOK, Relays
  <2>5. ASSUME NEW s \in Subscribers
        PROVE  SubKnows(s)'
    <3>1. g = generation => ~subs[s].open
      BY <1>3 DEF Current, DeliveryKnows, ClosedEndsSubscribers
    <3>2. QED
      BY <1>1, <2>1, <2>3, <3>1 DEF DeliveryKnows, SubKnows, Heard, Newest
  <2>6. QED
    BY <1>1, <2>1, <2>3, <2>4, <2>5 DEF DeliveryKnows, ClosedEndsSubscribers
<1>4. QED
  BY <1>2, <1>3

--------------------------------------------------------------------------------
(***************************************************************************)
(* Handlers and subscribers.                                               *)
(***************************************************************************)

\* Registering and removing handlers touches no stream.
LEMMA HandlersKeep ==
  ASSUME IInv, NEW h \in Handlers, On(h) \/ Unsubscribe(h) \/ Unsubscribed(h)
  PROVE  IInv'
<1> USE DEF IInv
<1>1. UNCHANGED <<generation, held, closed, source, relay, sent, subs>>
  BY DEF On, Unsubscribe, Unsubscribed, link
<1>2. entry' \in [Handlers -> {"new", "on", "marked", "off"}]
  BY DEF On, Unsubscribe, Unsubscribed, TypeOK
<1>3. handlers' \in Seq(Handlers)
  <2>1. CASE On(h)
    BY <2>1 DEF On, TypeOK
  <2>2. CASE Unsubscribe(h)
    BY <2>2 DEF Unsubscribe, TypeOK
  <2>3. CASE Unsubscribed(h)
    <3>1. PICK i \in DOMAIN handlers :
            handlers' = SubSeq(handlers, 1, i - 1) \o SubSeq(handlers, i + 1, Len(handlers))
      BY <2>3 DEF Unsubscribed
    <3>2. handlers \in Seq(Handlers) /\ i \in 1 .. Len(handlers) /\ Len(handlers) \in Nat
      BY DEF TypeOK
    <3>3. SubSeq(handlers, 1, i - 1) \in Seq(Handlers)
      BY <3>2, SubSeqProperties
    <3>4. SubSeq(handlers, i + 1, Len(handlers)) \in Seq(Handlers)
      BY <3>2, SubSeqProperties
    <3>5. QED
      BY <3>1, <3>3, <3>4
  <2>4. QED
    BY <2>1, <2>2, <2>3
<1>4. TypeOK'
  BY <1>1, <1>2, <1>3 DEF TypeOK
<1>5. ASSUME NEW s \in Subscribers
      PROVE  SubKnows(s)'
  BY <1>1, RelaysUntouched DEF DeliveryKnows, SubKnows, Heard, Newest
<1>6. QED
  BY <1>1, <1>4, <1>5, RelaysUntouched DEF DeliveryKnows, ClosedEndsSubscribers

\* A new stream is empty, and a closed session ends it at once.
LEMMA SubscribeKeeps ==
  ASSUME IInv, NEW s \in Subscribers, Subscribe(s)
  PROVE  IInv'
<1> USE DEF IInv
<1> DEFINE new == [subs[s] EXCEPT !.open = ~closed,
                                  !.err = IF closed THEN "connection" ELSE "none"]
<1>1. /\ subs[s] \in Streams /\ subs[s].queue = <<>> /\ subs[s].last = <<>>
      /\ subs' = [subs EXCEPT ![s] = new] /\ closed \in BOOLEAN
      /\ UNCHANGED <<generation, held, closed, source, relay, sent, handlers, entry>>
  BY Parts DEF Subscribe, link, handling, TypeOK
<1>2. /\ new \in Streams /\ new.open = ~closed
      /\ new.queue = subs[s].queue /\ new.last = subs[s].last
  <2>1. (IF closed THEN "connection" ELSE "none") \in Endings
    BY DEF Endings
  <2>2. QED
    BY <1>1, <2>1 DEF Streams
<1> HIDE DEF new
<1>3. /\ subs' \in [Subscribers -> Streams] /\ subs'[s] = new
      /\ \A t \in Subscribers \ {s} : subs'[t] = subs[t]
  BY <1>1, <1>2, Parts
<1>4. TypeOK'
  <2>1. \A t \in Subscribers : Len(subs'[t].queue) <= Capacity
    BY <1>2, <1>3 DEF TypeOK
  <2>2. QED
    BY <1>1, <1>3, <2>1 DEF TypeOK, Streams
<1>5. SubKnows(s)'
  BY <1>1, <1>2, <1>3 DEF DeliveryKnows, SubKnows, Heard
<1>6. ASSUME NEW t \in Subscribers \ {s}
      PROVE  SubKnows(t)'
  BY <1>1, <1>3, RelaysUntouched DEF DeliveryKnows, SubKnows, Heard, Newest
<1>7. ClosedEndsSubscribers'
  BY <1>1, <1>2, <1>3 DEF DeliveryKnows, ClosedEndsSubscribers
<1>8. QED
  BY <1>1, <1>4, <1>5, <1>6, <1>7, RelaysUntouched DEF DeliveryKnows

\* A stream that was left keeps what is in it.
LEMMA LeaveKeeps ==
  ASSUME IInv, NEW s \in Subscribers, Leave(s)
  PROVE  IInv'
<1> USE DEF IInv
<1> DEFINE new == [subs[s] EXCEPT !.open = FALSE]
<1>1. /\ subs[s] \in Streams /\ subs' = [subs EXCEPT ![s] = new]
      /\ UNCHANGED <<generation, held, closed, source, relay, sent, handlers, entry>>
  BY Parts DEF Leave, link, handling
<1>2. /\ new \in Streams /\ ~new.open
      /\ new.queue = subs[s].queue /\ new.last = subs[s].last
  BY <1>1 DEF Streams
<1> HIDE DEF new
<1>3. /\ subs' \in [Subscribers -> Streams] /\ subs'[s] = new
      /\ \A t \in Subscribers \ {s} : subs'[t] = subs[t]
  BY <1>1, <1>2, Parts
<1>4. TypeOK'
  <2>1. \A t \in Subscribers : Len(subs'[t].queue) <= Capacity
    BY <1>2, <1>3 DEF TypeOK
  <2>2. QED
    BY <1>1, <1>3, <2>1 DEF TypeOK, Streams
<1>5. SubKnows(s)'
  BY <1>1, <1>2, <1>3 DEF DeliveryKnows, SubKnows, Heard, Newest
<1>6. ASSUME NEW t \in Subscribers \ {s}
      PROVE  SubKnows(t)'
  BY <1>1, <1>3, RelaysUntouched DEF DeliveryKnows, SubKnows, Heard, Newest
<1>7. ClosedEndsSubscribers'
  BY <1>1, <1>2, <1>3 DEF DeliveryKnows, ClosedEndsSubscribers
<1>8. QED
  BY <1>1, <1>4, <1>5, <1>6, <1>7, RelaysUntouched DEF DeliveryKnows

\* Reading moves the oldest unread event to the front: the newest is the same.
LEMMA ReceiveKeeps ==
  ASSUME IInv, NEW s \in Subscribers, Receive(s)
  PROVE  IInv'
<1> USE DEF IInv
<1> DEFINE q   == subs[s].queue
           new == [subs[s] EXCEPT !.queue = Tail(q), !.last = <<Head(q)>>]
<1>1. /\ subs[s] \in Streams /\ subs' = [subs EXCEPT ![s] = new]
      /\ q \in Seq(Event) /\ q # <<>> /\ SubKnows(s)
      /\ UNCHANGED <<generation, held, closed, source, relay, sent, handlers, entry>>
  BY Parts DEF Receive, link, handling, DeliveryKnows
<1>2. /\ Head(q) \in Event /\ Head(q) = q[1] /\ Tail(q) \in Seq(Event)
      /\ Len(q) \in Nat /\ Len(q) > 0 /\ Len(Tail(q)) = Len(q) - 1
      /\ \A i \in 1 .. Len(Tail(q)) : Tail(q)[i] = q[i + 1]
  BY <1>1, HeadTailProperties, SomeOrNone
<1>3. Tail(q) # <<>> <=> Len(Tail(q)) > 0
  BY <1>2, SomeOrNone
<1>4. <<Head(q)>> \in Seq(Event)
  BY <1>2
<1>5. /\ new \in Streams /\ new.open = subs[s].open
      /\ new.queue = Tail(q) /\ new.last = <<Head(q)>>
  BY <1>1, <1>2, <1>4 DEF Streams
<1> HIDE DEF new, q
<1>6. /\ subs' \in [Subscribers -> Streams] /\ subs'[s] = new
      /\ \A t \in Subscribers \ {s} : subs'[t] = subs[t]
  BY <1>1, <1>5, Parts
<1>7. TypeOK'
  <2>1. Len(q) <= Capacity /\ Capacity \in Nat
    BY BoundsAssumption DEF TypeOK, q
  <2>2. Len(Tail(q)) <= Capacity
    BY <1>2, <2>1
  <2>3. \A t \in Subscribers : Len(subs'[t].queue) <= Capacity
    BY <1>5, <1>6, <2>2 DEF TypeOK
  <2>4. QED
    BY <1>1, <1>6, <2>3 DEF TypeOK, Streams
<1>8. SubKnows(s)'
  <2>1. \A i \in 1 .. Len(q) - 1 : Follows(q[i], q[i + 1])
    BY <1>1 DEF SubKnows, q
  <2>2. /\ \A i \in 1 .. Len(Tail(q)) - 1 : Follows(Tail(q)[i], Tail(q)[i + 1])
        /\ Tail(q) # <<>> => Follows(q[1], Tail(q)[1])
    BY <1>2, <1>3, <2>1
  <2>3. new.last[1] = q[1] /\ Len(new.last) = 1
    BY <1>2, <1>5
  <2>4. Newest(s)' = Newest(s) /\ Heard(s)
    <3>1. Newest(s) = q[Len(q)] /\ Heard(s)
      BY <1>1 DEF Newest, Heard, q
    <3>2. CASE Tail(q) = <<>>
      <4>1. Len(q) = 1
        BY <1>2, <1>3, <3>2
      <4>2. QED
        BY <1>5, <1>6, <2>3, <3>1, <3>2, <4>1 DEF Newest
    <3>3. CASE Tail(q) # <<>>
      <4>1. Tail(q)[Len(Tail(q))] = q[Len(q)]
        BY <1>2, <1>3, <3>3
      <4>2. QED
        BY <1>5, <1>6, <3>1, <3>3, <4>1 DEF Newest
    <3>4. QED
      BY <3>2, <3>3
  <2>5. QED
    <3>1. /\ subs'[s].queue = Tail(q) /\ subs'[s].last = new.last
          /\ subs'[s].open = subs[s].open
      BY <1>5, <1>6
    <3>2. Newest(s)'[1] <= generation'
      BY <1>1, <2>4 DEF SubKnows
    <3>3. ASSUME NEW g \in Generations, subs'[s].open, g = generation',
                 Newest(s)'[1] = g, Pending(g)' \/ source'[g].open
          PROVE  NextOf(g)' = Newest(s)'[2] + 1
      <4>1. NextOf(g)' = NextOf(g) /\ (Pending(g)' <=> Pending(g))
        BY <1>1, RelaysUntouched
      <4>2. QED
        BY <1>1, <2>4, <3>1, <3>3, <4>1 DEF SubKnows
    <3>4. /\ Len(subs'[s].last) <= 1
          /\ subs'[s].queue # <<>> => Follows(subs'[s].last[1], subs'[s].queue[1])
      <4>1. Len(subs'[s].last) = 1 /\ subs'[s].last[1] = q[1]
        BY <2>3, <3>1
      <4>2. QED
        BY <2>2, <3>1, <4>1
    <3>5. \A i \in 1 .. Len(subs'[s].queue) - 1 :
             Follows(subs'[s].queue[i], subs'[s].queue[i + 1])
      BY <2>2, <3>1
    <3>6. QED
      BY <3>2, <3>3, <3>4, <3>5 DEF SubKnows
<1>9. ASSUME NEW t \in Subscribers \ {s}
      PROVE  SubKnows(t)'
  BY <1>1, <1>6, RelaysUntouched DEF DeliveryKnows, SubKnows, Heard, Newest
<1>10. ClosedEndsSubscribers'
  BY <1>1, <1>5, <1>6 DEF DeliveryKnows, ClosedEndsSubscribers
<1>11. QED
  BY <1>1, <1>7, <1>8, <1>9, <1>10, RelaysUntouched DEF DeliveryKnows

--------------------------------------------------------------------------------
(***************************************************************************)
(* The invariant, and what follows from it.                                *)
(***************************************************************************)

LEMMA InitKnows == Init => IInv
<1> SUFFICES ASSUME Init PROVE IInv
  OBVIOUS
<1> USE BoundsAssumption DEF Init
<1>1. /\ source \in [Generations -> Sources] /\ relay \in [Generations -> Relays]
      /\ subs \in [Subscribers -> Streams]
  BY DEF Sources, Relays, Streams, Endings, RelayPlaces
<1>2. TypeOK
  <2>1. /\ \A g \in Generations : Len(source[g].queue) <= SourceCapacity
        /\ \A s \in Subscribers : Len(subs[s].queue) <= Capacity
    OBVIOUS
  <2>2. handlers \in Seq(Handlers) /\ entry \in [Handlers -> {"new", "on", "marked", "off"}]
    OBVIOUS
  <2>3. generation \in 0 .. MaxGeneration + 1 /\ sent \in 0 .. MaxEvents
    OBVIOUS
  <2>4. QED
    BY <1>1, <2>1, <2>2, <2>3 DEF TypeOK, Sources, Relays, Streams
<1>3. DeliveryKnows
  BY DEF DeliveryKnows, RelayKnows, SourceKnows, SubKnows, Heard, ClosedEndsSubscribers,
         Generations
<1>4. QED
  BY <1>2, <1>3 DEF IInv

LEMMA StepKnows ==
  ASSUME IInv, [Next]_vars
  PROVE  IInv'
<1>1. CASE Take \/ Drop \/ Close \/ HubSends
  BY <1>1, TakeKeeps, DropKeeps, CloseKeeps, HubSendsKeeps
<1>2. ASSUME NEW g \in Generations, RelayStep(g)
      PROVE  IInv'
  BY <1>2, RelayTakesKeeps, RelayPublishesKeeps, RelayChecksKeeps, RelayCallsKeeps,
     HandlerReturnsKeeps, RelayStopsKeeps, RelayEndsKeeps DEF RelayStep
<1>3. ASSUME NEW h \in Handlers, On(h) \/ Unsubscribe(h) \/ Unsubscribed(h)
      PROVE  IInv'
  BY <1>3, HandlersKeep
<1>4. ASSUME NEW s \in Subscribers, Subscribe(s) \/ Leave(s) \/ Receive(s)
      PROVE  IInv'
  BY <1>4, SubscribeKeeps, LeaveKeeps, ReceiveKeeps
<1>5. CASE UNCHANGED vars
  BY <1>5 DEF vars, IInv, TypeOK, DeliveryKnows, RelayKnows, SourceKnows, SubKnows,
              Heard, Newest, Pending, NextOf, ClosedEndsSubscribers
<1>6. QED
  BY <1>1, <1>2, <1>3, <1>4, <1>5 DEF Next

\* What relays, sources and subscribers know always holds: an event is neither lost
\* nor repeated between the hub and a subscriber (ensure's relay, publish).
THEOREM DeliveryInvariant == Spec => []IInv
<1>1. QED
  BY InitKnows, StepKnows, PTL DEF Spec

\* Every variable keeps its type, and no queue grows beyond its capacity
\* (subscribe, publish).
THEOREM DeliveryTyped == Spec => []TypeOK
BY DeliveryInvariant, PTL DEF IInv

\* The stream of a subscriber, event by event.
LEMMA StreamElements ==
  ASSUME TypeOK, NEW s \in Subscribers, Len(subs[s].last) <= 1
  PROVE  /\ Len(Stream(s)) = Len(subs[s].last) + Len(subs[s].queue)
         /\ \A i \in 1 .. Len(Stream(s)) :
              Stream(s)[i] = IF i <= Len(subs[s].last) THEN subs[s].last[i]
                             ELSE subs[s].queue[i - Len(subs[s].last)]
<1>1. subs[s].queue \in Seq(Event) /\ subs[s].last \in Seq(Event)
  BY Parts
<1>2. QED
  BY <1>1, ConcatProperties DEF Stream

LEMMA KnowsHonest ==
  ASSUME IInv
  PROVE  StreamsHonest
<1> USE DEF IInv
<1> SUFFICES StreamIntact
  BY DEF StreamsHonest, DeliveryKnows
<1> SUFFICES ASSUME NEW s \in Subscribers, NEW i \in 1 .. Len(Stream(s)) - 1
             PROVE  Follows(Stream(s)[i], Stream(s)[i + 1])
  BY DEF StreamIntact, Follows
<1> DEFINE q == subs[s].queue
           l == subs[s].last
<1>1. /\ q \in Seq(Event) /\ l \in Seq(Event) /\ Len(l) \in Nat /\ Len(q) \in Nat
      /\ Len(l) <= 1 /\ SubKnows(s)
      /\ (q # <<>> <=> Len(q) > 0) /\ (l # <<>> <=> Len(l) > 0)
  BY Parts, SomeOrNone DEF DeliveryKnows, SubKnows
<1>2. /\ Len(Stream(s)) = Len(l) + Len(q)
      /\ \A j \in 1 .. Len(Stream(s)) :
           Stream(s)[j] = IF j <= Len(l) THEN l[j] ELSE q[j - Len(l)]
  BY <1>1, StreamElements
<1>3. CASE Len(l) = 0
  <2>1. Stream(s)[i] = q[i] /\ Stream(s)[i + 1] = q[i + 1] /\ i \in 1 .. Len(q) - 1
    BY <1>1, <1>2, <1>3
  <2>2. QED
    BY <1>1, <2>1 DEF SubKnows
<1>4. CASE Len(l) = 1 /\ i = 1
  <2>1. Stream(s)[i] = l[1] /\ Stream(s)[i + 1] = q[1] /\ Len(q) > 0
    BY <1>1, <1>2, <1>4
  <2>2. QED
    BY <1>1, <1>4, <2>1 DEF SubKnows
<1>5. CASE Len(l) = 1 /\ i # 1
  <2>1. Stream(s)[i] = q[i - 1] /\ Stream(s)[i + 1] = q[i] /\ i - 1 \in 1 .. Len(q) - 1
    <3>1. /\ i \in 1 .. Len(Stream(s)) /\ i + 1 \in 1 .. Len(Stream(s))
          /\ i > 1 /\ i - 1 \in 1 .. Len(q) - 1
      BY <1>1, <1>2, <1>5
    <3>2. Stream(s)[i] = q[i - 1] /\ Stream(s)[i + 1] = q[(i + 1) - 1]
      BY <1>2, <1>5, <3>1
    <3>3. QED
      BY <3>1, <3>2
  <2>2. Follows(q[i - 1], q[(i - 1) + 1])
    BY <1>1, <2>1 DEF SubKnows
  <2>3. QED
    BY <2>1, <2>2
<1>6. Len(l) = 0 \/ Len(l) = 1
  <2>1. \A n \in Nat : n <= 1 => n = 0 \/ n = 1
    OBVIOUS
  <2>2. QED
    BY <1>1, <2>1
<1>7. QED
  BY <1>3, <1>4, <1>5, <1>6

\* A subscriber never misses an event between two it is given, never gets one twice or
\* from an older link after a newer, and has an ended stream once the session is
\* closed (publish, failEvents, SubscribeEvents).
THEOREM StreamsAlwaysHonest == Spec => []StreamsHonest
BY DeliveryInvariant, KnowsHonest, PTL

\* What a step does to a stream: only the relay of the held link adds to it, and
\* only Close, a closed session or an overflow gives it an error.
LEMMA StepSilent ==
  ASSUME IInv, [Next]_vars
  PROVE  StaleNeverPublished /\ OnlyCloseOrOverflowEnds
<1> USE DEF IInv
<1> SUFFICES ASSUME NEW s \in Subscribers
             PROVE  /\ Len(subs'[s].queue) > Len(subs[s].queue) =>
                         /\ subs'[s].queue[Len(subs'[s].queue)][1] = generation
                         /\ held /\ ~closed
                    /\ subs'[s].err # subs[s].err => closed' \/ subs'[s].err = "overflow"
  BY DEF StaleNeverPublished, OnlyCloseOrOverflowEnds
<1>1. /\ subs[s] \in Streams /\ subs[s].queue \in Seq(Event)
      /\ Len(subs[s].queue) \in Nat /\ Len(subs[s].queue) <= Capacity
  BY Parts DEF TypeOK
<1>2. CASE subs' = subs
  BY <1>1, <1>2
<1>3. CASE Close
  <2>1. subs'[s].queue = subs[s].queue
    <3>1. "connection" \in Endings /\ FailEvents("connection")
      BY <1>3 DEF Close, Endings
    <3>2. QED
      BY <3>1, FailKeeps
  <2>2. QED
    BY <1>1, <1>3, <2>1 DEF Close
<1>4. ASSUME NEW g \in Generations, RelayEnds(g), Current(g)
      PROVE  subs'[s].queue = subs[s].queue /\
             (subs'[s].err # subs[s].err => subs'[s].err = "overflow")
  <2>1. source[g].err = "overflow"
    BY <1>4 DEF RelayEnds, Current, DeliveryKnows, RelayKnows
  <2>2. FailEvents("overflow") /\ "overflow" \in Endings
    BY <1>4, <2>1 DEF RelayEnds, Endings
  <2>3. QED
    BY <2>2, FailKeeps
<1>5. ASSUME NEW g \in Generations, RelayPublishes(g), Current(g)
      PROVE  /\ held /\ ~closed
             /\ Len(subs'[s].queue) > Len(subs[s].queue)
                  => subs'[s].queue[Len(subs'[s].queue)][1] = generation
             /\ subs'[s].err # subs[s].err => subs'[s].err = "overflow"
  <2> DEFINE e == relay[g].event[1]
  <2>1. /\ Len(relay[g].event) = 1 /\ e[1] = generation /\ e \in Event
        /\ held /\ ~closed
    <3>1. /\ Len(relay[g].event) = 1 /\ e[1] = generation /\ held /\ ~closed
      BY <1>5 DEF RelayPublishes, Current, DeliveryKnows, RelayKnows, Generations
    <3>2. relay[g].event \in Seq(Event)
      BY Parts
    <3>3. QED
      BY <3>1, <3>2
  <2>2. subs'[s] = Offer(subs[s], e, Capacity)
    BY <1>5 DEF RelayPublishes, Publish
  <2> HIDE DEF e
  <2>3. \/ subs'[s].queue = Append(subs[s].queue, e) /\ subs'[s].err = subs[s].err
        \/ /\ subs'[s].queue = subs[s].queue
           /\ subs'[s].err # subs[s].err => subs'[s].err = "overflow"
    <3>1. Capacity \in Nat
      BY BoundsAssumption
    <3>2. \/ /\ subs'[s].queue = Append(subs[s].queue, e)
             /\ subs'[s].err = subs[s].err
          \/ /\ subs[s].open => subs'[s].err = "overflow"
             /\ ~subs[s].open => subs'[s].err = subs[s].err
             /\ subs'[s].queue = subs[s].queue
      <4>1. PICK sub \in Streams : sub = subs[s]
        BY <1>1
      <4>2. Len(sub.queue) <= Capacity
        BY <1>1, <4>1
      <4>3. subs'[s] = Offer(sub, e, Capacity)
        BY <2>2, <4>1
      <4>4. QED
        BY <2>1, <3>1, <4>1, <4>2, <4>3, OfferToSubscriber
    <3>3. QED
      BY <3>2
  <2>4. QED
    BY <1>1, <2>1, <2>3
<1>6. ASSUME NEW t \in Subscribers, Subscribe(t)
      PROVE  /\ subs'[s].queue = subs[s].queue
             /\ subs'[s].err # subs[s].err => closed'
  <2>1. CASE s = t
    <3>1. /\ subs'[s] = [subs[s] EXCEPT !.open = ~closed,
                            !.err = IF closed THEN "connection" ELSE "none"]
          /\ subs[s].err = "none" /\ closed' = closed
      BY <1>6, <2>1, Parts DEF Subscribe, link
    <3>2. QED
      BY <1>1, <3>1 DEF Streams
  <2>2. CASE s # t
    BY <1>6, <2>2, Parts DEF Subscribe
  <2>3. QED
    BY <2>1, <2>2
<1>7. ASSUME NEW t \in Subscribers, Leave(t)
      PROVE  subs'[s].queue = subs[s].queue /\ subs'[s].err = subs[s].err
  <2>1. CASE s = t
    <3>1. subs'[s] = [subs[s] EXCEPT !.open = FALSE]
      BY <1>7, <2>1, Parts DEF Leave
    <3>2. QED
      BY <1>1, <3>1 DEF Streams
  <2>2. CASE s # t
    BY <1>7, <2>2, Parts DEF Leave
  <2>3. QED
    BY <2>1, <2>2
<1>8. ASSUME NEW t \in Subscribers, Receive(t)
      PROVE  Len(subs'[s].queue) <= Len(subs[s].queue) /\ subs'[s].err = subs[s].err
  <2>1. CASE s = t
    <3>1. /\ subs'[s] = [subs[s] EXCEPT !.queue = Tail(subs[s].queue),
                                        !.last = <<Head(subs[s].queue)>>]
          /\ subs[s].queue # <<>>
      BY <1>8, <2>1, Parts DEF Receive
    <3>2. subs'[s].queue = Tail(subs[s].queue) /\ subs'[s].err = subs[s].err
      BY <1>1, <3>1 DEF Streams
    <3>3. Len(Tail(subs[s].queue)) = Len(subs[s].queue) - 1
      BY <1>1, <3>1, HeadTailProperties
    <3>4. QED
      BY <1>1, <3>2, <3>3
  <2>2. CASE s # t
    <3>1. subs'[s] = subs[s]
      BY <1>8, <2>2, Parts DEF Receive
    <3>2. QED
      BY <1>1, <3>1
  <2>3. QED
    BY <2>1, <2>2
<1>9. QED
  <2>1. CASE Take \/ Drop \/ HubSends
    BY <1>2, <2>1 DEF Take, Drop, HubSends
  <2>2. ASSUME NEW g \in Generations, RelayStep(g)
        PROVE  \/ subs' = subs \/ (RelayPublishes(g) /\ Current(g))
               \/ (RelayEnds(g) /\ Current(g))
    BY <2>2 DEF RelayStep, RelayTakes, RelayPublishes, RelayChecks, RelayCalls,
                HandlerReturns, RelayStops, RelayEnds
  <2>3. ASSUME NEW h \in Handlers, On(h) \/ Unsubscribe(h) \/ Unsubscribed(h)
        PROVE  subs' = subs
    BY <2>3 DEF On, Unsubscribe, Unsubscribed
  <2>4. CASE UNCHANGED vars
    BY <1>2, <2>4 DEF vars
  <2>5. ASSUME Len(subs'[s].queue) <= Len(subs[s].queue)
        PROVE  ~(Len(subs'[s].queue) > Len(subs[s].queue))
    <3>1. IInv'
      BY StepKnows
    <3>2. Len(subs'[s].queue) \in Nat
      BY <3>1 DEF TypeOK
    <3>3. QED
      BY <1>1, <2>5, <3>2
  <2>6. ASSUME subs'[s].queue = subs[s].queue
        PROVE  ~(Len(subs'[s].queue) > Len(subs[s].queue))
    BY <1>1, <2>6
  <2>7. QED
    BY <1>2, <1>3, <1>4, <1>5, <1>6, <1>7, <1>8, <2>1, <2>2, <2>3, <2>4, <2>5, <2>6 DEF Next

\* A relay that outlived its link or its session adds nothing to a subscription, and
\* a link that is lost or dropped ends none (ensure's relay, drop, failEvents).
THEOREM OldLinksAlwaysSilent == Spec => OldLinksSilent
BY DeliveryInvariant, StepSilent, PTL DEF Spec, OldLinksSilent

\* The handlers that wait before and after a step.
LEMMA StepCalls ==
  ASSUME IInv, [Next]_vars, NEW g \in Generations, NEW h \in Waiting(g) \ Waiting(g)'
  PROVE  (relay'[g].at = "busy" /\ Head(relay[g].todo) = h) \/ entry[h] # "on"
<1> USE DEF IInv
<1>1. /\ relay \in [Generations -> Relays] /\ relay[g] \in Relays
      /\ relay[g].todo \in Seq(Handlers)
      /\ relay[g].at \in {"check", "call", "busy"} => relay[g].todo # <<>>
  BY Parts DEF Relays, DeliveryKnows, RelayKnows
<1>2. relay'[g] # relay[g] /\ relay[g].at \in {"check", "call", "busy"}
  BY DEF Waiting
<1>3. ASSUME NEW x \in Range(relay[g].todo), x # Head(relay[g].todo)
      PROVE  x \in Range(Tail(relay[g].todo)) /\ Len(relay[g].todo) # 1
  <2> DEFINE t == relay[g].todo
  <2>1. /\ t \in Seq(Handlers) /\ t # <<>> /\ Len(t) \in Nat
        /\ Head(t) = t[1] /\ Tail(t) \in Seq(Handlers)
        /\ Len(Tail(t)) = Len(t) - 1
        /\ \A i \in 1 .. Len(Tail(t)) : Tail(t)[i] = t[i + 1]
    BY <1>1, <1>2, HeadTailProperties
  <2>2. PICK i \in 1 .. Len(t) : x = t[i]
    BY <2>1 DEF Range
  <2>3. i # 1
    BY <1>3, <2>1, <2>2
  <2>4. i - 1 \in 1 .. Len(Tail(t)) /\ Tail(t)[i - 1] = x /\ Len(t) # 1
    BY <2>1, <2>2, <2>3
  <2>5. QED
    BY <2>1, <2>4 DEF Range
<1>4. ASSUME relay'[g] = NextHandler(relay[g]),
             h \in Range(Tail(relay[g].todo))
      PROVE  FALSE
  <2>1. Len(relay[g].todo) # 1
    <3>1. Tail(relay[g].todo) \in Seq(Handlers)
          /\ Len(Tail(relay[g].todo)) = Len(relay[g].todo) - 1
      BY <1>1, <1>2, HeadTailProperties
    <3>2. Len(Tail(relay[g].todo)) # 0
      BY <1>4, <3>1 DEF Range
    <3>3. QED
      BY <1>1, <3>1, <3>2
  <2>2. /\ relay'[g].at = "check" /\ relay'[g].todo = Tail(relay[g].todo)
    BY <1>1, <1>2, <1>4, <2>1, NextHandlerIs
  <2>3. h \in Waiting(g)'
    BY <1>4, <2>2 DEF Waiting
  <2>4. QED
    BY <2>3
<1>5. CASE RelayChecks(g)
  <2>1. relay[g].at = "check" /\ h \in Range(relay[g].todo)
    BY <1>5 DEF RelayChecks, Waiting
  <2>2. CASE entry[Head(relay[g].todo)] \in {"marked", "off"}
    <3>1. relay'[g] = NextHandler(relay[g])
      BY <1>1, <1>5, <2>2 DEF RelayChecks
    <3>2. h = Head(relay[g].todo)
      BY <1>3, <1>4, <2>1, <3>1
    <3>3. QED
      BY <2>2, <3>2
  <2>3. CASE entry[Head(relay[g].todo)] \notin {"marked", "off"}
    <3>1. relay'[g] = [relay[g] EXCEPT !.at = "call"]
      BY <1>1, <1>5, <2>3 DEF RelayChecks
    <3>2. relay'[g].at = "call" /\ relay'[g].todo = relay[g].todo
      BY <1>1, <3>1 DEF Relays
    <3>3. h \in Waiting(g)'
      BY <2>1, <3>2 DEF Waiting
    <3>4. QED
      BY <3>3
  <2>4. QED
    BY <2>2, <2>3
<1>6. CASE RelayCalls(g)
  <2>1. relay[g].at = "call" /\ h \in Range(relay[g].todo)
    BY <1>6 DEF RelayCalls, Waiting
  <2>2. relay'[g] = [relay[g] EXCEPT !.at = "busy"]
    BY <1>1, <1>6 DEF RelayCalls
  <2>3. relay'[g].at = "busy" /\ relay'[g].todo = relay[g].todo
    BY <1>1, <2>2 DEF Relays
  <2>4. h \notin Range(Tail(relay[g].todo))
    BY <2>3 DEF Waiting
  <2>5. QED
    BY <1>3, <2>1, <2>3, <2>4
<1>7. CASE HandlerReturns(g)
  <2>1. relay[g].at = "busy" /\ h \in Range(Tail(relay[g].todo))
    BY <1>7 DEF HandlerReturns, Waiting
  <2>2. relay'[g] = NextHandler(relay[g])
    BY <1>1, <1>7 DEF HandlerReturns
  <2>3. QED
    BY <1>4, <2>1, <2>2
<1>8. RelayChecks(g) \/ RelayCalls(g) \/ HandlerReturns(g)
  <2>1. CASE Take
    <3>1. generation + 1 \in Generations /\ relay[generation + 1].at = "none"
      BY <2>1, BoundsAssumption DEF Take, TypeOK, Generations, DeliveryKnows, RelayKnows
    <3>2. QED
      BY <1>1, <1>2, <2>1, <3>1 DEF Take
  <2>2. CASE Drop \/ Close \/ HubSends \/ UNCHANGED vars
    BY <1>2, <2>2 DEF Drop, Close, HubSends, vars
  <2>3. ASSUME NEW k \in Handlers, On(k) \/ Unsubscribe(k) \/ Unsubscribed(k)
        PROVE  relay' = relay
    BY <2>3 DEF On, Unsubscribe, Unsubscribed
  <2>4. ASSUME NEW s \in Subscribers, Subscribe(s) \/ Leave(s) \/ Receive(s)
        PROVE  relay' = relay
    BY <2>4 DEF Subscribe, Leave, Receive
  <2>5. ASSUME NEW k \in Generations, RelayStep(k)
        PROVE  k = g
    BY <1>1, <1>2, <2>5 DEF RelayStep, RelayTakes, RelayPublishes, RelayChecks,
       RelayCalls, HandlerReturns, RelayStops, RelayEnds
  <2>6. ASSUME RelayTakes(g) \/ RelayPublishes(g) \/ RelayStops(g) \/ RelayEnds(g)
        PROVE  FALSE
    BY <1>2, <2>6 DEF RelayTakes, RelayPublishes, RelayStops, RelayEnds
  <2>7. QED
    BY <1>2, <2>1, <2>2, <2>3, <2>4, <2>5, <2>6 DEF Next, RelayStep
<1>9. QED
  BY <1>5, <1>6, <1>7, <1>8

\* A handler that waits for an event is called with it or was unsubscribed before its
\* turn: no handler before it, not even one that panics, takes the event from it
\* (deliver).
THEOREM EveryHandlerAlwaysCalled == Spec => EveryHandlerCalled
<1>1. IInv /\ [Next]_vars =>
        [\A g \in Generations : \A h \in Waiting(g) \ Waiting(g)' :
           \/ relay'[g].at = "busy" /\ Head(relay[g].todo) = h
           \/ entry[h] # "on"]_vars
  BY StepCalls
<1>2. QED
  BY <1>1, DeliveryInvariant, PTL DEF Spec, EveryHandlerCalled

================================================================================
