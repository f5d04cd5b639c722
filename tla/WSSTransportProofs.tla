----------------------------- MODULE WSSTransportProofs -----------------------------
(***************************************************************************)
(* Proofs about the WebSocket transport: for any callers, writers and      *)
(* number of generations, what Connect says is what the hub did, no        *)
(* session runs past the pin, nobody who waits is forgotten, no socket is  *)
(* lost, and a link that is up is ended by its own.                        *)
(***************************************************************************)
EXTENDS WSSTransport, TLAPS

\* The records the state is made of.
LinkSet ==
  [conn : 0 .. MaxGeneration, connected : BOOLEAN, handshake : BOOLEAN,
   lastError : Causes, refused : BOOLEAN, keyRejected : BOOLEAN, heard : BOOLEAN,
   finalSent : BOOLEAN, pattern : Patterns]

ReaderSet ==
  [at : ReaderPlaces, err : Causes, heard : {"nothing", "hello", "offer", "answer"},
   sent : {"nothing", "message1", "final", "greeting"}, pattern : Patterns]

CallSet ==
  [at : CallerPlaces, my : 0 .. MaxGeneration, first : 0 .. MaxGeneration,
   old : 0 .. MaxGeneration, ended : BOOLEAN, result : Verdicts \cup {"none"}]

FrameSet == [at : WriterPlaces, my : 0 .. MaxGeneration]

\* The places of a Connect that does not join another.
Connecting == {"dial", "adopt", "waiting", "poison", "conclude"}

\* One Connect is under way at a time, and t.attempt is its.
OneConnect ==
  \A p \in Callers : caller[p].at \in Connecting =>
    /\ attempt = caller[p].first /\ attempt # 0
    /\ caller[p].my \in 1 .. generation
    /\ \A q \in Callers : caller[q].at \in Connecting => q = p

\* Nothing is there of a generation to come.
NothingAhead ==
  \A g \in Generations : g > generation => reader[g] = NoReader /\ socket[g] = "none"

\* The link is of the current generation, and while it is connected its read
\* loop runs and it says what that one has negotiated.
LinkKnows ==
  /\ link.conn \in {0, generation}
  /\ link.conn # 0 => reader[link.conn].at # "none"
  /\ link.connected =>
       /\ generation \in Generations
       /\ reader[generation].at \notin {"none", "signal", "gone"}
       /\ link.pattern = reader[generation].pattern
       /\ reader[generation].heard = "answer" =>
            link.finalSent = (reader[generation].pattern = "XX")
       /\ link.handshake => reader[generation].at \in {"read", "record"}
                            /\ reader[generation].heard = "answer"
                            /\ reader[generation].sent = "greeting"

\* How far a read loop's handshake has come, and why it failed.
ReaderKnows(g) ==
  /\ reader[g].at = "none" => reader[g] = NoReader
  /\ reader[g].err # "none" => reader[g].at \in {"record", "signal", "gone"}
  /\ reader[g].err = "hubKey" => hub = "hubKey"
  /\ reader[g].err = "refused" => hub = "password" \/ (hub = "good" /\ ~stored.stalePSK)
  /\ reader[g].pattern = "none" <=> reader[g].heard \in {"nothing", "hello"}
  /\ hub = "access" => reader[g].heard = "nothing"
  /\ reader[g].at = "message1" => reader[g].heard = "offer"
  /\ reader[g].sent \in {"final", "greeting"} \/ reader[g].at \in {"final", "pin", "greet", "finish"}
       => reader[g].heard = "answer"
  /\ reader[g].at = "finish" => reader[g].sent = "greeting"
  /\ reader[g].at \in {"greet", "finish"} => hub # "hubKey" /\ stored.pinned

\* Who closed the socket of g with a refusal's code.
RefusedFor(g) ==
  \/ hub = "access"
  \/ /\ reader[g].at # "none"
     /\ \/ reader[g].at = "gone"
        \/ reader[g].pattern = "KK"
        \/ hub = "clientKey" /\ reader[g].heard = "answer"
        \/ hub = "good" /\ (link.connected /\ generation = g => link.heard)

HubKnows ==
  /\ hub # "good" => ~stored.stalePSK
  /\ hub = "hubKey" => stored.pinned
  /\ \A g \in Generations : socket[g] = "refusal" => RefusedFor(g)

\* A refusal that has a cause, for the Connect that makes generation g.
Refused(g) ==
  \/ hub \in {"access", "password"}
  \/ link.pattern = "KK"
  \/ hub = "good" /\ reader[g].err = "refused" /\ ~stored.stalePSK

\* A Disconnect is about to cancel the attempt of p.
Canceling(p) ==
  \E q \in Callers : caller[q].at = "disconnecting" /\ caller[q].first = caller[p].first

\* What a connecting goroutine can rely on at its place.
CallerKnows(p) ==
  /\ caller[p].old <= generation
  /\ caller[p].at \in {"dial", "adopt", "waiting"} => caller[p].result = "none"
  /\ caller[p].at \in {"dial", "adopt"} =>
       /\ reader[caller[p].my] = NoReader
       /\ caller[p].my = generation => link = Down
  /\ caller[p].at \in {"adopt", "waiting"} => socket[caller[p].my] # "none"
  /\ caller[p].at \in Connecting /\ caller[p].my # generation =>
       /\ ~link.connected /\ link.conn = 0
       /\ caller[p].ended \/ Canceling(p)
  /\ caller[p].at = "waiting" =>
       /\ link.lastError = "refused" => reader[caller[p].my].err = "refused"
       /\ link.refused /\ ~link.keyRejected => Refused(caller[p].my)
  /\ caller[p].at \in {"poison", "conclude"} =>
       /\ caller[p].result = "clientKey" => hub = "clientKey"
       /\ caller[p].result = "hubKey" => hub = "hubKey"
       /\ caller[p].result = "refused" => Refused(caller[p].my) \/ caller[p].ended

VerdictsKnow ==
  /\ link.keyRejected => hub = "clientKey"
  /\ link.lastError = "hubKey" => hub = "hubKey"

WriterKnows(w) ==
  /\ writer[w].at # "idle" => writer[w].my \in 1 .. generation
  /\ writer[w].at = "writing" => writing = w

IInv ==
  /\ TypeOK
  /\ OneConnect /\ NothingAhead /\ LinkKnows /\ HubKnows /\ VerdictsKnow
  /\ \A g \in Generations : ReaderKnows(g)
  /\ \A p \in Callers : CallerKnows(p)
  /\ \A w \in Writers : WriterKnows(w)
  /\ NoDowngrade /\ WakeUpComes /\ NoSocketLost
--------------------------------------------------------------------------------
(***************************************************************************)
(* What the steps of the others leave as it is.                            *)
(***************************************************************************)

\* Nothing a read loop, a writer or the peer does takes from a Connect what it
\* relies on, as long as the link and the read loops keep what they say.
LEMMA CallsKept ==
  ASSUME \A p \in Callers : CallerKnows(p),
         OneConnect,
         UNCHANGED <<hub, generation, caller>>,
         \A g \in Generations : socket[g] # "none" => socket'[g] # "none",
         ~stored.stalePSK => ~stored'.stalePSK,
         \A g \in Generations : reader[g] = NoReader => reader'[g] = NoReader,
         \A g \in Generations : reader[g].err = "refused" => reader'[g].err = "refused",
         ~link.connected => ~link'.connected,
         link.conn = 0 => link'.conn = 0,
         link = Down => link' = Down,
         generation = 0 \/ generation \in Generations,
         link.pattern = "KK" => link'.pattern = "KK",
         link'.lastError = "refused" =>
           link.lastError = "refused" \/ (reader'[generation].err = "refused" /\ link.connected),
         link'.refused /\ ~link'.keyRejected =>
           (link.refused /\ ~link.keyRejected) \/ (Refused(generation)' /\ link.connected),
         MaxGeneration \in Nat, generation \in Nat, generation <= MaxGeneration
  PROVE  \A p \in Callers : CallerKnows(p)'
<1> SUFFICES ASSUME NEW p \in Callers PROVE CallerKnows(p)'
    OBVIOUS
<1>1. CallerKnows(p)
    OBVIOUS
<1>2. caller[p].at \in Connecting => caller[p].my \in Generations
  BY DEF OneConnect, Generations
<1>3. Canceling(p)' <=> Canceling(p)
  BY DEF Canceling
<1>4. caller[p].at \in Connecting /\ Refused(caller[p].my) => Refused(caller[p].my)'
  BY <1>2 DEF Refused
<1>5. caller[p].at \in Connecting /\ link.connected => caller[p].my = generation
  BY <1>1 DEF CallerKnows
<1>6. caller'[p] = caller[p] /\ generation' = generation /\ hub' = hub
  OBVIOUS
<1>a. (caller[p].old <= generation)' /\
      (caller[p].at \in {"dial", "adopt", "waiting"} => caller[p].result = "none")'
  BY <1>1, <1>6 DEF CallerKnows
<1>b. (caller[p].at \in {"dial", "adopt"} =>
         /\ reader[caller[p].my] = NoReader
         /\ caller[p].my = generation => link = Down)'
  BY <1>1, <1>2, <1>6 DEF CallerKnows, Connecting
<1>c. (caller[p].at \in {"adopt", "waiting"} => socket[caller[p].my] # "none")'
  BY <1>1, <1>2, <1>6 DEF CallerKnows, Connecting
<1>d. (caller[p].at \in Connecting /\ caller[p].my # generation =>
         /\ ~link.connected /\ link.conn = 0
         /\ caller[p].ended \/ Canceling(p))'
  BY <1>1, <1>3, <1>6 DEF CallerKnows
<1>e. (caller[p].at = "waiting" =>
         /\ link.lastError = "refused" => reader[caller[p].my].err = "refused"
         /\ link.refused /\ ~link.keyRejected => Refused(caller[p].my))'
  <2> SUFFICES ASSUME caller[p].at = "waiting"
               PROVE  /\ link'.lastError = "refused" =>
                           reader'[caller[p].my].err = "refused"
                      /\ link'.refused /\ ~link'.keyRejected => Refused(caller[p].my)'
    BY <1>6
  <2>1. /\ caller[p].my \in Generations
        /\ link.connected => caller[p].my = generation
        /\ Refused(caller[p].my) => Refused(caller[p].my)'
    BY <1>2, <1>4, <1>5 DEF Connecting
  <2>2. Refused(generation)' /\ caller[p].my = generation => Refused(caller[p].my)'
    BY <1>6 DEF Refused
  <2> QED
    BY <1>1, <2>1, <2>2 DEF CallerKnows
<1>f. (caller[p].at \in {"poison", "conclude"} =>
         /\ caller[p].result = "clientKey" => hub = "clientKey"
         /\ caller[p].result = "hubKey" => hub = "hubKey"
         /\ caller[p].result = "refused" => Refused(caller[p].my) \/ caller[p].ended)'
  BY <1>1, <1>4, <1>6 DEF CallerKnows, Connecting
<1> QED
  BY <1>a, <1>b, <1>c, <1>d, <1>e, <1>f DEF CallerKnows

\* A refusal on a socket keeps its cause.
LEMMA RefusalsKept ==
  ASSUME HubKnows, hub' = hub, generation' = generation,
         \A g \in Generations : socket'[g] = "refusal" => socket[g] = "refusal",
         link'.connected => link.connected,
         link.connected /\ link.heard => link'.heard,
         \A g \in Generations : reader[g].at # "none" =>
           /\ reader'[g].at # "none"
           /\ reader'[g].at = "gone" \/ /\ reader[g].at # "gone"
                                        /\ reader[g].pattern = "KK" => reader'[g].pattern = "KK"
                                        /\ reader[g].heard = "answer" => reader'[g].heard = "answer"
  PROVE  \A g \in Generations : socket'[g] = "refusal" => RefusedFor(g)'
<1> SUFFICES ASSUME NEW g \in Generations, socket'[g] = "refusal" PROVE RefusedFor(g)'
    OBVIOUS
<1>1. RefusedFor(g)
  BY DEF HubKnows
<1> QED
  BY <1>1 DEF RefusedFor

\* A Connect that waits keeps what will wake it.
LEMMA WakeUpKept ==
  ASSUME WakeUpComes, OneConnect, caller' = caller,
         generation \in Nat, generation <= MaxGeneration,
         \A p \in Callers : CallerKnows(p),
         \A g \in Generations : done[g] => done'[g],
         \A g \in Generations : ready[g] => ready'[g],
         \A g \in Generations : reader[g].at \notin {"none", "gone"} =>
           reader'[g].at \notin {"none", "gone"} \/ done'[g] \/ g # generation
  PROVE  WakeUpComes'
<1> SUFFICES ASSUME NEW p \in Callers, caller[p].at = "waiting"
             PROVE  \/ done'[caller[p].my] \/ ready'[caller[p].my] \/ caller[p].ended
                    \/ reader'[caller[p].my].at \notin {"none", "gone"}
                    \/ Canceling(p)
    BY DEF WakeUpComes, Canceling
<1>1. caller[p].my \in Generations /\ CallerKnows(p)
  BY BoundAssumption DEF OneConnect, Generations, Connecting
<1>2. caller[p].my # generation => caller[p].ended \/ Canceling(p)
  BY <1>1 DEF CallerKnows, Connecting
<1> QED
  BY <1>1, <1>2 DEF WakeUpComes, Canceling

\* An open socket stays somebody's.
LEMMA SocketsKept ==
  ASSUME NoSocketLost, caller' = caller,
         \A g \in Generations : socket'[g] = "open" =>
           /\ socket[g] = "open"
           /\ link.conn = g => link'.conn = g
           /\ reader[g].at \in {"record", "signal"} => reader'[g].at \in {"record", "signal"}
  PROVE  NoSocketLost'
BY DEF NoSocketLost

\* The types, by name.
LEMMA Typed ==
  ASSUME TypeOK
  PROVE  /\ MaxGeneration \in Nat /\ generation \in Nat /\ generation <= MaxGeneration
         /\ generation # 0 => generation \in Generations
         /\ hub \in Hubs /\ forceXX \in BOOLEAN /\ attempt \in 0 .. MaxGeneration
         /\ writing \in Writers \cup {None}
         /\ link \in LinkSet
         /\ stored \in [pinned : BOOLEAN, stalePSK : BOOLEAN]
         /\ socket \in [Generations -> SocketStates]
         /\ ready \in [Generations -> BOOLEAN] /\ done \in [Generations -> BOOLEAN]
         /\ reader \in [Generations -> ReaderSet]
         /\ caller \in [Callers -> CallSet]
         /\ writer \in [Writers -> FrameSet]
BY BoundAssumption DEF TypeOK, LinkSet, ReaderSet, CallSet, FrameSet, Generations

\* And back, for a state in which they hold.
LEMMA TypedNext ==
  ASSUME hub' \in Hubs, generation' \in 0 .. MaxGeneration, forceXX' \in BOOLEAN,
         attempt' \in 0 .. MaxGeneration, writing' \in Writers \cup {None},
         link' \in LinkSet, stored' \in [pinned : BOOLEAN, stalePSK : BOOLEAN],
         socket' \in [Generations -> SocketStates],
         ready' \in [Generations -> BOOLEAN], done' \in [Generations -> BOOLEAN],
         reader' \in [Generations -> ReaderSet], caller' \in [Callers -> CallSet],
         writer' \in [Writers -> FrameSet],
         link'.conn # 0 => socket'[link'.conn] # "none",
         link'.connected => link'.conn = generation'
  PROVE  TypeOK'
BY DEF TypeOK, LinkSet, ReaderSet, CallSet, FrameSet

\* A step of the read loop of g: what its own proof owes.
LEMMA ReaderStepKeeps ==
  ASSUME IInv, NEW g \in Generations, NEW r \in ReaderSet,
         reader[g].at \notin {"none", "gone"}, r.at # "none",
         reader' = [reader EXCEPT ![g] = r],
         UNCHANGED <<hub, generation, forceXX, attempt, writing, caller, writer>>,
         ready' \in [Generations -> BOOLEAN], done' \in [Generations -> BOOLEAN],
         \A h \in Generations : ready[h] => ready'[h],
         \A h \in Generations : done[h] => done'[h] \/ h = g,
         r.at = "gone" /\ generation = g => done'[g],
         r.at # "gone" => done' = done,
         stored' \in [pinned : BOOLEAN, stalePSK : BOOLEAN],
         stored.pinned => stored'.pinned, ~stored.stalePSK => ~stored'.stalePSK,
         socket' \in [Generations -> SocketStates],
         \A h \in Generations \ {g} : socket'[h] = socket[h],
         socket'[g] \in {socket[g], "closed"}, socket'[g] = "closed" => socket[g] # "none",
         reader[g].err = "refused" => r.err = "refused",
         reader[g].at \in {"record", "signal"} /\ socket'[g] = "open" =>
           r.at \in {"record", "signal"},
         r.at = "gone" \/ /\ reader[g].pattern = "KK" => r.pattern = "KK"
                          /\ reader[g].heard = "answer" => r.heard = "answer",
         link' \in LinkSet,
         link' = link \/ (generation = g /\ link.connected),
         link'.conn \in {link.conn, 0}, link'.connected => link.connected /\ link'.conn = link.conn,
         link.heard => link'.heard, link.pattern = "KK" => link'.pattern = "KK",
         link.conn = g /\ link'.conn # g => socket'[g] # "open",
         link'.lastError = "refused" => link.lastError = "refused" \/ r.err = "refused",
         link'.refused /\ ~link'.keyRejected =>
           (link.refused /\ ~link.keyRejected) \/ Refused(g)',
         LinkKnows', ReaderKnows(g)', VerdictsKnow', NoDowngrade'
  PROVE  IInv'
<1> USE DEF Generations
<1>0. /\ TypeOK /\ OneConnect /\ NothingAhead /\ LinkKnows /\ HubKnows
      /\ WakeUpComes /\ NoSocketLost
      /\ \A h \in Generations : ReaderKnows(h)
      /\ \A p \in Callers : CallerKnows(p)
      /\ \A w \in Writers : WriterKnows(w)
  BY DEF IInv
<1>1. /\ MaxGeneration \in Nat /\ generation \in Nat /\ generation <= MaxGeneration
      /\ generation # 0 => generation \in Generations
      /\ link \in LinkSet /\ reader \in [Generations -> ReaderSet]
      /\ socket \in [Generations -> SocketStates]
  BY <1>0, Typed
<1>2. /\ reader'[g] = r
      /\ \A h \in Generations \ {g} : reader'[h] = reader[h]
      /\ reader' \in [Generations -> ReaderSet]
  BY <1>1
<1>3. /\ link.conn # 0 => socket[link.conn] # "none"
      /\ link.connected => link.conn = generation
      /\ link.conn \in {0, generation}
  BY <1>0 DEF TypeOK, LinkKnows
<1>4. g <= generation
  BY <1>0, <1>1 DEF NothingAhead, NoReader
<1>5. \A h \in Generations : socket[h] # "none" => socket'[h] # "none"
  OBVIOUS
<1>6. link' = link \/ (generation = g /\ link.connected /\ link'.conn \in {0, g})
  BY <1>3
<1>a. TypeOK'
  <2>1. link'.conn # 0 => socket'[link'.conn] # "none"
    BY <1>1, <1>3, <1>5
  <2>2. link'.connected => link'.conn = generation'
    BY <1>3
  <2>3. /\ hub' \in Hubs /\ generation' \in 0 .. MaxGeneration /\ forceXX' \in BOOLEAN
        /\ attempt' \in 0 .. MaxGeneration /\ writing' \in Writers \cup {None}
        /\ caller' \in [Callers -> CallSet] /\ writer' \in [Writers -> FrameSet]
    BY <1>0, Typed
  <2> QED
    BY <2>1, <2>2, <2>3, <1>2, TypedNext
<1>b. OneConnect'
  BY <1>0 DEF OneConnect
<1>c. NothingAhead'
  BY <1>0, <1>1, <1>2, <1>4 DEF NothingAhead
<1>d. HubKnows'
  <2>1. \A h \in Generations : socket'[h] = "refusal" => socket[h] = "refusal"
    OBVIOUS
  <2>2. \A h \in Generations : reader[h].at # "none" =>
          /\ reader'[h].at # "none"
          /\ reader'[h].at = "gone" \/ /\ reader[h].at # "gone"
                                       /\ reader[h].pattern = "KK" => reader'[h].pattern = "KK"
                                       /\ reader[h].heard = "answer" => reader'[h].heard = "answer"
    <3> TAKE h \in Generations
    <3>1. CASE h = g
      BY <3>1, <1>2
    <3>2. CASE h # g
      BY <3>2, <1>2
    <3> QED
      BY <3>1, <3>2
  <2>3. \A h \in Generations : socket'[h] = "refusal" => RefusedFor(h)'
    BY <2>1, <2>2, <1>0, RefusalsKept
  <2> QED
    BY <2>3, <1>0 DEF HubKnows
<1>e. \A h \in Generations : ReaderKnows(h)'
  <2> SUFFICES ASSUME NEW h \in Generations, h # g PROVE ReaderKnows(h)'
      OBVIOUS
  <2>1. reader'[h] = reader[h] /\ ReaderKnows(h)
    BY <1>0, <1>2
  <2> QED
    BY <2>1 DEF ReaderKnows
<1>f. \A p \in Callers : CallerKnows(p)'
  <2>1. \A h \in Generations : reader[h] = NoReader => reader'[h] = NoReader
    BY <1>2 DEF NoReader
  <2>2. \A h \in Generations : reader[h].err = "refused" => reader'[h].err = "refused"
    BY <1>2
  <2>3. link = Down => link' = Down
    BY <1>6 DEF Down
  <2>4. link'.lastError = "refused" =>
          link.lastError = "refused" \/ (reader'[generation].err = "refused" /\ link.connected)
    <3>1. CASE link' = link
      BY <3>1
    <3>2. CASE generation = g /\ link.connected
      BY <3>2, <1>2
    <3> QED
      BY <3>1, <3>2
  <2>5. link'.refused /\ ~link'.keyRejected =>
          (link.refused /\ ~link.keyRejected) \/ (Refused(generation)' /\ link.connected)
    <3>1. CASE link' = link
      BY <3>1
    <3>2. CASE generation = g /\ link.connected
      <4>1. generation' = g
        BY <3>2
      <4> QED
        BY <3>2, <4>1 DEF Refused
    <3> QED
      BY <3>1, <3>2
  <2>6. (~link.connected => ~link'.connected) /\ (link.conn = 0 => link'.conn = 0)
    OBVIOUS
  <2>7. generation = 0 \/ generation \in Generations
    BY <1>1
  <2> QED
    BY <2>1, <2>2, <2>3, <2>4, <2>5, <2>6, <2>7, <1>0, <1>1, <1>5, CallsKept
<1>g. \A w \in Writers : WriterKnows(w)'
  BY <1>0 DEF WriterKnows
<1>h. WakeUpComes'
  <2>1. CASE r.at = "gone"
    <3>1. \A p \in Callers : caller[p].at = "waiting" =>
            /\ caller[p].my \in Generations
            /\ caller[p].my # generation => caller[p].ended \/ Canceling(p)
      <4> SUFFICES ASSUME NEW p \in Callers, caller[p].at = "waiting"
                   PROVE  /\ caller[p].my \in Generations
                          /\ caller[p].my # generation => caller[p].ended \/ Canceling(p)
          OBVIOUS
      <4>1. CallerKnows(p)
        BY <1>0
      <4> QED
        BY <4>1, <1>0, <1>1 DEF OneConnect, CallerKnows, Connecting
    <3>2. \A p \in Callers : caller[p].at = "waiting" /\ caller[p].my # g =>
            (/\ reader'[caller[p].my] = reader[caller[p].my]
             /\ done[caller[p].my] => done'[caller[p].my])
      BY <3>1, <1>2
    <3> QED
      BY <2>1, <3>1, <3>2, <1>0 DEF WakeUpComes, Canceling
  <2>2. CASE r.at # "gone"
    <3>1. \A h \in Generations : reader[h].at \notin {"none", "gone"} =>
            reader'[h].at \notin {"none", "gone"} \/ done'[h] \/ h # generation
      BY <2>2, <1>2
    <3> QED
      BY <2>2, <3>1, <1>0, <1>1, WakeUpKept
  <2> QED
    BY <2>1, <2>2
<1>i. NoSocketLost'
  <2>1. \A h \in Generations : socket'[h] = "open" =>
          /\ socket[h] = "open"
          /\ link.conn = h => link'.conn = h
          /\ reader[h].at \in {"record", "signal"} => reader'[h].at \in {"record", "signal"}
    <3> SUFFICES ASSUME NEW h \in Generations, socket'[h] = "open"
                 PROVE  /\ socket[h] = "open"
                        /\ link.conn = h => link'.conn = h
                        /\ reader[h].at \in {"record", "signal"} =>
                             reader'[h].at \in {"record", "signal"}
        OBVIOUS
    <3>1. CASE h = g
      BY <3>1, <1>2
    <3>2. CASE h # g
      BY <3>2, <1>1, <1>2, <1>3, <1>6
    <3> QED
      BY <3>1, <3>2
  <2> QED
    BY <2>1, <1>0, SocketsKept
<1> QED
  BY <1>a, <1>b, <1>c, <1>d, <1>e, <1>f, <1>g, <1>h, <1>i DEF IInv

\* A read loop that fails at its own work leaves the link alone until it records
\* the failure.
LEMMA ReaderFailsKeeps ==
  ASSUME IInv, NEW g \in Generations, NEW cause \in Causes,
         reader[g].at \notin {"none", "record", "signal", "gone"},
         ReaderFails(g, cause),
         UNCHANGED <<hub, transport, writing, socket, channels, caller, writer>>,
         stored' \in [pinned : BOOLEAN, stalePSK : BOOLEAN],
         stored'.pinned = stored.pinned, ~stored.stalePSK => ~stored'.stalePSK,
         cause = "hubKey" => hub = "hubKey",
         cause = "refused" => hub = "password" \/ (hub = "good" /\ ~stored'.stalePSK)
  PROVE  IInv'
<1> USE DEF Generations
<1> DEFINE r == [reader[g] EXCEPT !.at = "record", !.err = cause]
<1>1. /\ TypeOK /\ LinkKnows /\ VerdictsKnow /\ NoDowngrade /\ ReaderKnows(g)
      /\ MaxGeneration \in Nat /\ generation \in Nat /\ generation <= MaxGeneration
      /\ link \in LinkSet /\ reader \in [Generations -> ReaderSet]
      /\ socket \in [Generations -> SocketStates]
      /\ ready \in [Generations -> BOOLEAN] /\ done \in [Generations -> BOOLEAN]
  BY Typed DEF IInv
<1>2. /\ UNCHANGED <<hub, generation, link, forceXX, attempt, writing, socket, ready, done,
                     caller, writer>>
  BY DEF transport, channels
<1>3. reader[g] \in ReaderSet /\ reader[g].err = "none"
  BY <1>1 DEF ReaderKnows
<1>4. r \in ReaderSet
  BY <1>3 DEF ReaderSet, ReaderPlaces
<1>5. /\ r.at = "record" /\ r.err = cause /\ r.heard = reader[g].heard
      /\ r.sent = reader[g].sent /\ r.pattern = reader[g].pattern
  BY <1>3 DEF ReaderSet
<1>6. reader' = [reader EXCEPT ![g] = r]
  BY <1>1, <1>3 DEF ReaderFails, ReaderSet
<1> HIDE DEF r
<1>7. /\ reader'[g] = r
      /\ \A h \in Generations \ {g} : reader'[h] = reader[h]
  BY <1>1, <1>6
<1>8. LinkKnows'
  <2>1. link.connected /\ generation = g => reader[g].at = "read" \/ ~link.handshake
    BY <1>1 DEF LinkKnows
  <2> QED
    BY <2>1, <1>1, <1>2, <1>5, <1>7 DEF LinkKnows, TypeOK
<1>9. ReaderKnows(g)'
  BY <1>1, <1>2, <1>5, <1>7 DEF ReaderKnows
<1>10. VerdictsKnow' /\ NoDowngrade'
  BY <1>1, <1>2 DEF VerdictsKnow, NoDowngrade
<1> QED
  BY <1>1, <1>2, <1>3, <1>4, <1>5, <1>6, <1>8, <1>9, <1>10, ReaderStepKeeps

LEMMA ReaderMeetsEndKeeps ==
  ASSUME IInv, NEW g \in Generations, ReaderMeetsEnd(g) PROVE IInv'
<1>1. stored \in [pinned : BOOLEAN, stalePSK : BOOLEAN]
  BY Typed DEF IInv
<1> QED
  BY <1>1, ReaderFailsKeeps DEF ReaderMeetsEnd, Causes

LEMMA ReaderStaleKeeps ==
  ASSUME IInv, NEW g \in Generations, ReaderStale(g) PROVE IInv'
<1>1. stored \in [pinned : BOOLEAN, stalePSK : BOOLEAN]
  BY Typed DEF IInv
<1> QED
  BY <1>1, ReaderFailsKeeps DEF ReaderStale, Receives, Causes

\* What is left of a link that was retired.
LEMMA Retired ==
  ASSUME link \in LinkSet, NEW cause \in Causes,
         link' = [Cleared EXCEPT !.lastError = cause]
  PROVE  /\ link' \in LinkSet /\ link'.conn = 0 /\ link'.connected = FALSE
         /\ link'.handshake = FALSE /\ link'.lastError = cause
         /\ link'.refused = link.refused /\ link'.keyRejected = link.keyRejected
         /\ link'.heard = link.heard /\ link'.pattern = link.pattern
         /\ link'.finalSent = link.finalSent
<1> DEFINE c == Cleared
<1>a. 0 \in 0 .. MaxGeneration
  BY BoundAssumption
<1>0. c \in LinkSet
  BY <1>a DEF Cleared, LinkSet
<1>1. /\ c.conn = 0 /\ c.connected = FALSE /\ c.handshake = FALSE
      /\ c.refused = link.refused /\ c.keyRejected = link.keyRejected
      /\ c.heard = link.heard /\ c.pattern = link.pattern /\ c.finalSent = link.finalSent
  BY DEF Cleared, LinkSet
<1>2. link' = [c EXCEPT !.lastError = cause]
  OBVIOUS
<1> HIDE DEF c
<1> QED
  BY <1>0, <1>1, <1>2 DEF LinkSet

\* What each kind of frame on the socket of g says of its handshake.
LEMMA HubSays ==
  ASSUME NEW g \in Generations
  PROVE  /\ HubSends(g) = "hello" => reader[g].heard = "nothing" /\ hub # "access"
         /\ HubSends(g) = "params" => reader[g].heard = "hello"
         /\ HubSends(g) = "answer" => reader[g].heard = "offer" /\ reader[g].sent = "message1"
         /\ HubSends(g) = "frame" => reader[g].sent = "greeting" /\ hub = "good"
BY DEF HubSends

LEMMA ReaderHelloKeeps ==
  ASSUME IInv, NEW g \in Generations, ReaderHello(g) PROVE IInv'
<1> USE DEF Generations
<1> DEFINE r == [reader[g] EXCEPT !.heard = "hello"]
<1>1. /\ TypeOK /\ LinkKnows /\ VerdictsKnow /\ NoDowngrade /\ ReaderKnows(g)
      /\ MaxGeneration \in Nat /\ generation \in Nat /\ generation <= MaxGeneration
      /\ link \in LinkSet /\ reader \in [Generations -> ReaderSet]
      /\ stored \in [pinned : BOOLEAN, stalePSK : BOOLEAN]
      /\ socket \in [Generations -> SocketStates]
      /\ ready \in [Generations -> BOOLEAN] /\ done \in [Generations -> BOOLEAN]
  BY Typed DEF IInv
<1>2. /\ UNCHANGED <<hub, generation, link, forceXX, attempt, writing, stored, socket, ready,
                     done, caller, writer>>
      /\ reader' = [reader EXCEPT ![g].heard = "hello"]
  BY DEF ReaderHello, transport, channels
<1>3. /\ reader[g].at = "read" /\ reader[g].heard = "nothing" /\ hub # "access"
  BY HubSays DEF ReaderHello, Receives
<1>4. reader[g] \in ReaderSet /\ reader[g].pattern = "none" /\ reader[g].err = "none"
  BY <1>1, <1>3 DEF ReaderKnows
<1>5. /\ r \in ReaderSet /\ r.at = "read" /\ r.err = "none" /\ r.heard = "hello"
      /\ r.sent = reader[g].sent /\ r.pattern = "none"
  BY <1>3, <1>4 DEF ReaderSet
<1>6. reader' = [reader EXCEPT ![g] = r]
  BY <1>1, <1>2
<1> HIDE DEF r
<1>7. /\ reader'[g] = r
      /\ \A h \in Generations \ {g} : reader'[h] = reader[h]
  BY <1>1, <1>6
<1>8. LinkKnows'
  BY <1>1, <1>2, <1>3, <1>4, <1>5, <1>7 DEF LinkKnows, TypeOK
<1>9. ReaderKnows(g)'
  BY <1>1, <1>2, <1>3, <1>4, <1>5, <1>7 DEF ReaderKnows
<1>10. VerdictsKnow' /\ NoDowngrade'
  BY <1>1, <1>2 DEF VerdictsKnow, NoDowngrade
<1> QED
  BY <1>1, <1>2, <1>3, <1>4, <1>5, <1>6, <1>8, <1>9, <1>10, ReaderStepKeeps

\* The pattern is chosen once, for the link and its read loop together.
LEMMA ReaderOfferKeeps ==
  ASSUME IInv, NEW g \in Generations, ReaderOffer(g) PROVE IInv'
<1> USE DEF Generations
<1>1. /\ TypeOK /\ LinkKnows /\ VerdictsKnow /\ NoDowngrade /\ ReaderKnows(g)
      /\ MaxGeneration \in Nat /\ generation \in Nat /\ generation <= MaxGeneration
      /\ link \in LinkSet /\ reader \in [Generations -> ReaderSet]
      /\ stored \in [pinned : BOOLEAN, stalePSK : BOOLEAN]
      /\ socket \in [Generations -> SocketStates]
      /\ ready \in [Generations -> BOOLEAN] /\ done \in [Generations -> BOOLEAN]
  BY Typed DEF IInv
<1>2. PICK choice \in {"KK", "XX"} :
        /\ link' = [link EXCEPT !.pattern = choice]
        /\ reader' = [reader EXCEPT ![g].at = "message1", ![g].heard = "offer",
                                    ![g].pattern = choice]
  BY DEF ReaderOffer
<1>3. /\ UNCHANGED <<hub, generation, forceXX, attempt, writing, stored, socket, ready, done,
                     caller, writer>>
      /\ generation = g /\ link.connected /\ link.conn # 0
  BY DEF ReaderOffer, channels, Current
<1>4. reader[g].at = "read" /\ reader[g].heard = "hello"
  BY HubSays DEF ReaderOffer, Receives
<1>5. /\ reader[g] \in ReaderSet /\ reader[g].pattern = "none" /\ reader[g].err = "none"
      /\ link.pattern = "none" /\ hub # "access"
  BY <1>1, <1>3, <1>4 DEF ReaderKnows, LinkKnows
<1> DEFINE r == [reader[g] EXCEPT !.at = "message1", !.heard = "offer", !.pattern = choice]
<1>6. /\ r \in ReaderSet /\ r.at = "message1" /\ r.err = "none" /\ r.heard = "offer"
      /\ r.sent = reader[g].sent /\ r.pattern = choice
  BY <1>4, <1>5 DEF ReaderSet, ReaderPlaces, Patterns
<1>7. reader' = [reader EXCEPT ![g] = r]
  BY <1>1, <1>2
<1> HIDE DEF r
<1>8. /\ reader'[g] = r
      /\ \A h \in Generations \ {g} : reader'[h] = reader[h]
  BY <1>1, <1>7
<1>9. /\ link' \in LinkSet /\ link'.conn = link.conn /\ link'.connected = link.connected
      /\ link'.handshake = link.handshake /\ link'.lastError = link.lastError
      /\ link'.refused = link.refused /\ link'.keyRejected = link.keyRejected
      /\ link'.heard = link.heard /\ link'.finalSent = link.finalSent
      /\ link'.pattern = choice
  BY <1>1, <1>2 DEF LinkSet, Patterns
<1>10. LinkKnows'
  BY <1>1, <1>3, <1>4, <1>5, <1>6, <1>8, <1>9 DEF LinkKnows, TypeOK
<1>11. ReaderKnows(g)'
  BY <1>1, <1>3, <1>4, <1>5, <1>6, <1>8 DEF ReaderKnows
<1>12. VerdictsKnow' /\ NoDowngrade'
  BY <1>1, <1>3, <1>9 DEF VerdictsKnow, NoDowngrade
<1>13. link.heard => link'.heard
  BY <1>9
<1>14. link'.refused /\ ~link'.keyRejected => link.refused /\ ~link.keyRejected
  BY <1>9
<1> QED
  BY <1>1, <1>3, <1>4, <1>5, <1>6, <1>7, <1>9, <1>10, <1>11, <1>12, <1>13, <1>14,
     ReaderStepKeeps

LEMMA ReaderWritesKeeps ==
  ASSUME IInv, NEW g \in Generations, ReaderWrites(g) PROVE IInv'
<1> USE DEF Generations
<1>1. /\ TypeOK /\ LinkKnows /\ VerdictsKnow /\ NoDowngrade /\ ReaderKnows(g)
      /\ MaxGeneration \in Nat /\ generation \in Nat /\ generation <= MaxGeneration
      /\ link \in LinkSet /\ reader \in [Generations -> ReaderSet]
      /\ stored \in [pinned : BOOLEAN, stalePSK : BOOLEAN]
      /\ socket \in [Generations -> SocketStates]
      /\ ready \in [Generations -> BOOLEAN] /\ done \in [Generations -> BOOLEAN]
  BY Typed DEF IInv
<1>2. /\ UNCHANGED <<hub, generation, forceXX, attempt, writing, stored, ready, done,
                     caller, writer>>
      /\ reader[g].at \in {"message1", "final", "greet"}
  BY DEF ReaderWrites, channels
<1>3. reader[g] \in ReaderSet /\ reader[g].err = "none"
  BY <1>1, <1>2 DEF ReaderKnows
<1>4. generation = g /\ link.connected => ~link.handshake
  BY <1>1, <1>2 DEF LinkKnows
<1>5. CASE /\ reader' = [reader EXCEPT ![g].at = Next1(@), ![g].sent = Sent(reader[g].at)]
           /\ UNCHANGED <<link, socket>>
  <2> DEFINE r == [reader[g] EXCEPT !.at = Next1(@), !.sent = Sent(reader[g].at)]
  <2>1. /\ r \in ReaderSet /\ r.err = "none" /\ r.heard = reader[g].heard
        /\ r.pattern = reader[g].pattern
        /\ reader[g].at = "message1" => r.at = "read" /\ r.sent = "message1"
        /\ reader[g].at = "final" => r.at = "pin" /\ r.sent = "final"
        /\ reader[g].at = "greet" => r.at = "finish" /\ r.sent = "greeting"
    BY <1>2, <1>3 DEF ReaderSet, ReaderPlaces, Next1, Sent
  <2>2. reader' = [reader EXCEPT ![g] = r]
    BY <1>1, <1>5
  <2> HIDE DEF r
  <2>3. /\ reader'[g] = r
        /\ \A h \in Generations \ {g} : reader'[h] = reader[h]
    BY <1>1, <2>2
  <2>4. LinkKnows'
    <3>1. CASE generation = g
      BY <3>1, <1>1, <1>2, <1>4, <1>5, <2>1, <2>3 DEF LinkKnows
    <3>2. CASE generation # g
      <4>1. generation # 0 => reader'[generation] = reader[generation]
        BY <3>2, <1>1, <2>3
      <4>2. /\ link' = link /\ generation' = generation
            /\ generation # 0 \/ ~link.connected
            /\ link.conn = 0 \/ link.conn = generation
        BY <1>1, <1>2, <1>5 DEF LinkKnows
      <4> QED
        BY <4>1, <4>2, <1>1 DEF LinkKnows
    <3> QED
      BY <3>1, <3>2
  <2>5. ReaderKnows(g)'
    BY <1>1, <1>2, <2>1, <2>3 DEF ReaderKnows
  <2>6. VerdictsKnow' /\ NoDowngrade'
    BY <1>1, <1>2, <1>5 DEF VerdictsKnow, NoDowngrade
  <2>7. /\ reader[g].at \notin {"none", "gone", "record", "signal"}
        /\ r.at # "none" /\ r.at # "gone" /\ reader[g].err # "refused"
        /\ reader[g].pattern = "KK" => r.pattern = "KK"
        /\ reader[g].heard = "answer" => r.heard = "answer"
        /\ link' = link /\ socket' = socket
    BY <1>2, <1>3, <1>5, <2>1
  <2> QED
    BY <1>1, <1>2, <2>1, <2>2, <2>4, <2>5, <2>6, <2>7, ReaderStepKeeps
<1>6. CASE /\ Current(g) /\ socket[g] # "open"
           /\ ReaderFails(g, "lost")
           /\ Poison(g, g, "lost")
           /\ socket' = Shut(g)
  <2> DEFINE r == [reader[g] EXCEPT !.at = "record", !.err = "lost"]
  <2>1. /\ r \in ReaderSet /\ r.at = "record" /\ r.err = "lost" /\ r.heard = reader[g].heard
        /\ r.sent = reader[g].sent /\ r.pattern = reader[g].pattern
    BY <1>3 DEF ReaderSet, ReaderPlaces, Causes
  <2>2. reader' = [reader EXCEPT ![g] = r]
    BY <1>1, <1>6 DEF ReaderFails
  <2> HIDE DEF r
  <2>3. /\ reader'[g] = r
        /\ \A h \in Generations \ {g} : reader'[h] = reader[h]
    BY <1>1, <2>2
  <2>4. generation = g /\ link.connected /\ link.conn = g
    BY <1>1, <1>6 DEF Current, TypeOK
  <2>5. /\ link' \in LinkSet /\ link'.conn = 0 /\ link'.connected = FALSE
        /\ link'.handshake = FALSE /\ link'.lastError = "lost"
        /\ link'.refused = link.refused /\ link'.keyRejected = link.keyRejected
        /\ link'.heard = link.heard /\ link'.pattern = link.pattern
    <3>1. link' = [Cleared EXCEPT !.lastError = "lost"]
      BY <1>6, <2>4 DEF Poison
    <3> QED
      BY <3>1, <1>1, Retired DEF Causes
  <2>6. /\ socket' = [socket EXCEPT ![g] = "closed"]
        /\ socket' \in [Generations -> SocketStates]
        /\ socket'[g] = "closed" /\ socket[g] # "none"
        /\ \A h \in Generations \ {g} : socket'[h] = socket[h]
    BY <1>1, <1>6, <2>4 DEF Shut, SocketStates, TypeOK
  <2>7. LinkKnows'
    BY <2>5 DEF LinkKnows
  <2>8. ReaderKnows(g)'
    BY <1>1, <1>2, <2>1, <2>3 DEF ReaderKnows
  <2>9. VerdictsKnow' /\ NoDowngrade'
    BY <1>1, <1>2, <2>5 DEF VerdictsKnow, NoDowngrade
  <2>10. link'.refused /\ ~link'.keyRejected => link.refused /\ ~link.keyRejected
    BY <2>5
  <2>11. (link.heard => link'.heard) /\ (link'.connected => link.connected)
    BY <2>5
  <2>12. /\ link'.conn \in {link.conn, 0}
         /\ link'.connected => link.connected /\ link'.conn = link.conn
         /\ link.pattern = "KK" => link'.pattern = "KK"
         /\ link.conn = g /\ link'.conn # g => socket'[g] # "open"
         /\ link'.lastError = "refused" => link.lastError = "refused" \/ r.err = "refused"
         /\ link' = link \/ (generation = g /\ link.connected)
    BY <2>4, <2>5, <2>6
  <2>13. /\ reader[g].at \notin {"none", "gone"} /\ r.at # "none" /\ r.at # "gone"
         /\ reader[g].err = "refused" => r.err = "refused"
         /\ reader[g].pattern = "KK" => r.pattern = "KK"
         /\ reader[g].heard = "answer" => r.heard = "answer"
         /\ r.at \in {"record", "signal"}
    BY <1>2, <1>3, <2>1
  <2> QED
    BY <1>1, <1>2, <2>1, <2>2, <2>5, <2>6, <2>7, <2>8, <2>9, <2>10, <2>11, <2>12, <2>13,
       ReaderStepKeeps
<1>7. CASE ReaderFails(g, "lost") /\ UNCHANGED <<link, socket>>
  BY <1>1, <1>2, <1>7, ReaderFailsKeeps DEF transport, channels, Causes
<1> QED
  BY <1>5, <1>6, <1>7 DEF ReaderWrites

LEMMA ReaderAnswerKeeps ==
  ASSUME IInv, NEW g \in Generations, ReaderAnswer(g) PROVE IInv'
<1> USE DEF Generations
<1>1. /\ TypeOK /\ LinkKnows /\ VerdictsKnow /\ NoDowngrade /\ ReaderKnows(g) /\ HubKnows
      /\ MaxGeneration \in Nat /\ generation \in Nat /\ generation <= MaxGeneration
      /\ link \in LinkSet /\ reader \in [Generations -> ReaderSet]
      /\ stored \in [pinned : BOOLEAN, stalePSK : BOOLEAN]
      /\ socket \in [Generations -> SocketStates]
      /\ ready \in [Generations -> BOOLEAN] /\ done \in [Generations -> BOOLEAN]
  BY Typed DEF IInv
<1>2. /\ UNCHANGED <<hub, generation, forceXX, attempt, writing, socket, ready, done, caller,
                     writer>>
      /\ reader[g].at = "read" /\ reader[g].heard = "offer" /\ reader[g].sent = "message1"
      /\ generation = g /\ link.connected
  BY HubSays DEF ReaderAnswer, Receives, Current, channels
<1>3. /\ reader[g] \in ReaderSet /\ reader[g].err = "none" /\ reader[g].pattern # "none"
      /\ link.pattern = reader[g].pattern /\ ~link.handshake /\ hub # "access"
  BY <1>1, <1>2 DEF ReaderKnows, LinkKnows
<1>4. CASE /\ link' = [link EXCEPT !.finalSent = (reader[g].pattern = "XX")]
           /\ reader' = [reader EXCEPT ![g].heard = "answer",
                ![g].at = IF reader[g].pattern = "XX" THEN "final" ELSE "pin"]
           /\ UNCHANGED stored
  <2> DEFINE r == [reader[g] EXCEPT !.heard = "answer",
                     !.at = IF reader[g].pattern = "XX" THEN "final" ELSE "pin"]
  <2>1. /\ r \in ReaderSet /\ r.at \in {"final", "pin"} /\ r.err = "none"
        /\ r.heard = "answer" /\ r.sent = "message1" /\ r.pattern = reader[g].pattern
    BY <1>2, <1>3 DEF ReaderSet, ReaderPlaces
  <2>2. reader' = [reader EXCEPT ![g] = r]
    BY <1>1, <1>4
  <2> HIDE DEF r
  <2>3. /\ reader'[g] = r
        /\ \A h \in Generations \ {g} : reader'[h] = reader[h]
    BY <1>1, <2>2
  <2>4. /\ link' \in LinkSet /\ link'.conn = link.conn /\ link'.connected = link.connected
        /\ link'.handshake = link.handshake /\ link'.lastError = link.lastError
        /\ link'.refused = link.refused /\ link'.keyRejected = link.keyRejected
        /\ link'.heard = link.heard /\ link'.pattern = link.pattern
        /\ link'.finalSent = (reader[g].pattern = "XX")
    BY <1>1, <1>4 DEF LinkSet
  <2>5. LinkKnows'
    BY <1>1, <1>2, <1>3, <2>1, <2>3, <2>4 DEF LinkKnows, TypeOK
  <2>6. ReaderKnows(g)'
    BY <1>1, <1>2, <1>3, <1>4, <2>1, <2>3 DEF ReaderKnows
  <2>7. VerdictsKnow' /\ NoDowngrade'
    BY <1>1, <1>2, <1>4, <2>4 DEF VerdictsKnow, NoDowngrade
  <2>8. (link.heard => link'.heard) /\ (link'.connected => link.connected)
    BY <2>4
  <2>9. link'.refused /\ ~link'.keyRejected => link.refused /\ ~link.keyRejected
    BY <2>4
  <2>10. /\ link'.conn \in {link.conn, 0}
         /\ link'.connected => link.connected /\ link'.conn = link.conn
         /\ link.pattern = "KK" => link'.pattern = "KK"
         /\ link.conn = g /\ link'.conn # g => socket'[g] # "open"
         /\ link'.lastError = "refused" => link.lastError = "refused" \/ r.err = "refused"
         /\ link' = link \/ (generation = g /\ link.connected)
    BY <1>2, <2>4
  <2>11. /\ reader[g].at \notin {"none", "gone", "record", "signal"}
         /\ r.at # "none" /\ r.at # "gone"
         /\ reader[g].err # "refused"
         /\ reader[g].pattern = "KK" => r.pattern = "KK"
         /\ reader[g].heard # "answer"
    BY <1>2, <1>3, <2>1
  <2>12. stored' = stored /\ link' \in LinkSet
    BY <1>4, <2>4
  <2> QED
    BY <1>1, <1>2, <2>1, <2>2, <2>5, <2>6, <2>7, <2>8, <2>9, <2>10, <2>11, <2>12,
       ReaderStepKeeps
<1>5. CASE /\ ~Authenticates
           /\ stored' = [stored EXCEPT !.stalePSK = FALSE]
           /\ ReaderFails(g, "refused")
           /\ UNCHANGED link
  <2>1. /\ stored' \in [pinned : BOOLEAN, stalePSK : BOOLEAN]
        /\ stored'.pinned = stored.pinned /\ ~stored'.stalePSK
    BY <1>1, <1>5
  <2>2. hub = "password" \/ hub = "good"
    BY <1>1, <1>5 DEF Authenticates, HubKnows
  <2> QED
    BY <1>1, <1>2, <1>5, <2>1, <2>2, ReaderFailsKeeps DEF transport, channels, Causes
<1> QED
  BY <1>4, <1>5 DEF ReaderAnswer

\* Only a hub whose key is the pinned one, or the first, is greeted.
LEMMA ReaderPinsKeeps ==
  ASSUME IInv, NEW g \in Generations, ReaderPins(g) PROVE IInv'
<1> USE DEF Generations
<1>1. /\ TypeOK /\ LinkKnows /\ VerdictsKnow /\ NoDowngrade /\ ReaderKnows(g) /\ HubKnows
      /\ MaxGeneration \in Nat /\ generation \in Nat /\ generation <= MaxGeneration
      /\ link \in LinkSet /\ reader \in [Generations -> ReaderSet]
      /\ stored \in [pinned : BOOLEAN, stalePSK : BOOLEAN]
      /\ socket \in [Generations -> SocketStates]
      /\ ready \in [Generations -> BOOLEAN] /\ done \in [Generations -> BOOLEAN]
  BY Typed DEF IInv
<1>2. /\ UNCHANGED <<hub, generation, link, forceXX, attempt, writing, socket, ready, done,
                     caller, writer>>
      /\ reader[g].at = "pin"
  BY DEF ReaderPins, transport, channels
<1>3. /\ reader[g] \in ReaderSet /\ reader[g].err = "none" /\ reader[g].heard = "answer"
  BY <1>1, <1>2 DEF ReaderKnows
<1>4. CASE /\ Current(g) /\ PinHolds
           /\ stored' = [stored EXCEPT !.pinned = TRUE]
           /\ ReaderGoes(g, "greet")
  <2> DEFINE r == [reader[g] EXCEPT !.at = "greet"]
  <2>1. /\ r \in ReaderSet /\ r.at = "greet" /\ r.err = "none" /\ r.heard = "answer"
        /\ r.sent = reader[g].sent /\ r.pattern = reader[g].pattern
    BY <1>3 DEF ReaderSet, ReaderPlaces
  <2>2. reader' = [reader EXCEPT ![g] = r]
    BY <1>1, <1>4 DEF ReaderGoes
  <2> HIDE DEF r
  <2>3. /\ reader'[g] = r
        /\ \A h \in Generations \ {g} : reader'[h] = reader[h]
    BY <1>1, <2>2
  <2>4. /\ stored' \in [pinned : BOOLEAN, stalePSK : BOOLEAN]
        /\ stored'.pinned /\ stored'.stalePSK = stored.stalePSK
    BY <1>1, <1>4
  <2>5. hub # "hubKey"
    BY <1>1, <1>4 DEF PinHolds, HubKnows
  <2>6. LinkKnows'
    <3>1. CASE generation = g
      BY <3>1, <1>1, <1>2, <1>3, <2>1, <2>3 DEF LinkKnows
    <3>2. CASE generation # g
      <4>1. generation # 0 => reader'[generation] = reader[generation]
        BY <3>2, <1>1, <2>3
      <4>2. /\ link' = link /\ generation' = generation
            /\ generation # 0 \/ ~link.connected
            /\ link.conn = 0 \/ link.conn = generation
        BY <1>1, <1>2 DEF LinkKnows
      <4> QED
        BY <4>1, <4>2, <1>1 DEF LinkKnows
    <3> QED
      BY <3>1, <3>2
  <2>7. ReaderKnows(g)'
    BY <1>1, <1>2, <1>3, <2>1, <2>3, <2>4, <2>5 DEF ReaderKnows
  <2>8. VerdictsKnow' /\ NoDowngrade'
    BY <1>1, <1>2, <2>4 DEF VerdictsKnow, NoDowngrade
  <2>9. /\ stored.pinned => stored'.pinned
        /\ ~stored.stalePSK => ~stored'.stalePSK
    BY <2>4
  <2> QED
    BY <1>1, <1>2, <1>3, <2>1, <2>2, <2>4, <2>6, <2>7, <2>8, <2>9, ReaderStepKeeps
<1>5. CASE /\ ~(Current(g) /\ PinHolds)
           /\ ReaderFails(g, IF Current(g) THEN "hubKey" ELSE "lost")
           /\ UNCHANGED stored
  <2>1. CASE Current(g)
    <3>1. hub = "hubKey" /\ ReaderFails(g, "hubKey")
      BY <1>5, <2>1 DEF PinHolds
    <3> QED
      BY <3>1, <1>1, <1>2, <1>5, ReaderFailsKeeps DEF transport, channels, Causes
  <2>2. CASE ~Current(g)
    <3>1. ReaderFails(g, "lost")
      BY <1>5, <2>2
    <3> QED
      BY <3>1, <1>1, <1>2, <1>5, ReaderFailsKeeps DEF transport, channels, Causes
  <2> QED
    BY <2>1, <2>2
<1> QED
  BY <1>4, <1>5 DEF ReaderPins

LEMMA ReaderFinishKeeps ==
  ASSUME IInv, NEW g \in Generations, ReaderFinish(g) PROVE IInv'
<1> USE DEF Generations
<1>1. /\ TypeOK /\ LinkKnows /\ VerdictsKnow /\ NoDowngrade /\ ReaderKnows(g)
      /\ MaxGeneration \in Nat /\ generation \in Nat /\ generation <= MaxGeneration
      /\ link \in LinkSet /\ reader \in [Generations -> ReaderSet]
      /\ stored \in [pinned : BOOLEAN, stalePSK : BOOLEAN]
      /\ socket \in [Generations -> SocketStates]
      /\ ready \in [Generations -> BOOLEAN] /\ done \in [Generations -> BOOLEAN]
  BY Typed DEF IInv
<1>2. /\ UNCHANGED <<hub, generation, forceXX, attempt, writing, stored, socket, done, caller,
                     writer>>
      /\ reader[g].at = "finish"
  BY DEF ReaderFinish
<1>3. /\ reader[g] \in ReaderSet /\ reader[g].err = "none" /\ reader[g].heard = "answer"
      /\ reader[g].sent = "greeting" /\ hub # "hubKey" /\ stored.pinned
  BY <1>1, <1>2 DEF ReaderKnows
<1>4. CASE /\ Current(g)
           /\ link' = [link EXCEPT !.handshake = TRUE]
           /\ ready' = [ready EXCEPT ![g] = TRUE]
           /\ ReaderGoes(g, "read")
  <2> DEFINE r == [reader[g] EXCEPT !.at = "read"]
  <2>1. /\ r \in ReaderSet /\ r.at = "read" /\ r.err = "none" /\ r.heard = "answer"
        /\ r.sent = "greeting" /\ r.pattern = reader[g].pattern
    BY <1>3 DEF ReaderSet, ReaderPlaces
  <2>2. reader' = [reader EXCEPT ![g] = r]
    BY <1>1, <1>4 DEF ReaderGoes
  <2> HIDE DEF r
  <2>3. /\ reader'[g] = r
        /\ \A h \in Generations \ {g} : reader'[h] = reader[h]
    BY <1>1, <2>2
  <2>4. /\ link' \in LinkSet /\ link'.conn = link.conn /\ link'.connected = link.connected
        /\ link'.handshake = TRUE /\ link'.lastError = link.lastError
        /\ link'.refused = link.refused /\ link'.keyRejected = link.keyRejected
        /\ link'.heard = link.heard /\ link'.pattern = link.pattern
        /\ link'.finalSent = link.finalSent
    BY <1>1, <1>4 DEF LinkSet
  <2>5. generation = g /\ link.connected
    BY <1>4 DEF Current
  <2>6. /\ ready' \in [Generations -> BOOLEAN]
        /\ \A h \in Generations : ready[h] => ready'[h]
    BY <1>1, <1>4
  <2>7. LinkKnows'
    BY <1>1, <1>2, <1>3, <2>1, <2>3, <2>4, <2>5 DEF LinkKnows
  <2>8. ReaderKnows(g)'
    BY <1>1, <1>2, <1>3, <2>1, <2>3 DEF ReaderKnows
  <2>9. VerdictsKnow' /\ NoDowngrade'
    BY <1>1, <1>2, <1>3, <2>4 DEF VerdictsKnow, NoDowngrade
  <2>10. /\ link'.conn \in {link.conn, 0}
         /\ link'.connected => link.connected /\ link'.conn = link.conn
         /\ link.heard => link'.heard
         /\ link.pattern = "KK" => link'.pattern = "KK"
         /\ link.conn = g /\ link'.conn # g => socket'[g] # "open"
         /\ link'.lastError = "refused" => link.lastError = "refused" \/ r.err = "refused"
         /\ link'.refused /\ ~link'.keyRejected => link.refused /\ ~link.keyRejected
    BY <2>4
  <2> QED
    BY <1>1, <1>2, <1>3, <2>1, <2>2, <2>4, <2>5, <2>6, <2>7, <2>8, <2>9, <2>10,
       ReaderStepKeeps
<1>5. CASE ReaderFails(g, "lost") /\ UNCHANGED <<link, ready>>
  BY <1>1, <1>2, <1>5, ReaderFailsKeeps DEF transport, channels, Causes
<1> QED
  BY <1>4, <1>5 DEF ReaderFinish

LEMMA ReaderFrameKeeps ==
  ASSUME IInv, NEW g \in Generations, ReaderFrame(g) PROVE IInv'
<1> USE DEF Generations
<1>1. /\ TypeOK /\ LinkKnows /\ VerdictsKnow /\ NoDowngrade /\ ReaderKnows(g)
      /\ MaxGeneration \in Nat /\ generation \in Nat /\ generation <= MaxGeneration
      /\ link \in LinkSet /\ reader \in [Generations -> ReaderSet]
      /\ stored \in [pinned : BOOLEAN, stalePSK : BOOLEAN]
      /\ socket \in [Generations -> SocketStates]
      /\ ready \in [Generations -> BOOLEAN] /\ done \in [Generations -> BOOLEAN]
  BY Typed DEF IInv
<1>2. /\ UNCHANGED <<hub, generation, forceXX, attempt, writing, stored, socket, ready, done,
                     reader, caller, writer>>
      /\ reader[g].at = "read" /\ generation = g /\ link.connected
      /\ reader[g] \in ReaderSet
  BY <1>1 DEF ReaderFrame, Receives, Current, channels
<1>3. /\ link' \in LinkSet /\ link'.conn = link.conn /\ link'.connected = link.connected
      /\ link'.handshake = link.handshake /\ link'.lastError = link.lastError
      /\ link'.refused = link.refused /\ link'.keyRejected = link.keyRejected
      /\ link'.heard = TRUE /\ link'.pattern = link.pattern
      /\ link'.finalSent = link.finalSent
  BY <1>1 DEF ReaderFrame, LinkSet
<1>4. reader' = [reader EXCEPT ![g] = reader[g]]
  BY <1>1, <1>2
<1>5. LinkKnows' /\ VerdictsKnow' /\ NoDowngrade'
  BY <1>1, <1>2, <1>3 DEF LinkKnows, VerdictsKnow, NoDowngrade
<1>6. ReaderKnows(g)'
  BY <1>1, <1>2 DEF ReaderKnows
<1>7. /\ link'.conn \in {link.conn, 0}
      /\ link'.connected => link.connected /\ link'.conn = link.conn
      /\ link.heard => link'.heard
      /\ link.pattern = "KK" => link'.pattern = "KK"
      /\ link.conn = g /\ link'.conn # g => socket'[g] # "open"
      /\ link'.lastError = "refused" => link.lastError = "refused" \/ reader[g].err = "refused"
      /\ link'.refused /\ ~link'.keyRejected => link.refused /\ ~link.keyRejected
  BY <1>3
<1> QED
  BY <1>1, <1>2, <1>3, <1>4, <1>5, <1>6, <1>7, ReaderStepKeeps

\* What a read loop records of the end of its link is the hub's doing: a close is
\* a refusal only inside the window in which it answers the handshake.
LEMMA ReaderRecordsKeeps ==
  ASSUME IInv, NEW g \in Generations, ReaderRecords(g) PROVE IInv'
<1> USE DEF Generations
<1>1. /\ TypeOK /\ LinkKnows /\ VerdictsKnow /\ NoDowngrade /\ ReaderKnows(g) /\ HubKnows
      /\ MaxGeneration \in Nat /\ generation \in Nat /\ generation <= MaxGeneration
      /\ link \in LinkSet /\ reader \in [Generations -> ReaderSet]
      /\ stored \in [pinned : BOOLEAN, stalePSK : BOOLEAN]
      /\ socket \in [Generations -> SocketStates]
      /\ ready \in [Generations -> BOOLEAN] /\ done \in [Generations -> BOOLEAN]
  BY Typed DEF IInv
<1>2. /\ UNCHANGED <<hub, generation, forceXX, attempt, writing, stored, socket, ready, done,
                     caller, writer>>
      /\ reader[g].at = "record" /\ reader[g] \in ReaderSet
  BY <1>1 DEF ReaderRecords, channels
<1> DEFINE r == [reader[g] EXCEPT !.at = "signal"]
<1>3. /\ r \in ReaderSet /\ r.at = "signal" /\ r.err = reader[g].err
      /\ r.heard = reader[g].heard /\ r.sent = reader[g].sent
      /\ r.pattern = reader[g].pattern
  BY <1>2 DEF ReaderSet, ReaderPlaces
<1>4. reader' = [reader EXCEPT ![g] = r]
  BY <1>1 DEF ReaderRecords, ReaderGoes
<1> HIDE DEF r
<1>5. /\ reader'[g] = r
      /\ \A h \in Generations \ {g} : reader'[h] = reader[h]
  BY <1>1, <1>4
<1>6. ReaderKnows(g)'
  BY <1>1, <1>2, <1>3, <1>5 DEF ReaderKnows
<1>7. CASE Owns(g)
  <2>1. generation = g /\ link.connected
    BY <1>7 DEF Owns
  <2>2. link' = [link EXCEPT !.lastError = reader[g].err,
                             !.refused = reader[g].err = "refused" \/ RefusalClose(g),
                             !.keyRejected = KeyRefused(g),
                             !.connected = FALSE, !.handshake = FALSE]
    BY <1>7 DEF ReaderRecords
  <2>3. RefusalClose(g) \in BOOLEAN /\ KeyRefused(g) \in BOOLEAN
    BY DEF RefusalClose, KeyRefused
  <2>4. /\ link' \in LinkSet /\ link'.conn = link.conn /\ link'.connected = FALSE
        /\ link'.handshake = FALSE /\ link'.lastError = reader[g].err
        /\ link'.heard = link.heard /\ link'.pattern = link.pattern
        /\ link'.finalSent = link.finalSent
    BY <1>1, <1>2, <2>2, <2>3 DEF LinkSet, ReaderSet
  <2>5. /\ link'.refused => reader[g].err = "refused" \/ RefusalClose(g)
        /\ link'.keyRejected <=> KeyRefused(g)
    BY <1>1, <2>2, <2>3 DEF LinkSet
  <2>6. RefusalClose(g) =>
          \/ hub = "access" /\ link.pattern = "none"
          \/ link.pattern = "KK"
          \/ hub = "clientKey" /\ reader[g].heard = "answer"
    BY <1>1, <1>2, <2>1 DEF RefusalClose, HubKnows, RefusedFor, LinkKnows, ReaderKnows
  <2>7. RefusalClose(g) /\ hub = "clientKey" /\ reader[g].heard = "answer" =>
          link.pattern = "KK" \/ KeyRefused(g)
    <3> SUFFICES ASSUME RefusalClose(g), hub = "clientKey", reader[g].heard = "answer",
                        link.pattern # "KK"
                 PROVE  KeyRefused(g)
        OBVIOUS
    <3>1. reader[g].pattern = "XX" /\ link.pattern = "XX"
      BY <1>1, <1>2, <2>1 DEF ReaderKnows, LinkKnows, ReaderSet, Patterns
    <3>2. link.finalSent /\ reader[g].err # "refused"
      BY <1>1, <2>1, <3>1 DEF LinkKnows, ReaderKnows
    <3> QED
      BY <3>1, <3>2 DEF KeyRefused
  <2>8. link'.keyRejected => hub = "clientKey"
    BY <2>5, <2>6 DEF KeyRefused
  <2>9. reader[g].err = "refused" => hub = "password" \/ (hub = "good" /\ ~stored.stalePSK)
    BY <1>1 DEF ReaderKnows
  <2>10. link'.refused /\ ~link'.keyRejected => Refused(g)'
    <3>1. hub' = hub /\ stored' = stored /\ reader'[g].err = reader[g].err
      BY <1>2, <1>3, <1>5
    <3> QED
      BY <2>4, <2>5, <2>6, <2>7, <2>9, <3>1 DEF Refused
  <2>11. LinkKnows'
    BY <1>1, <1>2, <1>3, <1>5, <2>1, <2>4 DEF LinkKnows
  <2>12. VerdictsKnow' /\ NoDowngrade'
    BY <1>1, <1>2, <2>4, <2>8 DEF VerdictsKnow, NoDowngrade, ReaderKnows
  <2>13. /\ link'.conn \in {link.conn, 0}
         /\ link'.connected => link.connected /\ link'.conn = link.conn
         /\ link.heard => link'.heard
         /\ link.pattern = "KK" => link'.pattern = "KK"
         /\ link.conn = g /\ link'.conn # g => socket'[g] # "open"
         /\ link'.lastError = "refused" => link.lastError = "refused" \/ r.err = "refused"
    BY <1>3, <2>4
  <2>14. link' \in LinkSet
    BY <2>4
  <2> QED
    BY <1>1, <1>2, <1>3, <1>4, <1>6, <2>1, <2>10, <2>11, <2>12, <2>13, <2>14,
       ReaderStepKeeps
<1>8. CASE ~Owns(g)
  <2>1. link' = link
    BY <1>8 DEF ReaderRecords
  <2>2. LinkKnows'
    <3>1. link.connected => generation # g /\ reader'[generation] = reader[generation]
      BY <1>1, <1>5, <1>8 DEF Owns, LinkKnows
    <3>2. link.conn # 0 => reader'[link.conn].at # "none"
      BY <1>1, <1>3, <1>5 DEF LinkKnows
    <3> QED
      BY <1>1, <1>2, <2>1, <3>1, <3>2 DEF LinkKnows
  <2>3. VerdictsKnow' /\ NoDowngrade'
    BY <1>1, <1>2, <2>1 DEF VerdictsKnow, NoDowngrade
  <2> QED
    BY <1>1, <1>2, <1>3, <1>4, <1>6, <2>1, <2>2, <2>3, ReaderStepKeeps
<1> QED
  BY <1>7, <1>8

LEMMA ReaderEndsKeeps ==
  ASSUME IInv, NEW g \in Generations, ReaderEnds(g) PROVE IInv'
<1> USE DEF Generations
<1>1. /\ TypeOK /\ LinkKnows /\ VerdictsKnow /\ NoDowngrade /\ ReaderKnows(g)
      /\ MaxGeneration \in Nat /\ generation \in Nat /\ generation <= MaxGeneration
      /\ link \in LinkSet /\ reader \in [Generations -> ReaderSet]
      /\ stored \in [pinned : BOOLEAN, stalePSK : BOOLEAN]
      /\ socket \in [Generations -> SocketStates]
      /\ ready \in [Generations -> BOOLEAN] /\ done \in [Generations -> BOOLEAN]
  BY Typed DEF IInv
<1>2. /\ UNCHANGED <<hub, generation, link, forceXX, attempt, writing, stored, ready, caller,
                     writer>>
      /\ reader[g].at = "signal" /\ reader[g] \in ReaderSet
  BY <1>1 DEF ReaderEnds, transport
<1> DEFINE r == [NoReader EXCEPT !.at = "gone", !.err = reader[g].err]
<1>3. /\ r \in ReaderSet /\ r.at = "gone" /\ r.err = reader[g].err
      /\ r.heard = "nothing" /\ r.sent = "nothing" /\ r.pattern = "none"
  BY <1>2 DEF NoReader, ReaderSet, ReaderPlaces, Patterns
<1>4. reader' = [reader EXCEPT ![g] = r]
  BY DEF ReaderEnds
<1> HIDE DEF r
<1>5. /\ reader'[g] = r
      /\ \A h \in Generations \ {g} : reader'[h] = reader[h]
  BY <1>1, <1>4
<1>6. ReaderKnows(g)'
  BY <1>1, <1>2, <1>3, <1>5 DEF ReaderKnows
<1>7. LinkKnows'
  <2>1. link.connected => generation # g /\ reader'[generation] = reader[generation]
    BY <1>1, <1>2, <1>5 DEF LinkKnows
  <2>2. link.conn # 0 => reader'[link.conn].at # "none"
    BY <1>1, <1>3, <1>5 DEF LinkKnows
  <2> QED
    BY <1>1, <1>2, <2>1, <2>2 DEF LinkKnows
<1>8. VerdictsKnow' /\ NoDowngrade'
  BY <1>1, <1>2 DEF VerdictsKnow, NoDowngrade
<1>9. /\ done' \in [Generations -> BOOLEAN]
      /\ \A h \in Generations : done[h] => done'[h] \/ h = g
      /\ generation = g => done'[g]
  <2>1. done' = [done EXCEPT ![g] = (generation = g)]
    BY DEF ReaderEnds, MaySignal
  <2> QED
    BY <1>1, <2>1
<1>10. /\ socket' \in [Generations -> SocketStates]
       /\ \A h \in Generations \ {g} : socket'[h] = socket[h]
       /\ socket'[g] \in {socket[g], "closed"} /\ socket'[g] # "open"
       /\ socket'[g] = "closed" => socket[g] # "none"
  BY <1>1 DEF ReaderEnds, Shut, SocketStates
<1> QED
  BY <1>1, <1>2, <1>3, <1>4, <1>6, <1>7, <1>8, <1>9, <1>10, ReaderStepKeeps

--------------------------------------------------------------------------------
(***************************************************************************)
(* Writers and the peer.                                                   *)
(***************************************************************************)

\* A step that neither a call nor a read loop makes: at most it retires the link
\* and ends sockets.
LEMMA OthersKeep ==
  ASSUME IInv,
         UNCHANGED <<hub, generation, forceXX, attempt, stored, ready, done, reader, caller>>,
         writing' \in Writers \cup {None}, writer' \in [Writers -> FrameSet],
         \A w \in Writers : WriterKnows(w)',
         link' = link \/ (link' = [Cleared EXCEPT !.lastError = "lost"] /\ link.conn # 0),
         socket' \in [Generations -> SocketStates],
         \A h \in Generations : socket[h] # "none" => socket'[h] # "none",
         \A h \in Generations : h > generation => socket'[h] = socket[h],
         \A h \in Generations : socket'[h] = "open" =>
           socket[h] = "open" /\ (link.conn = h => link'.conn = h),
         \A h \in Generations : socket'[h] = "refusal" =>
           socket[h] = "refusal" \/ RefusedFor(h)'
  PROVE  IInv'
<1> USE DEF Generations
<1>1. /\ TypeOK /\ OneConnect /\ NothingAhead /\ LinkKnows /\ HubKnows /\ VerdictsKnow
      /\ NoDowngrade /\ WakeUpComes /\ NoSocketLost
      /\ \A h \in Generations : ReaderKnows(h)
      /\ \A p \in Callers : CallerKnows(p)
  BY DEF IInv
<1>2. /\ MaxGeneration \in Nat /\ generation \in Nat /\ generation <= MaxGeneration
      /\ generation # 0 => generation \in Generations
      /\ link \in LinkSet /\ reader \in [Generations -> ReaderSet]
  BY <1>1, Typed
<1>3. \/ link' = link
      \/ /\ link.conn # 0
         /\ link' \in LinkSet /\ link'.conn = 0 /\ link'.connected = FALSE
         /\ link'.handshake = FALSE /\ link'.lastError = "lost"
         /\ link'.refused = link.refused /\ link'.keyRejected = link.keyRejected
         /\ link'.heard = link.heard /\ link'.pattern = link.pattern
  BY <1>2, Retired DEF Causes
<1>a. TypeOK'
  <2>1. link'.conn # 0 => socket'[link'.conn] # "none"
    <3>1. CASE link'.conn = 0
      BY <3>1
    <3>2. CASE link'.conn # 0
      <4>1. link' = link /\ link.conn \in Generations
        BY <1>2, <1>3, <3>2 DEF LinkSet
      <4> QED
        BY <4>1, <1>1 DEF TypeOK
    <3> QED
      BY <3>1, <3>2
  <2>2. link'.connected => link'.conn = generation'
    BY <1>1, <1>3 DEF TypeOK
  <2>3. /\ hub' \in Hubs /\ generation' \in 0 .. MaxGeneration /\ forceXX' \in BOOLEAN
        /\ attempt' \in 0 .. MaxGeneration /\ link' \in LinkSet
        /\ stored' \in [pinned : BOOLEAN, stalePSK : BOOLEAN]
        /\ ready' \in [Generations -> BOOLEAN] /\ done' \in [Generations -> BOOLEAN]
        /\ reader' \in [Generations -> ReaderSet] /\ caller' \in [Callers -> CallSet]
    BY <1>1, <1>2, <1>3, Typed
  <2> QED
    BY <2>1, <2>2, <2>3, TypedNext
<1>b. OneConnect'
  BY <1>1 DEF OneConnect
<1>c. NothingAhead'
  BY <1>1 DEF NothingAhead
<1>d. LinkKnows'
  <2>1. CASE link' = link
    BY <2>1, <1>1 DEF LinkKnows
  <2>2. CASE link'.conn = 0 /\ link'.connected = FALSE
    BY <2>2 DEF LinkKnows
  <2> QED
    BY <2>1, <2>2, <1>3
<1>e. HubKnows'
  <2>1. \A h \in Generations : RefusedFor(h) => RefusedFor(h)'
    BY <1>3 DEF RefusedFor
  <2>2. \A h \in Generations : socket'[h] = "refusal" => RefusedFor(h)'
    BY <2>1, <1>1 DEF HubKnows
  <2> QED
    BY <2>2, <1>1 DEF HubKnows
<1>f. VerdictsKnow' /\ NoDowngrade'
  BY <1>1, <1>3 DEF VerdictsKnow, NoDowngrade
<1>g. \A h \in Generations : ReaderKnows(h)'
  BY <1>1 DEF ReaderKnows
<1>h. \A p \in Callers : CallerKnows(p)'
  <2>1. (~link.connected => ~link'.connected) /\ (link.conn = 0 => link'.conn = 0)
    BY <1>3
  <2>2. link = Down => link' = Down
    BY <1>3 DEF Down
  <2>3. link.pattern = "KK" => link'.pattern = "KK"
    BY <1>3
  <2>4. link'.lastError = "refused" => link.lastError = "refused"
    BY <1>3
  <2>5. link'.refused /\ ~link'.keyRejected => link.refused /\ ~link.keyRejected
    BY <1>3
  <2>6. generation = 0 \/ generation \in Generations
    BY <1>2
  <2> QED
    BY <2>1, <2>2, <2>3, <2>4, <2>5, <2>6, <1>1, <1>2, CallsKept
<1>i. WakeUpComes'
  BY <1>1 DEF WakeUpComes
<1>j. NoSocketLost'
  BY <1>1, SocketsKept
<1> QED
  BY <1>a, <1>b, <1>c, <1>d, <1>e, <1>f, <1>g, <1>h, <1>i, <1>j DEF IInv

LEMMA SendKeeps ==
  ASSUME IInv, NEW w \in Writers, Send(w) PROVE IInv'
<1>1. /\ MaxGeneration \in Nat /\ generation \in Nat /\ generation <= MaxGeneration
      /\ writing \in Writers \cup {None} /\ writer \in [Writers -> FrameSet]
      /\ socket \in [Generations -> SocketStates] /\ link \in LinkSet
      /\ LinkKnows /\ HubKnows
      /\ \A v \in Writers : WriterKnows(v)
  BY Typed DEF IInv
<1>2. UNCHANGED <<hub, generation, link, forceXX, attempt, writing, stored, socket, ready, done,
                  reader, caller>>
  BY DEF Send, transport, channels
<1>3. generation \in 1 .. generation
  BY <1>1 DEF Send, Ready, LinkKnows
<1>4. writer' = [writer EXCEPT ![w] = [at |-> "queued", my |-> generation]]
  BY DEF Send
<1>5. writer' \in [Writers -> FrameSet]
  BY <1>1, <1>4 DEF FrameSet, WriterPlaces
<1>6. \A v \in Writers : WriterKnows(v)'
  <2> SUFFICES ASSUME NEW v \in Writers PROVE WriterKnows(v)'
      OBVIOUS
  <2>1. CASE v = w
    <3>1. writer'[v] = [at |-> "queued", my |-> generation]
      BY <2>1, <1>1, <1>4
    <3> QED
      BY <3>1, <1>2, <1>3 DEF WriterKnows
  <2>2. CASE v # w
    BY <2>2, <1>1, <1>2, <1>4 DEF WriterKnows
  <2> QED
    BY <2>1, <2>2
<1> QED
  BY <1>1, <1>2, <1>5, <1>6, OthersKeep

LEMMA SendWithdrawnKeeps ==
  ASSUME IInv, NEW w \in Writers, SendWithdrawn(w) PROVE IInv'
<1>1. /\ MaxGeneration \in Nat
      /\ writing \in Writers \cup {None} /\ writer \in [Writers -> FrameSet]
      /\ socket \in [Generations -> SocketStates]
      /\ \A v \in Writers : WriterKnows(v)
  BY Typed DEF IInv
<1>2. /\ UNCHANGED <<hub, generation, link, forceXX, attempt, writing, stored, socket, ready,
                     done, reader, caller>>
      /\ writer' = [writer EXCEPT ![w] = NoFrame]
  BY DEF SendWithdrawn, transport, channels
<1>3. writer' \in [Writers -> FrameSet]
  BY <1>1, <1>2 DEF FrameSet, WriterPlaces, NoFrame
<1>4. \A v \in Writers : WriterKnows(v)'
  BY <1>1, <1>2 DEF WriterKnows, NoFrame
<1> QED
  BY <1>1, <1>2, <1>3, <1>4, OthersKeep

LEMMA SendAdmittedKeeps ==
  ASSUME IInv, NEW w \in Writers, SendAdmitted(w) PROVE IInv'
<1>1. /\ MaxGeneration \in Nat
      /\ writing \in Writers \cup {None} /\ writer \in [Writers -> FrameSet]
      /\ socket \in [Generations -> SocketStates]
      /\ \A v \in Writers : WriterKnows(v)
  BY Typed DEF IInv
<1>2. /\ UNCHANGED <<hub, generation, link, forceXX, attempt, stored, socket, ready,
                     done, reader, caller>>
      /\ writer[w].at = "queued" /\ writing = None
  BY DEF SendAdmitted, transport, channels
<1>3. CASE writing' = w /\ writer' = [writer EXCEPT ![w].at = "writing"]
  <2>1. writer' \in [Writers -> FrameSet]
    BY <1>1, <1>3 DEF FrameSet, WriterPlaces
  <2>2. \A v \in Writers : WriterKnows(v)'
    <3> SUFFICES ASSUME NEW v \in Writers PROVE WriterKnows(v)'
        OBVIOUS
    <3>1. CASE v = w
      <4>1. writer'[v].my = writer[v].my /\ writer'[v].at = "writing"
        BY <3>1, <1>1, <1>3 DEF FrameSet
      <4> QED
        BY <4>1, <3>1, <1>1, <1>2, <1>3 DEF WriterKnows
    <3>2. CASE v # w
      <4>1. writer'[v] = writer[v] /\ writer[v].at # "writing"
        BY <3>2, <1>1, <1>2, <1>3, RolesAssumption DEF WriterKnows
      <4> QED
        BY <4>1, <1>1, <1>2 DEF WriterKnows
    <3> QED
      BY <3>1, <3>2
  <2> QED
    BY <1>1, <1>2, <1>3, <2>1, <2>2, OthersKeep
<1>4. CASE writing' = None /\ writer' = [writer EXCEPT ![w] = NoFrame]
  <2>1. writer' \in [Writers -> FrameSet]
    BY <1>1, <1>4 DEF FrameSet, WriterPlaces, NoFrame
  <2>2. \A v \in Writers : WriterKnows(v)'
    BY <1>1, <1>2, <1>4 DEF WriterKnows, NoFrame
  <2> QED
    BY <1>1, <1>2, <1>4, <2>1, <2>2, OthersKeep
<1> QED
  BY <1>3, <1>4 DEF SendAdmitted

LEMMA SendEndsKeeps ==
  ASSUME IInv, NEW w \in Writers, SendEnds(w) PROVE IInv'
<1> USE DEF Generations
<1> DEFINE g == writer[w].my
<1>1. /\ MaxGeneration \in Nat /\ generation \in Nat /\ generation <= MaxGeneration
      /\ writing \in Writers \cup {None} /\ writer \in [Writers -> FrameSet]
      /\ socket \in [Generations -> SocketStates] /\ link \in LinkSet
      /\ \A v \in Writers : WriterKnows(v)
  BY Typed DEF IInv
<1>2. /\ UNCHANGED <<hub, generation, forceXX, attempt, stored, ready, done, reader, caller>>
      /\ writer[w].at = "writing" /\ writing' = None
      /\ writer' = [writer EXCEPT ![w] = NoFrame]
  BY DEF SendEnds, channels
<1>3. g \in Generations /\ g <= generation /\ g # 0 /\ writing = w
  BY <1>1, <1>2 DEF WriterKnows
<1>4. writer' \in [Writers -> FrameSet]
  BY <1>1, <1>2 DEF FrameSet, WriterPlaces, NoFrame
<1>5. \A v \in Writers : WriterKnows(v)'
  <2> SUFFICES ASSUME NEW v \in Writers PROVE WriterKnows(v)'
      OBVIOUS
  <2>1. CASE v = w
    BY <2>1, <1>1, <1>2 DEF WriterKnows, NoFrame
  <2>2. CASE v # w
    <3>1. writer'[v] = writer[v] /\ writer[v].at # "writing"
      BY <2>2, <1>1, <1>2, <1>3 DEF WriterKnows
    <3> QED
      BY <3>1, <1>1, <1>2 DEF WriterKnows
  <2> QED
    BY <2>1, <2>2
<1>6. CASE UNCHANGED <<link, socket>>
  BY <1>1, <1>2, <1>4, <1>5, <1>6, OthersKeep
<1>7. CASE Poison(g, g, "lost") /\ socket' = Shut(g)
  <2> HIDE DEF g
  <2>1. socket' = [socket EXCEPT ![g] = "closed"]
    BY <1>3, <1>7 DEF Shut
  <2>2. /\ socket' \in [Generations -> SocketStates]
        /\ socket'[g] = "closed"
        /\ \A h \in Generations \ {g} : socket'[h] = socket[h]
    BY <1>1, <1>3, <2>1 DEF SocketStates
  <2>3. \/ link' = link
        \/ link' = [Cleared EXCEPT !.lastError = "lost"] /\ link.conn = g
    BY <1>3, <1>7 DEF Poison
  <2>4. link' = link \/ (link' = [Cleared EXCEPT !.lastError = "lost"] /\ link.conn # 0)
    BY <1>3, <2>3
  <2>5. \A h \in Generations : h > generation => socket'[h] = socket[h]
    BY <1>1, <1>3, <2>2
  <2>6. \A h \in Generations : socket'[h] = "open" =>
          socket[h] = "open" /\ (link.conn = h => link'.conn = h)
    BY <2>2, <2>3
  <2>7. /\ \A h \in Generations : socket[h] # "none" => socket'[h] # "none"
        /\ \A h \in Generations : socket'[h] = "refusal" => socket[h] = "refusal"
    BY <2>2
  <2> QED
    BY <1>1, <1>2, <1>4, <1>5, <2>2, <2>4, <2>5, <2>6, <2>7, OthersKeep
<1> QED
  BY <1>6, <1>7 DEF SendEnds

\* A refusal's code means what the hub's kind says, or comes of a session it had
\* accepted.
LEMMA PeerClosesKeeps ==
  ASSUME IInv, NEW g \in Generations, PeerCloses(g) PROVE IInv'
<1> USE DEF Generations
<1>1. /\ MaxGeneration \in Nat /\ generation \in Nat /\ generation <= MaxGeneration
      /\ writing \in Writers \cup {None} /\ writer \in [Writers -> FrameSet]
      /\ socket \in [Generations -> SocketStates] /\ link \in LinkSet
      /\ LinkKnows /\ NothingAhead /\ ReaderKnows(g)
      /\ \A v \in Writers : WriterKnows(v)
  BY Typed DEF IInv
<1>2. /\ UNCHANGED <<hub, generation, link, forceXX, attempt, writing, stored, ready, done,
                     reader, caller, writer>>
      /\ socket[g] = "open"
  BY DEF PeerCloses, transport, channels
<1>3. \/ socket' = [socket EXCEPT ![g] = "other"]
      \/ HubRefuses(g) /\ socket' = [socket EXCEPT ![g] = "refusal"]
  BY DEF PeerCloses
<1>4. /\ socket' \in [Generations -> SocketStates]
      /\ \A h \in Generations \ {g} : socket'[h] = socket[h]
      /\ socket'[g] = "other" \/ (socket'[g] = "refusal" /\ HubRefuses(g))
  BY <1>1, <1>3 DEF SocketStates
<1>5. HubRefuses(g) => RefusedFor(g)
  <2>1. reader[g].at = "none" => reader[g].pattern = "none" /\ reader[g].sent = "nothing"
    BY <1>1 DEF ReaderKnows, NoReader
  <2>2. hub = "clientKey" /\ reader[g].sent \in {"final", "greeting"} => RefusedFor(g)
    BY <1>1, <2>1 DEF ReaderKnows, RefusedFor
  <2>3. hub = "good" /\ link.conn = g /\ link.heard => RefusedFor(g)
    BY <1>1 DEF LinkKnows, RefusedFor
  <2>4. reader[g].pattern = "KK" => RefusedFor(g)
    BY <2>1 DEF RefusedFor
  <2> QED
    BY <2>2, <2>3, <2>4 DEF HubRefuses, RefusedFor
<1>6. RefusedFor(g) => RefusedFor(g)'
  BY <1>2 DEF RefusedFor
<1>7. \A v \in Writers : WriterKnows(v)'
  BY <1>1, <1>2 DEF WriterKnows
<1>8. g <= generation
  BY <1>1, <1>2 DEF NothingAhead
<1>9. /\ \A h \in Generations : socket[h] # "none" => socket'[h] # "none"
      /\ \A h \in Generations : h > generation => socket'[h] = socket[h]
      /\ \A h \in Generations : socket'[h] = "open" => socket[h] = "open"
      /\ \A h \in Generations : socket'[h] = "refusal" => socket[h] = "refusal" \/ RefusedFor(h)'
  BY <1>1, <1>4, <1>5, <1>6, <1>8
<1> QED
  BY <1>1, <1>2, <1>4, <1>7, <1>9, OthersKeep

--------------------------------------------------------------------------------
(***************************************************************************)
(* Connect and Disconnect.                                                 *)
(***************************************************************************)

\* A step in which one goroutine moves on, and nothing of the transport changes.
LEMMA CallerMovesKeeps ==
  ASSUME IInv, NEW p \in Callers, NEW c \in CallSet,
         caller' = [caller EXCEPT ![p] = c],
         UNCHANGED <<hub, transport, writing, stored, socket, channels, reader, writer>>,
         caller[p].at \notin {"dial", "disconnecting"}, c.at # "disconnecting",
         c.at \in Connecting =>
           /\ caller[p].at \in Connecting
           /\ c.my = caller[p].my /\ c.first = caller[p].first,
         c.at = "waiting" => caller[p].at = "waiting" /\ (caller[p].ended => c.ended),
         caller[p].at \in {"adopt", "waiting", "poison"} =>
           \/ c.at \in {"adopt", "waiting", "poison"}
           \/ link.conn = caller[p].my,
         CallerKnows(p)'
  PROVE  IInv'
<1>1. /\ TypeOK /\ OneConnect /\ NothingAhead /\ LinkKnows /\ HubKnows /\ VerdictsKnow
      /\ NoDowngrade /\ WakeUpComes /\ NoSocketLost
      /\ \A h \in Generations : ReaderKnows(h)
      /\ \A q \in Callers : CallerKnows(q)
      /\ \A w \in Writers : WriterKnows(w)
  BY DEF IInv
<1>2. /\ hub' = hub /\ generation' = generation /\ link' = link /\ forceXX' = forceXX
      /\ attempt' = attempt /\ writing' = writing /\ stored' = stored /\ socket' = socket
      /\ ready' = ready /\ done' = done /\ reader' = reader /\ writer' = writer
  BY DEF transport, channels
<1>3. caller \in [Callers -> CallSet]
  BY <1>1, Typed
<1>4. /\ caller' \in [Callers -> CallSet] /\ caller'[p] = c
      /\ \A q \in Callers \ {p} : caller'[q] = caller[q]
  BY <1>3
<1>5. \A q \in Callers : caller[q].at = "disconnecting" => caller'[q] = caller[q]
  BY <1>4
<1>6. \A q \in Callers : caller'[q].at = "disconnecting" => caller'[q] = caller[q]
  BY <1>4
<1>a. TypeOK'
  <2>1. /\ hub \in Hubs /\ generation \in 0 .. MaxGeneration /\ forceXX \in BOOLEAN
        /\ attempt \in 0 .. MaxGeneration /\ writing \in Writers \cup {None}
        /\ link.conn # 0 => socket[link.conn] # "none"
        /\ link.connected => link.conn = generation
    BY <1>1 DEF TypeOK
  <2> QED
    BY <2>1, <1>1, <1>2, <1>4, Typed, TypedNext
<1>b. OneConnect'
  <2> SUFFICES ASSUME NEW q \in Callers, caller'[q].at \in Connecting
               PROVE  /\ attempt = caller'[q].first /\ attempt # 0
                      /\ caller'[q].my \in 1 .. generation
                      /\ \A r \in Callers : caller'[r].at \in Connecting => r = q
      BY <1>2 DEF OneConnect
  <2>1. \A r \in Callers : caller'[r].at \in Connecting =>
          /\ caller[r].at \in Connecting
          /\ caller'[r].my = caller[r].my /\ caller'[r].first = caller[r].first
    BY <1>4
  <2> QED
    BY <2>1, <1>1 DEF OneConnect
<1>c. NothingAhead' /\ LinkKnows' /\ HubKnows'
  BY <1>1, <1>2 DEF NothingAhead, LinkKnows, HubKnows, RefusedFor
<1>d. VerdictsKnow' /\ NoDowngrade'
  BY <1>1, <1>2 DEF VerdictsKnow, NoDowngrade
<1>e. \A h \in Generations : ReaderKnows(h)'
  BY <1>1, <1>2 DEF ReaderKnows
<1>f. \A q \in Callers : CallerKnows(q)'
  <2> SUFFICES ASSUME NEW q \in Callers, q # p PROVE CallerKnows(q)'
      OBVIOUS
  <2>1. caller'[q] = caller[q] /\ CallerKnows(q)
    BY <1>1, <1>4
  <2>2. Canceling(q) => Canceling(q)'
    BY <2>1, <1>5 DEF Canceling
  <2>3. \A g : Refused(g)' <=> Refused(g)
    BY <1>2 DEF Refused
  <2> QED
    BY <2>1, <2>2, <2>3, <1>2 DEF CallerKnows
<1>g. \A w \in Writers : WriterKnows(w)'
  BY <1>1, <1>2 DEF WriterKnows
<1>h. WakeUpComes'
  <2> SUFFICES ASSUME NEW q \in Callers, caller'[q].at = "waiting"
               PROVE  \/ done[caller'[q].my] \/ ready[caller'[q].my] \/ caller'[q].ended
                      \/ reader[caller'[q].my].at \notin {"none", "gone"}
                      \/ Canceling(q)'
      BY <1>2 DEF WakeUpComes, Canceling
  <2>1. /\ caller[q].at = "waiting" /\ caller'[q].my = caller[q].my
        /\ caller'[q].first = caller[q].first /\ (caller[q].ended => caller'[q].ended)
    BY <1>4 DEF Connecting
  <2>2. Canceling(q) => Canceling(q)'
    BY <2>1, <1>5 DEF Canceling
  <2> QED
    BY <2>1, <2>2, <1>1 DEF WakeUpComes, Canceling
<1>i. NoSocketLost'
  <2> SUFFICES ASSUME NEW g \in Generations, socket[g] = "open", link.conn # g,
                      reader[g].at \notin {"record", "signal"}
               PROVE  \E q \in Callers :
                        \/ caller'[q].at \in {"adopt", "waiting", "poison"} /\ caller'[q].my = g
                        \/ caller'[q].at \in {"dial", "disconnecting"} /\ caller'[q].old = g
      BY <1>2 DEF NoSocketLost
  <2>1. PICK q \in Callers :
          \/ caller[q].at \in {"adopt", "waiting", "poison"} /\ caller[q].my = g
          \/ caller[q].at \in {"dial", "disconnecting"} /\ caller[q].old = g
    BY <1>1 DEF NoSocketLost
  <2>2. CASE q = p
    <3>1. /\ caller[p].my = g /\ caller[p].at \in {"adopt", "waiting", "poison"}
          /\ caller'[p].at \in {"adopt", "waiting", "poison"}
      BY <2>1, <2>2, <1>4
    <3>2. caller'[p].my = caller[p].my
      BY <3>1, <1>4 DEF Connecting
    <3> QED
      BY <3>1, <3>2
  <2>3. CASE q # p
    BY <2>1, <2>3, <1>4
  <2> QED
    BY <2>2, <2>3
<1> QED
  BY <1>a, <1>b, <1>c, <1>d, <1>e, <1>f, <1>g, <1>h, <1>i DEF IInv

LEMMA ConnectJoinsKeeps ==
  ASSUME IInv, NEW p \in Callers, ConnectJoins(p) PROVE IInv'
<1> DEFINE c == [NoCall EXCEPT !.at = "joined", !.first = attempt]
<1>1. /\ MaxGeneration \in Nat /\ attempt \in 0 .. MaxGeneration /\ generation \in Nat
      /\ caller \in [Callers -> CallSet]
  BY Typed DEF IInv
<1>2. 0 \in 0 .. MaxGeneration
  BY <1>1
<1>3. c \in CallSet /\ c.at = "joined" /\ c.old = 0
  BY <1>1, <1>2 DEF NoCall, CallSet, CallerPlaces
<1>4. /\ caller' = [caller EXCEPT ![p] = c]
      /\ UNCHANGED <<hub, transport, writing, stored, socket, channels, reader, writer>>
      /\ caller[p].at = "idle"
  BY DEF ConnectJoins
<1> HIDE DEF c
<1>5. caller'[p] = c /\ generation' = generation
  BY <1>1, <1>4 DEF transport
<1>6. CallerKnows(p)'
  BY <1>1, <1>3, <1>5 DEF CallerKnows, Connecting
<1> QED
  BY <1>3, <1>4, <1>6, CallerMovesKeeps DEF Connecting

LEMMA JoinLeavesKeeps ==
  ASSUME IInv, NEW p \in Callers, JoinLeaves(p) PROVE IInv'
<1>1. /\ MaxGeneration \in Nat /\ generation \in Nat
      /\ caller \in [Callers -> CallSet]
  BY Typed DEF IInv
<1>2. 0 \in 0 .. MaxGeneration
  BY <1>1
<1>3. NoCall \in CallSet /\ NoCall.at = "idle" /\ NoCall.old = 0
  BY <1>2 DEF NoCall, CallSet, CallerPlaces
<1>4. /\ caller' = [caller EXCEPT ![p] = NoCall]
      /\ UNCHANGED <<hub, transport, writing, stored, socket, channels, reader, writer>>
      /\ caller[p].at = "joined"
  BY DEF JoinLeaves
<1>5. caller'[p] = NoCall /\ generation' = generation
  BY <1>1, <1>4 DEF transport
<1>6. CallerKnows(p)'
  BY <1>1, <1>3, <1>5 DEF CallerKnows, Connecting
<1> QED
  BY <1>3, <1>4, <1>6, CallerMovesKeeps DEF Connecting

\* A Connect stops waiting, with a verdict that is so.
LEMMA WaitEndsKeeps ==
  ASSUME IInv, NEW p \in Callers, NEW place \in {"poison", "conclude"}, NEW v \in Verdicts,
         caller[p].at = "waiting", CallerFails(p, place, v),
         UNCHANGED <<hub, transport, writing, stored, socket, channels, reader, writer>>,
         v = "clientKey" => hub = "clientKey",
         v = "hubKey" => hub = "hubKey",
         v = "refused" => Refused(caller[p].my),
         place = "conclude" => link.conn = caller[p].my
  PROVE  IInv'
<1> DEFINE c == [caller[p] EXCEPT !.at = place, !.result = v]
<1>1. /\ MaxGeneration \in Nat /\ generation \in Nat /\ CallerKnows(p)
      /\ caller \in [Callers -> CallSet] /\ caller[p] \in CallSet
  BY Typed DEF IInv
<1>2. /\ c \in CallSet /\ c.at = place /\ c.result = v /\ c.my = caller[p].my
      /\ c.first = caller[p].first /\ c.old = caller[p].old /\ c.ended = caller[p].ended
  BY <1>1 DEF CallSet, CallerPlaces
<1>3. caller' = [caller EXCEPT ![p] = c]
  BY <1>1 DEF CallerFails
<1> HIDE DEF c
<1>4. caller'[p] = c /\ \A q \in Callers \ {p} : caller'[q] = caller[q]
  BY <1>1, <1>3
<1>5. generation' = generation /\ link' = link /\ hub' = hub /\ reader' = reader
      /\ stored' = stored
  BY DEF transport
<1>6. Canceling(p) => Canceling(p)'
  BY <1>2, <1>4 DEF Canceling
<1>7. \A g : Refused(g) => Refused(g)'
  BY <1>5 DEF Refused
<1>8. CallerKnows(p)'
  <2>1. c.old <= generation
    BY <1>1, <1>2 DEF CallerKnows
  <2>2. c.my # generation => ~link.connected /\ link.conn = 0 /\ (c.ended \/ Canceling(p))
    BY <1>1, <1>2 DEF CallerKnows, Connecting
  <2> QED
    BY <1>2, <1>4, <1>5, <1>6, <1>7, <2>1, <2>2 DEF CallerKnows
<1> QED
  BY <1>2, <1>3, <1>8, CallerMovesKeeps DEF Connecting

\* What the end of the link says is so.
LEMMA VerdictHolds ==
  ASSUME IInv, NEW p \in Callers, caller[p].at = "waiting"
  PROVE  /\ Verdict \in Verdicts
         /\ Verdict = "clientKey" => hub = "clientKey"
         /\ Verdict = "hubKey" => hub = "hubKey"
         /\ Verdict = "refused" => Refused(caller[p].my)
<1>1. /\ CallerKnows(p) /\ VerdictsKnow /\ OneConnect /\ link \in LinkSet
      /\ MaxGeneration \in Nat /\ generation \in Nat /\ generation <= MaxGeneration
      /\ \A g \in Generations : ReaderKnows(g)
  BY Typed DEF IInv
<1>2. caller[p].my \in Generations
  BY <1>1 DEF OneConnect, Connecting, Generations
<1>3. CASE link.keyRejected
  <2>1. Verdict = "clientKey"
    BY <1>3 DEF Verdict
  <2> QED
    BY <2>1, <1>1, <1>3 DEF VerdictsKnow, Verdicts
<1>4. CASE ~link.keyRejected /\ link.lastError \in {"hubKey", "refused"}
  <2>1. Verdict = link.lastError
    BY <1>4 DEF Verdict
  <2>2. link.lastError = "refused" => reader[caller[p].my].err = "refused"
    BY <1>1 DEF CallerKnows
  <2>3. link.lastError = "refused" => Refused(caller[p].my)
    BY <2>2, <1>1, <1>2 DEF ReaderKnows, Refused
  <2> QED
    BY <2>1, <2>3, <1>1, <1>4 DEF VerdictsKnow, Verdicts
<1>5. CASE ~link.keyRejected /\ link.lastError \notin {"hubKey", "refused"}
  <2>1. Verdict = IF link.refused THEN "refused" ELSE "lost"
    BY <1>5 DEF Verdict
  <2>2. link.refused => Refused(caller[p].my)
    BY <1>1, <1>5 DEF CallerKnows
  <2> QED
    BY <2>1, <2>2 DEF Verdicts
<1> QED
  BY <1>3, <1>4, <1>5

LEMMA WaitFailsKeeps ==
  ASSUME IInv, NEW p \in Callers, WaitFails(p) PROVE IInv'
BY VerdictHolds, WaitEndsKeeps DEF WaitFails

LEMMA WaitTimesOutKeeps ==
  ASSUME IInv, NEW p \in Callers, WaitTimesOut(p) PROVE IInv'
<1>1. "timeout" \in Verdicts
  BY DEF Verdicts
<1> QED
  BY <1>1, WaitEndsKeeps DEF WaitTimesOut

LEMMA WaitReadyKeeps ==
  ASSUME IInv, NEW p \in Callers, WaitReady(p) PROVE IInv'
<1>1. /\ caller[p].at = "waiting"
      /\ UNCHANGED <<hub, transport, writing, stored, socket, channels, reader, writer>>
  BY DEF WaitReady
<1>2. {"timeout", "nil", "lost"} \subseteq Verdicts
  BY DEF Verdicts
<1>3. CASE caller[p].ended
  <2>1. CallerFails(p, "poison", "timeout")
    BY <1>3 DEF WaitReady
  <2> QED
    BY <2>1, <1>1, <1>2, WaitEndsKeeps
<1>4. CASE ~caller[p].ended /\ StillReady(p)
  <2>1. CallerFails(p, "conclude", "nil") /\ link.conn = caller[p].my
    BY <1>4 DEF WaitReady, StillReady
  <2> QED
    BY <2>1, <1>1, <1>2, WaitEndsKeeps
<1>5. CASE ~caller[p].ended /\ ~StillReady(p) /\ generation = caller[p].my
  <2>1. CallerFails(p, "poison", Verdict)
    BY <1>5 DEF WaitReady
  <2> QED
    BY <2>1, <1>1, VerdictHolds, WaitEndsKeeps
<1>6. CASE ~caller[p].ended /\ ~StillReady(p) /\ generation # caller[p].my
  <2>1. CallerFails(p, "poison", "lost")
    BY <1>6 DEF WaitReady
  <2> QED
    BY <2>1, <1>1, <1>2, WaitEndsKeeps
<1> QED
  BY <1>3, <1>4, <1>5, <1>6

LEMMA ContextEndsKeeps ==
  ASSUME IInv, NEW p \in Callers, ContextEnds(p) PROVE IInv'
<1> DEFINE c == [caller[p] EXCEPT !.ended = TRUE]
<1>1. /\ MaxGeneration \in Nat /\ generation \in Nat /\ CallerKnows(p)
      /\ caller \in [Callers -> CallSet] /\ caller[p] \in CallSet
  BY Typed DEF IInv
<1>2. /\ c \in CallSet /\ c.at = caller[p].at /\ c.result = caller[p].result
      /\ c.my = caller[p].my /\ c.first = caller[p].first /\ c.old = caller[p].old
      /\ c.ended
  BY <1>1 DEF CallSet
<1>3. /\ caller' = [caller EXCEPT ![p] = c]
      /\ UNCHANGED <<hub, transport, writing, stored, socket, channels, reader, writer>>
      /\ caller[p].at \in {"joined", "adopt", "waiting", "conclude"}
  BY <1>1 DEF ContextEnds
<1> HIDE DEF c
<1>4. caller'[p] = c
  BY <1>1, <1>3
<1>5. generation' = generation /\ link' = link /\ hub' = hub /\ reader' = reader
      /\ stored' = stored /\ socket' = socket
  BY <1>3 DEF transport
<1>6. \A g : Refused(g) => Refused(g)'
  BY <1>5 DEF Refused
<1>7. CallerKnows(p)'
  BY <1>1, <1>2, <1>4, <1>5, <1>6 DEF CallerKnows
<1> QED
  BY <1>2, <1>3, <1>7, CallerMovesKeeps DEF Connecting

\* The one Connect that is under way moves on: what its own proof owes.
LEMMA ConnectorKeeps ==
  ASSUME IInv, NEW p \in Callers, NEW c \in CallSet,
         caller' = [caller EXCEPT ![p] = c],
         \A q \in Callers \ {p} : caller[q].at \notin Connecting,
         caller[p].at # "disconnecting", c.at \in Connecting,
         attempt' = c.first, c.first # 0, c.my # 0, c.my <= generation',
         generation' \in 0 .. MaxGeneration, generation <= generation',
         UNCHANGED <<hub, writing, stored, ready, done, writer>>,
         forceXX' \in BOOLEAN, link' \in LinkSet,
         reader' \in [Generations -> ReaderSet], socket' \in [Generations -> SocketStates],
         link'.conn # 0 => socket'[link'.conn] # "none",
         link'.connected => link'.conn = generation',
         NothingAhead', LinkKnows', VerdictsKnow', NoDowngrade',
         \A g \in Generations : ReaderKnows(g)',
         \A g \in Generations : socket'[g] = "refusal" => RefusedFor(g)',
         CallerKnows(p)',
         c.at = "waiting" => reader'[c.my].at \notin {"none", "gone"},
         \A g \in Generations : socket'[g] = "open" =>
           \/ link'.conn = g
           \/ reader'[g].at \in {"record", "signal"}
           \/ c.at \in {"adopt", "waiting", "poison"} /\ c.my = g
           \/ c.at = "dial" /\ c.old = g
           \/ \E q \in Callers \ {p} : caller[q].at = "disconnecting" /\ caller[q].old = g
  PROVE  IInv'
<1>1. /\ TypeOK /\ HubKnows
      /\ \A q \in Callers : CallerKnows(q)
      /\ \A w \in Writers : WriterKnows(w)
  BY DEF IInv
<1>2. /\ MaxGeneration \in Nat /\ generation \in Nat /\ generation' \in Nat
      /\ caller \in [Callers -> CallSet] /\ writer \in [Writers -> FrameSet]
  BY <1>1, Typed
<1>3. /\ caller' \in [Callers -> CallSet] /\ caller'[p] = c
      /\ \A q \in Callers \ {p} : caller'[q] = caller[q]
  BY <1>2
<1>a. TypeOK'
  <2>1. /\ hub' \in Hubs /\ writing' \in Writers \cup {None}
        /\ stored' \in [pinned : BOOLEAN, stalePSK : BOOLEAN]
        /\ ready' \in [Generations -> BOOLEAN] /\ done' \in [Generations -> BOOLEAN]
        /\ writer' \in [Writers -> FrameSet]
    BY <1>1, Typed
  <2>2. attempt' \in 0 .. MaxGeneration
    BY DEF CallSet
  <2> QED
    BY <2>1, <2>2, <1>3, TypedNext
<1>b. OneConnect'
  <2>1. c.my \in 1 .. generation'
    BY <1>2 DEF CallSet
  <2>2. \A q \in Callers : caller'[q].at \in Connecting => q = p
    BY <1>3
  <2> QED
    BY <2>1, <2>2, <1>3 DEF OneConnect
<1>c. HubKnows'
  BY <1>1 DEF HubKnows
<1>d. \A q \in Callers : CallerKnows(q)'
  <2> SUFFICES ASSUME NEW q \in Callers, q # p PROVE CallerKnows(q)'
      OBVIOUS
  <2>1. caller'[q] = caller[q] /\ caller[q].at \notin Connecting /\ caller[q].old <= generation
    BY <1>1, <1>3 DEF CallerKnows
  <2>2. caller[q].old \in Nat
    BY <1>2 DEF CallSet
  <2>3. caller[q].old <= generation'
    BY <1>2, <2>1, <2>2
  <2> QED
    BY <2>1, <2>3 DEF CallerKnows, Connecting
<1>e. \A w \in Writers : WriterKnows(w)'
  BY <1>1, <1>2 DEF WriterKnows
<1>f. WakeUpComes'
  <2> SUFFICES ASSUME NEW q \in Callers, caller'[q].at = "waiting"
               PROVE  reader'[caller'[q].my].at \notin {"none", "gone"}
      BY DEF WakeUpComes
  <2>1. q = p
    BY <1>3 DEF Connecting
  <2> QED
    BY <2>1, <1>3
<1>g. NoSocketLost'
  <2> SUFFICES ASSUME NEW g \in Generations, socket'[g] = "open", link'.conn # g,
                      reader'[g].at \notin {"record", "signal"}
               PROVE  \E q \in Callers :
                        \/ caller'[q].at \in {"adopt", "waiting", "poison"} /\ caller'[q].my = g
                        \/ caller'[q].at \in {"dial", "disconnecting"} /\ caller'[q].old = g
      BY DEF NoSocketLost
  <2>1. CASE \E q \in Callers \ {p} : caller[q].at = "disconnecting" /\ caller[q].old = g
    BY <2>1, <1>3
  <2>2. CASE \/ c.at \in {"adopt", "waiting", "poison"} /\ c.my = g
             \/ c.at = "dial" /\ c.old = g
    BY <2>2, <1>3
  <2> QED
    BY <2>1, <2>2
<1> QED
  BY <1>a, <1>b, <1>c, <1>d, <1>e, <1>f, <1>g DEF IInv

\* What a connecting goroutine knows of the others and of the sockets.
LEMMA ConnectorAlone ==
  ASSUME IInv, NEW p \in Callers, caller[p].at \in Connecting
  PROVE  /\ \A q \in Callers \ {p} : caller[q].at \notin Connecting
         /\ attempt = caller[p].first /\ attempt # 0
         /\ caller[p].my # 0 /\ caller[p].my <= generation /\ caller[p].my \in Generations
         /\ \A g \in Generations : socket[g] = "open" =>
              \/ link.conn = g
              \/ reader[g].at \in {"record", "signal"}
              \/ caller[p].at \in {"adopt", "waiting", "poison"} /\ caller[p].my = g
              \/ caller[p].at = "dial" /\ caller[p].old = g
              \/ \E q \in Callers \ {p} : caller[q].at = "disconnecting" /\ caller[q].old = g
<1>1. /\ OneConnect /\ NoSocketLost
      /\ MaxGeneration \in Nat /\ generation \in Nat /\ generation <= MaxGeneration
  BY Typed DEF IInv
<1>2. \A q \in Callers \ {p} : caller[q].at \notin Connecting
  BY <1>1 DEF OneConnect
<1>3. /\ attempt = caller[p].first /\ attempt # 0 /\ caller[p].my \in 1 .. generation
  BY <1>1 DEF OneConnect
<1>4. /\ caller[p].my # 0 /\ caller[p].my <= generation /\ caller[p].my \in Generations
  BY <1>1, <1>3 DEF Generations
<1>5. ASSUME NEW g \in Generations, socket[g] = "open", link.conn # g,
             reader[g].at \notin {"record", "signal"}
      PROVE  \/ caller[p].at \in {"adopt", "waiting", "poison"} /\ caller[p].my = g
             \/ caller[p].at = "dial" /\ caller[p].old = g
             \/ \E q \in Callers \ {p} : caller[q].at = "disconnecting" /\ caller[q].old = g
  <2>1. PICK q \in Callers :
          \/ caller[q].at \in {"adopt", "waiting", "poison"} /\ caller[q].my = g
          \/ caller[q].at \in {"dial", "disconnecting"} /\ caller[q].old = g
    BY <1>1, <1>5 DEF NoSocketLost
  <2>2. CASE q = p
    BY <2>1, <2>2 DEF Connecting
  <2>3. CASE q # p
    BY <2>1, <2>3, <1>2 DEF Connecting
  <2> QED
    BY <2>2, <2>3
<1> QED
  BY <1>2, <1>3, <1>4, <1>5

\* Closing a socket here.
LEMMA ShutSockets ==
  ASSUME socket \in [Generations -> SocketStates], NEW g \in 0 .. MaxGeneration
  PROVE  /\ Shut(g) \in [Generations -> SocketStates]
         /\ \A h \in Generations : Shut(g)[h] = IF h = g THEN "closed" ELSE socket[h]
<1>1. CASE g = 0
  <2>1. Shut(g) = socket /\ \A h \in Generations : h # g
    BY <1>1, BoundAssumption DEF Shut, Generations
  <2> QED
    BY <2>1
<1>2. CASE g # 0
  <2>1. Shut(g) = [socket EXCEPT ![g] = "closed"]
    BY <1>2 DEF Shut
  <2> QED
    BY <2>1 DEF SocketStates
<1> QED
  BY <1>1, <1>2

LEMMA DialKeeps ==
  ASSUME IInv, NEW p \in Callers, Dial(p) PROVE IInv'
<1> DEFINE g == caller[p].my
           before == Shut(caller[p].old)
<1>1. /\ TypeOK /\ NothingAhead /\ LinkKnows /\ HubKnows /\ VerdictsKnow /\ NoDowngrade
      /\ MaxGeneration \in Nat /\ generation \in Nat /\ generation <= MaxGeneration
      /\ link \in LinkSet /\ reader \in [Generations -> ReaderSet]
      /\ socket \in [Generations -> SocketStates]
      /\ caller \in [Callers -> CallSet] /\ caller[p] \in CallSet
      /\ forceXX \in BOOLEAN /\ attempt \in 0 .. MaxGeneration
      /\ CallerKnows(p)
      /\ \A h \in Generations : ReaderKnows(h)
  BY Typed DEF IInv
<1>2. /\ UNCHANGED <<hub, generation, link, forceXX, attempt, writing, stored, ready, done,
                     reader, writer>>
      /\ caller[p].at = "dial"
  BY DEF Dial, transport, channels
<1>3. /\ \A q \in Callers \ {p} : caller[q].at \notin Connecting
      /\ attempt = caller[p].first /\ attempt # 0
      /\ g # 0 /\ g <= generation /\ g \in Generations
      /\ \A h \in Generations : socket[h] = "open" =>
           \/ link.conn = h
           \/ reader[h].at \in {"record", "signal"}
           \/ caller[p].old = h
           \/ \E q \in Callers \ {p} : caller[q].at = "disconnecting" /\ caller[q].old = h
  BY <1>2, ConnectorAlone DEF Connecting
<1>4. /\ caller[p].old <= generation /\ caller[p].old \in 0 .. MaxGeneration
      /\ caller[p].result = "none"
      /\ reader[g] = NoReader /\ (g = generation => link = Down)
      /\ g # generation =>
           /\ ~link.connected /\ link.conn = 0
           /\ caller[p].ended \/ Canceling(p)
  BY <1>1, <1>2 DEF CallerKnows, CallSet, Connecting
<1>5. /\ before \in [Generations -> SocketStates]
      /\ \A h \in Generations : before[h] = IF h = caller[p].old THEN "closed" ELSE socket[h]
  BY <1>1, <1>4, ShutSockets
<1>6. \A h \in Generations : RefusedFor(h) => RefusedFor(h)'
  BY <1>2 DEF RefusedFor
<1>7. LinkKnows' /\ VerdictsKnow' /\ NoDowngrade' /\ \A h \in Generations : ReaderKnows(h)'
  BY <1>1, <1>2 DEF LinkKnows, VerdictsKnow, NoDowngrade, ReaderKnows
<1>8. /\ link.conn # 0 => socket[link.conn] # "none" /\ link.conn \in Generations
      /\ link.connected => link.conn = generation
  BY <1>1 DEF TypeOK, LinkSet, Generations
<1>a. /\ link' \in LinkSet /\ reader' \in [Generations -> ReaderSet]
      /\ forceXX' \in BOOLEAN
      /\ link'.connected => link'.conn = generation'
      /\ generation' \in 0 .. MaxGeneration /\ generation <= generation'
      /\ g <= generation'
  BY <1>1, <1>2, <1>3, <1>8
<1>b. \A q \in Callers \ {p} : caller[q].at \notin Connecting
  BY <1>3
<1>9. CASE socket' = [before EXCEPT ![g] = "open"] /\ CallerGoes(p, "adopt")
  <2> DEFINE c == [caller[p] EXCEPT !.at = "adopt"]
  <2>1. /\ c \in CallSet /\ c.at = "adopt" /\ c.my = g /\ c.first = attempt
        /\ c.old = caller[p].old /\ c.ended = caller[p].ended /\ c.result = "none"
    BY <1>1, <1>3, <1>4 DEF CallSet, CallerPlaces
  <2>2. caller' = [caller EXCEPT ![p] = c]
    BY <1>1, <1>9 DEF CallerGoes
  <2> HIDE DEF c
  <2>3. caller'[p] = c /\ \A q \in Callers \ {p} : caller'[q] = caller[q]
    BY <1>1, <2>2
  <2>4. /\ socket' \in [Generations -> SocketStates]
        /\ socket'[g] = "open"
        /\ \A h \in Generations \ {g} :
             socket'[h] = IF h = caller[p].old THEN "closed" ELSE socket[h]
    <3> HIDE DEF before
    <3> QED
      BY <1>3, <1>5, <1>9 DEF SocketStates
  <2>5. Canceling(p) => Canceling(p)'
    BY <1>2, <2>1, <2>3, <1>3 DEF Canceling
  <2>6. CallerKnows(p)'
    BY <1>2, <1>3, <1>4, <2>1, <2>3, <2>4, <2>5 DEF CallerKnows, Connecting
  <2>7. NothingAhead'
    <3> SUFFICES ASSUME NEW h \in Generations, h > generation
                 PROVE  reader[h] = NoReader /\ socket'[h] = "none"
        BY <1>2 DEF NothingAhead
    <3>1. h # g /\ h # caller[p].old /\ h \in Nat /\ caller[p].old \in Nat
      BY <1>1, <1>3, <1>4 DEF Generations
    <3> QED
      BY <3>1, <1>1, <2>4 DEF NothingAhead
  <2>8. \A h \in Generations : socket'[h] = "refusal" => RefusedFor(h)'
    BY <1>1, <1>6, <2>4 DEF HubKnows
  <2>9. \A h \in Generations : socket'[h] = "open" =>
          \/ link'.conn = h
          \/ reader'[h].at \in {"record", "signal"}
          \/ c.at \in {"adopt", "waiting", "poison"} /\ c.my = h
          \/ c.at = "dial" /\ c.old = h
          \/ \E q \in Callers \ {p} : caller[q].at = "disconnecting" /\ caller[q].old = h
    BY <1>2, <1>3, <2>1, <2>4
  <2>10. link'.conn # 0 => socket'[link'.conn] # "none"
    BY <1>2, <1>8, <2>4
  <2>11. /\ c.at \in Connecting /\ c.at # "waiting" /\ caller[p].at # "disconnecting"
         /\ attempt' = c.first /\ c.first # 0 /\ c.my # 0 /\ c.my <= generation'
    BY <1>2, <1>3, <1>a, <2>1 DEF Connecting
  <2> QED
    BY <1>2, <1>b, <1>7, <1>a, <2>1, <2>2, <2>4, <2>6, <2>7, <2>8, <2>9, <2>10, <2>11,
       ConnectorKeeps
<1>10. ASSUME NEW v \in Verdicts \ {"clientKey", "hubKey"}, v = "refused" => hub = "access",
              socket' = before, CallerFails(p, "poison", v)
       PROVE  IInv'
  <2> DEFINE c == [caller[p] EXCEPT !.at = "poison", !.result = v]
  <2>1. /\ c \in CallSet /\ c.at = "poison" /\ c.my = g /\ c.first = attempt
        /\ c.old = caller[p].old /\ c.ended = caller[p].ended /\ c.result = v
    BY <1>1, <1>3, <1>4 DEF CallSet, CallerPlaces
  <2>2. caller' = [caller EXCEPT ![p] = c]
    BY <1>1, <1>10 DEF CallerFails
  <2> HIDE DEF c
  <2>3. caller'[p] = c /\ \A q \in Callers \ {p} : caller'[q] = caller[q]
    BY <1>1, <2>2
  <2>4. /\ socket' \in [Generations -> SocketStates]
        /\ \A h \in Generations :
             socket'[h] = IF h = caller[p].old THEN "closed" ELSE socket[h]
    BY <1>5, <1>10
  <2>5. Canceling(p) => Canceling(p)'
    BY <1>2, <2>1, <2>3, <1>3 DEF Canceling
  <2>6. v = "refused" => Refused(g)'
    BY <1>2, <1>10 DEF Refused
  <2>7. CallerKnows(p)'
    BY <1>2, <1>3, <1>4, <1>10, <2>1, <2>3, <2>5, <2>6 DEF CallerKnows, Connecting
  <2>8. NothingAhead'
    <3> SUFFICES ASSUME NEW h \in Generations, h > generation
                 PROVE  reader[h] = NoReader /\ socket'[h] = "none"
        BY <1>2 DEF NothingAhead
    <3>1. h # caller[p].old /\ h \in Nat /\ caller[p].old \in Nat
      BY <1>1, <1>4 DEF Generations
    <3> QED
      BY <3>1, <1>1, <2>4 DEF NothingAhead
  <2>9. \A h \in Generations : socket'[h] = "refusal" => RefusedFor(h)'
    BY <1>1, <1>6, <2>4 DEF HubKnows
  <2>10. \A h \in Generations : socket'[h] = "open" =>
          \/ link'.conn = h
          \/ reader'[h].at \in {"record", "signal"}
          \/ c.at \in {"adopt", "waiting", "poison"} /\ c.my = h
          \/ c.at = "dial" /\ c.old = h
          \/ \E q \in Callers \ {p} : caller[q].at = "disconnecting" /\ caller[q].old = h
    BY <1>2, <1>3, <2>4
  <2>11. link'.conn # 0 => socket'[link'.conn] # "none"
    BY <1>2, <1>8, <2>4
  <2>12. /\ c.at \in Connecting /\ c.at # "waiting" /\ caller[p].at # "disconnecting"
         /\ attempt' = c.first /\ c.first # 0 /\ c.my # 0 /\ c.my <= generation'
    BY <1>2, <1>3, <1>a, <2>1 DEF Connecting
  <2> QED
    BY <1>2, <1>b, <1>7, <1>a, <2>1, <2>2, <2>4, <2>7, <2>8, <2>9, <2>10, <2>11, <2>12,
       ConnectorKeeps
<1>11. {"timeout", "lost", "refused"} \subseteq Verdicts \ {"clientKey", "hubKey"}
  BY DEF Verdicts
<1> HIDE DEF before
<1>12. \/ socket' = [before EXCEPT ![g] = "open"] /\ CallerGoes(p, "adopt")
       \/ socket' = before /\ CallerFails(p, "poison", "timeout")
       \/ socket' = before /\ CallerFails(p, "poison", "lost")
       \/ hub = "access" /\ socket' = before /\ CallerFails(p, "poison", "refused")
  BY DEF Dial, before
<1> QED
  BY <1>9, <1>10, <1>11, <1>12

LEMMA AdoptKeeps ==
  ASSUME IInv, NEW p \in Callers, Adopt(p) PROVE IInv'
<1> DEFINE g == caller[p].my
<1>1. /\ TypeOK /\ NothingAhead /\ LinkKnows /\ HubKnows /\ VerdictsKnow /\ NoDowngrade
      /\ MaxGeneration \in Nat /\ generation \in Nat /\ generation <= MaxGeneration
      /\ link \in LinkSet /\ reader \in [Generations -> ReaderSet]
      /\ socket \in [Generations -> SocketStates]
      /\ caller \in [Callers -> CallSet] /\ caller[p] \in CallSet
      /\ forceXX \in BOOLEAN /\ attempt \in 0 .. MaxGeneration
      /\ CallerKnows(p)
      /\ \A h \in Generations : ReaderKnows(h)
  BY Typed DEF IInv
<1>2. /\ UNCHANGED <<hub, generation, forceXX, attempt, writing, stored, ready, done, writer>>
      /\ caller[p].at = "adopt"
  BY DEF Adopt, channels
<1>3. /\ attempt = caller[p].first /\ attempt # 0
      /\ g # 0 /\ g <= generation /\ g \in Generations
      /\ \A h \in Generations : socket[h] = "open" =>
           \/ link.conn = h
           \/ reader[h].at \in {"record", "signal"}
           \/ h = g
           \/ \E q \in Callers \ {p} : caller[q].at = "disconnecting" /\ caller[q].old = h
  BY <1>2, ConnectorAlone DEF Connecting
<1>4. \A q \in Callers \ {p} : caller[q].at \notin Connecting
  BY <1>2, ConnectorAlone DEF Connecting
<1>5. /\ caller[p].old <= generation
      /\ caller[p].result = "none" /\ socket[g] # "none"
      /\ reader[g] = NoReader /\ (g = generation => link = Down)
      /\ g # generation =>
           /\ ~link.connected /\ link.conn = 0
           /\ caller[p].ended \/ Canceling(p)
  BY <1>1, <1>2 DEF CallerKnows, Connecting
<1>6. /\ link.conn # 0 => socket[link.conn] # "none" /\ link.conn \in Generations
      /\ link.connected => link.conn = generation
  BY <1>1 DEF TypeOK, LinkSet, Generations
<1>7. CASE /\ socket' = Shut(g)
           /\ CallerFails(p, "poison", "lost")
           /\ UNCHANGED <<link, reader>>
  <2> DEFINE c == [caller[p] EXCEPT !.at = "poison", !.result = "lost"]
  <2>1. /\ c \in CallSet /\ c.at = "poison" /\ c.my = g /\ c.first = attempt
        /\ c.old = caller[p].old /\ c.ended = caller[p].ended /\ c.result = "lost"
    BY <1>1, <1>3 DEF CallSet, CallerPlaces, Verdicts
  <2>2. caller' = [caller EXCEPT ![p] = c]
    BY <1>1, <1>7 DEF CallerFails
  <2> HIDE DEF c
  <2>3. caller'[p] = c /\ \A q \in Callers \ {p} : caller'[q] = caller[q]
    BY <1>1, <2>2
  <2>4. g \in 0 .. MaxGeneration
    BY <1>3, <1>1 DEF Generations
  <2>5. /\ socket' \in [Generations -> SocketStates]
        /\ \A h \in Generations : socket'[h] = IF h = g THEN "closed" ELSE socket[h]
    BY <1>1, <1>7, <2>4, ShutSockets
  <2>6. Canceling(p) => Canceling(p)'
    BY <1>2, <2>1, <2>3, <1>3 DEF Canceling
  <2>7. CallerKnows(p)'
    BY <1>2, <1>3, <1>5, <1>7, <2>1, <2>3, <2>6 DEF CallerKnows, Connecting
  <2>8. NothingAhead'
    <3> SUFFICES ASSUME NEW h \in Generations, h > generation
                 PROVE  reader[h] = NoReader /\ socket'[h] = "none"
        BY <1>2, <1>7 DEF NothingAhead
    <3>1. h # g /\ h \in Nat
      BY <1>1, <1>3 DEF Generations
    <3> QED
      BY <3>1, <1>1, <2>5 DEF NothingAhead
  <2>9. \A h \in Generations : socket'[h] = "refusal" => RefusedFor(h)'
    <3>1. \A h \in Generations : RefusedFor(h) => RefusedFor(h)'
      BY <1>2, <1>7 DEF RefusedFor
    <3> QED
      BY <3>1, <1>1, <2>5 DEF HubKnows
  <2>10. \A h \in Generations : socket'[h] = "open" =>
          \/ link'.conn = h
          \/ reader'[h].at \in {"record", "signal"}
          \/ c.at \in {"adopt", "waiting", "poison"} /\ c.my = h
          \/ c.at = "dial" /\ c.old = h
          \/ \E q \in Callers \ {p} : caller[q].at = "disconnecting" /\ caller[q].old = h
    BY <1>3, <1>7, <2>5
  <2>11. link'.conn # 0 => socket'[link'.conn] # "none"
    BY <1>6, <1>7, <2>5
  <2>12. /\ link' \in LinkSet /\ reader' \in [Generations -> ReaderSet]
         /\ forceXX' \in BOOLEAN
         /\ link'.connected => link'.conn = generation'
         /\ generation' \in 0 .. MaxGeneration /\ generation <= generation'
    BY <1>1, <1>2, <1>6, <1>7
  <2>13. /\ c.at \in Connecting /\ c.at # "waiting" /\ caller[p].at # "disconnecting"
         /\ attempt' = c.first /\ c.first # 0 /\ c.my # 0 /\ c.my <= generation'
    BY <1>2, <1>3, <2>1 DEF Connecting
  <2>14. LinkKnows' /\ VerdictsKnow' /\ NoDowngrade' /\ \A h \in Generations : ReaderKnows(h)'
    BY <1>1, <1>2, <1>7 DEF LinkKnows, VerdictsKnow, NoDowngrade, ReaderKnows
  <2> QED
    BY <1>2, <1>4, <2>1, <2>2, <2>5, <2>7, <2>8, <2>9, <2>10, <2>11, <2>12, <2>13, <2>14,
       ConnectorKeeps
<1>8. CASE /\ generation = g
           /\ link' = [link EXCEPT !.conn = g, !.connected = TRUE]
           /\ ReaderGoes(g, "read")
           /\ CallerGoes(p, "waiting")
           /\ UNCHANGED socket
  <2> DEFINE c == [caller[p] EXCEPT !.at = "waiting"]
             r == [reader[g] EXCEPT !.at = "read"]
  <2>1. /\ c \in CallSet /\ c.at = "waiting" /\ c.my = g /\ c.first = attempt
        /\ c.old = caller[p].old /\ c.ended = caller[p].ended /\ c.result = "none"
    BY <1>1, <1>3, <1>5 DEF CallSet, CallerPlaces
  <2>2. caller' = [caller EXCEPT ![p] = c]
    BY <1>1, <1>8 DEF CallerGoes
  <2>3. /\ r \in ReaderSet /\ r.at = "read" /\ r.err = "none" /\ r.heard = "nothing"
        /\ r.sent = "nothing" /\ r.pattern = "none"
    BY <1>1, <1>3, <1>5 DEF NoReader, ReaderSet, ReaderPlaces
  <2>4. reader' = [reader EXCEPT ![g] = r]
    BY <1>1, <1>8 DEF ReaderGoes
  <2> HIDE DEF c, r
  <2>5. caller'[p] = c /\ \A q \in Callers \ {p} : caller'[q] = caller[q]
    BY <1>1, <2>2
  <2>6. /\ reader'[g] = r /\ reader' \in [Generations -> ReaderSet]
        /\ \A h \in Generations \ {g} : reader'[h] = reader[h]
    BY <1>1, <1>3, <2>3, <2>4
  <2>7. link = Down
    BY <1>5, <1>8
  <2>8. /\ link'.conn = g /\ link'.connected = TRUE /\ link'.handshake = FALSE
        /\ link'.lastError = "none" /\ link'.refused = FALSE /\ link'.keyRejected = FALSE
        /\ link'.pattern = "none" /\ link'.heard = FALSE /\ link.conn = 0
    BY <1>8, <2>7 DEF Down
  <2>9. link' \in LinkSet
    <3>1. g \in 0 .. MaxGeneration
      BY <1>1, <1>3 DEF Generations
    <3> HIDE DEF g
    <3> QED
      BY <3>1, <1>1, <1>8 DEF LinkSet
  <2>10. CallerKnows(p)'
    BY <1>2, <1>3, <1>5, <1>8, <2>1, <2>5, <2>8 DEF CallerKnows, Connecting
  <2>11. NothingAhead'
    <3> SUFFICES ASSUME NEW h \in Generations, h > generation
                 PROVE  reader'[h] = NoReader /\ socket[h] = "none"
        BY <1>2, <1>8 DEF NothingAhead
    <3>1. h # g /\ h \in Nat
      BY <1>1, <1>3 DEF Generations
    <3> QED
      BY <3>1, <1>1, <2>6 DEF NothingAhead
  <2>12. \A h \in Generations : socket'[h] = "refusal" => RefusedFor(h)'
    <3> SUFFICES ASSUME NEW h \in Generations, socket[h] = "refusal" PROVE RefusedFor(h)'
        BY <1>8
    <3>1. RefusedFor(h)
      BY <1>1 DEF HubKnows
    <3>2. CASE h = g
      BY <3>1, <3>2, <1>2, <1>5 DEF RefusedFor, NoReader
    <3>3. CASE h # g
      <4>1. reader'[h] = reader[h] /\ generation' # h
        BY <3>3, <1>2, <1>8, <2>6
      <4> QED
        BY <3>1, <4>1, <1>2 DEF RefusedFor
    <3> QED
      BY <3>2, <3>3
  <2>13. \A h \in Generations : socket'[h] = "open" =>
          \/ link'.conn = h
          \/ reader'[h].at \in {"record", "signal"}
          \/ c.at \in {"adopt", "waiting", "poison"} /\ c.my = h
          \/ c.at = "dial" /\ c.old = h
          \/ \E q \in Callers \ {p} : caller[q].at = "disconnecting" /\ caller[q].old = h
    <3>1. \A h \in Generations : h # 0
      BY <1>1 DEF Generations
    <3> QED
      BY <3>1, <1>3, <1>8, <2>6, <2>8
  <2>14. /\ link'.conn # 0 => socket'[link'.conn] # "none"
         /\ link'.connected => link'.conn = generation'
         /\ forceXX' \in BOOLEAN
         /\ generation' \in 0 .. MaxGeneration /\ generation <= generation'
         /\ reader'[c.my].at \notin {"none", "gone"}
    BY <1>1, <1>2, <1>5, <1>8, <2>1, <2>3, <2>6, <2>8
  <2>15. /\ c.at \in Connecting /\ caller[p].at # "disconnecting"
         /\ attempt' = c.first /\ c.first # 0 /\ c.my # 0 /\ c.my <= generation'
    BY <1>2, <1>3, <2>1 DEF Connecting
  <2>16. LinkKnows'
    BY <1>2, <1>3, <1>8, <2>3, <2>6, <2>8 DEF LinkKnows
  <2>17. VerdictsKnow' /\ NoDowngrade'
    BY <2>8 DEF VerdictsKnow, NoDowngrade
  <2>18. \A h \in Generations : ReaderKnows(h)'
    <3> SUFFICES ASSUME NEW h \in Generations PROVE ReaderKnows(h)'
        OBVIOUS
    <3>1. CASE h = g
      BY <3>1, <2>3, <2>6 DEF ReaderKnows
    <3>2. CASE h # g
      BY <3>2, <1>1, <1>2, <2>6 DEF ReaderKnows
    <3> QED
      BY <3>1, <3>2
  <2>19. socket' \in [Generations -> SocketStates]
    BY <1>1, <1>8
  <2> QED
    BY <1>2, <1>4, <2>1, <2>2, <2>6, <2>9, <2>10, <2>11, <2>12, <2>13, <2>14, <2>15, <2>16,
       <2>17, <2>18, <2>19, ConnectorKeeps
<1> QED
  BY <1>7, <1>8 DEF Adopt

LEMMA PoisonAttemptKeeps ==
  ASSUME IInv, NEW p \in Callers, PoisonAttempt(p) PROVE IInv'
<1> DEFINE g == caller[p].my
           conn == IF socket[g] = "none" THEN 0 ELSE g
           cause == IF caller[p].result \in Causes THEN caller[p].result ELSE "refused"
           c == [caller[p] EXCEPT !.at = "conclude"]
<1>1. /\ TypeOK /\ NothingAhead /\ LinkKnows /\ HubKnows /\ VerdictsKnow /\ NoDowngrade
      /\ MaxGeneration \in Nat /\ generation \in Nat /\ generation <= MaxGeneration
      /\ link \in LinkSet /\ reader \in [Generations -> ReaderSet]
      /\ socket \in [Generations -> SocketStates]
      /\ caller \in [Callers -> CallSet] /\ caller[p] \in CallSet
      /\ forceXX \in BOOLEAN /\ attempt \in 0 .. MaxGeneration
      /\ CallerKnows(p)
      /\ \A h \in Generations : ReaderKnows(h)
  BY Typed DEF IInv
<1>2. /\ UNCHANGED <<hub, generation, forceXX, attempt, writing, stored, ready, done, reader,
                     writer>>
      /\ caller[p].at = "poison"
      /\ Poison(g, conn, cause)
      /\ socket' = Shut(conn)
      /\ CallerGoes(p, "conclude")
  BY DEF PoisonAttempt, channels
<1>3. /\ attempt = caller[p].first /\ attempt # 0
      /\ g # 0 /\ g <= generation /\ g \in Generations
      /\ \A h \in Generations : socket[h] = "open" =>
           \/ link.conn = h
           \/ reader[h].at \in {"record", "signal"}
           \/ h = g
           \/ \E q \in Callers \ {p} : caller[q].at = "disconnecting" /\ caller[q].old = h
  BY <1>2, ConnectorAlone DEF Connecting
<1>4. \A q \in Callers \ {p} : caller[q].at \notin Connecting
  BY <1>2, ConnectorAlone DEF Connecting
<1>5. /\ link.conn # 0 => socket[link.conn] # "none" /\ link.conn \in Generations
      /\ link.connected => link.conn = generation
      /\ link.conn \in {0, generation}
  BY <1>1 DEF TypeOK, LinkSet, Generations, LinkKnows
<1>6. cause \in Causes /\ (cause = "hubKey" => caller[p].result = "hubKey")
  BY DEF Causes
<1>7. /\ c \in CallSet /\ c.at = "conclude" /\ c.my = g /\ c.first = attempt
      /\ c.old = caller[p].old /\ c.ended = caller[p].ended /\ c.result = caller[p].result
  BY <1>1, <1>3 DEF CallSet, CallerPlaces
<1>8. caller' = [caller EXCEPT ![p] = c]
  BY <1>1, <1>2 DEF CallerGoes
<1>9. conn \in 0 .. MaxGeneration /\ conn \in {0, g}
  BY <1>1, <1>3 DEF Generations
<1>10. /\ socket[g] # "none" => conn = g
       /\ conn = 0 => socket[g] = "none"
  BY <1>3
<1> HIDE DEF c, cause, conn
<1>11. caller'[p] = c /\ \A q \in Callers \ {p} : caller'[q] = caller[q]
  BY <1>1, <1>8
<1>12. /\ socket' \in [Generations -> SocketStates]
       /\ \A h \in Generations : socket'[h] = IF h = conn THEN "closed" ELSE socket[h]
  BY <1>1, <1>2, <1>9, ShutSockets
<1>13. \/ link' = link
       \/ generation = g /\ link' = [Cleared EXCEPT !.lastError = cause]
  BY <1>2 DEF Poison
<1>14. \/ link' = link
       \/ /\ generation = g
          /\ link' \in LinkSet /\ link'.conn = 0 /\ link'.connected = FALSE
          /\ link'.handshake = FALSE /\ link'.lastError = cause
          /\ link'.refused = link.refused /\ link'.keyRejected = link.keyRejected
          /\ link'.heard = link.heard /\ link'.pattern = link.pattern
  BY <1>1, <1>6, <1>13, Retired
<1>15. Canceling(p) => Canceling(p)'
  BY <1>2, <1>7, <1>11, <1>3 DEF Canceling
<1>16. Refused(caller[p].my) => Refused(caller[p].my)'
  <2>1. link'.pattern = link.pattern /\ caller'[p].my = caller[p].my
    BY <1>7, <1>11, <1>14
  <2> QED
    BY <1>2, <2>1 DEF Refused
<1>17. CallerKnows(p)'
  <2>1. caller[p].old <= generation
    BY <1>1 DEF CallerKnows
  <2>2. g # generation => ~link'.connected /\ link'.conn = 0 /\ (caller[p].ended \/ Canceling(p))
    BY <1>1, <1>2, <1>14 DEF CallerKnows, Connecting
  <2>3. /\ caller[p].result = "clientKey" => hub = "clientKey"
        /\ caller[p].result = "hubKey" => hub = "hubKey"
        /\ caller[p].result = "refused" => Refused(g) \/ caller[p].ended
    BY <1>1, <1>2 DEF CallerKnows
  <2> QED
    BY <2>1, <2>2, <2>3, <1>2, <1>7, <1>11, <1>15, <1>16 DEF CallerKnows
<1>18. NothingAhead'
  <2> SUFFICES ASSUME NEW h \in Generations, h > generation
               PROVE  reader[h] = NoReader /\ socket'[h] = "none"
      BY <1>2 DEF NothingAhead
  <2>1. h # conn /\ h \in Nat
    BY <1>1, <1>3, <1>9 DEF Generations
  <2> QED
    BY <2>1, <1>1, <1>12 DEF NothingAhead
<1>19. \A h \in Generations : socket'[h] = "refusal" => RefusedFor(h)'
  <2>1. \A h \in Generations : RefusedFor(h) => RefusedFor(h)'
    BY <1>2, <1>14 DEF RefusedFor
  <2> QED
    BY <2>1, <1>1, <1>12 DEF HubKnows
<1>20. \A h \in Generations : socket'[h] = "open" =>
         \/ link'.conn = h
         \/ reader'[h].at \in {"record", "signal"}
         \/ c.at \in {"adopt", "waiting", "poison"} /\ c.my = h
         \/ c.at = "dial" /\ c.old = h
         \/ \E q \in Callers \ {p} : caller[q].at = "disconnecting" /\ caller[q].old = h
  <2>1. \A h \in Generations : socket'[h] = "open" => socket[h] = "open" /\ h # g
    BY <1>9, <1>10, <1>12
  <2>2. \A h \in Generations : link.conn = h /\ h # g => link'.conn = h
    <3>1. \A h \in Generations : h # 0
      BY <1>1 DEF Generations
    <3> QED
      BY <3>1, <1>5, <1>14
  <2> QED
    BY <2>1, <2>2, <1>2, <1>3
<1>21. /\ link'.conn # 0 => socket'[link'.conn] # "none"
       /\ link'.connected => link'.conn = generation'
       /\ forceXX' \in BOOLEAN /\ link' \in LinkSet
       /\ generation' \in 0 .. MaxGeneration /\ generation <= generation'
       /\ reader' \in [Generations -> ReaderSet]
  BY <1>1, <1>2, <1>5, <1>12, <1>14
<1>22. /\ c.at \in Connecting /\ c.at # "waiting" /\ caller[p].at # "disconnecting"
       /\ attempt' = c.first /\ c.first # 0 /\ c.my # 0 /\ c.my <= generation'
  BY <1>2, <1>3, <1>7 DEF Connecting
<1>23. LinkKnows'
  <2>1. CASE link' = link
    BY <2>1, <1>1, <1>2 DEF LinkKnows
  <2>2. CASE link'.conn = 0 /\ link'.connected = FALSE
    BY <2>2 DEF LinkKnows
  <2> QED
    BY <2>1, <2>2, <1>14
<1>24. VerdictsKnow' /\ NoDowngrade'
  <2>1. caller[p].result = "hubKey" => hub = "hubKey"
    BY <1>1, <1>2 DEF CallerKnows
  <2> QED
    BY <2>1, <1>1, <1>2, <1>6, <1>14 DEF VerdictsKnow, NoDowngrade
<1>25. \A h \in Generations : ReaderKnows(h)'
  BY <1>1, <1>2 DEF ReaderKnows
<1>26. UNCHANGED <<hub, writing, stored, ready, done, writer>>
  BY <1>2
<1> QED
  BY <1>4, <1>7, <1>8, <1>12, <1>17, <1>18, <1>19, <1>20, <1>21, <1>22, <1>23, <1>24, <1>25,
     <1>26, ConnectorKeeps

\* A new generation: what is left of the last one is its socket, to be closed.
LEMMA GenerationBegins ==
  ASSUME IInv, NEW p \in Callers, NEW c \in CallSet,
         caller' = [caller EXCEPT ![p] = c],
         caller[p].at \in {"idle", "conclude"},
         \A q \in Callers \ {p} : caller[q].at \notin Connecting,
         MayBegin, BeginConnection, forceXX' \in BOOLEAN,
         c.at = "dial", c.my = generation + 1, c.old = link.conn, c.result = "none",
         attempt' = c.first, c.first # 0,
         UNCHANGED <<hub, writing, stored, socket, ready, done, reader, writer>>
  PROVE  IInv'
<1>1. /\ TypeOK /\ NothingAhead /\ LinkKnows /\ HubKnows /\ NoSocketLost
      /\ MaxGeneration \in Nat /\ generation \in Nat /\ generation <= MaxGeneration
      /\ link \in LinkSet /\ reader \in [Generations -> ReaderSet]
      /\ socket \in [Generations -> SocketStates]
      /\ caller \in [Callers -> CallSet]
      /\ \A h \in Generations : ReaderKnows(h)
  BY Typed DEF IInv
<1>2. generation' = generation + 1 /\ link' = Down
  BY DEF BeginConnection
<1>3. /\ generation' \in Generations /\ generation' \in 0 .. MaxGeneration
      /\ generation <= generation' /\ generation' # 0 /\ generation' > generation
  BY <1>1, <1>2 DEF MayBegin, Generations
<1>4. caller'[p] = c /\ \A q \in Callers \ {p} : caller'[q] = caller[q]
  BY <1>1
<1>5. link'.conn = 0 /\ link'.connected = FALSE /\ link'.handshake = FALSE
      /\ link'.keyRejected = FALSE /\ link'.lastError = "none" /\ link' \in LinkSet
  <2>1. 0 \in 0 .. MaxGeneration
    BY <1>1
  <2> QED
    BY <2>1, <1>2 DEF Down, LinkSet, Causes, Patterns
<1>6. link.conn <= generation'
  <2>1. link.conn \in {0, generation}
    BY <1>1 DEF LinkKnows
  <2> QED
    BY <2>1, <1>1, <1>2
<1>7. reader[generation'] = NoReader
  BY <1>1, <1>3 DEF NothingAhead
<1>8. CallerKnows(p)'
  BY <1>2, <1>4, <1>6, <1>7 DEF CallerKnows, Connecting
<1>9. NothingAhead'
  <2>1. \A h \in Generations : h > generation' => h > generation
    BY <1>1, <1>2 DEF Generations
  <2> QED
    BY <2>1, <1>1 DEF NothingAhead
<1>10. LinkKnows' /\ VerdictsKnow' /\ NoDowngrade'
  BY <1>5 DEF LinkKnows, VerdictsKnow, NoDowngrade
<1>11. \A h \in Generations : ReaderKnows(h)'
  BY <1>1 DEF ReaderKnows
<1>12. \A h \in Generations : socket'[h] = "refusal" => RefusedFor(h)'
  BY <1>1, <1>5 DEF HubKnows, RefusedFor
<1>13. \A h \in Generations : socket'[h] = "open" =>
         \/ link'.conn = h
         \/ reader'[h].at \in {"record", "signal"}
         \/ c.at \in {"adopt", "waiting", "poison"} /\ c.my = h
         \/ c.at = "dial" /\ c.old = h
         \/ \E q \in Callers \ {p} : caller[q].at = "disconnecting" /\ caller[q].old = h
  <2> SUFFICES ASSUME NEW h \in Generations, socket[h] = "open", link.conn # h,
                      reader[h].at \notin {"record", "signal"}
               PROVE  \E q \in Callers \ {p} :
                        caller[q].at = "disconnecting" /\ caller[q].old = h
      OBVIOUS
  <2>1. PICK q \in Callers :
          \/ caller[q].at \in {"adopt", "waiting", "poison"} /\ caller[q].my = h
          \/ caller[q].at \in {"dial", "disconnecting"} /\ caller[q].old = h
    BY <1>1 DEF NoSocketLost
  <2>2. q # p
    BY <2>1
  <2> QED
    BY <2>1, <2>2 DEF Connecting
<1>14. /\ c.at \in Connecting /\ c.at # "waiting" /\ caller[p].at # "disconnecting"
       /\ c.my # 0 /\ c.my <= generation'
  BY <1>1, <1>2, <1>3 DEF Connecting
<1>15. /\ link'.conn # 0 => socket'[link'.conn] # "none"
       /\ link'.connected => link'.conn = generation'
       /\ link' \in LinkSet
  BY <1>5
<1>16. socket' \in [Generations -> SocketStates] /\ reader' \in [Generations -> ReaderSet]
  BY <1>1
<1> QED
  BY <1>3, <1>8, <1>9, <1>10, <1>11, <1>12, <1>13, <1>14, <1>15, <1>16, ConnectorKeeps

LEMMA ConnectBeginsKeeps ==
  ASSUME IInv, NEW p \in Callers, ConnectBegins(p) PROVE IInv'
<1> DEFINE c == [NoCall EXCEPT !.at = "dial", !.my = generation + 1,
                               !.first = generation + 1, !.old = link.conn]
<1>1. /\ MaxGeneration \in Nat /\ generation \in Nat /\ generation <= MaxGeneration
      /\ link \in LinkSet /\ OneConnect
  BY Typed DEF IInv
<1>2. /\ UNCHANGED <<hub, writing, stored, socket, ready, done, reader, writer>>
      /\ caller[p].at = "idle" /\ attempt = 0 /\ MayBegin /\ BeginConnection
      /\ forceXX' \in BOOLEAN /\ attempt' = generation + 1
      /\ caller' = [caller EXCEPT ![p] = c]
  BY DEF ConnectBegins, channels
<1>3. /\ generation + 1 \in 0 .. MaxGeneration /\ generation + 1 # 0
      /\ 0 \in 0 .. MaxGeneration /\ link.conn \in 0 .. MaxGeneration
  BY <1>1, <1>2 DEF MayBegin, LinkSet
<1>4. /\ c \in CallSet /\ c.at = "dial" /\ c.my = generation + 1 /\ c.first = generation + 1
      /\ c.old = link.conn /\ c.result = "none"
  BY <1>3 DEF NoCall, CallSet, CallerPlaces
<1> HIDE DEF c
<1>5. \A q \in Callers \ {p} : caller[q].at \notin Connecting
  BY <1>1, <1>2 DEF OneConnect
<1> QED
  BY <1>2, <1>3, <1>4, <1>5, GenerationBegins

LEMMA ConnectRetriesKeeps ==
  ASSUME IInv, NEW p \in Callers, ConnectRetries(p) PROVE IInv'
<1> DEFINE c == [caller[p] EXCEPT !.at = "dial", !.my = generation + 1, !.old = link.conn,
                                  !.result = "none"]
<1>1. /\ MaxGeneration \in Nat /\ generation \in Nat /\ generation <= MaxGeneration
      /\ link \in LinkSet /\ caller \in [Callers -> CallSet] /\ caller[p] \in CallSet
  BY Typed DEF IInv
<1>2. /\ UNCHANGED <<hub, attempt, writing, stored, socket, ready, done, reader, writer>>
      /\ caller[p].at = "conclude" /\ MayBegin /\ BeginConnection
      /\ forceXX' \in BOOLEAN
      /\ caller' = [caller EXCEPT ![p] = c]
  BY <1>1 DEF ConnectRetries, channels
<1>3. /\ generation + 1 \in 0 .. MaxGeneration /\ link.conn \in 0 .. MaxGeneration
  BY <1>1, <1>2 DEF MayBegin, LinkSet
<1>4. /\ c \in CallSet /\ c.at = "dial" /\ c.my = generation + 1 /\ c.first = caller[p].first
      /\ c.old = link.conn /\ c.result = "none"
  BY <1>1, <1>3 DEF CallSet, CallerPlaces
<1> HIDE DEF c
<1>5. /\ \A q \in Callers \ {p} : caller[q].at \notin Connecting
      /\ attempt = caller[p].first /\ attempt # 0
  BY <1>2, ConnectorAlone DEF Connecting
<1> QED
  BY <1>2, <1>4, <1>5, GenerationBegins

\* With a Connect goes every Connect that joined it; none is left under way.
LEMMA ConnectReturnsKeeps ==
  ASSUME IInv, NEW p \in Callers, ConnectReturns(p) PROVE IInv'
<1>1. /\ TypeOK /\ NothingAhead /\ LinkKnows /\ HubKnows /\ VerdictsKnow /\ NoDowngrade
      /\ NoSocketLost
      /\ MaxGeneration \in Nat /\ generation \in Nat
      /\ caller \in [Callers -> CallSet] /\ attempt \in 0 .. MaxGeneration
      /\ \A q \in Callers : CallerKnows(q)
      /\ \A h \in Generations : ReaderKnows(h)
      /\ \A w \in Writers : WriterKnows(w)
  BY Typed DEF IInv
<1>2. /\ UNCHANGED <<hub, generation, link, forceXX, writing, stored, socket, ready, done,
                     reader, writer>>
      /\ caller[p].at = "conclude"
      /\ attempt' \in {0, attempt}
      /\ caller' = [q \in Callers |->
           IF q = p \/ (caller[q].at = "joined" /\ caller[q].first = caller[p].first)
             THEN NoCall ELSE caller[q]]
  BY DEF ConnectReturns, channels
<1>3. \A q \in Callers \ {p} : caller[q].at \notin Connecting
  BY <1>2, ConnectorAlone DEF Connecting
<1>4. \A q \in Callers : caller'[q] = NoCall \/ (caller'[q] = caller[q] /\ q # p)
  BY <1>2
<1>5. \A q \in Callers : caller'[q].at \notin Connecting
  BY <1>3, <1>4 DEF NoCall, Connecting
<1>a. TypeOK'
  <2>1. 0 \in 0 .. MaxGeneration
    BY <1>1
  <2>2. NoCall \in CallSet
    BY <2>1 DEF NoCall, CallSet, CallerPlaces
  <2>3. caller' \in [Callers -> CallSet] /\ attempt' \in 0 .. MaxGeneration
    BY <1>1, <1>2, <2>1, <2>2
  <2> QED
    BY <1>1, <1>2, <2>3 DEF TypeOK, CallSet
<1>b. OneConnect'
  BY <1>5 DEF OneConnect
<1>c. NothingAhead' /\ LinkKnows' /\ HubKnows'
  BY <1>1, <1>2 DEF NothingAhead, LinkKnows, HubKnows, RefusedFor
<1>d. VerdictsKnow' /\ NoDowngrade'
  BY <1>1, <1>2 DEF VerdictsKnow, NoDowngrade
<1>e. \A h \in Generations : ReaderKnows(h)'
  BY <1>1, <1>2 DEF ReaderKnows
<1>f. \A q \in Callers : CallerKnows(q)'
  <2> SUFFICES ASSUME NEW q \in Callers PROVE CallerKnows(q)'
      OBVIOUS
  <2>1. caller'[q].old <= generation
    BY <1>1, <1>4 DEF NoCall, CallerKnows
  <2> QED
    BY <2>1, <1>2, <1>5 DEF CallerKnows, Connecting
<1>g. \A w \in Writers : WriterKnows(w)'
  BY <1>1, <1>2 DEF WriterKnows
<1>h. WakeUpComes'
  BY <1>5 DEF WakeUpComes, Connecting
<1>i. NoSocketLost'
  <2> SUFFICES ASSUME NEW g \in Generations, socket[g] = "open", link.conn # g,
                      reader[g].at \notin {"record", "signal"}
               PROVE  \E q \in Callers :
                        caller'[q].at = "disconnecting" /\ caller'[q].old = g
      BY <1>2 DEF NoSocketLost
  <2>1. PICK q \in Callers :
          \/ caller[q].at \in {"adopt", "waiting", "poison"} /\ caller[q].my = g
          \/ caller[q].at \in {"dial", "disconnecting"} /\ caller[q].old = g
    BY <1>1 DEF NoSocketLost
  <2>2. q # p
    BY <2>1, <1>2
  <2>3. caller[q].at = "disconnecting" /\ caller[q].old = g
    BY <2>1, <2>2, <1>3 DEF Connecting
  <2>4. caller'[q] = caller[q]
    BY <2>2, <2>3, <1>2
  <2> QED
    BY <2>3, <2>4
<1> QED
  BY <1>a, <1>b, <1>c, <1>d, <1>e, <1>f, <1>g, <1>h, <1>i DEF IInv

\* A Disconnect takes the link at once; the Connect under way is about to hear.
LEMMA DisconnectKeeps ==
  ASSUME IInv, NEW p \in Callers, Disconnect(p) PROVE IInv'
<1> DEFINE c == [NoCall EXCEPT !.at = "disconnecting", !.first = attempt, !.old = link.conn]
<1>1. /\ TypeOK /\ NothingAhead /\ LinkKnows /\ HubKnows /\ VerdictsKnow /\ NoDowngrade
      /\ NoSocketLost /\ OneConnect
      /\ MaxGeneration \in Nat /\ generation \in Nat /\ generation <= MaxGeneration
      /\ link \in LinkSet
      /\ caller \in [Callers -> CallSet] /\ attempt \in 0 .. MaxGeneration
      /\ writer \in [Writers -> FrameSet]
      /\ \A q \in Callers : CallerKnows(q)
      /\ \A h \in Generations : ReaderKnows(h)
      /\ \A w \in Writers : WriterKnows(w)
  BY Typed DEF IInv
<1>2. /\ UNCHANGED <<hub, forceXX, attempt, writing, stored, socket, ready, done, reader,
                     writer>>
      /\ caller[p].at = "idle" /\ MayBegin
      /\ generation' = generation + 1 /\ link' = Cleared
      /\ caller' = [caller EXCEPT ![p] = c]
  BY DEF Disconnect, channels
<1>3. /\ generation' \in 0 .. MaxGeneration /\ generation' \in Nat
      /\ generation <= generation' /\ generation < generation'
  BY <1>1, <1>2 DEF MayBegin
<1>4. 0 \in 0 .. MaxGeneration /\ link.conn \in 0 .. MaxGeneration /\ link.conn \in {0, generation}
  BY <1>1 DEF LinkSet, LinkKnows
<1>5. c \in CallSet /\ c.at = "disconnecting" /\ c.first = attempt /\ c.old = link.conn
  BY <1>1, <1>4 DEF NoCall, CallSet, CallerPlaces
<1> HIDE DEF c
<1>6. /\ caller' \in [Callers -> CallSet] /\ caller'[p] = c
      /\ \A q \in Callers \ {p} : caller'[q] = caller[q]
  BY <1>1, <1>2, <1>5
<1>7. link' \in LinkSet
  BY <1>1, <1>2, <1>4 DEF Cleared, LinkSet
<1>8. /\ link'.conn = 0 /\ link'.connected = FALSE /\ link'.handshake = FALSE
      /\ link'.lastError = link.lastError /\ link'.refused = link.refused
      /\ link'.keyRejected = link.keyRejected /\ link'.pattern = link.pattern
  BY <1>1, <1>2 DEF Cleared, LinkSet
<1>9. \A q \in Callers : caller'[q].at \in Connecting =>
        q # p /\ caller'[q] = caller[q] /\ caller[q].first = attempt
  BY <1>1, <1>5, <1>6 DEF OneConnect, Connecting
<1>10. \A q \in Callers : caller'[q].at \in Connecting => Canceling(q)'
  BY <1>5, <1>6, <1>9 DEF Canceling
<1>a. TypeOK'
  <2>1. /\ hub' \in Hubs /\ writing' \in Writers \cup {None} /\ forceXX' \in BOOLEAN
        /\ attempt' \in 0 .. MaxGeneration
        /\ stored' \in [pinned : BOOLEAN, stalePSK : BOOLEAN]
        /\ socket' \in [Generations -> SocketStates]
        /\ ready' \in [Generations -> BOOLEAN] /\ done' \in [Generations -> BOOLEAN]
        /\ reader' \in [Generations -> ReaderSet] /\ writer' \in [Writers -> FrameSet]
    BY <1>1, <1>2, Typed
  <2> QED
    BY <2>1, <1>3, <1>6, <1>7, <1>8, TypedNext
<1>b. OneConnect'
  <2> SUFFICES ASSUME NEW q \in Callers, caller'[q].at \in Connecting
               PROVE  /\ attempt = caller'[q].first /\ attempt # 0
                      /\ caller'[q].my \in 1 .. generation'
                      /\ \A r \in Callers : caller'[r].at \in Connecting => r = q
      BY <1>2 DEF OneConnect
  <2>1. caller[q].at \in Connecting /\ caller'[q] = caller[q]
    BY <1>9
  <2>2. attempt = caller[q].first /\ attempt # 0 /\ caller[q].my \in 1 .. generation
    BY <2>1, <1>1 DEF OneConnect
  <2>3. caller[q].my \in 1 .. generation'
    BY <2>2, <1>1, <1>3
  <2>4. \A r \in Callers : caller'[r].at \in Connecting => r = q
    BY <2>1, <1>1, <1>9 DEF OneConnect
  <2> QED
    BY <2>1, <2>2, <2>3, <2>4
<1>c. NothingAhead'
  <2>1. \A h \in Generations : h > generation' => h > generation
    BY <1>1, <1>2 DEF Generations
  <2> QED
    BY <2>1, <1>1, <1>2 DEF NothingAhead
<1>d. LinkKnows' /\ VerdictsKnow' /\ NoDowngrade'
  BY <1>1, <1>2, <1>8 DEF LinkKnows, VerdictsKnow, NoDowngrade
<1>e. HubKnows'
  BY <1>1, <1>2, <1>8 DEF HubKnows, RefusedFor
<1>f. \A h \in Generations : ReaderKnows(h)'
  BY <1>1, <1>2 DEF ReaderKnows
<1>g. \A q \in Callers : CallerKnows(q)'
  <2> SUFFICES ASSUME NEW q \in Callers PROVE CallerKnows(q)'
      OBVIOUS
  <2>1. CASE q = p
    <3>1. c.old <= generation'
      BY <1>1, <1>3, <1>4, <1>5
    <3> QED
      BY <2>1, <3>1, <1>5, <1>6 DEF CallerKnows, Connecting
  <2>2. CASE q # p
    <3>1. caller'[q] = caller[q] /\ CallerKnows(q)
      BY <2>2, <1>1, <1>6
    <3>2. caller[q].old <= generation'
      <4>1. caller[q].old \in Nat /\ caller[q].old <= generation
        BY <3>1, <1>1 DEF CallSet, CallerKnows
      <4> QED
        BY <4>1, <1>1, <1>3
    <3>3. caller[q].at \in Connecting => caller[q].my # generation' /\ Canceling(q)'
      <4>1. caller[q].at \in Connecting => caller[q].my \in 1 .. generation
        BY <1>1 DEF OneConnect
      <4>2. caller[q].at \in Connecting => caller[q].my # generation'
        BY <4>1, <1>1, <1>3
      <4> QED
        BY <4>2, <3>1, <1>10
    <3>4. \A g : Refused(g) => Refused(g)'
      BY <1>2, <1>8 DEF Refused
    <3>5. reader' = reader /\ socket' = socket /\ hub' = hub
      BY <1>2
    <3> QED
      BY <3>1, <3>2, <3>3, <3>4, <3>5, <1>8 DEF CallerKnows, Connecting
  <2> QED
    BY <2>1, <2>2
<1>h. \A w \in Writers : WriterKnows(w)'
  <2> SUFFICES ASSUME NEW w \in Writers PROVE WriterKnows(w)'
      OBVIOUS
  <2>1. \A n \in 1 .. generation : n \in 1 .. generation'
    BY <1>1, <1>3
  <2> QED
    BY <2>1, <1>1, <1>2 DEF WriterKnows
<1>i. WakeUpComes'
  BY <1>10 DEF WakeUpComes, Canceling, Connecting
<1>j. NoSocketLost'
  <2> SUFFICES ASSUME NEW g \in Generations, socket[g] = "open",
                      reader[g].at \notin {"record", "signal"}
               PROVE  \E q \in Callers :
                        \/ caller'[q].at \in {"adopt", "waiting", "poison"} /\ caller'[q].my = g
                        \/ caller'[q].at \in {"dial", "disconnecting"} /\ caller'[q].old = g
      BY <1>2 DEF NoSocketLost
  <2>1. CASE link.conn = g
    BY <2>1, <1>5, <1>6
  <2>2. CASE link.conn # g
    <3>1. PICK q \in Callers :
            \/ caller[q].at \in {"adopt", "waiting", "poison"} /\ caller[q].my = g
            \/ caller[q].at \in {"dial", "disconnecting"} /\ caller[q].old = g
      BY <2>2, <1>1 DEF NoSocketLost
    <3>2. caller'[q] = caller[q]
      BY <3>1, <1>2, <1>6
    <3> QED
      BY <3>1, <3>2
  <2> QED
    BY <2>1, <2>2
<1> QED
  BY <1>a, <1>b, <1>c, <1>d, <1>e, <1>f, <1>g, <1>h, <1>i, <1>j DEF IInv

\* The pending attempt is cancelled, and the old socket closed.
LEMMA DisconnectEndsKeeps ==
  ASSUME IInv, NEW p \in Callers, DisconnectEnds(p) PROVE IInv'
<1>1. /\ TypeOK /\ NothingAhead /\ LinkKnows /\ HubKnows /\ VerdictsKnow /\ NoDowngrade
      /\ NoSocketLost /\ WakeUpComes /\ OneConnect
      /\ MaxGeneration \in Nat /\ generation \in Nat /\ generation <= MaxGeneration
      /\ link \in LinkSet /\ socket \in [Generations -> SocketStates]
      /\ caller \in [Callers -> CallSet]
      /\ \A q \in Callers : CallerKnows(q)
      /\ \A h \in Generations : ReaderKnows(h)
      /\ \A w \in Writers : WriterKnows(w)
  BY Typed DEF IInv
<1> DEFINE Cancelled(q) == /\ caller[q].at \notin {"idle", "joined", "disconnecting"}
                           /\ caller[q].first = caller[p].first
<1>2. /\ UNCHANGED <<hub, generation, link, forceXX, attempt, writing, stored, ready, done,
                     reader, writer>>
      /\ caller[p].at = "disconnecting"
      /\ socket' = Shut(caller[p].old)
      /\ caller' = [q \in Callers |->
           IF q = p THEN NoCall
           ELSE IF Cancelled(q) THEN [caller[q] EXCEPT !.ended = TRUE] ELSE caller[q]]
  BY DEF DisconnectEnds, WithoutOld, transport, channels
<1>3. caller'[p] = NoCall
  BY <1>2
<1>4. ASSUME NEW q \in Callers, q # p
      PROVE  /\ caller'[q] \in CallSet
             /\ caller'[q].at = caller[q].at /\ caller'[q].my = caller[q].my
             /\ caller'[q].first = caller[q].first /\ caller'[q].old = caller[q].old
             /\ caller'[q].result = caller[q].result
             /\ caller[q].ended => caller'[q].ended
             /\ Cancelled(q) => caller'[q].ended
             /\ caller[q].at = "disconnecting" => caller'[q] = caller[q]
  <2>1. caller[q] \in CallSet
    BY <1>1
  <2>2. CASE Cancelled(q)
    <3>1. caller'[q] = [caller[q] EXCEPT !.ended = TRUE]
      BY <1>2, <1>4, <2>2
    <3> QED
      BY <2>1, <2>2, <3>1 DEF CallSet
  <2>3. CASE ~Cancelled(q)
    <3>1. caller'[q] = caller[q]
      BY <1>2, <1>4, <2>3
    <3> QED
      BY <2>1, <2>3, <3>1
  <2> QED
    BY <2>2, <2>3
<1>5. caller[p].old <= generation /\ caller[p].old \in 0 .. MaxGeneration
  BY <1>1 DEF CallerKnows, CallSet
<1>6. /\ socket' \in [Generations -> SocketStates]
      /\ \A h \in Generations : socket'[h] = IF h = caller[p].old THEN "closed" ELSE socket[h]
  BY <1>1, <1>2, <1>5, ShutSockets
<1>7. ASSUME NEW q \in Callers, caller[q].at \in Connecting
      PROVE  q # p /\ (Canceling(q) => caller'[q].ended \/ Canceling(q)')
  <2>1. q # p
    BY <1>2, <1>7 DEF Connecting
  <2>2. ASSUME Canceling(q) PROVE caller'[q].ended \/ Canceling(q)'
    <3>1. PICK r \in Callers : caller[r].at = "disconnecting" /\ caller[r].first = caller[q].first
      BY <2>2 DEF Canceling
    <3>2. CASE r = p
      <4>1. Cancelled(q)
        BY <3>1, <3>2, <1>7 DEF Connecting
      <4> QED
        BY <4>1, <2>1, <1>4
    <3>3. CASE r # p
      BY <3>1, <3>3, <2>1, <1>4 DEF Canceling
    <3> QED
      BY <3>2, <3>3
  <2> QED
    BY <2>1, <2>2
<1>8. \A q \in Callers : caller'[q].at \in Connecting => q # p /\ caller[q].at \in Connecting
  BY <1>3, <1>4 DEF NoCall, Connecting
<1> HIDE DEF Cancelled
<1>a. TypeOK'
  <2>1. 0 \in 0 .. MaxGeneration
    BY <1>1
  <2>2. NoCall \in CallSet
    BY <2>1 DEF NoCall, CallSet, CallerPlaces
  <2>3. DOMAIN caller' = Callers /\ caller' = [q \in Callers |-> caller'[q]]
    BY <1>2
  <2>4. \A q \in Callers : caller'[q] \in CallSet
    BY <1>3, <1>4, <2>2
  <2>5. caller' \in [Callers -> CallSet]
    BY <2>3, <2>4
  <2>6. /\ hub' \in Hubs /\ generation' \in 0 .. MaxGeneration /\ forceXX' \in BOOLEAN
        /\ attempt' \in 0 .. MaxGeneration /\ writing' \in Writers \cup {None}
        /\ link' \in LinkSet /\ stored' \in [pinned : BOOLEAN, stalePSK : BOOLEAN]
        /\ ready' \in [Generations -> BOOLEAN] /\ done' \in [Generations -> BOOLEAN]
        /\ reader' \in [Generations -> ReaderSet] /\ writer' \in [Writers -> FrameSet]
    BY <1>1, <1>2, Typed
  <2>7. link'.conn # 0 => socket'[link'.conn] # "none"
    <3>1. link.conn # 0 => link.conn \in Generations /\ socket[link.conn] # "none"
      BY <1>1 DEF TypeOK, LinkSet, Generations
    <3> QED
      BY <3>1, <1>2, <1>6
  <2>8. link'.connected => link'.conn = generation'
    BY <1>1, <1>2 DEF TypeOK
  <2> QED
    BY <1>6, <2>5, <2>6, <2>7, <2>8, TypedNext
<1>b. OneConnect'
  <2> SUFFICES ASSUME NEW q \in Callers, caller'[q].at \in Connecting
               PROVE  /\ attempt = caller'[q].first /\ attempt # 0
                      /\ caller'[q].my \in 1 .. generation
                      /\ \A r \in Callers : caller'[r].at \in Connecting => r = q
      BY <1>2 DEF OneConnect
  <2>1. q # p /\ caller[q].at \in Connecting
    BY <1>8
  <2>2. caller'[q].first = caller[q].first /\ caller'[q].my = caller[q].my
    BY <2>1, <1>4
  <2> QED
    BY <2>1, <2>2, <1>1, <1>8 DEF OneConnect
<1>c. NothingAhead'
  <2> SUFFICES ASSUME NEW h \in Generations, h > generation
               PROVE  reader[h] = NoReader /\ socket'[h] = "none"
      BY <1>2 DEF NothingAhead
  <2>1. h # caller[p].old /\ h \in Nat
    BY <1>1, <1>5 DEF Generations
  <2> QED
    BY <2>1, <1>1, <1>6 DEF NothingAhead
<1>d. LinkKnows' /\ VerdictsKnow' /\ NoDowngrade'
  BY <1>1, <1>2 DEF LinkKnows, VerdictsKnow, NoDowngrade
<1>e. HubKnows'
  <2>1. \A h \in Generations : socket'[h] = "refusal" => RefusedFor(h)
    BY <1>1, <1>6 DEF HubKnows
  <2>2. \A h \in Generations : RefusedFor(h) => RefusedFor(h)'
    BY <1>2 DEF RefusedFor
  <2> QED
    BY <2>1, <2>2, <1>1, <1>2 DEF HubKnows
<1>f. \A h \in Generations : ReaderKnows(h)'
  BY <1>1, <1>2 DEF ReaderKnows
<1>g. \A q \in Callers : CallerKnows(q)'
  <2> SUFFICES ASSUME NEW q \in Callers PROVE CallerKnows(q)'
      OBVIOUS
  <2>1. CASE q = p
    BY <2>1, <1>1, <1>2, <1>3 DEF CallerKnows, NoCall, Connecting
  <2>2. CASE q # p
    <3>1. /\ CallerKnows(q)
          /\ caller'[q].at = caller[q].at /\ caller'[q].my = caller[q].my
          /\ caller'[q].old = caller[q].old /\ caller'[q].result = caller[q].result
          /\ caller[q].ended => caller'[q].ended
      BY <2>2, <1>1, <1>4
    <3>2. caller[q].at \in Connecting => (Canceling(q) => caller'[q].ended \/ Canceling(q)')
      BY <1>7
    <3>3. \A g : Refused(g) => Refused(g)'
      BY <1>2 DEF Refused
    <3>4. /\ hub' = hub /\ generation' = generation /\ link' = link /\ reader' = reader
      BY <1>2
    <3>5. caller[q].at \in {"adopt", "waiting"} => socket'[caller[q].my] # "none"
      <4>1. caller[q].at \in {"adopt", "waiting"} => caller[q].my \in Generations
        BY <1>1 DEF OneConnect, Connecting, Generations
      <4>2. caller[q].at \in {"adopt", "waiting"} => socket[caller[q].my] # "none"
        BY <3>1 DEF CallerKnows
      <4> QED
        BY <4>1, <4>2, <1>6
    <3> QED
      BY <3>1, <3>2, <3>3, <3>4, <3>5 DEF CallerKnows
  <2> QED
    BY <2>1, <2>2
<1>h. \A w \in Writers : WriterKnows(w)'
  BY <1>1, <1>2 DEF WriterKnows
<1>i. WakeUpComes'
  <2> SUFFICES ASSUME NEW q \in Callers, caller'[q].at = "waiting"
               PROVE  \/ done[caller'[q].my] \/ ready[caller'[q].my] \/ caller'[q].ended
                      \/ reader[caller'[q].my].at \notin {"none", "gone"}
                      \/ Canceling(q)'
      BY <1>2 DEF WakeUpComes, Canceling
  <2>1. q # p /\ caller[q].at \in Connecting
    BY <1>8 DEF Connecting
  <2>2. /\ caller[q].at = "waiting" /\ caller'[q].my = caller[q].my
        /\ caller[q].ended => caller'[q].ended
    BY <2>1, <1>4
  <2>3. Canceling(q) => caller'[q].ended \/ Canceling(q)'
    BY <2>1, <1>7
  <2> QED
    BY <2>2, <2>3, <1>1 DEF WakeUpComes, Canceling
<1>j. NoSocketLost'
  <2> SUFFICES ASSUME NEW g \in Generations, socket'[g] = "open", link.conn # g,
                      reader[g].at \notin {"record", "signal"}
               PROVE  \E q \in Callers :
                        \/ caller'[q].at \in {"adopt", "waiting", "poison"} /\ caller'[q].my = g
                        \/ caller'[q].at \in {"dial", "disconnecting"} /\ caller'[q].old = g
      BY <1>2 DEF NoSocketLost
  <2>1. socket[g] = "open" /\ g # caller[p].old
    BY <1>6
  <2>2. PICK q \in Callers :
          \/ caller[q].at \in {"adopt", "waiting", "poison"} /\ caller[q].my = g
          \/ caller[q].at \in {"dial", "disconnecting"} /\ caller[q].old = g
    BY <2>1, <1>1 DEF NoSocketLost
  <2>3. q # p
    BY <2>1, <2>2, <1>2
  <2>4. caller'[q].at = caller[q].at /\ caller'[q].my = caller[q].my /\ caller'[q].old = caller[q].old
    BY <2>3, <1>4
  <2> QED
    BY <2>2, <2>4
<1> QED
  BY <1>a, <1>b, <1>c, <1>d, <1>e, <1>f, <1>g, <1>h, <1>i, <1>j DEF IInv

--------------------------------------------------------------------------------
(***************************************************************************)
(* The invariant, and what follows from it.                                *)
(***************************************************************************)

LEMMA InitHolds == Init => IInv
<1> SUFFICES ASSUME Init PROVE IInv
    OBVIOUS
<1>1. 0 \in 0 .. MaxGeneration
  BY BoundAssumption
<1>2. TypeOK
  <2>1. link \in LinkSet /\ link.conn = 0 /\ link.connected = FALSE
    BY <1>1 DEF Init, Down, LinkSet, Causes, Patterns
  <2>2. stored \in [pinned : BOOLEAN, stalePSK : BOOLEAN]
    BY DEF Init
  <2>3. /\ reader \in [Generations -> ReaderSet]
        /\ caller \in [Callers -> CallSet]
        /\ writer \in [Writers -> FrameSet]
    BY <1>1 DEF Init, NoReader, ReaderSet, ReaderPlaces, Causes, Patterns, NoCall, CallSet,
                CallerPlaces, NoFrame, FrameSet, WriterPlaces
  <2> QED
    BY <1>1, <2>1, <2>2, <2>3 DEF Init, TypeOK, LinkSet, ReaderSet, CallSet, FrameSet,
                                  SocketStates
<1>3. OneConnect /\ WakeUpComes /\ \A p \in Callers : CallerKnows(p)
  BY DEF Init, NoCall, OneConnect, WakeUpComes, CallerKnows, Connecting
<1>4. NothingAhead /\ NoSocketLost
  BY DEF Init, NothingAhead, NoSocketLost
<1>5. LinkKnows /\ VerdictsKnow /\ NoDowngrade
  BY DEF Init, Down, LinkKnows, VerdictsKnow, NoDowngrade
<1>6. HubKnows
  BY DEF Init, HubKnows
<1>7. \A g \in Generations : ReaderKnows(g)
  BY DEF Init, NoReader, ReaderKnows
<1>8. \A w \in Writers : WriterKnows(w)
  BY DEF Init, NoFrame, WriterKnows
<1> QED
  BY <1>2, <1>3, <1>4, <1>5, <1>6, <1>7, <1>8 DEF IInv

LEMMA StutterKeeps == ASSUME IInv, UNCHANGED vars PROVE IInv'
<1>1. /\ hub' = hub /\ generation' = generation /\ link' = link /\ forceXX' = forceXX
      /\ attempt' = attempt /\ writing' = writing /\ stored' = stored /\ socket' = socket
      /\ ready' = ready /\ done' = done /\ reader' = reader /\ caller' = caller
      /\ writer' = writer
  BY DEF vars
<1>2. link' = link \/ (link' = [Cleared EXCEPT !.lastError = "lost"] /\ link.conn # 0)
  BY <1>1
<1>3. /\ writing' \in Writers \cup {None} /\ writer' \in [Writers -> FrameSet]
      /\ socket' \in [Generations -> SocketStates]
  BY <1>1, Typed DEF IInv
<1>4. \A w \in Writers : WriterKnows(w)'
  BY <1>1 DEF IInv, WriterKnows
<1>5. /\ \A h \in Generations : socket[h] # "none" => socket'[h] # "none"
      /\ \A h \in Generations : h > generation => socket'[h] = socket[h]
      /\ \A h \in Generations : socket'[h] = "open" =>
           socket[h] = "open" /\ (link.conn = h => link'.conn = h)
      /\ \A h \in Generations : socket'[h] = "refusal" =>
           socket[h] = "refusal" \/ RefusedFor(h)'
  BY <1>1
<1> QED
  BY <1>1, <1>2, <1>3, <1>4, <1>5, OthersKeep

LEMMA StepKeeps == ASSUME IInv, [Next]_vars PROVE IInv'
<1>1. ASSUME NEW p \in Callers,
             ConnectBegins(p) \/ ConnectJoins(p) \/ Disconnect(p) \/ ContextEnds(p)
      PROVE  IInv'
  BY <1>1, ConnectBeginsKeeps, ConnectJoinsKeeps, DisconnectKeeps, ContextEndsKeeps
<1>2. ASSUME NEW p \in Callers, CallerStep(p) PROVE IInv'
  BY <1>2, JoinLeavesKeeps, DialKeeps, AdoptKeeps, WaitFailsKeeps, WaitTimesOutKeeps,
     WaitReadyKeeps, PoisonAttemptKeeps, ConnectRetriesKeeps, ConnectReturnsKeeps,
     DisconnectEndsKeeps DEF CallerStep
<1>3. ASSUME NEW g \in Generations, ReaderStep(g) PROVE IInv'
  BY <1>3, ReaderMeetsEndKeeps, ReaderStaleKeeps, ReaderHelloKeeps, ReaderOfferKeeps,
     ReaderWritesKeeps, ReaderAnswerKeeps, ReaderPinsKeeps, ReaderFinishKeeps,
     ReaderFrameKeeps, ReaderRecordsKeeps, ReaderEndsKeeps DEF ReaderStep
<1>4. ASSUME NEW g \in Generations, PeerCloses(g) PROVE IInv'
  BY <1>4, PeerClosesKeeps
<1>5. ASSUME NEW w \in Writers, Send(w) \/ WriterStep(w) PROVE IInv'
  BY <1>5, SendKeeps, SendWithdrawnKeeps, SendAdmittedKeeps, SendEndsKeeps DEF WriterStep
<1> QED
  BY <1>1, <1>2, <1>3, <1>4, <1>5, StutterKeeps DEF Next

\* What the transport's goroutines know of each other and of the hub stays so
\* (transport_wss.go: every section under t.mu).
THEOREM TransportInvariance == Spec => []IInv
<1>1. Init => IInv
  BY InitHolds
<1>2. IInv /\ [Next]_vars => IInv'
  BY StepKeeps
<1> QED
  BY <1>1, <1>2, PTL DEF Spec

\* The transport's state is well formed: a link has a socket that was opened, and
\* one that is connected is of the current generation.
THEOREM TransportTyped == Spec => []TypeOK
<1>1. IInv => TypeOK
  BY DEF IInv
<1> QED
  BY <1>1, TransportInvariance, PTL

\* From what a connecting goroutine knows: its verdict is the hub's doing.
LEMMA VerdictsTrue == IInv => VerdictTrue
<1> SUFFICES ASSUME IInv, NEW p \in Callers, caller[p].at = "conclude"
             PROVE  CASE caller[p].result = "clientKey" -> hub = "clientKey"
                      [] caller[p].result = "hubKey" -> hub = "hubKey"
                      [] caller[p].result = "refused" ->
                           \/ hub \in {"access", "password"}
                           \/ RetriesXX(p)
                           \/ caller[p].ended
                           \/ hub = "good" /\ reader[caller[p].my].err = "refused"
                                           /\ ~stored.stalePSK
                      [] OTHER -> TRUE
    BY DEF VerdictTrue
<1>1. CallerKnows(p)
  BY DEF IInv
<1>2. /\ caller[p].result = "clientKey" => hub = "clientKey"
      /\ caller[p].result = "hubKey" => hub = "hubKey"
      /\ caller[p].result = "refused" => Refused(caller[p].my) \/ caller[p].ended
  BY <1>1 DEF CallerKnows
<1>3. caller[p].result = "refused" =>
        \/ hub \in {"access", "password"}
        \/ RetriesXX(p)
        \/ caller[p].ended
        \/ hub = "good" /\ reader[caller[p].my].err = "refused" /\ ~stored.stalePSK
  BY <1>2 DEF Refused, RetriesXX
<1> QED
  BY <1>2, <1>3

\* What Connect says and holds is so, for any number of callers, writers and
\* generations: its verdict is the hub's, no session runs past the pin, it wakes
\* when its link ends, and no socket is lost.
THEOREM ConnectAlwaysHonest == Spec => []ConnectHonest
<1>1. IInv => ConnectHonest
  BY VerdictsTrue DEF IInv, ConnectHonest
<1> QED
  BY <1>1, TransportInvariance, PTL

\* A link that stays as it was stays ready.
LEMMA SameLinkSameReady == ASSUME link' = link PROVE Ready' <=> Ready
BY DEF Ready

\* Only four kinds of step take a link that is ready.
LEMMA OwnEnds ==
  ASSUME IInv, [Next]_vars, Ready, ~Ready'
  PROVE  \/ generation' # generation
         \/ reader[generation].at = "record"
         \/ \E w \in Writers : writer[w].my = generation /\ writing = w
         \/ \E p \in Callers : caller[p].my = generation /\ caller[p].at = "poison"
<1>1. /\ link.connected /\ link.handshake /\ link.conn # 0 /\ link.conn = generation
      /\ LinkKnows /\ link \in LinkSet
      /\ \A p \in Callers : CallerKnows(p)
      /\ \A w \in Writers : WriterKnows(w)
  BY Typed DEF IInv, Ready, TypeOK
<1>2. link' # link
  BY SameLinkSameReady
<1>3. ASSUME NEW p \in Callers,
             ConnectBegins(p) \/ ConnectJoins(p) \/ Disconnect(p) \/ ContextEnds(p)
      PROVE  generation' # generation
  <2>1. generation \in Nat
    BY Typed DEF IInv
  <2> QED
    BY <2>1, <1>2, <1>3 DEF ConnectBegins, ConnectJoins, Disconnect, ContextEnds, transport,
                            BeginConnection
<1>4. ASSUME NEW p \in Callers, CallerStep(p)
      PROVE  generation' # generation \/ (caller[p].my = generation /\ caller[p].at = "poison")
  <2>1. JoinLeaves(p) \/ Dial(p) \/ WaitFails(p) \/ WaitTimesOut(p) \/ WaitReady(p)
        \/ ConnectReturns(p) \/ DisconnectEnds(p) => link' = link
    BY DEF JoinLeaves, Dial, WaitFails, WaitTimesOut, WaitReady, ConnectReturns,
           DisconnectEnds, transport
  <2>2. CASE Adopt(p)
    <3>1. caller[p].at = "adopt" /\ generation = caller[p].my
      BY <2>2, <1>2 DEF Adopt
    <3>2. link = Down
      BY <3>1, <1>1 DEF CallerKnows
    <3> QED
      BY <3>2, <1>1 DEF Down
  <2>3. CASE PoisonAttempt(p)
    BY <2>3, <1>2 DEF PoisonAttempt, Poison
  <2>4. CASE ConnectRetries(p)
    <3>1. generation \in Nat
      BY Typed DEF IInv
    <3> QED
      BY <2>4, <3>1 DEF ConnectRetries, BeginConnection
  <2> QED
    BY <2>1, <2>2, <2>3, <2>4, <1>2, <1>4 DEF CallerStep
<1>5. ASSUME NEW g \in Generations, ReaderStep(g)
      PROVE  reader[generation].at = "record"
  <2>1. ReaderMeetsEnd(g) \/ ReaderStale(g) \/ ReaderHello(g) \/ ReaderPins(g) \/ ReaderEnds(g)
          => link' = link
    BY DEF ReaderMeetsEnd, ReaderStale, ReaderHello, ReaderPins, ReaderEnds, transport
  <2>2. CASE ReaderOffer(g)
    <3>1. PICK choice \in {"KK", "XX"} : link' = [link EXCEPT !.pattern = choice]
      BY <2>2 DEF ReaderOffer
    <3>2. Ready'
      BY <3>1, <1>1 DEF Ready, LinkSet
    <3> QED
      BY <3>2
  <2>3. CASE ReaderAnswer(g)
    <3>1. link' = [link EXCEPT !.finalSent = (reader[g].pattern = "XX")]
      BY <2>3, <1>2 DEF ReaderAnswer
    <3>2. Ready'
      BY <3>1, <1>1 DEF Ready, LinkSet
    <3> QED
      BY <3>2
  <2>4. CASE ReaderFinish(g)
    <3>1. link' = [link EXCEPT !.handshake = TRUE]
      BY <2>4, <1>2 DEF ReaderFinish
    <3>2. Ready'
      BY <3>1, <1>1 DEF Ready, LinkSet
    <3> QED
      BY <3>2
  <2>5. CASE ReaderFrame(g)
    <3>1. link' = [link EXCEPT !.heard = TRUE]
      BY <2>5 DEF ReaderFrame
    <3>2. Ready'
      BY <3>1, <1>1 DEF Ready, LinkSet
    <3> QED
      BY <3>2
  <2>6. CASE ReaderWrites(g)
    <3>1. reader[g].at \in {"message1", "final", "greet"} /\ Current(g)
      BY <2>6, <1>2 DEF ReaderWrites
    <3> QED
      BY <3>1, <1>1 DEF Current, LinkKnows
  <2>7. CASE ReaderRecords(g)
    <3>1. reader[g].at = "record" /\ Owns(g)
      BY <2>7, <1>2 DEF ReaderRecords
    <3> QED
      BY <3>1 DEF Owns
  <2> QED
    BY <2>1, <2>2, <2>3, <2>4, <2>5, <2>6, <2>7, <1>2, <1>5 DEF ReaderStep
<1>6. ASSUME NEW g \in Generations, PeerCloses(g) PROVE FALSE
  BY <1>2, <1>6 DEF PeerCloses, transport
<1>7. ASSUME NEW w \in Writers, Send(w) \/ WriterStep(w)
      PROVE  writer[w].my = generation /\ writing = w
  <2>1. Send(w) \/ SendWithdrawn(w) \/ SendAdmitted(w) => link' = link
    BY DEF Send, SendWithdrawn, SendAdmitted, transport
  <2>2. CASE SendEnds(w)
    <3>1. writer[w].at = "writing" /\ writer[w].my = generation
      BY <2>2, <1>2 DEF SendEnds, Poison
    <3> QED
      BY <3>1, <1>1 DEF WriterKnows
  <2> QED
    BY <2>1, <2>2, <1>2, <1>7 DEF WriterStep
<1>8. CASE UNCHANGED vars
  BY <1>2, <1>8 DEF vars
<1> QED
  BY <1>3, <1>4, <1>5, <1>6, <1>7, <1>8 DEF Next

\* A link that is ready is ended by Disconnect, by its own read loop, by a write
\* of its own generation or by the Connect that brought it up, and by nothing
\* left over from another generation (generationCurrentLocked, poisonGeneration).
THEOREM OnlyItsOwnEverEndsALink == Spec => OnlyItsOwnEndsALink
<1>1. IInv /\ [Next]_vars =>
        [Ready /\ ~Ready' =>
           \/ generation' # generation
           \/ reader[generation].at = "record"
           \/ \E w \in Writers : writer[w].my = generation /\ writing = w
           \/ \E p \in Callers : caller[p].my = generation /\ caller[p].at = "poison"]_vars
  BY OwnEnds
<1> QED
  BY <1>1, TransportInvariance, PTL DEF Spec, OnlyItsOwnEndsALink

================================================================================
