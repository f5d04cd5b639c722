-------------------------------- MODULE CarriersProofs --------------------------------
(***************************************************************************)
(* Proofs about the carriers of a hub session and their Noise channel.     *)
(* The parts have an inductive invariant each, side by side, since a step  *)
(* is of one part.                                                         *)
(***************************************************************************)
EXTENDS Carriers, SequenceTheorems, FiniteSetTheorems, TLAPS

--------------------------------------------------------------------------------
(***************************************************************************)
(* MQTT: both channels of a generation are closed once at most.            *)
(***************************************************************************)
\* lifecycleMu is with the connect, or with the send whose caller waits.
MQTTOwned ==
  /\ mqttConnect.at # "idle" <=> mqttOwner = "connect"
  /\ \A g \in Generations :
       clients[g].writing = "waited" =>
         /\ mqttOwner = "send"
         /\ \A h \in Generations : clients[h].writing = "waited" => h = g

\* What was told of a generation: nothing of those to come, once of each, and
\* while the link is up that it is ready exactly if it is.
MQTTSignals ==
  /\ mqtt.handshake => mqtt.connected
  /\ \A g \in Generations :
       /\ signals[g].ready <= 1 /\ signals[g].failure <= 1
       /\ g > mqtt.generation => signals[g].ready = 0 /\ signals[g].failure = 0
  /\ mqtt.connected =>
       /\ signals[mqtt.generation].failure = 0
       /\ signals[mqtt.generation].ready = 1 <=> mqtt.handshake

\* What connectAttempt knows at its places, and what it said.
MQTTConnectKnows ==
  /\ mqttConnect.at # "idle" => mqttConnect.told = "none"
  /\ mqttConnect.at \in {"drain", "begin", "open"} =>
       ~mqtt.connected /\ signals[mqtt.generation] = [ready |-> 0, failure |-> 0]
  /\ mqttConnect.at \in {"subscribe", "publish", "wait"} =>
       mqtt.connected \/ signals[mqtt.generation].failure = 1
  /\ mqttConnect.at \in {"drain", "undone"} \/ mqttOwner = "disconnect" => mqtt.generation > 0
  /\ mqttConnect.told = "ok" /\ mqtt.client =>
       /\ signals[mqtt.generation].ready = 1
       /\ mqtt.connected \/ signals[mqtt.generation].failure = 1

MQTTKnows == MQTTTypeOK /\ MQTTOwned /\ MQTTSignals /\ MQTTConnectKnows

LEMMA MQTTKnowsInit == MQTTInit => MQTTKnows
BY MQTTAssumption DEF MQTTInit, MQTTKnows, MQTTTypeOK, MQTTOwned, MQTTSignals,
     MQTTConnectKnows, Generations

\* The types of the parts of MQTTTypeOK.
MQTTFields == [generation : Generations, client : BOOLEAN, connected : BOOLEAN,
               handshake : BOOLEAN, failedLast : BOOLEAN,
               phase : {"idle", "connecting", "handshake", "ready", "error", "closed"}]
MQTTClients == [opened : BOOLEAN, session : BOOLEAN, failed : BOOLEAN,
                handler : {"none", "receiving", "heard", "failing"},
                writing : {"none", "waited", "alone"}, retiring : BOOLEAN]

LEMMA MQTTClientTyped == MQTTTypeOK => \A g \in Generations : clients[g] \in MQTTClients
BY DEF MQTTTypeOK, MQTTClients

\* What failConnection and closeClient leave of the fields.
LEMMA MQTTFailed ==
  ASSUME mqtt \in MQTTFields
  PROVE  /\ ConnectionFailed \in MQTTFields
         /\ ConnectionFailed.generation = mqtt.generation
         /\ ConnectionFailed.client = mqtt.client
         /\ ~ConnectionFailed.connected /\ ~ConnectionFailed.handshake
BY DEF MQTTFields, ConnectionFailed

LEMMA MQTTClosed ==
  ASSUME mqtt \in MQTTFields, CanClose
  PROVE  /\ Closed \in MQTTFields
         /\ Closed.generation = mqtt.generation + 1 /\ Closed.generation \in Generations
         /\ ~Closed.client /\ ~Closed.connected /\ ~Closed.handshake
<1>1. mqtt.generation + 1 \in Generations
  BY MQTTAssumption DEF MQTTFields, CanClose, Generations
<1>2. QED
  BY <1>1 DEF MQTTFields, Closed

\* A step that moves the connect only.
LEMMA MConnectMoves ==
  ASSUME MQTTTypeOK, NEW at \in {"idle", "close", "drain", "begin", "open", "subscribe",
                                 "publish", "wait", "undo", "undone"},
         MConnectAt(at)
  PROVE  /\ mqttConnect'.at = at /\ mqttConnect'.told = mqttConnect.told
         /\ mqttConnect' \in [at : {"idle", "close", "drain", "begin", "open", "subscribe",
                                    "publish", "wait", "undo", "undone"},
                              told : {"none", "ok", "error"}]
BY DEF MQTTTypeOK, MConnectAt

\* A channel that fails: nothing else about it changes.
LEMMA DrainedClients ==
  ASSUME MQTTTypeOK, Drains, mqtt.generation > 0
  PROVE  /\ clients' \in [Generations -> MQTTClients]
         /\ \A h \in Generations : clients'[h].writing = clients[h].writing
<1>1. mqtt.generation \in 0..MaxGenerations
  BY DEF MQTTTypeOK, Generations
<1>2. PICK g \in Generations : g = mqtt.generation - 1
  BY <1>1, MQTTAssumption DEF Generations
<1>3. clients' = [clients EXCEPT ![g].failed = TRUE]
  BY <1>2 DEF Drains
<1>4. clients \in [Generations -> MQTTClients]
  BY DEF MQTTTypeOK, MQTTClients
<1>5. [clients[g] EXCEPT !.failed = TRUE] \in MQTTClients
  BY <1>4 DEF MQTTClients
<1>6. [clients[g] EXCEPT !.failed = TRUE].writing = clients[g].writing
  BY <1>4 DEF MQTTClients
<1>7. clients' \in [Generations -> MQTTClients]
  BY <1>3, <1>4, <1>5
<1>8. QED
  BY <1>3, <1>4, <1>6, <1>7

\* connectAttempt's steps.
LEMMA MQTTConnectKeeps ==
  ASSUME MQTTKnows,
         MConnectBegins \/ MConnectCloses \/ MConnectPrepares \/ MConnectOpens \/ MConnectWaits
           \/ MConnectUndoes \/ MDisconnects
  PROVE  MQTTKnows'
<1> USE DEF MQTTTypeOK, MQTTFields, MQTTClients, Generations
<1>1. CASE MConnectBegins
  BY <1>1 DEF MConnectBegins, MQTTKnows, MQTTOwned, MQTTSignals, MQTTConnectKnows
<1>2. CASE MConnectCloses
  <2>1. CASE mqttConnect.at = "close" /\ CanClose
             /\ mqtt' = Closed /\ MConnectAt("drain") /\ UNCHANGED clients
    BY <2>1, <1>2, MQTTClosed, MConnectMoves
       DEF MConnectCloses, MQTTKnows, MQTTOwned, MQTTSignals, MQTTConnectKnows
  <2>2. CASE mqttConnect.at = "drain" /\ Drains /\ MConnectAt("begin") /\ UNCHANGED mqtt
    BY <2>2, <1>2, DrainedClients, MConnectMoves
       DEF MConnectCloses, MQTTKnows, MQTTOwned, MQTTSignals, MQTTConnectKnows
  <2>3. QED
    BY <1>2, <2>1, <2>2 DEF MConnectCloses
<1>3. CASE MConnectPrepares
  <2> DEFINE fresh == [mqtt EXCEPT !.failedLast = FALSE, !.phase = "connecting"]
             made  == [fresh EXCEPT !.client = TRUE]
             failing == [fresh EXCEPT !.failedLast = TRUE, !.phase = "error"]
  <2>1. fresh \in MQTTFields /\ fresh.generation = mqtt.generation /\ fresh.client = mqtt.client
        /\ fresh.connected = mqtt.connected /\ fresh.handshake = mqtt.handshake
    BY DEF MQTTKnows
  <2>2. made \in MQTTFields /\ made.generation = mqtt.generation
        /\ made.connected = mqtt.connected /\ made.handshake = mqtt.handshake
    BY <2>1
  <2>3. failing \in MQTTFields /\ failing.generation = mqtt.generation /\ failing.client = mqtt.client
        /\ failing.connected = mqtt.connected /\ failing.handshake = mqtt.handshake
    BY <2>1
  <2>4. /\ mqttConnect.at = "begin" /\ UNCHANGED <<mqttOwner, signals>>
        /\ \/ mqtt' = made /\ MConnectAt("open")
              /\ clients' = [clients EXCEPT ![mqtt.generation].opened = TRUE]
           \/ mqtt' = failing /\ MConnectAt("undo") /\ UNCHANGED clients
    BY <1>3 DEF MConnectPrepares
  <2> HIDE DEF made, failing
  <2>5. CASE /\ mqtt' = made /\ MConnectAt("open")
             /\ clients' = [clients EXCEPT ![mqtt.generation].opened = TRUE]
    <3>1. /\ clients' \in [Generations -> MQTTClients]
          /\ \A h \in Generations : clients'[h].writing = clients[h].writing
      <4>1. /\ [clients[mqtt.generation] EXCEPT !.opened = TRUE] \in MQTTClients
            /\ [clients[mqtt.generation] EXCEPT !.opened = TRUE].writing
                 = clients[mqtt.generation].writing
        <5>1. clients[mqtt.generation] \in MQTTClients
          BY MQTTClientTyped DEF MQTTKnows
        <5>2. QED
          BY <5>1
      <4>2. clients' \in [Generations -> MQTTClients]
        BY <2>5, <4>1 DEF MQTTKnows
      <4>3. QED
        BY <2>5, <4>1, <4>2 DEF MQTTKnows
    <3>2. QED
      BY <3>1, <2>2, <2>4, <2>5, MConnectMoves
         DEF MQTTKnows, MQTTOwned, MQTTSignals, MQTTConnectKnows
  <2>6. CASE mqtt' = failing /\ MConnectAt("undo") /\ UNCHANGED clients
    BY <2>3, <2>4, <2>6, MConnectMoves
       DEF MQTTKnows, MQTTOwned, MQTTSignals, MQTTConnectKnows
  <2>7. QED
    BY <2>4, <2>5, <2>6
<1>4. CASE MConnectOpens
  <2> DEFINE up == [mqtt EXCEPT !.connected = TRUE, !.phase = "handshake"]
  <2>1. up \in MQTTFields /\ up.generation = mqtt.generation /\ up.connected
        /\ up.handshake = mqtt.handshake /\ up.client = mqtt.client
    BY DEF MQTTKnows
  <2>2. CASE mqttConnect.at = "open" /\ mqtt' = up /\ MConnectAt("subscribe")
    <3> HIDE DEF up
    <3>1. QED
      BY <2>1, <2>2, <1>4, MConnectMoves
         DEF MConnectOpens, MQTTKnows, MQTTOwned, MQTTSignals, MQTTConnectKnows
  <2>3. CASE mqttConnect.at = "subscribe" /\ UNCHANGED mqtt /\ MConnectAt("publish")
    BY <2>3, <1>4, MConnectMoves
       DEF MConnectOpens, MQTTKnows, MQTTOwned, MQTTSignals, MQTTConnectKnows
  <2>4. CASE mqttConnect.at = "publish" /\ UNCHANGED mqtt /\ MConnectAt("wait")
    BY <2>4, <1>4, MConnectMoves
       DEF MConnectOpens, MQTTKnows, MQTTOwned, MQTTSignals, MQTTConnectKnows
  <2>5. CASE /\ mqttConnect.at \in {"open", "subscribe", "publish"}
             /\ mqtt' = ConnectionFailed /\ MConnectAt("undo")
    BY <2>5, <1>4, MConnectMoves, MQTTFailed
       DEF MConnectOpens, MQTTKnows, MQTTOwned, MQTTSignals, MQTTConnectKnows
  <2>6. QED
    BY <1>4, <2>2, <2>3, <2>4, <2>5 DEF MConnectOpens
<1>5. CASE MConnectWaits
  <2> DEFINE up == [mqtt EXCEPT !.phase = "ready"]
  <2>1. up \in MQTTFields /\ up.generation = mqtt.generation /\ up.client = mqtt.client
        /\ up.connected = mqtt.connected /\ up.handshake = mqtt.handshake
    BY DEF MQTTKnows
  <2>2. CASE /\ signals[mqtt.generation].ready > 0
             /\ mqtt' = up
             /\ mqttConnect' = [at |-> "idle", told |-> "ok"] /\ mqttOwner' = "free"
    <3> HIDE DEF up
    <3>1. QED
      BY <2>1, <2>2, <1>5
         DEF MConnectWaits, MQTTKnows, MQTTOwned, MQTTSignals, MQTTConnectKnows
  <2>3. CASE UNCHANGED <<mqtt, mqttOwner>> /\ MConnectAt("undo")
    BY <2>3, <1>5, MConnectMoves
       DEF MConnectWaits, MQTTKnows, MQTTOwned, MQTTSignals, MQTTConnectKnows
  <2>4. CASE mqtt' = ConnectionFailed /\ MConnectAt("undo") /\ UNCHANGED mqttOwner
    BY <2>4, <1>5, MConnectMoves, MQTTFailed
       DEF MConnectWaits, MQTTKnows, MQTTOwned, MQTTSignals, MQTTConnectKnows
  <2>5. QED
    BY <1>5, <2>2, <2>3, <2>4 DEF MConnectWaits
<1>6. CASE MConnectUndoes
  <2>1. CASE /\ mqttConnect.at = "undo" /\ CanClose
             /\ mqtt' = Closed /\ MConnectAt("undone") /\ UNCHANGED <<mqttOwner, clients>>
    BY <2>1, <1>6, MQTTClosed, MConnectMoves
       DEF MConnectUndoes, MQTTKnows, MQTTOwned, MQTTSignals, MQTTConnectKnows
  <2>2. CASE /\ mqttConnect.at = "undone" /\ Drains
             /\ mqtt' = ConnectionFailed
             /\ mqttConnect' = [at |-> "idle", told |-> "error"] /\ mqttOwner' = "free"
    BY <2>2, <1>6, DrainedClients, MQTTFailed
       DEF MConnectUndoes, MQTTKnows, MQTTOwned, MQTTSignals, MQTTConnectKnows
  <2>3. QED
    BY <1>6, <2>1, <2>2 DEF MConnectUndoes
<1>7. CASE MDisconnects
  <2> DEFINE shut == [mqtt EXCEPT !.phase = "closed"]
  <2>1. shut \in MQTTFields /\ shut.generation = mqtt.generation /\ shut.client = mqtt.client
        /\ shut.connected = mqtt.connected /\ shut.handshake = mqtt.handshake
    BY DEF MQTTKnows
  <2>2. CASE /\ mqttOwner = "free" /\ CanClose
             /\ mqtt' = Closed /\ mqttOwner' = "disconnect" /\ UNCHANGED clients
    BY <2>2, <1>7, MQTTClosed
       DEF MDisconnects, MQTTKnows, MQTTOwned, MQTTSignals, MQTTConnectKnows
  <2>3. CASE mqttOwner = "disconnect" /\ Drains /\ mqtt' = shut /\ mqttOwner' = "free"
    <3> HIDE DEF shut
    <3>1. QED
      BY <2>1, <2>3, <1>7, DrainedClients
         DEF MDisconnects, MQTTKnows, MQTTOwned, MQTTSignals, MQTTConnectKnows
  <2>4. QED
    BY <1>7, <2>2, <2>3 DEF MDisconnects
<1>8. QED
  BY <1>1, <1>2, <1>3, <1>4, <1>5, <1>6, <1>7

\* failGeneration, whoever calls it: the generation in use fails once.
LEMMA MQTTGenerationFails ==
  ASSUME MQTTKnows, NEW g \in Generations, FailsGeneration(g), UNCHANGED <<mqttOwner, mqttConnect>>
  PROVE  /\ mqtt' \in MQTTFields /\ signals' \in [Generations -> [ready : 0..2, failure : 0..2]]
         /\ MQTTSignals' /\ MQTTConnectKnows'
<1> USE DEF MQTTTypeOK, MQTTFields, Generations
<1>1. CASE ~OwnGeneration(g)
  BY <1>1 DEF FailsGeneration, MQTTKnows, MQTTSignals, MQTTConnectKnows
<1>2. CASE OwnGeneration(g)
  <2> DEFINE told == [signals[g] EXCEPT !.failure = @ + 1]
  <2>1. mqtt' = ConnectionFailed /\ signals' = [signals EXCEPT ![g] = told]
        /\ g = mqtt.generation /\ mqtt.connected
    BY <1>2 DEF FailsGeneration, OwnGeneration
  <2>2. signals[g].failure = 0
    BY <2>1 DEF MQTTKnows, MQTTSignals
  <2>3. told.ready = signals[g].ready /\ told.failure = 1 /\ told \in [ready : 0..2, failure : 0..2]
    BY <2>2 DEF MQTTKnows
  <2> HIDE DEF told
  <2>4. signals' \in [Generations -> [ready : 0..2, failure : 0..2]]
    BY <2>1, <2>3 DEF MQTTKnows
  <2>5. QED
    BY <2>1, <2>2, <2>3, <2>4, MQTTFailed DEF MQTTKnows, MQTTSignals, MQTTConnectKnows
<1>3. QED
  BY <1>1, <1>2

\* A change of one client.
LEMMA MQTTClientChanges ==
  ASSUME MQTTTypeOK, NEW g \in Generations, NEW new \in MQTTClients,
         clients' = [clients EXCEPT ![g] = new]
  PROVE  /\ clients' \in [Generations -> MQTTClients] /\ clients'[g] = new
         /\ \A h \in Generations \ {g} : clients'[h] = clients[h]
BY DEF MQTTTypeOK, MQTTClients

\* A client whose writer stays as it was changes nothing about who owns what.
LEMMA MQTTOwnedStays ==
  ASSUME MQTTOwned, UNCHANGED <<mqttOwner, mqttConnect>>,
         \A h \in Generations : clients'[h].writing = clients[h].writing
  PROVE  MQTTOwned'
BY DEF MQTTOwned

\* The broker's callbacks.
LEMMA MQTTHandlersKeep ==
  ASSUME MQTTKnows, NEW g \in Generations,
         BrokerDrops(g) \/ MessageArrives(g) \/ Receives(g) \/ TellsReady(g) \/ HandlerFails(g)
           \/ MWriteRetires(g)
  PROVE  MQTTKnows'
<1>0. MQTTTypeOK /\ MQTTOwned
  BY DEF MQTTKnows
<1>1. CASE BrokerDrops(g)
  <2>1. MQTTOwned'
    BY <1>0, <1>1, MQTTOwnedStays DEF BrokerDrops
  <2>2. QED
    BY <1>0, <1>1, <2>1, MQTTGenerationFails DEF BrokerDrops, MQTTKnows, MQTTTypeOK, MQTTFields
<1>2. ASSUME NEW at \in {"none", "receiving", "heard", "failing"}, HandlerAt(g, at)
      PROVE  /\ clients' \in [Generations -> MQTTClients]
             /\ \A h \in Generations : clients'[h].writing = clients[h].writing
  <2> DEFINE new == [clients[g] EXCEPT !.handler = at]
  <2>1. new \in MQTTClients /\ new.writing = clients[g].writing
    BY <1>0, MQTTClientTyped DEF MQTTClients
  <2>2. clients' = [clients EXCEPT ![g] = new]
    BY <1>2 DEF HandlerAt
  <2> HIDE DEF new
  <2>3. QED
    BY <1>0, <2>1, <2>2, MQTTClientChanges
<1>3. CASE MessageArrives(g)
  BY <1>0, <1>2, <1>3, MQTTOwnedStays
     DEF MessageArrives, MQTTKnows, MQTTTypeOK, MQTTClients, MQTTSignals, MQTTConnectKnows
<1>4. CASE Receives(g)
  <2>1. PICK new \in MQTTClients :
          new.writing = clients[g].writing /\ clients' = [clients EXCEPT ![g] = new]
    <3>1. CASE clients' = [clients EXCEPT ![g].handler = "failing", ![g].failed = TRUE]
      <4> DEFINE new == [clients[g] EXCEPT !.handler = "failing", !.failed = TRUE]
      <4>1. new \in MQTTClients /\ new.writing = clients[g].writing
        BY <1>0, MQTTClientTyped DEF MQTTClients
      <4>2. clients' = [clients EXCEPT ![g] = new]
        BY <1>0, <3>1 DEF MQTTTypeOK
      <4>3. QED
        BY <4>1, <4>2
    <3>2. ASSUME NEW session \in BOOLEAN,
                 clients' = [clients EXCEPT ![g].session = session,
                               ![g].handler = IF session THEN "heard" ELSE "none"]
          PROVE  \E new \in MQTTClients :
                   new.writing = clients[g].writing /\ clients' = [clients EXCEPT ![g] = new]
      <4> DEFINE new == [clients[g] EXCEPT !.session = session,
                           !.handler = IF session THEN "heard" ELSE "none"]
      <4>1. new \in MQTTClients /\ new.writing = clients[g].writing
        BY <1>0, MQTTClientTyped DEF MQTTClients
      <4>2. clients' = [clients EXCEPT ![g] = new]
        BY <1>0, <3>2 DEF MQTTTypeOK
      <4>3. QED
        BY <4>1, <4>2
    <3>3. clients[g].session \in BOOLEAN
      BY <1>0 DEF MQTTTypeOK
    <3>4. QED
      BY <1>4, <3>1, <3>2, <3>3 DEF Receives
  <2>2. /\ clients' \in [Generations -> MQTTClients]
        /\ \A h \in Generations : clients'[h].writing = clients[h].writing
    BY <1>0, <2>1, MQTTClientChanges
  <2>3. MQTTOwned'
    BY <1>0, <1>4, <2>2, MQTTOwnedStays DEF Receives
  <2>4. QED
    BY <1>4, <2>2, <2>3
       DEF Receives, MQTTKnows, MQTTTypeOK, MQTTClients, MQTTSignals, MQTTConnectKnows
<1>5. CASE TellsReady(g)
  <2>1. /\ clients' \in [Generations -> MQTTClients]
        /\ \A h \in Generations : clients'[h].writing = clients[h].writing
    BY <1>2, <1>5 DEF TellsReady
  <2>2. MQTTOwned'
    BY <1>0, <1>5, <2>1, MQTTOwnedStays DEF TellsReady
  <2>3. CASE ReadinessIsNew(g) /\ ~clients[g].failed
    <3> DEFINE told == [signals[g] EXCEPT !.ready = @ + 1]
               up   == [mqtt EXCEPT !.handshake = TRUE]
    <3>1. mqtt' = up /\ signals' = [signals EXCEPT ![g] = told]
          /\ g = mqtt.generation /\ mqtt.connected /\ ~mqtt.handshake
      BY <1>5, <2>3 DEF TellsReady, ReadinessIsNew
    <3>2. signals[g].ready = 0 /\ signals[g].failure = 0
      BY <1>0, <3>1 DEF MQTTKnows, MQTTSignals, MQTTTypeOK
    <3>3. told.ready = 1 /\ told.failure = 0 /\ told \in [ready : 0..2, failure : 0..2]
      BY <1>0, <3>2 DEF MQTTTypeOK
    <3>4. up \in MQTTFields /\ up.generation = mqtt.generation /\ up.client = mqtt.client
          /\ up.connected /\ up.handshake
      BY <1>0, <3>1 DEF MQTTTypeOK, MQTTFields
    <3> HIDE DEF told, up
    <3>5. signals' \in [Generations -> [ready : 0..2, failure : 0..2]]
      BY <1>0, <3>1, <3>3 DEF MQTTTypeOK
    <3>6. QED
      BY <1>0, <1>5, <2>1, <2>2, <3>1, <3>2, <3>3, <3>4, <3>5
         DEF TellsReady, MQTTKnows, MQTTTypeOK, MQTTFields, MQTTClients, MQTTSignals,
             MQTTConnectKnows, Generations
  <2>4. CASE ~(ReadinessIsNew(g) /\ ~clients[g].failed)
    BY <1>5, <2>1, <2>2, <2>4
       DEF TellsReady, MQTTKnows, MQTTTypeOK, MQTTClients, MQTTSignals, MQTTConnectKnows
  <2>5. QED
    BY <2>3, <2>4
<1>6. CASE HandlerFails(g)
  <2>1. /\ clients' \in [Generations -> MQTTClients]
        /\ \A h \in Generations : clients'[h].writing = clients[h].writing
    BY <1>2, <1>6 DEF HandlerFails
  <2>2. MQTTOwned'
    BY <1>0, <1>6, <2>1, MQTTOwnedStays DEF HandlerFails
  <2>3. QED
    BY <1>0, <1>6, <2>1, <2>2, MQTTGenerationFails
       DEF HandlerFails, MQTTKnows, MQTTTypeOK, MQTTFields, MQTTClients
<1>7. CASE MWriteRetires(g)
  <2> DEFINE new == [clients[g] EXCEPT !.retiring = FALSE]
  <2>1. new \in MQTTClients /\ new.writing = clients[g].writing
    BY <1>0, MQTTClientTyped DEF MQTTClients
  <2>2. clients' = [clients EXCEPT ![g] = new]
    BY <1>7 DEF MWriteRetires
  <2> HIDE DEF new
  <2>3. /\ clients' \in [Generations -> MQTTClients]
        /\ \A h \in Generations : clients'[h].writing = clients[h].writing
    BY <1>0, <2>1, <2>2, MQTTClientChanges
  <2>4. MQTTOwned'
    BY <1>0, <1>7, <2>3, MQTTOwnedStays DEF MWriteRetires
  <2>5. QED
    BY <1>0, <1>7, <2>3, <2>4, MQTTGenerationFails
       DEF MWriteRetires, MQTTKnows, MQTTTypeOK, MQTTFields, MQTTClients
<1>8. QED
  BY <1>1, <1>3, <1>4, <1>5, <1>6, <1>7

\* The frames written.
LEMMA MQTTSendsKeep ==
  ASSUME MQTTKnows, NEW g \in Generations, MSendBegins(g) \/ MSendLeft(g) \/ MWriteEnds(g)
  PROVE  MQTTKnows'
<1>0. MQTTTypeOK /\ MQTTOwned
  BY DEF MQTTKnows
<1>1. CASE MSendBegins(g)
  <2> DEFINE new == [clients[g] EXCEPT !.writing = "waited"]
  <2>1. new \in MQTTClients /\ new.writing = "waited"
    BY <1>0, MQTTClientTyped DEF MQTTClients
  <2>2. clients' = [clients EXCEPT ![g] = new]
    BY <1>1 DEF MSendBegins
  <2> HIDE DEF new
  <2>3. /\ clients' \in [Generations -> MQTTClients] /\ clients'[g] = new
        /\ \A h \in Generations \ {g} : clients'[h] = clients[h]
    BY <1>0, <2>1, <2>2, MQTTClientChanges
  <2>4. MQTTOwned'
    BY <1>0, <1>1, <2>1, <2>3 DEF MSendBegins, MQTTOwned
  <2>5. QED
    BY <1>1, <2>3, <2>4
       DEF MSendBegins, MQTTKnows, MQTTTypeOK, MQTTClients, MQTTSignals, MQTTConnectKnows
<1>2. CASE MSendLeft(g)
  <2> DEFINE new == [clients[g] EXCEPT !.writing = "alone"]
  <2>1. new \in MQTTClients /\ new.writing = "alone"
    BY <1>0, MQTTClientTyped DEF MQTTClients
  <2>2. clients' = [clients EXCEPT ![g] = new]
    BY <1>2 DEF MSendLeft
  <2> HIDE DEF new
  <2>3. /\ clients' \in [Generations -> MQTTClients] /\ clients'[g] = new
        /\ \A h \in Generations \ {g} : clients'[h] = clients[h]
    BY <1>0, <2>1, <2>2, MQTTClientChanges
  <2>4. MQTTOwned'
    BY <1>0, <1>2, <2>1, <2>3 DEF MSendLeft, MQTTOwned
  <2>5. QED
    BY <1>0, <1>2, <2>3, <2>4
       DEF MSendLeft, MQTTKnows, MQTTTypeOK, MQTTClients, MQTTOwned, MQTTSignals, MQTTConnectKnows
<1>3. CASE MWriteEnds(g)
  <2>1. PICK failed \in BOOLEAN :
          clients' = [clients EXCEPT ![g].writing = "none", ![g].failed = @ \/ failed,
                                     ![g].retiring = @ \/ failed]
    BY <1>3 DEF MWriteEnds
  <2> DEFINE new == [clients[g] EXCEPT !.writing = "none", !.failed = @ \/ failed,
                                       !.retiring = @ \/ failed]
  <2>2. new \in MQTTClients /\ new.writing = "none"
    BY <1>0, MQTTClientTyped DEF MQTTClients
  <2>3. clients' = [clients EXCEPT ![g] = new]
    BY <1>0, <2>1 DEF MQTTTypeOK
  <2> HIDE DEF new
  <2>4. /\ clients' \in [Generations -> MQTTClients] /\ clients'[g] = new
        /\ \A h \in Generations \ {g} : clients'[h] = clients[h]
    BY <1>0, <2>2, <2>3, MQTTClientChanges
  <2>5. MQTTOwned'
    <3>1. CASE clients[g].writing = "waited"
      <4>1. mqttOwner = "send" /\ mqttOwner' = "free" /\ mqttConnect' = mqttConnect
        BY <1>0, <1>3, <3>1 DEF MWriteEnds, MQTTOwned
      <4>2. \A h \in Generations : clients'[h].writing # "waited"
        BY <1>0, <2>2, <2>4, <3>1 DEF MQTTOwned
      <4>3. QED
        BY <1>0, <4>1, <4>2 DEF MQTTOwned
    <3>2. CASE clients[g].writing # "waited"
      <4>1. UNCHANGED <<mqttOwner, mqttConnect>>
        BY <1>3, <3>2 DEF MWriteEnds
      <4>2. \A h \in Generations :
              clients'[h].writing = "waited" => clients[h].writing = "waited"
        BY <2>2, <2>4
      <4>3. QED
        BY <1>0, <4>1, <4>2 DEF MQTTOwned
    <3>3. QED
      BY <3>1, <3>2
  <2>6. UNCHANGED <<mqtt, signals, mqttConnect>> /\ mqttOwner' \in {"free", mqttOwner}
    BY <1>3 DEF MWriteEnds
  <2>7. MQTTTypeOK'
    BY <1>0, <2>4, <2>6 DEF MQTTTypeOK, MQTTClients
  <2>8. MQTTSignals' /\ MQTTConnectKnows'
    BY <2>6 DEF MQTTKnows, MQTTSignals, MQTTConnectKnows
  <2>9. QED
    BY <2>5, <2>7, <2>8 DEF MQTTKnows
<1>4. QED
  BY <1>1, <1>2, <1>3

LEMMA MQTTKeeps == MQTTKnows /\ [MQTTNext]_mqttVars => MQTTKnows'
<1>1. MQTTKnows /\ UNCHANGED mqttVars => MQTTKnows'
  BY DEF MQTTKnows, MQTTTypeOK, MQTTOwned, MQTTSignals, MQTTConnectKnows, mqttVars
<1>2. QED
  BY <1>1, MQTTConnectKeeps, MQTTHandlersKeep, MQTTSendsKeep DEF MQTTNext

LEMMA MQTTSignalsOnce == MQTTKnows => SignalsOnce
BY DEF MQTTKnows, MQTTSignals, MQTTConnectKnows, SignalsOnce

\* A failing handler or a late failure of generation g acts.
OldActs(g) ==
  \/ clients[g].handler = "failing" /\ clients'[g].handler # "failing"
  \/ clients[g].retiring /\ ~clients'[g].retiring

\* A change of a client that is neither.
LEMMA LeftAlone ==
  ASSUME MQTTTypeOK, NEW h \in Generations, NEW new \in MQTTClients,
         clients' = [clients EXCEPT ![h] = new],
         new.handler = clients[h].handler \/ clients[h].handler # "failing",
         clients[h].retiring => new.retiring
  PROVE  \A g \in Generations : ~OldActs(g)
BY MQTTClientChanges DEF OldActs

LEMMA DrainsLeaveAlone ==
  ASSUME MQTTTypeOK, Drains, mqtt.generation > 0
  PROVE  \A g \in Generations : ~OldActs(g)
<1>1. mqtt.generation \in 0..MaxGenerations
  BY DEF MQTTTypeOK, Generations
<1>2. PICK h \in Generations : h = mqtt.generation - 1
  BY <1>1, MQTTAssumption DEF Generations
<1> DEFINE new == [clients[h] EXCEPT !.failed = TRUE]
<1>3. clients' = [clients EXCEPT ![h] = new]
  BY <1>2 DEF Drains, MQTTTypeOK
<1>4. new \in MQTTClients /\ new.handler = clients[h].handler /\ new.retiring = clients[h].retiring
  BY MQTTClientTyped DEF MQTTClients
<1> HIDE DEF new
<1>5. QED
  BY <1>3, <1>4, LeftAlone

\* A step that is not the end of a failing handler or of a late failure leaves
\* both where they are; the two that are act for their own generation only.
LEMMA MQTTHarmless == MQTTKnows /\ [MQTTNext]_mqttVars => OldGenerationsHarmless
<1> SUFFICES ASSUME MQTTKnows, [MQTTNext]_mqttVars, NEW g \in Generations, OldActs(g)
             PROVE  mqtt.generation = g \/ UNCHANGED <<mqtt, signals>>
  BY DEF OldGenerationsHarmless, OldActs
<1>0. MQTTTypeOK /\ MQTTConnectKnows
  BY DEF MQTTKnows
<1>1. clients' # clients
  BY DEF OldActs
<1>2. ~MConnectBegins /\ ~MConnectOpens /\ ~MConnectWaits
  BY <1>1 DEF MConnectBegins, MConnectOpens, MConnectWaits
<1>3. ~MConnectCloses /\ ~MConnectUndoes /\ ~MDisconnects
  BY <1>0, <1>1, DrainsLeaveAlone DEF MConnectCloses, MConnectUndoes, MDisconnects, MQTTConnectKnows
<1>4. ~MConnectPrepares
  <2> SUFFICES ASSUME clients' = [clients EXCEPT ![mqtt.generation].opened = TRUE] PROVE FALSE
    BY <1>1 DEF MConnectPrepares
  <2>0. PICK h \in Generations : h = mqtt.generation
    BY <1>0 DEF MQTTTypeOK
  <2> DEFINE new == [clients[h] EXCEPT !.opened = TRUE]
  <2>1. clients' = [clients EXCEPT ![h] = new]
    BY <2>0
  <2>2. new \in MQTTClients /\ new.handler = clients[h].handler /\ new.retiring = clients[h].retiring
    <3>1. clients[h] \in MQTTClients
      BY <1>0, MQTTClientTyped DEF MQTTClients
    <3>2. QED
      BY <3>1 DEF MQTTClients
  <2> HIDE DEF new
  <2>3. QED
    BY <1>0, <2>1, <2>2, LeftAlone
<1>5. ASSUME NEW h \in Generations, NEW at \in {"none", "receiving", "heard", "failing"},
             HandlerAt(h, at), clients[h].handler # "failing"
      PROVE  FALSE
  <2> DEFINE new == [clients[h] EXCEPT !.handler = at]
  <2>1. new \in MQTTClients /\ new.retiring = clients[h].retiring
    BY <1>0, MQTTClientTyped DEF MQTTClients
  <2>2. clients' = [clients EXCEPT ![h] = new]
    BY <1>5 DEF HandlerAt
  <2> HIDE DEF new
  <2>3. QED
    BY <1>0, <1>5, <2>1, <2>2, LeftAlone
<1>6. ASSUME NEW h \in Generations, MessageArrives(h) \/ TellsReady(h) PROVE FALSE
  BY <1>5, <1>6 DEF MessageArrives, TellsReady
<1>7. ASSUME NEW h \in Generations, Receives(h) PROVE FALSE
  <2>1. CASE clients' = [clients EXCEPT ![h].handler = "failing", ![h].failed = TRUE]
    <3> DEFINE new == [clients[h] EXCEPT !.handler = "failing", !.failed = TRUE]
    <3>1. new \in MQTTClients /\ new.retiring = clients[h].retiring
      BY <1>0, MQTTClientTyped DEF MQTTClients
    <3>2. clients' = [clients EXCEPT ![h] = new]
      BY <1>0, <2>1 DEF MQTTTypeOK
    <3> HIDE DEF new
    <3>3. QED
      BY <1>0, <1>7, <3>1, <3>2, LeftAlone DEF Receives
  <2>2. ASSUME NEW session \in BOOLEAN,
               clients' = [clients EXCEPT ![h].session = session,
                             ![h].handler = IF session THEN "heard" ELSE "none"]
        PROVE  FALSE
    <3> DEFINE new == [clients[h] EXCEPT !.session = session,
                         !.handler = IF session THEN "heard" ELSE "none"]
    <3>1. new \in MQTTClients /\ new.retiring = clients[h].retiring
      BY <1>0, MQTTClientTyped DEF MQTTClients
    <3>2. clients' = [clients EXCEPT ![h] = new]
      BY <1>0, <2>2 DEF MQTTTypeOK
    <3> HIDE DEF new
    <3>3. QED
      BY <1>0, <1>7, <3>1, <3>2, LeftAlone DEF Receives
  <2>3. clients[h].session \in BOOLEAN
    BY <1>0 DEF MQTTTypeOK
  <2>4. QED
    BY <1>7, <2>1, <2>2, <2>3 DEF Receives
<1>8. ASSUME NEW h \in Generations, NEW at \in {"none", "waited", "alone"},
             clients' = [clients EXCEPT ![h].writing = at]
      PROVE  FALSE
  <2> DEFINE new == [clients[h] EXCEPT !.writing = at]
  <2>1. new \in MQTTClients /\ new.handler = clients[h].handler /\ new.retiring = clients[h].retiring
    BY <1>0, MQTTClientTyped DEF MQTTClients
  <2>2. clients' = [clients EXCEPT ![h] = new]
    BY <1>8
  <2> HIDE DEF new
  <2>3. QED
    BY <1>0, <2>1, <2>2, LeftAlone
<1>9. ASSUME NEW h \in Generations, MWriteEnds(h) PROVE FALSE
  <2>1. PICK failed \in BOOLEAN :
          clients' = [clients EXCEPT ![h].writing = "none", ![h].failed = @ \/ failed,
                                     ![h].retiring = @ \/ failed]
    BY <1>9 DEF MWriteEnds
  <2> DEFINE new == [clients[h] EXCEPT !.writing = "none", !.failed = @ \/ failed,
                                       !.retiring = @ \/ failed]
  <2>2. new \in MQTTClients /\ new.handler = clients[h].handler
        /\ (clients[h].retiring => new.retiring)
    <3>1. clients[h] \in MQTTClients
      BY <1>0, MQTTClientTyped DEF MQTTClients
    <3>2. new.handler = clients[h].handler /\ new \in MQTTClients
      BY <3>1 DEF MQTTClients
    <3>3. CASE clients[h].retiring = TRUE
      BY <3>1, <3>2, <3>3 DEF MQTTClients
    <3>4. CASE clients[h].retiring = FALSE
      BY <3>2, <3>4
    <3>5. QED
      BY <3>1, <3>3, <3>4 DEF MQTTClients
  <2>3. clients' = [clients EXCEPT ![h] = new]
    BY <1>0, <2>1 DEF MQTTTypeOK
  <2> HIDE DEF new
  <2>4. QED
    BY <1>0, <2>2, <2>3, LeftAlone
<1>10. PICK h \in Generations : HandlerFails(h) \/ MWriteRetires(h)
  <2>1. ASSUME NEW h \in Generations, BrokerDrops(h) PROVE FALSE
    BY <1>1, <2>1 DEF BrokerDrops
  <2>2. ASSUME NEW h \in Generations, MSendBegins(h) \/ MSendLeft(h) PROVE FALSE
    BY <1>8, <2>2 DEF MSendBegins, MSendLeft
  <2>3. QED
    BY <1>1, <1>2, <1>3, <1>4, <1>6, <1>7, <1>9, <2>1, <2>2 DEF MQTTNext, mqttVars
<1>11. FailsGeneration(h)
  BY <1>10 DEF HandlerFails, MWriteRetires
<1>12. h = g
  <2>1. CASE HandlerFails(h)
    BY <1>0, <2>1 DEF HandlerFails, HandlerAt, OldActs, MQTTTypeOK
  <2>2. CASE MWriteRetires(h)
    BY <1>0, <2>2 DEF MWriteRetires, OldActs, MQTTTypeOK
  <2>3. QED
    BY <1>10, <2>1, <2>2
<1>13. QED
  BY <1>11, <1>12 DEF FailsGeneration, OwnGeneration

--------------------------------------------------------------------------------
(***************************************************************************)
(* HTTP: the session that is up is the one that is polled, and no other.   *)
(***************************************************************************)
\* The types of the parts of HTTPTypeOK.
HTTPFields == [session : 0..begun, connected : BOOLEAN, handshake : BOOLEAN,
               admitted : BOOLEAN, refused : BOOLEAN, phase : Phases]
HTTPChannels == [failed : BOOLEAN, heard : BOOLEAN,
                 writing : {"none", "waited", "alone"}, retiring : BOOLEAN]
HTTPLoops    == [at : Alive \cup {"none", "done"}, cancelled : BOOLEAN]
HTTPPlaces   == [at : At, old : 0..MaxHTTPSessions]

\* HTTPTypeOK, with its types named.
HTTPTypes ==
  /\ lifecycle \in {"free", "connect", "disconnect", "send"}
  /\ pollMu \in {"free", "connect", "worker", "manual", "loop"}
  /\ http \in HTTPFields
  /\ (http.handshake => http.connected) /\ (http.connected => http.session # 0)
  /\ begun \in 0..MaxHTTPSessions
  /\ channel \in [HTTPSessions -> HTTPChannels] /\ loop \in [HTTPSessions -> HTTPLoops]
  /\ pollDone \in 0..MaxHTTPSessions /\ peer \in 0..MaxHTTPSessions
  /\ connector \in HTTPPlaces /\ worker \in HTTPPlaces

\* Who holds lifecycleMu, and pollMu for a connect.
HTTPOwned ==
  /\ connector.at \notin {"idle", "lock"} <=> lifecycle = "connect"
  /\ worker.at # "idle" <=> lifecycle = "disconnect"
  /\ \A n \in HTTPSessions :
       channel[n].writing = "waited" =>
         /\ lifecycle = "send"
         /\ \A m \in HTTPSessions : channel[m].writing = "waited" => m = n
  /\ connector.at \in {"own", "reset", "drain", "begin", "handshake", "undo"} => pollMu = "connect"
  /\ connector.at \notin {"idle", "handshake", "undo"} => begun < MaxHTTPSessions

\* The loop that runs is the one stopPolling would join; a session that is up
\* has it; one that has not begun has nothing yet.
HTTPPolls ==
  /\ pollDone <= begun
  /\ connector.at \in {"take", "own", "reset", "drain", "begin", "handshake", "undo"} => pollDone = 0
  /\ \A n \in HTTPSessions :
       /\ loop[n].at \in Alive => n = pollDone /\ http.session \in {0, n}
       /\ n > begun =>
            /\ loop[n].at = "none" /\ ~loop[n].cancelled
            /\ channel[n].writing = "none" /\ ~channel[n].retiring
  /\ http.connected /\ http.handshake =>
       http.session = pollDone /\ loop[http.session].at \in Alive /\ ~loop[http.session].cancelled
  /\ connector.at = "handshake" =>
       /\ http.session = begun /\ http.connected /\ ~http.handshake
       /\ loop[begun].at = "none" /\ ~loop[begun].cancelled
       /\ channel[begun].writing = "none" /\ ~channel[begun].retiring

HTTPKnows == HTTPTypes /\ HTTPOwned /\ HTTPPolls

LEMMA HTTPTyped == HTTPTypes => HTTPTypeOK
BY DEF HTTPTypes, HTTPTypeOK, HTTPFields, HTTPChannels, HTTPLoops, HTTPPlaces

LEMMA HTTPKnowsInit == HTTPInit => HTTPKnows
BY HTTPAssumption
   DEF HTTPInit, HTTPKnows, HTTPTypes, HTTPOwned, HTTPPolls, HTTPSessions, Phases, Alive, At,
       HTTPFields, HTTPChannels, HTTPLoops, HTTPPlaces

\* Of a session that failed, nothing is left but the admission.
LEMMA HTTPFailed ==
  ASSUME HTTPTypeOK, NEW h \in HTTPFields, NEW refusal \in BOOLEAN
  PROVE  /\ Failed(h, refusal) \in HTTPFields
         /\ Failed(h, refusal).session = 0
         /\ ~Failed(h, refusal).connected /\ ~Failed(h, refusal).handshake
         /\ Failed(h, refusal).admitted = h.admitted
<1>1. h.session # 0 => h.session \in HTTPSessions
  BY HTTPAssumption DEF HTTPFields, HTTPTypeOK, HTTPSessions
<1>2. (IF h.session # 0 THEN refusal /\ ~channel[h.session].heard ELSE h.refused) \in BOOLEAN
  BY DEF HTTPFields
<1>3. 0 \in 0..begun
  BY HTTPAssumption DEF HTTPTypeOK
<1> DEFINE verdict == IF h.session # 0 THEN refusal /\ ~channel[h.session].heard ELSE h.refused
             failed == [h EXCEPT !.session = 0, !.connected = FALSE, !.handshake = FALSE,
                                 !.phase = "error", !.refused = verdict]
<1>4. Failed(h, refusal) = failed
  BY DEF Failed
<1>5. verdict \in BOOLEAN
  BY <1>2
<1> HIDE DEF verdict
<1>6. /\ failed \in HTTPFields /\ failed.session = 0
      /\ ~failed.connected /\ ~failed.handshake /\ failed.admitted = h.admitted
  BY <1>3, <1>5 DEF HTTPFields, Phases
<1>7. QED
  BY <1>4, <1>6

LEMMA HTTPConnectionFails ==
  ASSUME HTTPTypeOK, FailsConnection
  PROVE  http' \in HTTPFields /\ http'.session = 0 /\ ~http'.connected /\ ~http'.handshake
BY HTTPFailed DEF FailsConnection, HTTPTypeOK, HTTPFields

LEMMA HTTPRetired ==
  ASSUME HTTPTypeOK
  PROVE  /\ Retired \in HTTPFields /\ Retired.session = 0
         /\ ~Retired.connected /\ ~Retired.handshake /\ Retired.admitted = http.admitted
<1>1. 0 \in 0..begun
  BY HTTPAssumption DEF HTTPTypeOK
<1>2. http \in HTTPFields
  BY DEF HTTPTypeOK, HTTPFields
<1>3. QED
  BY <1>1, <1>2 DEF HTTPFields, Retired

\* A step that moves the connect only, or lets it return.
LEMMA HTTPConnectorMoves ==
  ASSUME HTTPTypeOK, NEW at \in At, ConnectorAt(at)
  PROVE  connector' \in HTTPPlaces /\ connector'.at = at
BY DEF HTTPTypeOK, ConnectorAt, HTTPPlaces

LEMMA HTTPConnectorReturns ==
  ASSUME ConnectReturns
  PROVE  connector' \in HTTPPlaces /\ connector'.at = "idle" /\ lifecycle' = "free"
BY HTTPAssumption DEF ConnectReturns, HTTPPlaces, At

LEMMA HTTPWorkerMoves ==
  ASSUME HTTPTypeOK, NEW at \in At, WorkerAt(at)
  PROVE  worker' \in HTTPPlaces /\ worker'.at = at
BY DEF HTTPTypeOK, WorkerAt, HTTPPlaces

\* Changes of one channel, or one loop.
LEMMA HTTPChannelChanges ==
  ASSUME HTTPTypeOK, NEW n \in HTTPSessions, NEW new \in HTTPChannels,
         channel' = [channel EXCEPT ![n] = new]
  PROVE  /\ channel' \in [HTTPSessions -> HTTPChannels] /\ channel'[n] = new
         /\ \A m \in HTTPSessions \ {n} : channel'[m] = channel[m]
BY DEF HTTPTypeOK, HTTPChannels

LEMMA HTTPLoopChanges ==
  ASSUME HTTPTypeOK, NEW n \in HTTPSessions, NEW at \in Alive \cup {"none", "done"}, LoopAt(n, at)
  PROVE  /\ loop' \in [HTTPSessions -> HTTPLoops]
         /\ loop'[n].at = at /\ loop'[n].cancelled = loop[n].cancelled
         /\ \A m \in HTTPSessions \ {n} : loop'[m] = loop[m]
<1> DEFINE new == [loop[n] EXCEPT !.at = at]
<1>1. new \in HTTPLoops /\ new.at = at /\ new.cancelled = loop[n].cancelled
  BY DEF HTTPTypeOK, HTTPLoops
<1>2. loop' = [loop EXCEPT ![n] = new]
  BY DEF LoopAt
<1> HIDE DEF new
<1>3. QED
  BY <1>1, <1>2 DEF HTTPTypeOK, HTTPLoops

LEMMA HTTPCancels ==
  ASSUME HTTPTypeOK, Cancel
  PROVE  /\ loop' \in [HTTPSessions -> HTTPLoops]
         /\ \A n \in HTTPSessions :
              /\ loop'[n].at = loop[n].at
              /\ n # pollDone => loop'[n].cancelled = loop[n].cancelled
<1>1. ASSUME NEW n \in HTTPSessions
      PROVE  /\ loop'[n] \in HTTPLoops /\ loop'[n].at = loop[n].at
             /\ n # pollDone => loop'[n].cancelled = loop[n].cancelled
  BY <1>1 DEF Cancel, HTTPTypeOK, HTTPLoops
<1>2. QED
  BY <1>1 DEF Cancel, HTTPLoops

\* A channel that fails, or is heard on: what is written on it stays.
LEMMA HTTPChannelMarked ==
  ASSUME HTTPTypeOK, NEW old,
         \/ channel' = [n \in HTTPSessions |->
              IF n = old THEN [channel[n] EXCEPT !.failed = TRUE] ELSE channel[n]]
         \/ channel' = [n \in HTTPSessions |->
              IF n = old THEN [channel[n] EXCEPT !.heard = TRUE] ELSE channel[n]]
  PROVE  /\ channel' \in [HTTPSessions -> HTTPChannels]
         /\ \A n \in HTTPSessions :
              channel'[n].writing = channel[n].writing /\ channel'[n].retiring = channel[n].retiring
<1>1. ASSUME NEW n \in HTTPSessions
      PROVE  /\ channel'[n] \in HTTPChannels
             /\ channel'[n].writing = channel[n].writing /\ channel'[n].retiring = channel[n].retiring
  <2>1. channel[n] \in HTTPChannels
    BY <1>1 DEF HTTPTypeOK, HTTPChannels
  <2>2. /\ [channel[n] EXCEPT !.failed = TRUE] \in HTTPChannels
        /\ [channel[n] EXCEPT !.failed = TRUE].writing = channel[n].writing
        /\ [channel[n] EXCEPT !.failed = TRUE].retiring = channel[n].retiring
    BY <2>1 DEF HTTPChannels
  <2>3. /\ [channel[n] EXCEPT !.heard = TRUE] \in HTTPChannels
        /\ [channel[n] EXCEPT !.heard = TRUE].writing = channel[n].writing
        /\ [channel[n] EXCEPT !.heard = TRUE].retiring = channel[n].retiring
    BY <2>1 DEF HTTPChannels
  <2>4. QED
    BY <1>1, <2>1, <2>2, <2>3
<1>2. channel' = [n \in HTTPSessions |-> channel'[n]]
  OBVIOUS
<1>3. QED
  BY <1>1, <1>2

\* connectAttempt's steps, up to its request.
LEMMA HTTPConnectKeeps ==
  ASSUME HTTPKnows,
         ConnectBegins \/ ConnectLocks \/ ConnectGivesUp \/ ConnectLooks \/ ConnectJoins
           \/ ConnectTakesPoll
  PROVE  HTTPKnows'
<1>0. HTTPTypeOK
  BY HTTPTyped DEF HTTPKnows
<1>1. CASE ConnectBegins
  <2> DEFINE new == [http EXCEPT !.refused = FALSE]
  <2>1. new \in HTTPFields /\ new.session = http.session /\ new.connected = http.connected
        /\ new.handshake = http.handshake
    BY DEF HTTPKnows, HTTPTypes, HTTPFields
  <2>2. http' = new /\ ConnectorAt("lock") /\ connector.at = "idle" /\ begun < MaxHTTPSessions
        /\ UNCHANGED <<lifecycle, pollMu, begun, channel, loop, pollDone, worker, peer>>
    BY <1>1 DEF ConnectBegins
  <2> HIDE DEF new
  <2>3. connector' \in HTTPPlaces /\ connector'.at = "lock"
    BY <1>0, <2>2, HTTPConnectorMoves DEF At
  <2>4. QED
    BY <2>1, <2>2, <2>3 DEF HTTPKnows, HTTPTypes, HTTPOwned, HTTPPolls, HTTPFields
<1>2. CASE ConnectLocks
  <2>1. connector' \in HTTPPlaces /\ connector'.at = "look"
    BY <1>0, <1>2, HTTPConnectorMoves DEF ConnectLocks, At
  <2>2. QED
    BY <1>2, <2>1 DEF ConnectLocks, HTTPKnows, HTTPTypes, HTTPOwned, HTTPPolls, HTTPFields
<1>3. CASE ConnectGivesUp
  <2>1. connector' \in HTTPPlaces /\ connector'.at = "idle"
    BY <1>3, HTTPConnectorReturns, HTTPAssumption DEF ConnectGivesUp, HTTPPlaces, At
  <2>2. lifecycle' = IF connector.at = "lock" THEN lifecycle ELSE "free"
    BY <1>3, HTTPConnectorReturns DEF ConnectGivesUp
  <2>3. QED
    BY <1>3, <2>1, <2>2 DEF ConnectGivesUp, HTTPKnows, HTTPTypes, HTTPOwned, HTTPPolls, HTTPFields
<1>4. CASE ConnectLooks
  <2>1. CASE http.connected /\ http.handshake
    BY <1>4, <2>1, HTTPConnectorReturns
       DEF ConnectLooks, HTTPKnows, HTTPTypes, HTTPOwned, HTTPPolls, HTTPFields
  <2>2. CASE ~(http.connected /\ http.handshake)
    <3>1. connector' \in HTTPPlaces /\ connector'.at = "stop"
      BY <1>0, <1>4, <2>2, HTTPConnectorMoves DEF ConnectLooks, At
    <3>2. QED
      BY <1>0, <1>4, <2>2, <3>1, HTTPCancels
         DEF ConnectLooks, HTTPKnows, HTTPTypes, HTTPOwned, HTTPPolls, HTTPFields
  <2>3. QED
    BY <2>1, <2>2
<1>5. CASE ConnectJoins
  <2>1. connector' \in HTTPPlaces /\ connector'.at = "take"
    BY <1>0, <1>5, HTTPConnectorMoves DEF ConnectJoins, At
  <2>2. \A n \in HTTPSessions : loop[n].at \notin Alive
    BY <1>5 DEF ConnectJoins, Joined, HTTPKnows, HTTPPolls, Alive
  <2>3. ~(http.connected /\ http.handshake)
    BY <2>2 DEF HTTPKnows, HTTPTypes, HTTPPolls, HTTPFields, HTTPSessions
  <2>4. QED
    BY <1>5, <2>1, <2>2, <2>3, HTTPAssumption
       DEF ConnectJoins, HTTPKnows, HTTPTypes, HTTPOwned, HTTPPolls, HTTPFields
<1>6. CASE ConnectTakesPoll
  <2>1. connector' \in HTTPPlaces /\ connector'.at = "own"
    BY <1>0, <1>6, HTTPConnectorMoves DEF ConnectTakesPoll, At
  <2>2. QED
    BY <1>6, <2>1 DEF ConnectTakesPoll, HTTPKnows, HTTPTypes, HTTPOwned, HTTPPolls, HTTPFields
<1>7. QED
  BY <1>1, <1>2, <1>3, <1>4, <1>5, <1>6

\* No session runs while a connect makes one.
LEMMA HTTPNoLoop ==
  ASSUME HTTPKnows, connector.at \in {"take", "own", "reset", "drain", "begin", "handshake", "undo"}
  PROVE  /\ pollDone = 0 /\ \A n \in HTTPSessions : loop[n].at \notin Alive
         /\ ~(http.connected /\ http.handshake)
<1>1. pollDone = 0 /\ \A n \in HTTPSessions : loop[n].at \notin Alive
  BY DEF HTTPKnows, HTTPPolls, HTTPSessions
<1>2. QED
  BY <1>1 DEF HTTPKnows, HTTPTypes, HTTPPolls

\* connectAttempt's steps, from its cleanup to the handshake.
LEMMA HTTPAttemptKeeps ==
  ASSUME HTTPKnows, ConnectCleans \/ ConnectInvalidates \/ ConnectPosts
  PROVE  HTTPKnows'
<1>0. HTTPTypeOK
  BY HTTPTyped DEF HTTPKnows
<1>1. CASE ConnectCleans
  <2>0. connector.at = "own" /\ peer' \in 0..MaxHTTPSessions
        /\ UNCHANGED <<begun, channel, loop, pollDone, worker>>
    BY <1>1, HTTPAssumption DEF ConnectCleans, HTTPKnows, HTTPTypes, HubReleases
  <2>1. CASE /\ ConnectorAt("reset") /\ UNCHANGED <<lifecycle, pollMu>>
             /\ http' \in {http, [http EXCEPT !.admitted = FALSE]}
    <3>1. connector' \in HTTPPlaces /\ connector'.at = "reset"
      BY <1>0, <2>1, HTTPConnectorMoves DEF At
    <3>2. http' \in HTTPFields /\ http'.session = http.session /\ http'.connected = http.connected
          /\ http'.handshake = http.handshake
      BY <2>1 DEF HTTPKnows, HTTPTypes, HTTPFields
    <3>3. QED
      BY <2>0, <2>1, <3>1, <3>2 DEF HTTPKnows, HTTPTypes, HTTPOwned, HTTPPolls, HTTPFields
  <2>2. CASE FailsConnection /\ ConnectReturns /\ pollMu' = "free"
    BY <1>0, <2>0, <2>2, HTTPConnectionFails, HTTPConnectorReturns, HTTPNoLoop
       DEF HTTPKnows, HTTPTypes, HTTPOwned, HTTPPolls, HTTPFields
  <2>3. QED
    BY <1>1, <2>1, <2>2 DEF ConnectCleans
<1>2. CASE ConnectInvalidates
  <2>1. CASE /\ connector.at = "reset" /\ http' = Retired /\ UNCHANGED channel
             /\ connector' = [at |-> "drain", old |-> http.session]
    <3>1. connector' \in HTTPPlaces /\ connector'.at = "drain"
      BY <2>1, HTTPAssumption DEF HTTPKnows, HTTPTypes, HTTPFields, HTTPPlaces, At
    <3>2. QED
      BY <1>0, <1>2, <2>1, <3>1, HTTPRetired, HTTPNoLoop
         DEF ConnectInvalidates, HTTPKnows, HTTPTypes, HTTPOwned, HTTPPolls, HTTPFields
  <2>2. CASE /\ connector.at = "drain" /\ ConnectorAt("begin") /\ UNCHANGED http
             /\ channel' = [n \in HTTPSessions |->
                  IF n = connector.old THEN [channel[n] EXCEPT !.failed = TRUE] ELSE channel[n]]
    <3>1. connector' \in HTTPPlaces /\ connector'.at = "begin"
      BY <1>0, <2>2, HTTPConnectorMoves DEF At
    <3>2. QED
      <4>1. /\ channel' \in [HTTPSessions -> HTTPChannels]
            /\ \A n \in HTTPSessions : channel'[n].writing = channel[n].writing
                                        /\ channel'[n].retiring = channel[n].retiring
        BY <1>0, <2>2, HTTPChannelMarked
      <4>2. connector.at = "drain" /\ UNCHANGED <<lifecycle, pollMu, http, begun, loop, pollDone, worker, peer>>
        BY <1>2, <2>2 DEF ConnectInvalidates
      <4>3. QED
        BY <3>1, <4>1, <4>2, HTTPNoLoop
           DEF HTTPKnows, HTTPTypes, HTTPOwned, HTTPPolls, HTTPFields
  <2>3. QED
    BY <1>2, <2>1, <2>2 DEF ConnectInvalidates
<1>3. CASE ConnectPosts
  <2> DEFINE fresh == [http EXCEPT !.session = begun + 1, !.connected = FALSE,
                         !.handshake = FALSE, !.refused = FALSE, !.phase = "connecting"]
             made  == [fresh EXCEPT !.connected = TRUE, !.admitted = TRUE, !.phase = "handshake"]
  <2>0. connector.at = "begin" /\ begun' = begun + 1 /\ begun < MaxHTTPSessions
        /\ begun' \in 0..MaxHTTPSessions
        /\ UNCHANGED <<channel, loop, pollDone, worker>>
    BY <1>3, HTTPAssumption DEF ConnectPosts, HTTPKnows, HTTPTypes, HTTPOwned
  <2>1. peer' \in 0..MaxHTTPSessions
    BY <1>3, <2>0, HTTPAssumption DEF ConnectPosts, HTTPKnows, HTTPTypes
  <2>2. http \in [session : 0..begun, connected : BOOLEAN, handshake : BOOLEAN,
                  admitted : BOOLEAN, refused : BOOLEAN, phase : Phases]
    BY DEF HTTPKnows, HTTPTypes, HTTPFields
  <2>3. begun' \in 0..begun' /\ 0 \in 0..begun'
    BY <2>0, HTTPAssumption DEF HTTPKnows, HTTPTypes
  <2>4. CASE http' = made /\ ConnectorAt("handshake") /\ UNCHANGED <<lifecycle, pollMu>>
    <3>1. made \in HTTPFields' /\ made.session = begun' /\ made.connected /\ ~made.handshake
      BY <2>0, <2>2, <2>3 DEF HTTPFields, Phases
    <3> HIDE DEF made
    <3>2. connector' \in HTTPPlaces /\ connector'.at = "handshake"
      BY <1>0, <2>4, HTTPConnectorMoves DEF At
    <3>3. begun' \in HTTPSessions /\ begun' # 0 /\ begun' > begun
      BY <2>0, HTTPAssumption DEF HTTPKnows, HTTPTypes, HTTPSessions
    <3>4. QED
      BY <2>0, <2>1, <2>4, <3>1, <3>2, <3>3, HTTPNoLoop, HTTPAssumption
         DEF HTTPKnows, HTTPTypes, HTTPOwned, HTTPPolls, HTTPSessions
  <2>5. CASE /\ ConnectReturns /\ pollMu' = "free"
             /\ \E refusal \in BOOLEAN : http' = [Failed(fresh, FALSE) EXCEPT !.refused = refusal]
    <3>1. PICK refusal \in BOOLEAN : http' = [Failed(fresh, FALSE) EXCEPT !.refused = refusal]
      BY <2>5
    <3> DEFINE lost == [fresh EXCEPT !.session = 0, !.connected = FALSE, !.handshake = FALSE,
                                     !.phase = "error", !.refused = refusal]
    <3>2. http' = lost
      BY <3>1, <2>2 DEF Failed
    <3>3. lost \in HTTPFields' /\ lost.session = 0 /\ ~lost.connected /\ ~lost.handshake
      BY <2>0, <2>2, <2>3 DEF HTTPFields, Phases
    <3> HIDE DEF lost
    <3>4. QED
      <4>1. connector' \in HTTPPlaces /\ connector'.at = "idle" /\ lifecycle' = "free"
        BY <2>5, HTTPConnectorReturns
      <4>2. pollDone = 0 /\ \A n \in HTTPSessions : loop[n].at \notin Alive
        BY <2>0, HTTPNoLoop
      <4>3. http' \in HTTPFields' /\ http'.session = 0 /\ ~http'.connected /\ ~http'.handshake
        BY <3>2, <3>3
      <4>4. HTTPTypes'
        BY <2>0, <2>1, <2>5, <4>1, <4>3 DEF HTTPKnows, HTTPTypes
      <4>5. HTTPOwned'
        BY <2>0, <2>5, <4>1 DEF HTTPKnows, HTTPOwned
      <4>6. HTTPPolls'
        BY <2>0, <4>1, <4>2, <4>3, HTTPAssumption DEF HTTPKnows, HTTPTypes, HTTPPolls, HTTPSessions
      <4>7. QED
        BY <4>4, <4>5, <4>6 DEF HTTPKnows
  <2>6. QED
    BY <1>3, <2>4, <2>5 DEF ConnectPosts
<1>4. QED
  BY <1>1, <1>2, <1>3

\* connectAttempt's last steps: the handshake, or the cleanup.
LEMMA HTTPHandshakeKeeps ==
  ASSUME HTTPKnows, HandshakeCompletes \/ HandshakeFails \/ ConnectUndoes
  PROVE  HTTPKnows'
<1>0. HTTPTypeOK
  BY HTTPTyped DEF HTTPKnows
<1>1. CASE HandshakeCompletes
  <2> DEFINE up == [http EXCEPT !.handshake = TRUE, !.phase = "ready"]
  <2>0. /\ connector.at = "handshake" /\ http' = up /\ LoopAt(begun, "idle")
        /\ pollDone' = begun /\ ConnectReturns /\ pollMu' = "free"
        /\ UNCHANGED <<begun, channel, worker, peer>>
    BY <1>1 DEF HandshakeCompletes, LoopAt
  <2>1. up \in HTTPFields /\ up.session = http.session /\ up.connected = http.connected
        /\ up.handshake
    BY DEF HTTPKnows, HTTPTypes, HTTPFields, Phases
  <2> HIDE DEF up
  <2>2. begun \in HTTPSessions /\ http.session = begun /\ http.connected /\ ~loop[begun].cancelled
    BY <2>0, HTTPAssumption DEF HTTPKnows, HTTPTypes, HTTPPolls, HTTPSessions
  <2>3. /\ loop' \in [HTTPSessions -> HTTPLoops]
        /\ loop'[begun].at = "idle" /\ ~loop'[begun].cancelled
        /\ \A m \in HTTPSessions \ {begun} : loop'[m] = loop[m]
    BY <1>0, <2>0, <2>2, HTTPLoopChanges DEF Alive
  <2>4. connector' \in HTTPPlaces /\ connector'.at = "idle" /\ lifecycle' = "free"
    BY <2>0, HTTPConnectorReturns
  <2>5. \A n \in HTTPSessions : loop[n].at \notin Alive
    BY <2>0, HTTPNoLoop
  <2>6. HTTPTypes'
    BY <2>0, <2>1, <2>2, <2>3, <2>4 DEF HTTPKnows, HTTPTypes, HTTPFields
  <2>7. HTTPOwned'
    BY <2>0, <2>4 DEF HTTPKnows, HTTPOwned
  <2>8. HTTPPolls'
    BY <2>0, <2>1, <2>2, <2>3, <2>4, <2>5 DEF HTTPKnows, HTTPTypes, HTTPPolls, Alive, HTTPSessions
  <2>9. QED
    BY <2>6, <2>7, <2>8 DEF HTTPKnows
<1>2. CASE HandshakeFails
  <2>0. connector.at = "handshake"
        /\ UNCHANGED <<lifecycle, pollMu, begun, channel, loop, pollDone, worker, peer>>
    BY <1>2 DEF HandshakeFails
  <2>1. connector' \in HTTPPlaces /\ connector'.at = "undo"
    BY <1>0, <1>2, HTTPConnectorMoves DEF HandshakeFails, At
  <2>2. CASE FailsConnection
    BY <1>0, <2>0, <2>1, <2>2, HTTPConnectionFails, HTTPNoLoop
       DEF HTTPKnows, HTTPTypes, HTTPOwned, HTTPPolls, HTTPFields
  <2>3. CASE UNCHANGED http
    BY <2>0, <2>1, <2>3 DEF HTTPKnows, HTTPTypes, HTTPOwned, HTTPPolls, HTTPFields
  <2>4. QED
    BY <1>2, <2>2, <2>3 DEF HandshakeFails
<1>3. CASE ConnectUndoes
  <2>0. PICK done, refusal \in BOOLEAN :
          HubReleases(done) /\ http' = [Failed(http, refusal) EXCEPT !.admitted = @ /\ ~done]
    BY <1>3 DEF ConnectUndoes
  <2> DEFINE failed == Failed(http, refusal)
  <2>1. /\ failed \in HTTPFields /\ failed.session = 0 /\ ~failed.connected /\ ~failed.handshake
        /\ failed.admitted \in BOOLEAN
    BY <1>0, HTTPFailed DEF HTTPKnows, HTTPTypes, HTTPFields
  <2>2. http' = [failed EXCEPT !.admitted = failed.admitted /\ ~done]
    BY <2>0
  <2> HIDE DEF failed
  <2>3. (failed.admitted /\ ~done) \in BOOLEAN
    OBVIOUS
  <2>4. http' \in HTTPFields /\ http'.session = 0 /\ ~http'.connected /\ ~http'.handshake
    BY <2>1, <2>2, <2>3 DEF HTTPFields
  <2>5. connector.at = "undo" /\ ConnectReturns /\ pollMu' = "free"
        /\ UNCHANGED <<begun, channel, loop, pollDone, worker>>
    BY <1>3 DEF ConnectUndoes
  <2>6. peer' \in 0..MaxHTTPSessions
    BY <2>0, HTTPAssumption DEF HubReleases, HTTPKnows, HTTPTypes
  <2>7. QED
    BY <2>4, <2>5, <2>6, HTTPConnectorReturns, HTTPNoLoop
       DEF HTTPKnows, HTTPTypes, HTTPOwned, HTTPPolls, HTTPFields
<1>4. QED
  BY <1>1, <1>2, <1>3

\* A poll that ended: the session heard something at most, or is over.
LEMMA HTTPPolled ==
  ASSUME HTTPTypeOK, NEW ok \in BOOLEAN, Polled(ok)
  PROVE  /\ \/ UNCHANGED http
            \/ http' \in HTTPFields /\ http'.session = 0 /\ ~http'.connected /\ ~http'.handshake
         /\ ~ok => ~http'.connected
         /\ channel' \in [HTTPSessions -> HTTPChannels]
         /\ \A n \in HTTPSessions :
              channel'[n].writing = channel[n].writing /\ channel'[n].retiring = channel[n].retiring
<1>1. CASE ok
  <2>1. CASE UNCHANGED channel
    BY <1>1, <2>1 DEF Polled, HTTPTypeOK, HTTPChannels
  <2>2. CASE channel' = [n \in HTTPSessions |->
              IF n = http.session THEN [channel[n] EXCEPT !.heard = TRUE] ELSE channel[n]]
    BY <1>1, <2>2, HTTPChannelMarked DEF Polled
  <2>3. QED
    BY <1>1, <2>1, <2>2 DEF Polled
<1>2. CASE ~ok
  BY <1>2, HTTPConnectionFails DEF Polled, HTTPTypeOK, HTTPChannels
<1>3. QED
  BY <1>1, <1>2

\* The loop of session n; and the polls callers drive.
LEMMA HTTPPollsKeep ==
  ASSUME HTTPKnows, NEW n \in HTTPSessions,
         LoopTicks(n) \/ LoopEnds(n) \/ LoopWaits(n) \/ LoopPolled(n) \/ LoopFails(n)
  PROVE  HTTPKnows'
<1>0. HTTPTypeOK
  BY HTTPTyped DEF HTTPKnows
<1>1. ASSUME NEW at \in Alive \cup {"done"}, LoopAt(n, at), loop[n].at \in Alive
      PROVE  /\ loop' \in [HTTPSessions -> HTTPLoops]
             /\ loop'[n].at = at /\ loop'[n].cancelled = loop[n].cancelled
             /\ \A m \in HTTPSessions \ {n} : loop'[m] = loop[m]
             /\ n = pollDone /\ http.session \in {0, n} /\ n <= begun
             /\ connector.at \notin {"take", "own", "reset", "drain", "begin", "handshake", "undo"}
  BY <1>0, <1>1, HTTPLoopChanges DEF HTTPKnows, HTTPPolls, HTTPSessions
<1>2. CASE LoopTicks(n)
  <2>1. loop[n].at \in Alive /\ LoopAt(n, "waiting") /\ "waiting" \in Alive
    BY <1>2 DEF LoopTicks, Alive
  <2>2. QED
    BY <1>1, <1>2, <2>1 DEF LoopTicks, HTTPKnows, HTTPTypes, HTTPOwned, HTTPPolls, HTTPFields
<1>3. CASE LoopEnds(n)
  <2>1. loop[n].at \in Alive /\ LoopAt(n, "done") /\ loop[n].cancelled /\ "done" \notin Alive
    BY <1>3 DEF LoopEnds, Alive
  <2>2. n = pollDone /\ ~(http.connected /\ http.handshake)
    BY <1>1, <2>1 DEF HTTPKnows, HTTPPolls
  <2>3. /\ loop' \in [HTTPSessions -> HTTPLoops] /\ loop'[n].at = "done"
        /\ \A m \in HTTPSessions \ {n} : loop'[m] = loop[m]
        /\ n <= begun
        /\ connector.at \notin {"take", "own", "reset", "drain", "begin", "handshake", "undo"}
    BY <1>1, <2>1
  <2>4. UNCHANGED <<lifecycle, pollMu, http, begun, channel, pollDone, connector, worker, peer>>
    BY <1>3 DEF LoopEnds
  <2>5. HTTPTypes' /\ HTTPOwned'
    BY <2>3, <2>4 DEF HTTPKnows, HTTPTypes, HTTPOwned, HTTPFields
  <2>6. HTTPPolls'
    BY <2>1, <2>2, <2>3, <2>4 DEF HTTPKnows, HTTPTypes, HTTPPolls
  <2>7. QED
    BY <2>5, <2>6 DEF HTTPKnows
<1>4. CASE LoopWaits(n)
  <2>1. PICK at \in {"polling", "failing"} : LoopAt(n, at)
    BY <1>4 DEF LoopWaits
  <2>2. loop[n].at \in Alive /\ at \in Alive
    BY <1>4 DEF LoopWaits, Alive
  <2>3. pollMu' \in {pollMu, "loop"} /\ connector.at \notin {"own"}
        /\ UNCHANGED <<lifecycle, http, begun, channel, pollDone, connector, worker, peer>>
    BY <1>1, <1>4, <2>1, <2>2 DEF LoopWaits
  <2>4. QED
    BY <1>1, <2>1, <2>2, <2>3 DEF HTTPKnows, HTTPTypes, HTTPOwned, HTTPPolls, HTTPFields
<1>5. CASE LoopPolled(n)
  <2>1. PICK ok \in BOOLEAN : Polled(ok) /\ LoopAt(n, IF ok THEN "idle" ELSE "failing")
    BY <1>5 DEF LoopPolled
  <2>2. PICK at \in Alive : LoopAt(n, at)
    BY <2>1 DEF Alive
  <2>3. loop[n].at \in Alive
    BY <1>5 DEF LoopPolled, Alive
  <2>4. pollMu' = "free" /\ UNCHANGED <<lifecycle, begun, pollDone, connector, worker, peer>>
    BY <1>5 DEF LoopPolled
  <2>5. QED
    BY <1>0, <1>1, <2>1, <2>2, <2>3, <2>4, HTTPPolled
       DEF HTTPKnows, HTTPTypes, HTTPOwned, HTTPPolls, HTTPFields
<1>6. CASE LoopFails(n)
  <2>1. loop[n].at \in Alive /\ LoopAt(n, "done") /\ "done" \notin Alive /\ FailsConnection
    BY <1>6 DEF LoopFails, Alive
  <2>2. QED
    BY <1>0, <1>1, <1>6, <2>1, HTTPConnectionFails
       DEF LoopFails, HTTPKnows, HTTPTypes, HTTPOwned, HTTPPolls, HTTPFields
<1>7. QED
  BY <1>2, <1>3, <1>4, <1>5, <1>6

LEMMA HTTPCallerKeeps ==
  ASSUME HTTPKnows, CallerPolls
  PROVE  HTTPKnows'
<1>0. UNCHANGED <<lifecycle, begun, loop, pollDone, connector, worker, peer>>
  BY DEF CallerPolls
<1>1. CASE pollMu = "free" /\ pollMu' = "manual" /\ UNCHANGED <<http, channel>>
  BY <1>0, <1>1 DEF HTTPKnows, HTTPTypes, HTTPOwned, HTTPPolls, HTTPFields
<1>2. CASE pollMu = "manual" /\ pollMu' = "free" /\ \E ok \in BOOLEAN : Polled(ok)
  <2>1. connector.at \notin {"own", "reset", "drain", "begin", "handshake", "undo"}
    BY <1>2 DEF HTTPKnows, HTTPOwned
  <2>2. QED
    BY HTTPTyped, <1>0, <1>2, <2>1, HTTPPolled
       DEF HTTPKnows, HTTPTypes, HTTPOwned, HTTPPolls, HTTPFields
<1>3. QED
  BY <1>1, <1>2 DEF CallerPolls

\* The frames of session n.
LEMMA HTTPSendsKeep ==
  ASSUME HTTPKnows, NEW n \in HTTPSessions,
         SendBegins(n) \/ SendLeft(n) \/ WriteEnds(n) \/ WriteRetires(n)
  PROVE  HTTPKnows'
<1>0. HTTPTypeOK /\ channel[n] \in HTTPChannels
  BY HTTPTyped DEF HTTPKnows, HTTPTypes
<1>1. CASE SendBegins(n)
  <2> DEFINE new == [channel[n] EXCEPT !.writing = "waited"]
  <2>1. new \in HTTPChannels /\ new.writing = "waited" /\ new.retiring = channel[n].retiring
    BY <1>0 DEF HTTPChannels
  <2>2. channel' = [channel EXCEPT ![n] = new] /\ lifecycle = "free" /\ lifecycle' = "send"
        /\ http.session = n
        /\ UNCHANGED <<pollMu, http, begun, loop, pollDone, connector, worker, peer>>
    BY <1>1 DEF SendBegins
  <2> HIDE DEF new
  <2>3. /\ channel' \in [HTTPSessions -> HTTPChannels] /\ channel'[n] = new
        /\ \A m \in HTTPSessions \ {n} : channel'[m] = channel[m]
    BY <1>0, <2>1, <2>2, HTTPChannelChanges
  <2>4. n <= begun /\ connector.at \in {"idle", "lock"}
    BY <2>2, HTTPAssumption DEF HTTPKnows, HTTPTypes, HTTPFields, HTTPOwned
  <2>5. QED
    BY <2>1, <2>2, <2>3, <2>4, HTTPAssumption
       DEF HTTPKnows, HTTPTypes, HTTPOwned, HTTPPolls, HTTPFields, HTTPSessions
<1>2. CASE SendLeft(n)
  <2> DEFINE new == [channel[n] EXCEPT !.writing = "alone"]
  <2>1. new \in HTTPChannels /\ new.writing = "alone" /\ new.retiring = channel[n].retiring
    BY <1>0 DEF HTTPChannels
  <2>2. channel' = [channel EXCEPT ![n] = new] /\ channel[n].writing = "waited"
        /\ lifecycle' = "free"
        /\ UNCHANGED <<pollMu, http, begun, loop, pollDone, connector, worker, peer>>
    BY <1>2 DEF SendLeft
  <2> HIDE DEF new
  <2>3. /\ channel' \in [HTTPSessions -> HTTPChannels] /\ channel'[n] = new
        /\ \A m \in HTTPSessions \ {n} : channel'[m] = channel[m]
    BY <1>0, <2>1, <2>2, HTTPChannelChanges
  <2>4. ~(n > begun) /\ lifecycle = "send"
    BY <2>2 DEF HTTPKnows, HTTPOwned, HTTPPolls
  <2>5. connector.at \in {"idle", "lock"}
    BY <2>4 DEF HTTPKnows, HTTPOwned
  <2>6. QED
    BY <2>1, <2>2, <2>3, <2>4, <2>5
       DEF HTTPKnows, HTTPTypes, HTTPOwned, HTTPPolls, HTTPFields
<1>3. CASE WriteEnds(n)
  <2>1. PICK failed \in BOOLEAN :
          channel' = [channel EXCEPT ![n].writing = "none", ![n].retiring = @ \/ failed,
                                     ![n].failed = @ \/ failed]
    BY <1>3 DEF WriteEnds
  <2> DEFINE new == [channel[n] EXCEPT !.writing = "none", !.retiring = @ \/ failed,
                                       !.failed = @ \/ failed]
  <2>2. new \in HTTPChannels /\ new.writing = "none"
    BY <1>0 DEF HTTPChannels
  <2>3. channel' = [channel EXCEPT ![n] = new]
    BY <1>0, <2>1 DEF HTTPTypeOK
  <2> HIDE DEF new
  <2>4. /\ channel' \in [HTTPSessions -> HTTPChannels] /\ channel'[n] = new
        /\ \A m \in HTTPSessions \ {n} : channel'[m] = channel[m]
    BY <1>0, <2>2, <2>3, HTTPChannelChanges
  <2>5. channel[n].writing # "none"
        /\ lifecycle' = (IF channel[n].writing = "waited" THEN "free" ELSE lifecycle)
        /\ UNCHANGED <<pollMu, http, begun, loop, pollDone, connector, worker, peer>>
    BY <1>3 DEF WriteEnds
  <2>6. ~(n > begun) /\ ~(connector.at = "handshake" /\ n = begun)
    BY <2>5 DEF HTTPKnows, HTTPPolls
  <2>7. HTTPTypes'
    BY <2>4, <2>5 DEF HTTPKnows, HTTPTypes, HTTPFields
  <2>8. HTTPOwned'
    <3>1. CASE channel[n].writing = "waited"
      <4>1. lifecycle = "send" /\ lifecycle' = "free"
        BY <2>5, <3>1 DEF HTTPKnows, HTTPOwned
      <4>2. \A m \in HTTPSessions : channel'[m].writing # "waited"
        BY <2>2, <2>4, <3>1 DEF HTTPKnows, HTTPOwned
      <4>3. QED
        BY <2>5, <4>1, <4>2 DEF HTTPKnows, HTTPOwned
    <3>2. CASE channel[n].writing # "waited"
      <4>1. lifecycle' = lifecycle
        BY <2>5, <3>2
      <4>2. \A m \in HTTPSessions :
              channel'[m].writing = "waited" => channel[m].writing = "waited"
        BY <2>2, <2>4
      <4>3. QED
        BY <2>5, <4>1, <4>2 DEF HTTPKnows, HTTPOwned
    <3>3. QED
      BY <3>1, <3>2
  <2>9. HTTPPolls'
    <3>1. \A m \in HTTPSessions :
            m # n => channel'[m].writing = channel[m].writing /\ channel'[m].retiring = channel[m].retiring
      BY <2>4
    <3>2. connector.at = "handshake" => begun \in HTTPSessions \ {n}
      BY <2>6, HTTPAssumption DEF HTTPKnows, HTTPTypes, HTTPPolls, HTTPSessions
    <3>3. QED
      BY <2>5, <2>6, <3>1, <3>2 DEF HTTPKnows, HTTPPolls
  <2>10. QED
    BY <2>7, <2>8, <2>9 DEF HTTPKnows
<1>4. CASE WriteRetires(n)
  <2> DEFINE new == [channel[n] EXCEPT !.retiring = FALSE]
  <2>1. new \in HTTPChannels /\ new.writing = channel[n].writing /\ ~new.retiring
    BY <1>0 DEF HTTPChannels
  <2>2. channel' = [channel EXCEPT ![n] = new] /\ channel[n].retiring
        /\ UNCHANGED <<lifecycle, pollMu, begun, loop, pollDone, connector, worker, peer>>
    BY <1>4 DEF WriteRetires
  <2> HIDE DEF new
  <2>3. /\ channel' \in [HTTPSessions -> HTTPChannels] /\ channel'[n] = new
        /\ \A m \in HTTPSessions \ {n} : channel'[m] = channel[m]
    BY <1>0, <2>1, <2>2, HTTPChannelChanges
  <2>4. \A m \in HTTPSessions : channel'[m].writing = channel[m].writing
                              /\ (~channel[m].retiring => ~channel'[m].retiring)
    BY <2>1, <2>3
  <2>5. CASE http.session = n
    <3>1. http' \in HTTPFields /\ http'.session = 0 /\ ~http'.connected /\ ~http'.handshake
      BY <1>0, <1>4, <2>5, HTTPConnectionFails DEF WriteRetires, Its
    <3>2. connector.at # "handshake"
      BY <2>2, <2>5 DEF HTTPKnows, HTTPPolls
    <3>3. QED
      BY <2>2, <2>3, <2>4, <3>1, <3>2 DEF HTTPKnows, HTTPTypes, HTTPOwned, HTTPPolls, HTTPFields
  <2>6. CASE http.session # n
    <3>1. UNCHANGED http
      BY <1>4, <2>6 DEF WriteRetires, Its
    <3>2. connector.at = "handshake" => begun \in HTTPSessions
      BY HTTPAssumption DEF HTTPKnows, HTTPTypes, HTTPPolls, HTTPSessions
    <3>3. QED
      BY <2>2, <2>3, <2>4, <3>1, <3>2 DEF HTTPKnows, HTTPTypes, HTTPOwned, HTTPPolls, HTTPFields
  <2>7. QED
    BY <2>5, <2>6
<1>5. QED
  BY <1>1, <1>2, <1>3, <1>4

\* Disconnect and its goroutine.
LEMMA HTTPDisconnectKeeps ==
  ASSUME HTTPKnows, DisconnectBegins \/ WorkerStep
  PROVE  HTTPKnows'
<1>0. HTTPTypeOK
  BY HTTPTyped DEF HTTPKnows
<1>1. CASE DisconnectBegins
  <2> DEFINE shut == [http EXCEPT !.connected = FALSE, !.handshake = FALSE, !.phase = "closed"]
  <2>1. shut \in HTTPFields /\ shut.session = http.session /\ ~shut.connected /\ ~shut.handshake
    BY DEF HTTPKnows, HTTPTypes, HTTPFields, Phases
  <2>2. http' = shut /\ lifecycle = "free" /\ lifecycle' = "disconnect"
        /\ UNCHANGED <<pollMu, begun, channel, pollDone, connector, peer>>
    BY <1>1 DEF DisconnectBegins
  <2> HIDE DEF shut
  <2>3. worker' \in HTTPPlaces /\ worker'.at = "stop"
    BY <1>0, <1>1, HTTPWorkerMoves DEF DisconnectBegins, At
  <2>4. /\ loop' \in [HTTPSessions -> HTTPLoops]
        /\ \A n \in HTTPSessions :
             /\ loop'[n].at = loop[n].at
             /\ n # pollDone => loop'[n].cancelled = loop[n].cancelled
    BY <1>0, <1>1, HTTPCancels DEF DisconnectBegins
  <2>5. connector.at # "handshake"
    BY <2>2 DEF HTTPKnows, HTTPOwned
  <2>6. QED
    BY <2>1, <2>2, <2>3, <2>4, <2>5 DEF HTTPKnows, HTTPTypes, HTTPOwned, HTTPPolls, HTTPFields
<1>2. ASSUME worker.at # "idle"
      PROVE  lifecycle = "disconnect" /\ connector.at \in {"idle", "lock"}
  BY <1>2 DEF HTTPKnows, HTTPOwned
<1>3. CASE WorkerJoins
  <2>1. worker' \in HTTPPlaces /\ worker'.at = "take"
    BY <1>0, <1>3, HTTPWorkerMoves DEF WorkerJoins, At
  <2>2. \A n \in HTTPSessions : loop[n].at \notin Alive
    BY <1>3 DEF WorkerJoins, Joined, HTTPKnows, HTTPPolls, Alive
  <2>3. ~(http.connected /\ http.handshake)
    BY <2>2 DEF HTTPKnows, HTTPTypes, HTTPPolls, HTTPFields, HTTPSessions
  <2>4. QED
    BY <1>2, <1>3, <2>1, <2>2, <2>3, HTTPAssumption
       DEF WorkerJoins, HTTPKnows, HTTPTypes, HTTPOwned, HTTPPolls, HTTPFields
<1>4. CASE WorkerTakesPoll
  <2>1. worker' \in HTTPPlaces /\ worker'.at = "drain"
    BY <1>4, HTTPAssumption DEF WorkerTakesPoll, HTTPKnows, HTTPTypes, HTTPFields, HTTPPlaces, At
  <2>2. QED
    BY <1>0, <1>2, <1>4, <2>1, HTTPRetired
       DEF WorkerTakesPoll, HTTPKnows, HTTPTypes, HTTPOwned, HTTPPolls, HTTPFields
<1>5. CASE WorkerInvalidates
  <2>1. worker' \in HTTPPlaces /\ worker'.at = "bye"
    BY <1>0, <1>5, HTTPWorkerMoves DEF WorkerInvalidates, At
  <2>2. /\ channel' \in [HTTPSessions -> HTTPChannels]
        /\ \A n \in HTTPSessions : channel'[n].writing = channel[n].writing
                                    /\ channel'[n].retiring = channel[n].retiring
    BY <1>0, <1>5, HTTPChannelMarked DEF WorkerInvalidates
  <2>3. worker.at = "drain"
        /\ UNCHANGED <<lifecycle, pollMu, http, begun, loop, pollDone, connector, peer>>
    BY <1>5 DEF WorkerInvalidates
  <2>4. QED
    BY <1>2, <2>1, <2>2, <2>3 DEF HTTPKnows, HTTPTypes, HTTPOwned, HTTPPolls, HTTPFields
<1>6. CASE WorkerSaysGoodbye
  <2>0. PICK done \in BOOLEAN :
          /\ IF http.admitted THEN HubReleases(done) ELSE done /\ UNCHANGED peer
          /\ http' = [Retired EXCEPT !.admitted = @ /\ ~done, !.phase = "closed"]
    BY <1>6 DEF WorkerSaysGoodbye
  <2>1. /\ Retired \in HTTPFields /\ Retired.session = 0
        /\ ~Retired.connected /\ ~Retired.handshake /\ Retired.admitted \in BOOLEAN
    BY <1>0, HTTPRetired DEF HTTPFields
  <2> DEFINE kept == Retired.admitted /\ ~done
  <2>2. http' = [Retired EXCEPT !.admitted = kept, !.phase = "closed"] /\ kept \in BOOLEAN
    BY <2>0
  <2> HIDE DEF kept
  <2>3. http' \in HTTPFields /\ http'.session = 0 /\ ~http'.connected /\ ~http'.handshake
    BY <2>1, <2>2 DEF HTTPFields, Phases
  <2>4. worker.at = "bye" /\ worker' = [at |-> "idle", old |-> 0] /\ lifecycle' = "free"
        /\ pollMu' = "free" /\ UNCHANGED <<begun, channel, loop, pollDone, connector>>
    BY <1>6 DEF WorkerSaysGoodbye
  <2>5. peer' \in 0..MaxHTTPSessions
    BY <2>0, HTTPAssumption DEF HubReleases, HTTPKnows, HTTPTypes
  <2>6. worker' \in HTTPPlaces /\ worker'.at = "idle"
    BY <2>4, HTTPAssumption DEF HTTPPlaces, At
  <2>7. QED
    BY <1>2, <2>3, <2>4, <2>5, <2>6 DEF HTTPKnows, HTTPTypes, HTTPOwned, HTTPPolls, HTTPFields
<1>7. QED
  BY <1>1, <1>3, <1>4, <1>5, <1>6 DEF WorkerStep

LEMMA HTTPKeeps == HTTPKnows /\ [HTTPNext]_httpVars => HTTPKnows'
<1>1. HTTPKnows /\ UNCHANGED httpVars => HTTPKnows'
  BY DEF HTTPKnows, HTTPTypes, HTTPOwned, HTTPPolls, httpVars, HTTPFields
<1>2. QED
  BY <1>1, HTTPConnectKeeps, HTTPAttemptKeeps, HTTPHandshakeKeeps, HTTPPollsKeep,
     HTTPCallerKeeps, HTTPSendsKeep, HTTPDisconnectKeeps DEF HTTPNext, ConnectStep

\* One loop at most is alive.
LEMMA HTTPUpIsPolled == HTTPKnows => UpIsPolled
<1> SUFFICES ASSUME HTTPKnows PROVE UpIsPolled
  OBVIOUS
<1> DEFINE alive == {n \in HTTPSessions : loop[n].at \in Alive}
<1>1. alive \subseteq {pollDone}
  BY DEF HTTPKnows, HTTPPolls
<1>2. IsFiniteSet({pollDone}) /\ Cardinality({pollDone}) = 1
  BY FS_Singleton
<1>3. IsFiniteSet(alive) /\ Cardinality(alive) <= 1
  BY <1>1, <1>2, FS_Subset
<1> HIDE DEF alive
<1>4. http.connected /\ http.handshake =>
        loop[http.session].at \in Alive /\ ~loop[http.session].cancelled
  BY DEF HTTPKnows, HTTPPolls
<1>5. QED
  BY <1>3, <1>4 DEF UpIsPolled, alive

\* A late failure, and nothing else, ends what is owed for a frame.
LEMMA HTTPRetiresItsOwn ==
  ASSUME HTTPKnows, [HTTPNext]_httpVars, NEW n \in HTTPSessions,
         channel[n].retiring, ~channel'[n].retiring
  PROVE  http.session = n \/ UNCHANGED http
<1>0. HTTPTypeOK /\ \A m \in HTTPSessions : channel[m] \in HTTPChannels
  BY HTTPTyped DEF HTTPKnows, HTTPTypes
<1>1. channel' # channel /\ channel'[n].retiring # channel[n].retiring
  OBVIOUS
<1>2. ~ConnectBegins /\ ~DisconnectBegins
  BY <1>1 DEF ConnectBegins, DisconnectBegins
<1>3. ~ConnectStep
  <2>1. ~ConnectInvalidates
    BY <1>0, <1>1, HTTPChannelMarked DEF ConnectInvalidates
  <2>2. QED
    BY <1>1, <2>1 DEF ConnectStep, ConnectLocks, ConnectGivesUp, ConnectLooks, ConnectJoins,
       ConnectTakesPoll, ConnectCleans, ConnectPosts, HandshakeCompletes, HandshakeFails, ConnectUndoes
<1>4. ~WorkerStep
  <2>1. ~WorkerInvalidates
    BY <1>0, <1>1, HTTPChannelMarked DEF WorkerInvalidates
  <2>2. QED
    BY <1>1, <2>1 DEF WorkerStep, WorkerJoins, WorkerTakesPoll, WorkerSaysGoodbye
<1>5. ~CallerPolls /\ \A m \in HTTPSessions : ~LoopPolled(m)
  BY <1>0, <1>1, HTTPPolled DEF CallerPolls, LoopPolled
<1>6. ASSUME NEW m \in HTTPSessions
      PROVE  ~LoopTicks(m) /\ ~LoopEnds(m) /\ ~LoopWaits(m) /\ ~LoopFails(m)
  BY <1>1 DEF LoopTicks, LoopEnds, LoopWaits, LoopFails
<1>7. ASSUME NEW m \in HTTPSessions, NEW new \in HTTPChannels,
             channel' = [channel EXCEPT ![m] = new], channel[m].retiring => new.retiring
      PROVE  FALSE
  BY <1>0, <1>1, <1>7, HTTPChannelChanges
<1>8. ASSUME NEW m \in HTTPSessions, NEW at \in {"waited", "alone"},
             channel' = [channel EXCEPT ![m].writing = at]
      PROVE  FALSE
  <2> DEFINE new == [channel[m] EXCEPT !.writing = at]
  <2>1. new \in HTTPChannels /\ new.retiring = channel[m].retiring
    BY <1>0 DEF HTTPChannels
  <2>2. channel' = [channel EXCEPT ![m] = new]
    BY <1>8
  <2> HIDE DEF new
  <2>3. QED
    BY <1>7, <2>1, <2>2
<1>9. ASSUME NEW m \in HTTPSessions PROVE ~SendBegins(m) /\ ~SendLeft(m)
  BY <1>8 DEF SendBegins, SendLeft
<1>10. ASSUME NEW m \in HTTPSessions, WriteEnds(m) PROVE FALSE
  <2>1. PICK failed \in BOOLEAN :
          channel' = [channel EXCEPT ![m].writing = "none", ![m].retiring = @ \/ failed,
                                     ![m].failed = @ \/ failed]
    BY <1>10 DEF WriteEnds
  <2> DEFINE new == [channel[m] EXCEPT !.writing = "none", !.retiring = @ \/ failed,
                                       !.failed = @ \/ failed]
  <2>2. new \in HTTPChannels
    BY <1>0 DEF HTTPChannels
  <2>3. channel' = [channel EXCEPT ![m] = new]
    BY <1>0, <2>1 DEF HTTPTypeOK
  <2>4. channel[m].retiring => new.retiring
    <3>1. CASE channel[m].retiring = TRUE
      BY <1>0, <2>2, <3>1 DEF HTTPChannels
    <3>2. CASE channel[m].retiring = FALSE
      BY <3>2
    <3>3. QED
      BY <1>0, <3>1, <3>2 DEF HTTPChannels
  <2> HIDE DEF new
  <2>5. QED
    BY <1>7, <2>2, <2>3, <2>4
<1>11. PICK m \in HTTPSessions : WriteRetires(m)
  BY <1>1, <1>2, <1>3, <1>4, <1>5, <1>6, <1>9, <1>10 DEF HTTPNext, httpVars
<1>12. m = n
  BY <1>0, <1>1, <1>11 DEF WriteRetires, HTTPTypeOK
<1>13. QED
  BY <1>11, <1>12 DEF WriteRetires, Its

LEMMA HTTPHarmless == HTTPKnows /\ [HTTPNext]_httpVars => OldSessionsHarmless
<1>1. HTTPKnows =>
        \A n \in HTTPSessions : loop[n].at \in {"polling", "failing"} => http.session \in {0, n}
  BY DEF HTTPKnows, HTTPPolls, Alive
<1>2. QED
  BY <1>1, HTTPRetiresItsOwn DEF OldSessionsHarmless

--------------------------------------------------------------------------------
(***************************************************************************)
(* The Noise channel: the handshake, what is written, what is heard.       *)
(***************************************************************************)
\* The types of the parts of ChannelTypeOK.
NoiseFields == [forceXX : BOOLEAN, hello : BOOLEAN, started : BOOLEAN, session : BOOLEAN,
                failed : BOOLEAN, pattern : Patterns \cup {"none"}, finalSent : BOOLEAN,
                heard : BOOLEAN, sent : Nat, received : 0..MaxHubFrames,
                reassembly : Seq(1..MaxHubFrames)]
Messages == [at : {"idle", "queued", "writing", "done"}, chunks : 1..MaxChunks,
             written : 0..MaxChunks, over : BOOLEAN,
             told : {"none", "ok", "nothing_sent", "finishing", "error", "refused"}]
Frames   == [of : ChannelSends, chunk : 1..MaxChunks, counter : Nat]

ChannelTypes ==
  /\ hubSide \in Hubs /\ pin \in {"none", "ours", "other"}
  /\ noise \in NoiseFields
  /\ over \in BOOLEAN /\ outcome \in Outcomes
  /\ writer \in ChannelSends \cup {NoSend}
  /\ message \in [ChannelSends -> Messages] /\ wire \in Seq(Frames)
  /\ hubFrames \in Seq(Markers) /\ Len(hubFrames) <= MaxHubFrames
  /\ delivered \in Seq(Seq(1..MaxHubFrames))

\* What the handshake has shown.  A KK session's hub knew our key, so that such
\* a session is never refused for it and no second attempt follows it.
HandshakeKnows ==
  /\ noise.session =>
       /\ hubSide.password /\ pin = hubSide.key /\ outcome # "connecting"
       /\ noise.pattern = "KK" => hubSide.knowsUs
  /\ noise.finalSent => hubSide.password /\ outcome # "connecting"
  /\ outcome = "connecting" =>
       /\ noise.received = 0 /\ noise.reassembly = NoBuffer
       /\ writer = NoSend /\ wire = <<>> /\ hubFrames = <<>> /\ delivered = <<>>
       /\ \A s \in ChannelSends :
            message[s].at = "idle" /\ message[s].told = "none" /\ message[s].written = 0
  /\ outcome = "key_changed" => hubSide.password /\ pin # hubSide.key
  /\ outcome = "key_rejected" => hubSide.password /\ ~hubSide.knowsUs
  /\ outcome = "unauthentic" => ~hubSide.password \/ over

\* The chunks of send s on the wire.
Chunks(s) == {wire[i].chunk : i \in {j \in 1..Len(wire) : wire[j].of = s}}

\* The writer holds a session that is up and stands at its next chunk.
WriterKnows ==
  /\ Ready => noise.sent = Len(wire) + 1
  /\ writer # NoSend =>
       /\ Ready /\ message[writer].at = "writing" /\ message[writer].written < message[writer].chunks
       /\ message[writer].written > 0 =>
            /\ Len(wire) > 0
            /\ wire[Len(wire)] = [of |-> writer, chunk |-> message[writer].written, counter |-> Len(wire)]

\* A send has on the wire what its place says, and what it was told.
SendTells(s) ==
  /\ message[s].at = "writing" =>
       /\ writer = s /\ message[s].told \in {"none", "finishing"}
       /\ Chunks(s) = 1..message[s].written
  /\ message[s].at \in {"idle", "queued"} =>
       message[s].told = "none" /\ message[s].written = 0 /\ Chunks(s) = {}
  /\ message[s].told = "ok" => Chunks(s) = 1..message[s].chunks
  /\ message[s].told \in {"nothing_sent", "refused"} => Chunks(s) = {}
  /\ message[s].told = "error" => noise.failed
  /\ message[s].told = "finishing" /\ message[s].at = "done" =>
       Chunks(s) = 1..message[s].chunks \/ noise.failed
  /\ message[s].at = "done" => message[s].told # "none"

SendsKnow == WriterKnows /\ \A s \in ChannelSends : SendTells(s)

\* Every frame has the session's next counter and follows its message's last.
WireInOrder ==
  \A i \in 1..Len(wire) :
    /\ wire[i].counter = i
    /\ wire[i].chunk > 1 =>
         i > 1 /\ wire[i - 1] = [of |-> wire[i].of, chunk |-> wire[i].chunk - 1, counter |-> i - 1]

\* d is a run of frames of the hub's that opens with one marked first.
Opens(d) ==
  /\ Len(d) > 0 /\ hubFrames[d[1]] = "first"
  /\ \A k \in 2..Len(d) : hubFrames[d[k]] = "more"

InARow(d) ==
  /\ \A k \in 1..Len(d) : d[k] <= Len(hubFrames)
  /\ \A k \in 1..Len(d) - 1 : d[k + 1] = d[k] + 1

\* d is one message of the hub's.
OneMessage(d) ==
  /\ Len(d) > 0 /\ InARow(d)
  /\ Len(d) = 1 => hubFrames[d[1]] = "whole"
  /\ Len(d) > 1 => /\ hubFrames[d[1]] = "first" /\ hubFrames[d[Len(d)]] = "last"
                   /\ \A k \in 2..Len(d) - 1 : hubFrames[d[k]] = "more"

LastHeard(m) == delivered[m][Len(delivered[m])]

\* What was delivered are messages, in order; what is in the buffer continues
\* where they end and ends with the frame received last.
HeardKnows ==
  /\ \A m \in 1..Len(delivered) : OneMessage(delivered[m])
  /\ \A m \in 2..Len(delivered) : LastHeard(m - 1) < delivered[m][1]
  /\ Ready =>
       /\ noise.received <= Len(hubFrames)
       /\ Len(delivered) > 0 => LastHeard(Len(delivered)) <= noise.received
       /\ noise.reassembly # NoBuffer =>
            /\ Opens(noise.reassembly) /\ InARow(noise.reassembly)
            /\ noise.reassembly[Len(noise.reassembly)] = noise.received
            /\ Len(delivered) > 0 => LastHeard(Len(delivered)) < noise.reassembly[1]

ChannelKnows == ChannelTypes /\ HandshakeKnows /\ SendsKnow /\ WireInOrder /\ HeardKnows

LEMMA ChannelTyped == ChannelTypes <=> ChannelTypeOK
BY DEF ChannelTypes, ChannelTypeOK, NoiseFields, Messages, Frames

LEMMA FreshNoiseTyped ==
  ASSUME NEW force \in BOOLEAN
  PROVE  /\ FreshNoise(force) \in NoiseFields
         /\ ~FreshNoise(force).session /\ ~FreshNoise(force).failed /\ ~FreshNoise(force).finalSent
         /\ FreshNoise(force).pattern = "none"
         /\ FreshNoise(force).received = 0 /\ FreshNoise(force).reassembly = NoBuffer
<1>1. <<>> \in Seq(1..MaxHubFrames)
  OBVIOUS
<1>2. QED
  BY <1>1, ChannelAssumption DEF FreshNoise, NoiseFields, NoBuffer, Patterns

LEMMA ChannelKnowsInit ==
  ASSUME NEW hubs \in SUBSET Hubs, NEW pins \in SUBSET {"none", "ours", "other"},
         ChannelInitWith(hubs, pins)
  PROVE  ChannelKnows
<1>1. <<>> \in Seq(Frames) /\ <<>> \in Seq(Markers) /\ <<>> \in Seq(Seq(1..MaxHubFrames))
  OBVIOUS
<1>2. noise \in NoiseFields /\ ~noise.session /\ ~noise.failed /\ ~noise.finalSent
      /\ noise.received = 0 /\ noise.reassembly = NoBuffer
  BY FreshNoiseTyped DEF ChannelInitWith
<1>3. message \in [ChannelSends -> Messages]
      /\ \A s \in ChannelSends :
           message[s].at = "idle" /\ message[s].told = "none" /\ message[s].written = 0
  BY ChannelAssumption DEF ChannelInitWith, Messages
<1>4. /\ writer = NoSend /\ wire = <<>> /\ hubFrames = <<>> /\ delivered = <<>>
      /\ over = FALSE /\ outcome = "connecting" /\ hubSide \in Hubs /\ pin \in {"none", "ours", "other"}
  BY DEF ChannelInitWith
<1>5. ChannelTypes
  <2>1. Len(hubFrames) <= MaxHubFrames
    BY <1>4, ChannelAssumption
  <2>2. QED
    BY <1>1, <1>2, <1>3, <1>4, <2>1 DEF ChannelTypes, Outcomes
<1>6. HandshakeKnows
  BY <1>2, <1>3, <1>4 DEF HandshakeKnows
<1>7. SendsKnow
  BY <1>2, <1>3, <1>4 DEF SendsKnow, WriterKnows, SendTells, Ready, Chunks
<1>8. WireInOrder /\ HeardKnows
  BY <1>2, <1>4 DEF WireInOrder, HeardKnows, Ready
<1>9. QED
  BY <1>5, <1>6, <1>7, <1>8 DEF ChannelKnows

\* A channel that is not up any more, or not yet: what was written and heard stays.
LEMMA ChannelDown ==
  ASSUME ChannelKnows, UNCHANGED <<sendVars, hearVars>>, writer = NoSend, ~Ready',
         noise.failed => noise'.failed \/ \A s \in ChannelSends : message[s].told = "none"
  PROVE  SendsKnow' /\ WireInOrder' /\ HeardKnows'
<1> USE DEF sendVars, hearVars
<1>0. \A s \in ChannelSends : Chunks(s)' = Chunks(s)
  BY DEF Chunks
<1>1. SendsKnow'
  <2>1. SendsKnow /\ writer' = NoSend /\ message' = message /\ ~Ready'
    BY DEF ChannelKnows
  <2>2. \A s \in ChannelSends : message[s].at # "writing"
    BY ChannelAssumption DEF ChannelKnows, SendsKnow, WriterKnows, SendTells
  <2>3. noise.failed => noise'.failed \/ \A s \in ChannelSends : message[s].told = "none"
    OBVIOUS
  <2>4. QED
    BY <1>0, <2>1, <2>2, <2>3 DEF SendsKnow, WriterKnows, SendTells
<1>2. WireInOrder'
  BY DEF ChannelKnows, WireInOrder
<1>3. HeardKnows'
  BY DEF ChannelKnows, HeardKnows, OneMessage, InARow, LastHeard
<1>4. QED
  BY <1>1, <1>2, <1>3

LEMMA NoiseFails ==
  ASSUME ChannelTypes, Fails
  PROVE  /\ noise' \in NoiseFields /\ noise'.failed /\ noise'.session = noise.session
         /\ noise'.finalSent = noise.finalSent /\ noise'.pattern = noise.pattern
         /\ noise'.received = noise.received /\ noise'.reassembly = noise.reassembly
BY DEF ChannelTypes, Fails, NoiseFields

\* The session ends, and nothing else happens.
LEMMA ChannelEndsKeeps == ChannelKnows /\ ChannelEnds => ChannelKnows'
<1> SUFFICES ASSUME ChannelKnows, ChannelEnds PROVE ChannelKnows'
  OBVIOUS
<1>1. Fails /\ writer = NoSend /\ UNCHANGED <<handshakeVars, sendVars, hearVars>>
  BY DEF ChannelEnds
<1>2. ChannelTypes
  BY DEF ChannelKnows
<1>3. SendsKnow' /\ WireInOrder' /\ HeardKnows'
  BY <1>1, <1>2, NoiseFails, ChannelDown DEF Ready
<1>4. ChannelTypes'
  BY <1>1, <1>2, NoiseFails DEF ChannelTypes, handshakeVars, sendVars, hearVars
<1>5. HandshakeKnows'
  BY <1>1, <1>2, NoiseFails DEF ChannelKnows, HandshakeKnows, handshakeVars, sendVars, hearVars
<1>6. QED
  BY <1>3, <1>4, <1>5 DEF ChannelKnows

\* An attempt that fails before there is a session, and its retry.
LEMMA AttemptFailed ==
  ASSUME ChannelKnows, Negotiating, UNCHANGED <<hubSide, sendVars, hearVars>>,
         NEW err \in {"failed", "unauthentic", "refused", "key_rejected"}, AttemptFails(err),
         err = "unauthentic" => ~Authentic,
         err = "key_rejected" => hubSide.password /\ ~hubSide.knowsUs
  PROVE  ChannelKnows'
<1>1. outcome = "connecting" /\ ~noise.failed /\ ~noise.session /\ writer = NoSend
      /\ ~noise.finalSent /\ UNCHANGED <<pin, over>> /\ ChannelTypes
  BY DEF Negotiating, ChannelKnows, HandshakeKnows, AttemptFails
<1>2. noise' \in NoiseFields /\ ~noise'.session /\ ~noise'.finalSent
      /\ noise'.received = 0 /\ noise'.reassembly = NoBuffer
  <2>1. CASE Retries(err)
    BY <2>1, FreshNoiseTyped DEF AttemptFails
  <2>2. CASE ~Retries(err)
    BY <1>1, <2>2, NoiseFails DEF AttemptFails, ChannelKnows, HandshakeKnows
  <2>3. QED
    BY <2>1, <2>2
<1>3. \/ outcome' = outcome
      \/ outcome' = err /\ ~Retries(err)
  BY DEF AttemptFails
<1>4. SendsKnow' /\ WireInOrder' /\ HeardKnows'
  BY <1>1, <1>2, ChannelDown DEF Ready
<1>5. ChannelTypes'
  BY <1>1, <1>2, <1>3 DEF ChannelTypes, Outcomes, HubRefused, sendVars, hearVars
<1>6. outcome' = "unauthentic" => ~hubSide.password \/ over
  BY <1>1, <1>3 DEF Authentic, Retries, HubRefused
<1>7. HandshakeKnows'
  BY <1>1, <1>2, <1>3, <1>6 DEF ChannelKnows, HandshakeKnows, sendVars, hearVars
<1>8. QED
  BY <1>4, <1>5, <1>7 DEF ChannelKnows

\* The handshake's messages, and the hub's verdict on them.
LEMMA HandshakeKeeps == ChannelKnows /\ HandshakeNext => ChannelKnows'
<1> SUFFICES ASSUME ChannelKnows, HandshakeNext PROVE ChannelKnows'
  OBVIOUS
<1>0. ChannelTypes /\ HandshakeKnows
  BY DEF ChannelKnows
<1>1. CASE HelloArrives
  <2>1. CASE AttemptFails("failed")
    BY <1>1, <2>1, AttemptFailed DEF HelloArrives
  <2>2. CASE noise' = [noise EXCEPT !.hello = TRUE] /\ UNCHANGED <<pin, over, outcome>>
    <3>1. noise' \in NoiseFields /\ noise'.session = noise.session
          /\ noise'.finalSent = noise.finalSent /\ noise'.pattern = noise.pattern
          /\ noise'.received = noise.received /\ noise'.reassembly = noise.reassembly
      BY <1>0, <2>2 DEF ChannelTypes, NoiseFields
    <3>2. ~noise.session /\ writer = NoSend /\ ~noise.failed
          /\ UNCHANGED <<hubSide, sendVars, hearVars>>
      BY <1>0, <1>1 DEF HelloArrives, Negotiating, HandshakeKnows
    <3>3. SendsKnow' /\ WireInOrder' /\ HeardKnows'
      BY <3>1, <3>2, ChannelDown DEF Ready
    <3>4. ChannelTypes' /\ HandshakeKnows'
      BY <1>0, <2>2, <3>1, <3>2 DEF ChannelTypes, HandshakeKnows, sendVars, hearVars
    <3>5. QED
      BY <3>3, <3>4 DEF ChannelKnows
  <2>3. QED
    BY <1>1, <2>1, <2>2 DEF HelloArrives
<1>2. CASE OfferArrives
  <2>1. CASE AttemptFails("failed")
    BY <1>2, <2>1, AttemptFailed DEF OfferArrives
  <2>2. CASE /\ noise' = [noise EXCEPT !.started = TRUE, !.pattern = Selected]
             /\ UNCHANGED <<pin, over, outcome>>
    <3>0. Selected \in Patterns \cup {"none"}
      BY DEF Selected, Patterns
    <3>1. noise' \in NoiseFields /\ noise'.session = noise.session
          /\ noise'.finalSent = noise.finalSent
          /\ noise'.received = noise.received /\ noise'.reassembly = noise.reassembly
      BY <1>0, <2>2, <3>0 DEF ChannelTypes, NoiseFields
    <3>2. ~noise.session /\ writer = NoSend /\ ~noise.failed
          /\ UNCHANGED <<hubSide, sendVars, hearVars>>
      BY <1>0, <1>2 DEF OfferArrives, Negotiating, HandshakeKnows
    <3>3. SendsKnow' /\ WireInOrder' /\ HeardKnows'
      BY <3>1, <3>2, ChannelDown DEF Ready
    <3>4. ChannelTypes' /\ HandshakeKnows'
      BY <1>0, <2>2, <3>1, <3>2 DEF ChannelTypes, HandshakeKnows, sendVars, hearVars
    <3>5. QED
      BY <3>3, <3>4 DEF ChannelKnows
  <2>3. QED
    BY <1>2, <2>1, <2>2 DEF OfferArrives
<1>3. CASE AnswerArrives
  <2>0. Negotiating /\ UNCHANGED <<hubSide, sendVars, hearVars>> /\ writer = NoSend
        /\ outcome = "connecting" /\ ~noise.session /\ ~noise.failed
    BY <1>0, <1>3 DEF AnswerArrives, Negotiating, HandshakeKnows
  <2>1. CASE ~noise.started
    BY <1>3, <2>0, <2>1, AttemptFailed DEF AnswerArrives
  <2>2. CASE noise.started /\ ~Authentic
    BY <1>3, <2>0, <2>2, AttemptFailed DEF AnswerArrives
  <2>3. CASE noise.started /\ Authentic
    <3>1. CASE AttemptFails("failed")
      BY <2>0, <3>1, AttemptFailed
    <3>2. CASE ~hubSide.knowsUs /\ AttemptFails("key_rejected")
      BY <2>0, <2>3, <3>2, AttemptFailed DEF Authentic
    <3>3. CASE /\ pin \notin {"none", hubSide.key}
               /\ noise' = [noise EXCEPT !.failed = TRUE, !.finalSent = noise.pattern = "XX"]
               /\ outcome' = "key_changed" /\ UNCHANGED <<pin, over>>
      <4>1. (noise.pattern = "XX") \in BOOLEAN
        OBVIOUS
      <4>2. noise' \in NoiseFields /\ noise'.session = noise.session /\ noise'.failed
            /\ noise'.pattern = noise.pattern
            /\ noise'.received = noise.received /\ noise'.reassembly = noise.reassembly
        BY <1>0, <3>3, <4>1 DEF ChannelTypes, NoiseFields
      <4>3. SendsKnow' /\ WireInOrder' /\ HeardKnows'
        BY <2>0, <4>2, ChannelDown DEF Ready
      <4>4. ChannelTypes' /\ HandshakeKnows'
        BY <1>0, <2>0, <2>3, <3>3, <4>2
           DEF ChannelTypes, HandshakeKnows, Authentic, Outcomes, sendVars, hearVars
      <4>5. QED
        BY <4>3, <4>4 DEF ChannelKnows
    <3>4. CASE /\ pin \in {"none", hubSide.key} /\ pin' = hubSide.key
               /\ noise' = [noise EXCEPT !.session = TRUE, !.started = FALSE,
                                         !.finalSent = noise.pattern = "XX", !.sent = 1]
               /\ outcome' = "ready" /\ UNCHANGED over
      <4>1. (noise.pattern = "XX") \in BOOLEAN
        OBVIOUS
      <4>2. noise' \in NoiseFields /\ noise'.session /\ noise'.sent = 1
            /\ noise'.pattern = noise.pattern
            /\ noise'.received = noise.received /\ noise'.reassembly = noise.reassembly
        BY <1>0, <3>4, <4>1 DEF ChannelTypes, NoiseFields
      <4>3. wire = <<>> /\ hubFrames = <<>> /\ delivered = <<>> /\ noise.received = 0
            /\ noise.reassembly = NoBuffer
            /\ \A s \in ChannelSends :
                 message[s].at = "idle" /\ message[s].told = "none" /\ message[s].written = 0
        BY <1>0, <2>0 DEF HandshakeKnows
      <4>4. SendsKnow'
        BY <2>0, <4>2, <4>3 DEF SendsKnow, WriterKnows, SendTells, Ready, Chunks, sendVars
      <4>5. WireInOrder' /\ HeardKnows'
        BY <2>0, <4>2, <4>3 DEF WireInOrder, HeardKnows, sendVars, hearVars
      <4>6. hubSide.key \in {"ours", "other"} /\ hubSide.knowsUs \in BOOLEAN
        BY <1>0 DEF ChannelTypes, Hubs
      <4>7. ChannelTypes'
        BY <1>0, <2>0, <3>4, <4>2, <4>6 DEF ChannelTypes, Outcomes, sendVars, hearVars
      <4>8. HandshakeKnows'
        BY <2>0, <2>3, <3>4, <4>2 DEF HandshakeKnows, Authentic
      <4>9. QED
        BY <4>4, <4>5, <4>7, <4>8 DEF ChannelKnows
    <3>5. QED
      BY <1>3, <2>3, <3>1, <3>2, <3>3, <3>4 DEF AnswerArrives
  <2>4. QED
    BY <2>1, <2>2, <2>3
<1>4. CASE StrayArrives
  BY <1>4, AttemptFailed DEF StrayArrives
<1>5. CASE HubRefuses
  <2>0. AttemptFails(Verdict) /\ UNCHANGED <<hubSide, sendVars, hearVars>>
    BY <1>5 DEF HubRefuses
  <2>1. CASE Negotiating
    <3>1. Verdict \in {"failed", "refused"}
      BY <1>0, <2>1 DEF Verdict, HandshakeKnows, Negotiating
    <3>2. QED
      BY <2>0, <2>1, <3>1, AttemptFailed
  <2>2. CASE Ready /\ writer = NoSend /\ (noise.heard \/ ~hubSide.knowsUs)
    <3>1. ~Retries(Verdict)
      BY <1>0, <2>2 DEF Retries, Verdict, HubRefused, HandshakeKnows, Ready
    <3>2. Fails /\ outcome' = Verdict /\ UNCHANGED <<pin, over>>
      BY <2>0, <3>1 DEF AttemptFails
    <3>3. /\ Verdict \in {"failed", "refused", "key_rejected"}
          /\ Verdict = "key_rejected" => hubSide.password /\ ~hubSide.knowsUs
      BY <1>0, <2>2 DEF Verdict, HandshakeKnows, Ready
    <3>4. SendsKnow' /\ WireInOrder' /\ HeardKnows'
      BY <1>0, <2>0, <2>2, <3>2, NoiseFails, ChannelDown DEF Ready
    <3>5. ChannelTypes' /\ HandshakeKnows'
      BY <1>0, <2>0, <2>2, <3>2, <3>3, NoiseFails
         DEF ChannelTypes, HandshakeKnows, Outcomes, HubRefused, Ready, sendVars, hearVars
    <3>6. QED
      BY <3>4, <3>5 DEF ChannelKnows
  <2>3. QED
    BY <1>5, <2>1, <2>2 DEF HubRefuses
<1>6. CASE ConnectContextEnds
  <2>0. over' = TRUE /\ UNCHANGED <<hubSide, pin, noise, outcome, sendVars, hearVars>>
    BY <1>6 DEF ConnectContextEnds
  <2>1. ChannelTypes' /\ HandshakeKnows'
    BY <1>0, <2>0 DEF ChannelTypes, HandshakeKnows, sendVars, hearVars
  <2>2. SendsKnow' /\ WireInOrder' /\ HeardKnows'
    <3>1. \A s \in ChannelSends : Chunks(s)' = Chunks(s)
      BY <2>0 DEF Chunks, sendVars
    <3>2. SendsKnow'
      BY <2>0, <3>1 DEF ChannelKnows, SendsKnow, WriterKnows, SendTells, Ready, sendVars
    <3>3. WireInOrder' /\ HeardKnows'
      BY <2>0 DEF ChannelKnows, Ready, WireInOrder, HeardKnows, OneMessage, InARow, Opens, LastHeard,
           sendVars, hearVars
    <3>4. QED
      BY <3>2, <3>3
  <2>3. QED
    BY <2>1, <2>2 DEF ChannelKnows
<1>7. QED
  BY <1>1, <1>2, <1>3, <1>4, <1>5, <1>6 DEF HandshakeNext

LEMMA MessageChanges ==
  ASSUME ChannelTypes, NEW s \in ChannelSends, NEW new \in Messages,
         message' = [message EXCEPT ![s] = new]
  PROVE  /\ message' \in [ChannelSends -> Messages] /\ message'[s] = new
         /\ \A t \in ChannelSends \ {s} : message'[t] = message[t]
BY DEF ChannelTypes

\* A send whose place or verdict changes, with nothing written.
LEMMA SendMoves ==
  ASSUME ChannelKnows, NEW s \in ChannelSends, NEW new \in Messages,
         message' = [message EXCEPT ![s] = new],
         UNCHANGED <<handshakeVars, noise, wire, hearVars>>, outcome # "connecting",
         writer' \in ChannelSends \cup {NoSend}, SendsKnow'
  PROVE  ChannelKnows'
<1>1. ChannelTypes /\ HandshakeKnows /\ WireInOrder /\ HeardKnows
  BY DEF ChannelKnows
<1>2. ChannelTypes'
  BY <1>1, MessageChanges DEF ChannelTypes, handshakeVars, hearVars
<1>3. HandshakeKnows'
  BY <1>1 DEF HandshakeKnows, handshakeVars
<1>4. WireInOrder' /\ HeardKnows'
  <2>1. UNCHANGED <<noise, wire, hubFrames, delivered>>
    BY DEF hearVars
  <2>2. WireInOrder'
    BY <1>1, <2>1 DEF WireInOrder
  <2>3. HeardKnows'
    BY <1>1, <2>1 DEF HeardKnows, OneMessage, InARow, Opens, LastHeard, Ready
  <2>4. QED
    BY <2>2, <2>3
<1>5. QED
  BY <1>2, <1>3, <1>4 DEF ChannelKnows

\* The queue for the channel, and the callers that leave.
LEMMA QueueKeeps ==
  ASSUME ChannelKnows, NEW s \in ChannelSends,
         \/ SendArrives(s) \/ SendContextEnds(s) \/ SendWithdraws(s) \/ SendTakesChannel(s)
         \/ SendLeaves(s)
  PROVE  ChannelKnows'
<1>0. ChannelTypes /\ SendsKnow /\ HandshakeKnows /\ message[s] \in Messages
  BY DEF ChannelKnows, ChannelTypes
<1>1. UNCHANGED <<handshakeVars, noise, wire, hearVars>> /\ outcome # "connecting"
  BY <1>0 DEF SendArrives, SendContextEnds, SendWithdraws, SendTakesChannel, SendLeaves, HandshakeKnows
<1>2. \A t \in ChannelSends : Chunks(t)' = Chunks(t)
  BY <1>1 DEF Chunks
<1>3. Ready' <=> Ready
  BY <1>1 DEF Ready
<1>4. CASE SendArrives(s)
  <2>1. PICK c \in 1..MaxChunks :
          message' = [message EXCEPT ![s].at = "queued", ![s].chunks = c]
    BY <1>4 DEF SendArrives
  <2> DEFINE new == [message[s] EXCEPT !.at = "queued", !.chunks = c]
  <2>2. new \in Messages /\ new.at = "queued" /\ new.told = message[s].told
        /\ new.written = message[s].written
    BY <1>0 DEF Messages
  <2>3. message' = [message EXCEPT ![s] = new]
    BY <1>0, <2>1 DEF ChannelTypes
  <2> HIDE DEF new
  <2>4. message[s].at = "idle" /\ UNCHANGED writer
    BY <1>4 DEF SendArrives
  <2>5. SendsKnow'
    BY <1>0, <1>1, <1>2, <1>3, <2>2, <2>3, <2>4, MessageChanges DEF SendsKnow, WriterKnows, SendTells
  <2>6. QED
    BY <1>0, <1>1, <2>2, <2>3, <2>4, <2>5, SendMoves DEF ChannelTypes
<1>5. CASE SendContextEnds(s)
  <2> DEFINE new == [message[s] EXCEPT !.over = TRUE]
  <2>2. new \in Messages /\ new.at = message[s].at /\ new.told = message[s].told
        /\ new.written = message[s].written /\ new.chunks = message[s].chunks
    BY <1>0 DEF Messages
  <2>3. message' = [message EXCEPT ![s] = new]
    BY <1>5 DEF SendContextEnds
  <2> HIDE DEF new
  <2>4. UNCHANGED writer
    BY <1>5 DEF SendContextEnds
  <2>5. SendsKnow'
    <3>1. \A t \in ChannelSends :
            /\ message'[t].at = message[t].at /\ message'[t].told = message[t].told
            /\ message'[t].written = message[t].written /\ message'[t].chunks = message[t].chunks
      BY <1>0, <2>2, <2>3, MessageChanges
    <3>2. WriterKnows'
      BY <1>0, <1>1, <1>3, <2>4, <3>1 DEF SendsKnow, WriterKnows, ChannelTypes
    <3>3. ASSUME NEW t \in ChannelSends PROVE SendTells(t)'
      BY <1>0, <1>1, <1>2, <2>4, <3>1 DEF SendsKnow, SendTells
    <3>4. QED
      BY <3>2, <3>3 DEF SendsKnow
  <2>6. QED
    BY <1>0, <1>1, <2>2, <2>3, <2>4, <2>5, SendMoves DEF ChannelTypes
<1>6. CASE SendWithdraws(s)
  <2> DEFINE new == [message[s] EXCEPT !.at = "done", !.told = "nothing_sent"]
  <2>2. new \in Messages /\ new.at = "done" /\ new.told = "nothing_sent"
    BY <1>0 DEF Messages
  <2>3. message' = [message EXCEPT ![s] = new]
    BY <1>0, <1>6 DEF SendWithdraws, ChannelTypes
  <2> HIDE DEF new
  <2>4. message[s].at = "queued" /\ UNCHANGED writer
    BY <1>6 DEF SendWithdraws
  <2>5. SendsKnow'
    BY <1>0, <1>1, <1>2, <1>3, <2>2, <2>3, <2>4, MessageChanges DEF SendsKnow, WriterKnows, SendTells
  <2>6. QED
    BY <1>0, <1>1, <2>2, <2>3, <2>4, <2>5, SendMoves DEF ChannelTypes
<1>7. CASE SendTakesChannel(s)
  <2>1. CASE Ready
    <3> DEFINE new == [message[s] EXCEPT !.at = "writing"]
    <3>2. new \in Messages /\ new.at = "writing" /\ new.told = message[s].told
          /\ new.written = message[s].written
      BY <1>0 DEF Messages
    <3>3. message' = [message EXCEPT ![s] = new]
      BY <1>7, <2>1 DEF SendTakesChannel
    <3> HIDE DEF new
    <3>4. message[s].at = "queued" /\ writer = NoSend /\ writer' = s
      BY <1>7, <2>1 DEF SendTakesChannel
    <3>5. new.chunks > 0 /\ new.written = 0
      BY <1>0, <3>2, <3>4, ChannelAssumption DEF Messages, SendsKnow, WriterKnows, SendTells
    <3>6. Chunks(s) = 1..new.written
      BY <1>0, <3>4, <3>5 DEF SendsKnow, WriterKnows, SendTells
    <3>7. \A t \in ChannelSends : message[t].at # "writing"
      BY <1>0, <3>4, ChannelAssumption DEF SendsKnow, WriterKnows, SendTells
    <3>8. SendsKnow'
      <4>1. message'[s] = new /\ \A t \in ChannelSends \ {s} : message'[t] = message[t]
        BY <1>0, <3>2, <3>3, MessageChanges
      <4>2. WriterKnows'
        BY <1>0, <1>1, <1>3, <2>1, <3>2, <3>4, <3>5, <4>1 DEF SendsKnow, WriterKnows
      <4>3. SendTells(s)'
        BY <1>0, <1>1, <1>2, <3>2, <3>4, <3>6, <4>1 DEF SendsKnow, SendTells
      <4>4. ASSUME NEW t \in ChannelSends \ {s} PROVE SendTells(t)'
        BY <1>0, <1>1, <1>2, <3>7, <4>1 DEF SendsKnow, SendTells
      <4>5. QED
        BY <4>2, <4>3, <4>4 DEF SendsKnow
    <3>9. QED
      BY <1>0, <1>1, <3>2, <3>3, <3>4, <3>8, SendMoves
  <2>2. CASE ~Ready
    <3> DEFINE new == [message[s] EXCEPT !.at = "done", !.told = "refused"]
    <3>2. new \in Messages /\ new.at = "done" /\ new.told = "refused"
      BY <1>0 DEF Messages
    <3>3. message' = [message EXCEPT ![s] = new]
      BY <1>0, <1>7, <2>2 DEF SendTakesChannel, ChannelTypes
    <3> HIDE DEF new
    <3>4. message[s].at = "queued" /\ UNCHANGED writer
      BY <1>7, <2>2 DEF SendTakesChannel
    <3>5. SendsKnow'
      BY <1>0, <1>1, <1>2, <1>3, <3>2, <3>3, <3>4, MessageChanges DEF SendsKnow, WriterKnows, SendTells
    <3>6. QED
      BY <1>0, <1>1, <3>2, <3>3, <3>4, <3>5, SendMoves DEF ChannelTypes
  <2>3. QED
    BY <2>1, <2>2
<1>8. CASE SendLeaves(s)
  <2> DEFINE new == [message[s] EXCEPT !.told = "finishing"]
  <2>2. new \in Messages /\ new.at = message[s].at /\ new.told = "finishing"
        /\ new.written = message[s].written /\ new.chunks = message[s].chunks
    BY <1>0 DEF Messages
  <2>3. message' = [message EXCEPT ![s] = new]
    BY <1>8 DEF SendLeaves
  <2> HIDE DEF new
  <2>4. message[s].at = "writing" /\ UNCHANGED writer
    BY <1>8 DEF SendLeaves
  <2>5. SendsKnow'
    BY <1>0, <1>1, <1>2, <1>3, <2>2, <2>3, <2>4, MessageChanges DEF SendsKnow, WriterKnows, SendTells
  <2>6. QED
    BY <1>0, <1>1, <2>2, <2>3, <2>4, <2>5, SendMoves DEF ChannelTypes
<1>9. QED
  BY <1>4, <1>5, <1>6, <1>7, <1>8

\* A frame more on the wire is a chunk more of its message.
LEMMA ChunksAppend ==
  ASSUME wire \in Seq(Frames), NEW f \in Frames, wire' = Append(wire, f), NEW s
  PROVE  Chunks(s)' = IF f.of = s THEN Chunks(s) \cup {f.chunk} ELSE Chunks(s)
<1> DEFINE n == Len(wire)
<1>1. n \in Nat /\ Len(wire') = n + 1 /\ wire'[n + 1] = f /\ \A i \in 1..n : wire'[i] = wire[i]
  BY AppendProperties
<1> HIDE DEF n
<1>2. 1..(n + 1) = (1..n) \cup {n + 1}
  BY <1>1
<1>3. {j \in 1..(n + 1) : wire'[j].of = s}
        = {j \in 1..n : wire[j].of = s} \cup (IF f.of = s THEN {n + 1} ELSE {})
  BY <1>1, <1>2
<1>4. Chunks(s)' = {wire'[i].chunk : i \in {j \in 1..(n + 1) : wire'[j].of = s}}
  BY <1>1 DEF Chunks
<1>5. Chunks(s) = {wire[i].chunk : i \in {j \in 1..n : wire[j].of = s}}
  BY DEF Chunks, n
<1>6. QED
  BY <1>1, <1>3, <1>4, <1>5

\* A chunk is written, or its end is not known.
LEMMA ChunkWrittenKeeps ==
  ASSUME ChannelKnows, NEW s \in ChannelSends, ChunkWritten(s)
  PROVE  ChannelKnows'
<1> DEFINE chunk == message[s].written + 1
           frame == [of |-> s, chunk |-> chunk, counter |-> noise.sent]
<1>0. ChannelTypes /\ SendsKnow /\ HandshakeKnows /\ WireInOrder /\ HeardKnows
      /\ message[s] \in Messages /\ wire \in Seq(Frames) /\ noise \in NoiseFields
  BY DEF ChannelKnows, ChannelTypes
<1>1. /\ Ready /\ writer = s /\ s # NoSend /\ message[s].at = "writing" /\ WriterKnows
      /\ message[s].told \in {"none", "finishing"} /\ message[s].written < message[s].chunks
      /\ Chunks(s) = 1..message[s].written /\ noise.sent = Len(wire) + 1
      /\ \A t \in ChannelSends \ {s} : message[t].at # "writing"
  BY <1>0, ChannelAssumption DEF ChunkWritten, SendsKnow, WriterKnows, SendTells
<1>2. UNCHANGED <<handshakeVars, hearVars>> /\ outcome # "connecting"
  BY <1>0, <1>1 DEF ChunkWritten, HandshakeKnows, Ready
<1>3. /\ message[s].written \in Nat /\ message[s].chunks \in 1..MaxChunks /\ chunk \in 1..MaxChunks
      /\ chunk <= message[s].chunks
      /\ Chunks(s) \cup {chunk} = 1..chunk
  <2>1. message[s].written \in 0..MaxChunks /\ message[s].chunks \in 1..MaxChunks
    BY <1>0 DEF Messages
  <2>2. QED
    BY <1>1, <2>1, ChannelAssumption
<1>4. frame \in Frames /\ frame.of = s /\ frame.chunk = chunk /\ frame.counter = Len(wire) + 1
  BY <1>0, <1>1, <1>3 DEF Frames, NoiseFields
<1>5. Len(wire) \in Nat
  BY <1>0
<1>6. ASSUME wire' = Append(wire, frame)
      PROVE  /\ WireInOrder' /\ wire' \in Seq(Frames)
             /\ Len(wire') = Len(wire) + 1 /\ wire'[Len(wire')] = frame
             /\ Chunks(s)' = 1..chunk /\ \A t \in ChannelSends \ {s} : Chunks(t)' = Chunks(t)
  <2>1. /\ wire' \in Seq(Frames) /\ Len(wire') = Len(wire) + 1 /\ wire'[Len(wire) + 1] = frame
        /\ \A i \in 1..Len(wire) : wire'[i] = wire[i]
    BY <1>0, <1>4, <1>6, AppendProperties
  <2>2. Chunks(s)' = 1..chunk /\ \A t \in ChannelSends \ {s} : Chunks(t)' = Chunks(t)
    BY <1>0, <1>3, <1>4, <1>6, ChunksAppend
  <2>3. chunk > 1 => /\ Len(wire) > 0
                     /\ wire[Len(wire)] = [of |-> s, chunk |-> chunk - 1, counter |-> Len(wire)]
    BY <1>1, <1>3 DEF WriterKnows
  <2> HIDE DEF chunk, frame
  <2>4. WireInOrder'
    <3> SUFFICES ASSUME NEW i \in 1..Len(wire')
                 PROVE  /\ wire'[i].counter = i
                        /\ wire'[i].chunk > 1 =>
                             i > 1 /\ wire'[i - 1] = [of |-> wire'[i].of,
                                         chunk |-> wire'[i].chunk - 1, counter |-> i - 1]
      BY DEF WireInOrder
    <3>1. CASE i \in 1..Len(wire)
      <4>1. wire'[i] = wire[i] /\ (i > 1 => wire'[i - 1] = wire[i - 1])
        BY <1>5, <2>1, <3>1
      <4>2. QED
        BY <1>0, <3>1, <4>1 DEF WireInOrder
    <3>2. CASE i = Len(wire) + 1
      <4>1. wire'[i] = frame /\ (Len(wire) > 0 => i > 1 /\ wire'[i - 1] = wire[i - 1])
        BY <1>5, <2>1, <3>2
      <4>2. QED
        BY <1>4, <1>5, <2>3, <3>2, <4>1
    <3>3. QED
      BY <1>5, <2>1, <3>1, <3>2
  <2>5. QED
    BY <2>1, <2>2, <2>4
<1>7. ASSUME noise' \in NoiseFields, noise'.session = noise.session,
             noise'.finalSent = noise.finalSent, noise'.pattern = noise.pattern,
             noise'.received = noise.received, noise'.reassembly = noise.reassembly
      PROVE  HandshakeKnows' /\ HeardKnows'
  <2>1. HandshakeKnows'
    BY <1>0, <1>2, <1>7 DEF HandshakeKnows, handshakeVars
  <2>2. UNCHANGED <<hubFrames, delivered>>
    BY <1>2 DEF hearVars
  <2>3. HeardKnows'
    BY <1>0, <1>1, <1>7, <2>2 DEF HeardKnows, OneMessage, InARow, Opens, LastHeard
  <2>4. QED
    BY <2>1, <2>3
<1> HIDE DEF chunk, frame
<1>8. CASE /\ wire' = Append(wire, frame)
           /\ noise' = [noise EXCEPT !.sent = @ + 1]
           /\ message' = [message EXCEPT ![s].written = chunk,
                ![s].at = IF chunk = message[s].chunks THEN "done" ELSE "writing",
                ![s].told = IF chunk = message[s].chunks THEN Told(s, "ok") ELSE @]
           /\ writer' = IF chunk = message[s].chunks THEN NoSend ELSE s
  <2>1. noise' \in NoiseFields /\ noise'.session = noise.session /\ noise'.failed = noise.failed
        /\ noise'.finalSent = noise.finalSent /\ noise'.pattern = noise.pattern
        /\ noise'.received = noise.received /\ noise'.reassembly = noise.reassembly
        /\ noise'.sent = noise.sent + 1
    <3> DEFINE sent == noise.sent + 1
    <3>1. sent \in Nat
      BY <1>0 DEF NoiseFields
    <3>2. noise' = [noise EXCEPT !.sent = sent]
      BY <1>0, <1>8 DEF NoiseFields
    <3> HIDE DEF sent
    <3>3. noise' \in NoiseFields /\ noise'.session = noise.session /\ noise'.failed = noise.failed
          /\ noise'.finalSent = noise.finalSent /\ noise'.pattern = noise.pattern
          /\ noise'.received = noise.received /\ noise'.reassembly = noise.reassembly
          /\ noise'.sent = sent
      BY <1>0, <3>1, <3>2 DEF NoiseFields
    <3>4. QED
      BY <3>3 DEF sent
  <2> DEFINE at   == IF chunk = message[s].chunks THEN "done" ELSE "writing"
             told == IF chunk = message[s].chunks THEN Told(s, "ok") ELSE message[s].told
             new  == [message[s] EXCEPT !.written = chunk, !.at = at, !.told = told]
  <2>2. at \in {"writing", "done"} /\ told \in {"none", "finishing", "ok"}
    BY <1>1 DEF Told
  <2>3. message' = [message EXCEPT ![s] = new]
    BY <1>0, <1>8 DEF ChannelTypes
  <2>4. chunk = message[s].chunks => at = "done" /\ told \in {"ok", "finishing"}
    BY <1>1 DEF Told
  <2>5. chunk # message[s].chunks => at = "writing" /\ told \in {"none", "finishing"}
    BY <1>1
  <2> HIDE DEF at, told
  <2>6. new \in Messages /\ new.at = at /\ new.told = told /\ new.written = chunk
        /\ new.chunks = message[s].chunks
    <3>1. chunk \in 0..MaxChunks
      BY <1>3
    <3>2. QED
      BY <1>0, <2>2, <3>1 DEF Messages
  <2> HIDE DEF new
  <2>7. /\ message' \in [ChannelSends -> Messages] /\ message'[s] = new
        /\ \A t \in ChannelSends \ {s} : message'[t] = message[t]
    BY <1>0, <2>3, <2>6, MessageChanges
  <2>8. WriterKnows'
    BY <1>1, <1>3, <1>4, <1>5, <1>6, <1>8, <2>1, <2>4, <2>5, <2>6, <2>7
       DEF WriterKnows, Ready, frame
  <2>9. SendTells(s)'
    BY <1>6, <1>8, <2>4, <2>5, <2>6, <2>7 DEF SendTells
  <2>10. ASSUME NEW t \in ChannelSends \ {s} PROVE SendTells(t)'
    BY <1>0, <1>1, <1>6, <1>8, <2>1, <2>7 DEF SendsKnow, SendTells
  <2>11. ChannelTypes'
    BY <1>0, <1>2, <1>6, <1>8, <2>1, <2>7 DEF ChannelTypes, handshakeVars, hearVars
  <2>12. QED
    BY <1>6, <1>7, <1>8, <2>1, <2>8, <2>9, <2>10, <2>11 DEF ChannelKnows, SendsKnow
<1>9. CASE /\ wire' \in {wire, Append(wire, frame)}
           /\ noise' = Poisons(noise.sent + 1)
           /\ message' = [message EXCEPT ![s].at = "done", ![s].told = Told(s, "error")]
           /\ writer' = NoSend
  <2>1. noise' \in NoiseFields /\ noise'.session = noise.session /\ noise'.failed
        /\ noise'.finalSent = noise.finalSent /\ noise'.pattern = noise.pattern
        /\ noise'.received = noise.received /\ noise'.reassembly = noise.reassembly
    <3> DEFINE sent == noise.sent + 1
    <3>1. sent \in Nat
      BY <1>0 DEF NoiseFields
    <3>2. noise' = [noise EXCEPT !.sent = sent, !.failed = TRUE]
      BY <1>9 DEF Poisons
    <3> HIDE DEF sent
    <3>3. QED
      BY <1>0, <3>1, <3>2 DEF NoiseFields
  <2> DEFINE told == Told(s, "error")
             new  == [message[s] EXCEPT !.at = "done", !.told = told]
  <2>2. told \in {"error", "finishing"}
    BY <1>1 DEF Told
  <2>3. message' = [message EXCEPT ![s] = new]
    BY <1>0, <1>9 DEF ChannelTypes
  <2> HIDE DEF told
  <2>4. new \in Messages /\ new.at = "done" /\ new.told = told
    BY <1>0, <2>2 DEF Messages
  <2> HIDE DEF new
  <2>5. /\ message' \in [ChannelSends -> Messages] /\ message'[s] = new
        /\ \A t \in ChannelSends \ {s} : message'[t] = message[t]
    BY <1>0, <2>3, <2>4, MessageChanges
  <2>6. /\ WireInOrder' /\ wire' \in Seq(Frames)
        /\ \A t \in ChannelSends \ {s} : Chunks(t)' = Chunks(t)
    <3>1. CASE wire' = wire
      BY <1>0, <3>1 DEF WireInOrder, Chunks
    <3>2. QED
      BY <1>6, <1>9, <3>1
  <2>7. WriterKnows'
    BY <1>9, <2>1 DEF WriterKnows, Ready
  <2>8. SendTells(s)'
    BY <2>1, <2>2, <2>4, <2>5 DEF SendTells
  <2>9. ASSUME NEW t \in ChannelSends \ {s} PROVE SendTells(t)'
    BY <1>0, <1>1, <2>1, <2>5, <2>6 DEF SendsKnow, SendTells
  <2>10. ChannelTypes'
    BY <1>0, <1>2, <1>9, <2>1, <2>5, <2>6 DEF ChannelTypes, handshakeVars, hearVars
  <2>11. QED
    BY <1>7, <2>1, <2>6, <2>7, <2>8, <2>9, <2>10 DEF ChannelKnows, SendsKnow
<1>10. QED
  BY <1>8, <1>9 DEF ChunkWritten, chunk, frame

\* What is heard on a session that is up leaves its handshake and what was
\* written on it as they were.
LEMMA HearingLeaves ==
  ASSUME ChannelKnows, Ready, UNCHANGED <<handshakeVars, sendVars>>,
         noise' \in NoiseFields, noise'.session = noise.session, noise'.finalSent = noise.finalSent,
         noise'.pattern = noise.pattern, noise'.sent = noise.sent,
         noise'.failed = noise.failed \/ writer = NoSend
  PROVE  HandshakeKnows' /\ SendsKnow' /\ WireInOrder'
<1>1. HandshakeKnows /\ SendsKnow /\ WireInOrder /\ outcome # "connecting" /\ ~noise.failed
  BY DEF ChannelKnows, HandshakeKnows, Ready
<1>2. HandshakeKnows'
  BY <1>1 DEF HandshakeKnows, handshakeVars
<1>3. UNCHANGED <<writer, message, wire>> /\ WireInOrder'
  BY <1>1 DEF WireInOrder, sendVars
<1>4. \A s \in ChannelSends : Chunks(s)' = Chunks(s)
  BY <1>3 DEF Chunks
<1>5. \A s \in ChannelSends : SendTells(s)'
  BY <1>1, <1>3, <1>4 DEF SendsKnow, SendTells
<1>6. WriterKnows'
  BY <1>1, <1>3 DEF SendsKnow, WriterKnows, Ready
<1>7. QED
  BY <1>2, <1>3, <1>5, <1>6 DEF SendsKnow

\* A frame more of the hub's.
LEMMA HubSendsKeeps ==
  ASSUME ChannelKnows, NEW marker \in Markers, HubSends(marker)
  PROVE  ChannelKnows'
<1>1. Ready /\ Len(hubFrames) < MaxHubFrames /\ hubFrames' = Append(hubFrames, marker)
      /\ UNCHANGED <<hubSide, pin, over, outcome, noise, writer, message, wire, delivered>>
  BY DEF HubSends, handshakeVars, sendVars
<1>2. ChannelTypes /\ HeardKnows /\ hubFrames \in Seq(Markers) /\ MaxHubFrames \in Nat
  BY ChannelAssumption DEF ChannelKnows, ChannelTypes
<1>3. /\ hubFrames' \in Seq(Markers) /\ Len(hubFrames) \in Nat /\ Len(hubFrames') = Len(hubFrames) + 1
      /\ \A j \in 1..Len(hubFrames) : hubFrames'[j] = hubFrames[j]
  BY <1>1, <1>2, AppendProperties
<1>4. ChannelTypes'
  <2>1. Len(hubFrames') <= MaxHubFrames
    BY <1>1, <1>2, <1>3
  <2>2. QED
    BY <1>1, <1>2, <1>3, <2>1 DEF ChannelTypes
<1>5. HandshakeKnows' /\ SendsKnow' /\ WireInOrder'
  BY <1>1, <1>2, HearingLeaves DEF ChannelTypes, handshakeVars, sendVars
<1>6. ASSUME NEW m \in 1..Len(delivered) PROVE OneMessage(delivered[m])'
  <2>1. PICK d : d = delivered[m] /\ delivered'[m] = d
    BY <1>1
  <2>2. d \in Seq(1..MaxHubFrames) /\ OneMessage(d)
    BY <1>2, <1>6, <2>1 DEF ChannelTypes, HeardKnows
  <2>3. \A k \in 1..Len(d) : d[k] \in 1..Len(hubFrames)
    BY <1>2, <2>2 DEF OneMessage, InARow
  <2>4. /\ \A k \in 1..Len(d) : d[k] <= Len(hubFrames')
        /\ \A k \in 1..Len(d) - 1 : d[k + 1] = d[k] + 1
    BY <1>3, <2>2, <2>3 DEF OneMessage, InARow
  <2>5. \A k \in 1..Len(d) : hubFrames'[d[k]] = hubFrames[d[k]]
    BY <1>3, <2>3
  <2>6. Len(d) \in Nat
    BY <2>2
  <2>7. /\ Len(d) = 1 => hubFrames'[d[1]] = "whole"
        /\ Len(d) > 1 => /\ hubFrames'[d[1]] = "first" /\ hubFrames'[d[Len(d)]] = "last"
                         /\ \A k \in 2..Len(d) - 1 : hubFrames'[d[k]] = "more"
    BY <2>2, <2>5, <2>6 DEF OneMessage
  <2>8. QED
    BY <2>1, <2>2, <2>4, <2>7 DEF OneMessage, InARow
<1>7. noise.reassembly # NoBuffer => (Opens(noise.reassembly) /\ InARow(noise.reassembly))'
  <2>1. PICK d : d = noise.reassembly /\ noise'.reassembly = d
    BY <1>1
  <2>2. SUFFICES ASSUME d # NoBuffer PROVE (Opens(noise.reassembly) /\ InARow(noise.reassembly))'
    BY <2>1
  <2>3. d \in Seq(1..MaxHubFrames) /\ Opens(d) /\ InARow(d)
    BY <1>1, <1>2, <2>1, <2>2 DEF ChannelTypes, NoiseFields, HeardKnows
  <2>4. \A k \in 1..Len(d) : d[k] \in 1..Len(hubFrames)
    BY <1>2, <2>3 DEF InARow
  <2>5. /\ \A k \in 1..Len(d) : d[k] <= Len(hubFrames')
        /\ \A k \in 1..Len(d) - 1 : d[k + 1] = d[k] + 1
    BY <1>3, <2>3, <2>4 DEF InARow
  <2>6. \A k \in 1..Len(d) : hubFrames'[d[k]] = hubFrames[d[k]]
    BY <1>3, <2>4
  <2>7. Len(d) \in Nat
    BY <2>3
  <2>8. Len(d) > 0 /\ hubFrames'[d[1]] = "first" /\ \A k \in 2..Len(d) : hubFrames'[d[k]] = "more"
    BY <2>3, <2>6, <2>7 DEF Opens
  <2>9. QED
    BY <2>1, <2>5, <2>8 DEF Opens, InARow
<1>8. HeardKnows'
  <2>1. noise.received \in Nat
    BY <1>2, ChannelAssumption DEF ChannelTypes, NoiseFields
  <2>2. noise.received <= Len(hubFrames')
    BY <1>1, <1>2, <1>3, <2>1 DEF HeardKnows
  <2>3. QED
    BY <1>1, <1>2, <1>6, <1>7, <2>2 DEF HeardKnows, LastHeard
<1>9. QED
  BY <1>4, <1>5, <1>8 DEF ChannelKnows

\* One message more for the application.
LEMMA DeliveredGrows ==
  ASSUME HeardKnows, delivered \in Seq(Seq(1..MaxHubFrames)), UNCHANGED hubFrames,
         NEW d \in Seq(1..MaxHubFrames), OneMessage(d), delivered' = Append(delivered, d),
         Len(delivered) > 0 => LastHeard(Len(delivered)) < d[1]
  PROVE  /\ delivered' \in Seq(Seq(1..MaxHubFrames))
         /\ Len(delivered') = Len(delivered) + 1 /\ delivered'[Len(delivered')] = d
         /\ \A m \in 1..Len(delivered') : OneMessage(delivered[m])'
         /\ \A m \in 2..Len(delivered') : LastHeard(m - 1)' < delivered'[m][1]
<1> DEFINE n == Len(delivered)
<1>1. /\ n \in Nat /\ delivered' \in Seq(Seq(1..MaxHubFrames)) /\ Len(delivered') = n + 1
      /\ delivered'[n + 1] = d /\ \A m \in 1..n : delivered'[m] = delivered[m]
  BY AppendProperties
<1>2. /\ \A m \in 1..n : OneMessage(delivered[m])
      /\ \A m \in 2..n : LastHeard(m - 1) < delivered[m][1]
      /\ n > 0 => LastHeard(n) < d[1]
  BY DEF HeardKnows
<1> HIDE DEF n
<1>3. \A m \in 1..Len(delivered') : OneMessage(delivered[m])'
  <2> SUFFICES ASSUME NEW m \in 1..(n + 1) PROVE OneMessage(delivered[m])'
    BY <1>1
  <2>1. CASE m = n + 1
    BY <1>1, <2>1 DEF OneMessage, InARow
  <2>2. CASE m \in 1..n
    <3>1. PICK c : c = delivered[m] /\ delivered'[m] = c
      BY <1>1, <2>2
    <3>2. OneMessage(c)
      BY <1>2, <2>2, <3>1
    <3>3. QED
      BY <3>1, <3>2 DEF OneMessage, InARow
  <2>3. QED
    BY <1>1, <2>1, <2>2
<1>4. \A m \in 2..Len(delivered') : LastHeard(m - 1)' < delivered'[m][1]
  <2> SUFFICES ASSUME NEW m \in 2..(n + 1) PROVE LastHeard(m - 1)' < delivered'[m][1]
    BY <1>1
  <2>1. m - 1 \in 1..n /\ delivered'[m - 1] = delivered[m - 1]
    BY <1>1
  <2>2. LastHeard(m - 1)' = LastHeard(m - 1)
    BY <2>1 DEF LastHeard
  <2>3. CASE m = n + 1
    <3>1. m - 1 = n /\ n > 0
      BY <1>1, <2>3
    <3>2. QED
      BY <1>1, <1>2, <2>2, <2>3, <3>1
  <2>4. CASE m \in 2..n
    <3>1. delivered'[m] = delivered[m]
      BY <1>1, <2>4
    <3>2. QED
      BY <1>2, <2>2, <2>4, <3>1
  <2>5. QED
    BY <1>1, <2>3, <2>4
<1>5. QED
  BY <1>1, <1>3, <1>4 DEF n

\* A frame of the hub's arrives: the next one and in its place, or the end.
LEMMA FrameArrivesKeeps ==
  ASSUME ChannelKnows, NEW i \in 1..MaxHubFrames, FrameArrives(i)
  PROVE  ChannelKnows'
<1> DEFINE marker   == hubFrames[i]
           buffered == Append(noise.reassembly, i)
<1>1. Ready /\ writer = NoSend /\ i \in 1..Len(hubFrames)
      /\ UNCHANGED <<hubSide, pin, over, outcome, writer, message, wire, hubFrames>>
  BY DEF FrameArrives, handshakeVars, sendVars
<1>2. /\ ChannelTypes /\ HeardKnows /\ noise \in NoiseFields /\ hubFrames \in Seq(Markers)
      /\ delivered \in Seq(Seq(1..MaxHubFrames)) /\ MaxHubFrames \in Nat /\ i \in Nat
      /\ Len(delivered) \in Nat /\ noise.received \in Nat
      /\ noise.reassembly \in Seq(1..MaxHubFrames) /\ Len(noise.reassembly) \in Nat
  <2>1. ChannelTypes /\ HeardKnows /\ noise \in NoiseFields /\ MaxHubFrames \in Nat
    BY ChannelAssumption DEF ChannelKnows, ChannelTypes
  <2>2. noise.received \in 0..MaxHubFrames /\ noise.reassembly \in Seq(1..MaxHubFrames)
    BY <2>1 DEF NoiseFields
  <2>3. hubFrames \in Seq(Markers) /\ delivered \in Seq(Seq(1..MaxHubFrames))
    BY <2>1 DEF ChannelTypes
  <2>4. QED
    BY <2>1, <2>2, <2>3
<1>3. CASE ~Decrypts(i)
  <2>1. ChannelEnds
    BY <1>1, <1>3 DEF FrameArrives, ChannelEnds, handshakeVars, sendVars, hearVars
  <2>2. QED
    BY <2>1, ChannelEndsKeeps
<1>4. ASSUME NEW new, noise' = new, new \in NoiseFields, new.session = noise.session,
             new.finalSent = noise.finalSent, new.pattern = noise.pattern, new.sent = noise.sent,
             delivered' \in Seq(Seq(1..MaxHubFrames)), HeardKnows'
      PROVE  ChannelKnows'
  <2>1. HandshakeKnows' /\ SendsKnow' /\ WireInOrder'
    BY <1>1, <1>4, HearingLeaves DEF handshakeVars, sendVars
  <2>2. ChannelTypes'
    BY <1>1, <1>2, <1>4 DEF ChannelTypes
  <2>3. QED
    BY <1>4, <2>1, <2>2 DEF ChannelKnows
<1>5. CASE /\ noise' = [noise EXCEPT !.received = i, !.failed = TRUE, !.reassembly = NoBuffer]
           /\ UNCHANGED delivered
  <2> DEFINE new == [noise EXCEPT !.received = i, !.failed = TRUE, !.reassembly = NoBuffer]
  <2>1. NoBuffer \in Seq(1..MaxHubFrames) /\ i \in 0..MaxHubFrames
    BY DEF NoBuffer
  <2>2. /\ new \in NoiseFields /\ new.session = noise.session /\ new.finalSent = noise.finalSent
        /\ new.pattern = noise.pattern /\ new.sent = noise.sent /\ new.failed
    BY <1>2, <2>1 DEF NoiseFields
  <2> HIDE DEF new
  <2>3. noise' = new
    BY <1>5 DEF new
  <2>4. HeardKnows'
    BY <1>1, <1>5, <2>2, <2>3, ChannelDown DEF Ready, sendVars, hearVars
  <2>5. QED
    BY <1>2, <1>4, <1>5, <2>2, <2>3, <2>4
<1>6. ASSUME Decrypts(i), NEW buffer \in Seq(1..MaxHubFrames),
             noise' = [[noise EXCEPT !.received = i, !.heard = TRUE] EXCEPT !.reassembly = buffer],
             delivered' \in Seq(Seq(1..MaxHubFrames)),
             \A m \in 1..Len(delivered') : OneMessage(delivered[m])',
             \A m \in 2..Len(delivered') : LastHeard(m - 1)' < delivered'[m][1],
             Len(delivered') > 0 => LastHeard(Len(delivered))' <= i,
             buffer # NoBuffer =>
               /\ Opens(buffer) /\ InARow(buffer) /\ buffer[Len(buffer)] = i
               /\ Len(delivered') > 0 => LastHeard(Len(delivered))' < buffer[1]
      PROVE  ChannelKnows'
  <2> DEFINE new == [[noise EXCEPT !.received = i, !.heard = TRUE] EXCEPT !.reassembly = buffer]
  <2>1. i \in 0..MaxHubFrames
    BY <1>2
  <2>2. /\ new \in NoiseFields /\ new.session = noise.session /\ new.finalSent = noise.finalSent
        /\ new.pattern = noise.pattern /\ new.sent = noise.sent
        /\ new.received = i /\ new.reassembly = buffer
    BY <1>2, <1>6, <2>1 DEF NoiseFields
  <2> HIDE DEF new
  <2>3. noise' = new
    BY <1>6 DEF new
  <2>4. /\ Len(hubFrames') = Len(hubFrames) /\ i <= Len(hubFrames')
        /\ noise'.received = i /\ noise'.reassembly = buffer
    BY <1>1, <1>2, <2>2, <2>3
  <2>5. buffer # NoBuffer => Opens(noise.reassembly)' /\ InARow(noise.reassembly)'
    BY <1>1, <1>6, <2>4 DEF Opens, InARow
  <2>6. HeardKnows'
    BY <1>6, <2>4, <2>5 DEF HeardKnows
  <2>7. QED
    BY <1>4, <1>6, <2>2, <2>3, <2>6
<1> HIDE DEF marker, buffered
<1>7. ASSUME Decrypts(i)
      PROVE  /\ i = noise.received + 1
             /\ Len(delivered) > 0 => LastHeard(Len(delivered)) <= noise.received
                                      /\ LastHeard(Len(delivered)) \in Nat
  <2>1. Len(delivered) > 0 => LastHeard(Len(delivered)) \in Nat
    <3> SUFFICES ASSUME Len(delivered) > 0 PROVE LastHeard(Len(delivered)) \in Nat
      OBVIOUS
    <3>1. PICK d : d = delivered[Len(delivered)]
      OBVIOUS
    <3>2. d \in Seq(1..MaxHubFrames) /\ Len(d) > 0
      BY <1>2, <3>1 DEF HeardKnows, OneMessage
    <3>3. QED
      BY <1>2, <3>1, <3>2 DEF LastHeard
  <2>2. QED
    BY <1>1, <1>2, <1>7, <2>1 DEF Decrypts, HeardKnows
<1>8. /\ buffered \in Seq(1..MaxHubFrames) /\ Len(buffered) = Len(noise.reassembly) + 1
      /\ buffered[Len(buffered)] = i
      /\ \A k \in 1..Len(noise.reassembly) : buffered[k] = noise.reassembly[k]
  BY <1>2, AppendProperties DEF buffered
\* What the buffer holds with the frame that follows it.
<1>9. ASSUME Decrypts(i), noise.reassembly # NoBuffer
      PROVE  /\ Len(noise.reassembly) > 0 /\ Opens(noise.reassembly) /\ InARow(buffered)
             /\ buffered[1] = noise.reassembly[1]
             /\ Len(delivered) > 0 => LastHeard(Len(delivered)) < buffered[1]
  <2>1. /\ Opens(noise.reassembly) /\ InARow(noise.reassembly)
        /\ noise.reassembly[Len(noise.reassembly)] = noise.received
        /\ Len(delivered) > 0 => LastHeard(Len(delivered)) < noise.reassembly[1]
    BY <1>1, <1>2, <1>9 DEF HeardKnows
  <2>2. Len(noise.reassembly) > 0
    BY <2>1 DEF Opens
  <2>3. buffered[1] = noise.reassembly[1]
    BY <1>2, <1>8, <2>2
  <2>4. \A k \in 1..Len(buffered) : buffered[k] <= Len(hubFrames)
    <3> SUFFICES ASSUME NEW k \in 1..(Len(noise.reassembly) + 1) PROVE buffered[k] <= Len(hubFrames)
      BY <1>8
    <3>1. CASE k = Len(noise.reassembly) + 1
      BY <1>1, <1>8, <3>1
    <3>2. CASE k \in 1..Len(noise.reassembly)
      BY <1>8, <2>1, <3>2 DEF InARow
    <3>3. Len(noise.reassembly) \in Nat
      BY <1>2
    <3>4. QED
      BY <3>1, <3>2, <3>3
  <2>5. \A k \in 1..Len(buffered) - 1 : buffered[k + 1] = buffered[k] + 1
    <3> SUFFICES ASSUME NEW k \in 1..Len(noise.reassembly) PROVE buffered[k + 1] = buffered[k] + 1
      BY <1>2, <1>8
    <3>1. CASE k = Len(noise.reassembly)
      <4>1. buffered[k] = noise.received /\ buffered[k + 1] = i
        BY <1>8, <2>1, <3>1
      <4>2. QED
        BY <1>7, <1>9, <4>1
    <3>2. CASE k \in 1..Len(noise.reassembly) - 1
      <4>1. buffered[k] = noise.reassembly[k] /\ buffered[k + 1] = noise.reassembly[k + 1]
        <5>1. k \in 1..Len(noise.reassembly) /\ k + 1 \in 1..Len(noise.reassembly)
          BY <1>2, <3>2
        <5>2. QED
          BY <1>8, <5>1
      <4>2. QED
        BY <2>1, <3>2, <4>1 DEF InARow
    <3>3. QED
      BY <1>2, <3>1, <3>2
  <2>6. QED
    BY <2>1, <2>2, <2>3, <2>4, <2>5 DEF InARow
<1>10. CASE /\ Decrypts(i) /\ marker = "whole" /\ noise.reassembly = NoBuffer
            /\ noise' = [[noise EXCEPT !.received = i, !.heard = TRUE]
                           EXCEPT !.reassembly = noise.reassembly]
            /\ delivered' = Append(delivered, <<i>>)
  <2>1. PICK d : d = <<i>>
    OBVIOUS
  <2>2. d \in Seq(1..MaxHubFrames) /\ Len(d) = 1 /\ d[1] = i
    BY <2>1
  <2>3. OneMessage(d)
    BY <1>1, <1>2, <1>10, <2>2 DEF OneMessage, InARow, marker
  <2>4. Len(delivered) > 0 => LastHeard(Len(delivered)) < d[1]
    BY <1>2, <1>7, <1>10, <2>2
  <2>5. /\ delivered' \in Seq(Seq(1..MaxHubFrames))
        /\ Len(delivered') = Len(delivered) + 1 /\ delivered'[Len(delivered')] = d
        /\ \A m \in 1..Len(delivered') : OneMessage(delivered[m])'
        /\ \A m \in 2..Len(delivered') : LastHeard(m - 1)' < delivered'[m][1]
    BY <1>1, <1>2, <1>10, <2>1, <2>2, <2>3, <2>4, DeliveredGrows
  <2>6. LastHeard(Len(delivered))' <= i
    <3>1. Len(delivered'[Len(delivered')]) = 1 /\ delivered'[Len(delivered')][1] = i
      BY <2>2, <2>5
    <3>2. QED
      BY <1>2, <3>1 DEF LastHeard
  <2>7. QED
    BY <1>2, <1>6, <1>10, <2>5, <2>6
<1>11. CASE /\ Decrypts(i) /\ marker = "last" /\ noise.reassembly # NoBuffer
            /\ noise' = [[noise EXCEPT !.received = i, !.heard = TRUE] EXCEPT !.reassembly = NoBuffer]
            /\ delivered' = Append(delivered, buffered)
  <2>1. OneMessage(buffered)
    <3>1. /\ Len(noise.reassembly) > 0 /\ InARow(buffered)
          /\ buffered[1] = noise.reassembly[1] /\ hubFrames[noise.reassembly[1]] = "first"
          /\ \A k \in 2..Len(noise.reassembly) : hubFrames[noise.reassembly[k]] = "more"
      BY <1>9, <1>11 DEF Opens
    <3>2. \A k \in 2..Len(buffered) - 1 : hubFrames[buffered[k]] = "more"
      <4> SUFFICES ASSUME NEW k \in 2..Len(noise.reassembly) PROVE hubFrames[buffered[k]] = "more"
        BY <1>2, <1>8
      <4>1. k \in 1..Len(noise.reassembly)
        BY <1>2
      <4>2. QED
        BY <1>8, <3>1, <4>1
    <3>3. hubFrames[buffered[Len(buffered)]] = "last" /\ Len(buffered) > 1
      BY <1>2, <1>8, <1>11, <3>1 DEF marker
    <3>4. QED
      BY <3>1, <3>2, <3>3 DEF OneMessage
  <2>2. /\ delivered' \in Seq(Seq(1..MaxHubFrames))
        /\ Len(delivered') = Len(delivered) + 1 /\ delivered'[Len(delivered')] = buffered
        /\ \A m \in 1..Len(delivered') : OneMessage(delivered[m])'
        /\ \A m \in 2..Len(delivered') : LastHeard(m - 1)' < delivered'[m][1]
    <3>1. PICK d : d = buffered
      OBVIOUS
    <3>2. QED
      BY <1>1, <1>2, <1>8, <1>9, <1>11, <2>1, <3>1, DeliveredGrows
  <2>3. LastHeard(Len(delivered))' <= i
    BY <1>2, <1>8, <2>2 DEF LastHeard
  <2>4. NoBuffer \in Seq(1..MaxHubFrames)
    BY DEF NoBuffer
  <2>5. QED
    BY <1>6, <1>11, <2>2, <2>3, <2>4
<1>12. CASE /\ Decrypts(i)
            /\ \/ marker = "first" /\ noise.reassembly = NoBuffer
               \/ marker = "more" /\ noise.reassembly # NoBuffer
            /\ noise' = [[noise EXCEPT !.received = i, !.heard = TRUE] EXCEPT !.reassembly = buffered]
            /\ UNCHANGED delivered
  <2>1. Opens(buffered) /\ InARow(buffered)
        /\ (Len(delivered) > 0 => LastHeard(Len(delivered)) < buffered[1])
    <3>1. CASE marker = "first" /\ noise.reassembly = NoBuffer
      <4>1. Len(buffered) = 1 /\ buffered[1] = i
        BY <1>8, <3>1 DEF NoBuffer
      <4>2. QED
        BY <1>1, <1>2, <1>7, <1>12, <3>1, <4>1 DEF Opens, InARow, marker
    <3>2. CASE marker = "more" /\ noise.reassembly # NoBuffer
      <4>1. Opens(buffered)
        <5>1. /\ Len(noise.reassembly) > 0
              /\ buffered[1] = noise.reassembly[1] /\ hubFrames[noise.reassembly[1]] = "first"
              /\ \A k \in 2..Len(noise.reassembly) : hubFrames[noise.reassembly[k]] = "more"
          BY <1>9, <1>12, <3>2 DEF Opens
        <5>2. \A k \in 2..Len(buffered) : hubFrames[buffered[k]] = "more"
          <6> SUFFICES ASSUME NEW k \in 2..(Len(noise.reassembly) + 1)
                       PROVE hubFrames[buffered[k]] = "more"
            BY <1>8
          <6>1. CASE k = Len(noise.reassembly) + 1
            BY <1>8, <3>2, <6>1 DEF marker
          <6>2. CASE k \in 2..Len(noise.reassembly)
            <7>1. k \in 1..Len(noise.reassembly)
              BY <1>2, <6>2
            <7>2. QED
              BY <1>8, <5>1, <6>2, <7>1
          <6>3. QED
            BY <1>2, <6>1, <6>2
        <5>3. QED
          BY <1>2, <1>8, <5>1, <5>2 DEF Opens
      <4>2. QED
        BY <1>9, <1>12, <3>2, <4>1
    <3>3. QED
      BY <1>12, <3>1, <3>2
  <2>2. /\ delivered' \in Seq(Seq(1..MaxHubFrames))
        /\ \A m \in 1..Len(delivered') : OneMessage(delivered[m])'
        /\ \A m \in 2..Len(delivered') : LastHeard(m - 1)' < delivered'[m][1]
        /\ Len(delivered') > 0 => LastHeard(Len(delivered))' <= i
    <3>1. UNCHANGED <<delivered, hubFrames>>
      BY <1>1, <1>12
    <3>2. /\ \A m \in 1..Len(delivered) : OneMessage(delivered[m])
          /\ \A m \in 2..Len(delivered) : LastHeard(m - 1) < delivered[m][1]
          /\ Len(delivered) > 0 => LastHeard(Len(delivered)) <= i
      BY <1>2, <1>7, <1>12 DEF HeardKnows
    <3>3. QED
      BY <1>2, <3>1, <3>2 DEF OneMessage, InARow, LastHeard
  <2>3. Len(delivered') > 0 => LastHeard(Len(delivered))' < buffered[1]
    BY <1>12, <2>1 DEF LastHeard
  <2>4. QED
    BY <1>6, <1>8, <1>12, <2>1, <2>2, <2>3
<1>13. QED
  BY <1>1, <1>3, <1>5, <1>10, <1>11, <1>12 DEF FrameArrives, InSequence, Markers, marker, buffered


LEMMA ChannelKeeps == ChannelKnows /\ [ChannelNext]_channelVars => ChannelKnows'
<1> SUFFICES ASSUME ChannelKnows, [ChannelNext]_channelVars PROVE ChannelKnows'
  OBVIOUS
<1>1. CASE HandshakeNext
  BY <1>1, HandshakeKeeps
<1>2. CASE SendNext
  BY <1>2, ChannelEndsKeeps, QueueKeeps, ChunkWrittenKeeps DEF SendNext
<1>3. CASE HearNext
  BY <1>3, ChannelEndsKeeps, HubSendsKeeps, FrameArrivesKeeps DEF HearNext
<1>4. CASE UNCHANGED channelVars
  <2>0. UNCHANGED <<hubSide, pin, noise, over, outcome, writer, message, wire, hubFrames, delivered>>
    BY <1>4 DEF channelVars
  <2>1. ChannelTypes' /\ HandshakeKnows'
    BY <2>0 DEF ChannelKnows, ChannelTypes, HandshakeKnows
  <2>2. SendsKnow' /\ WireInOrder'
    <3>1. \A s \in ChannelSends : Chunks(s)' = Chunks(s)
      BY <2>0 DEF Chunks
    <3>2. \A s \in ChannelSends : SendTells(s)'
      BY <2>0, <3>1 DEF ChannelKnows, SendsKnow, SendTells
    <3>3. WriterKnows' /\ WireInOrder'
      BY <2>0 DEF ChannelKnows, SendsKnow, WriterKnows, WireInOrder, Ready
    <3>4. QED
      BY <3>2, <3>3 DEF SendsKnow
  <2>3. HeardKnows'
    BY <2>0 DEF ChannelKnows, HeardKnows, OneMessage, InARow, Opens, LastHeard, Ready
  <2>4. QED
    BY <2>1, <2>2, <2>3 DEF ChannelKnows
<1>5. QED
  BY <1>1, <1>2, <1>3, <1>4 DEF ChannelNext

\* What is known makes the session honest.
LEMMA ChannelKnowsHonest == ChannelKnows => ChannelHonest
<1> SUFFICES ASSUME ChannelKnows PROVE ChannelHonest
  OBVIOUS
<1>1. HandshakeTruth
  BY DEF ChannelKnows, HandshakeKnows, HandshakeTruth, Ready
<1>2. WireWhole
  BY DEF ChannelKnows, WireInOrder, SendsKnow, SendTells, Chunks, WireWhole
<1>3. HeardWhole
  <2> SUFFICES ASSUME NEW m \in 1..Len(delivered)
               PROVE  LET d == delivered[m]
                      IN  /\ \A k \in 1..Len(d) - 1 : d[k + 1] = d[k] + 1
                          /\ Len(d) = 1 => hubFrames[d[1]] = "whole"
                          /\ Len(d) > 1 => /\ hubFrames[d[1]] = "first" /\ hubFrames[d[Len(d)]] = "last"
                                           /\ \A k \in 2..Len(d) - 1 : hubFrames[d[k]] = "more"
                          /\ m > 1 => delivered[m - 1][Len(delivered[m - 1])] < d[1]
    BY DEF HeardWhole
  <2>1. OneMessage(delivered[m])
    BY DEF ChannelKnows, HeardKnows
  <2>2. m > 1 => LastHeard(m - 1) < delivered[m][1]
    <3>1. m > 1 => m \in 2..Len(delivered)
      OBVIOUS
    <3>2. QED
      BY <3>1 DEF ChannelKnows, HeardKnows
  <2>3. QED
    BY <2>1, <2>2 DEF OneMessage, InARow, LastHeard
<1>4. QED
  BY <1>1, <1>2, <1>3 DEF ChannelHonest

--------------------------------------------------------------------------------
(***************************************************************************)
(* The carriers side by side.                                              *)
(***************************************************************************)
CarriersKnow == carrier \in CarrierParts /\ ChannelKnows /\ HTTPKnows /\ MQTTKnows

LEMMA CarriersKnowInit == Init => CarriersKnow
<1> SUFFICES ASSUME Init PROVE CarriersKnow
  OBVIOUS
<1>1. ChannelKnows
  <2>1. CASE carrier = "handshake"
    <3>1. ChannelInitWith(Hubs, {"none", "ours"})
      BY <2>1 DEF Init, ChannelInit
    <3>2. QED
      BY <3>1, ChannelKnowsInit
  <2>2. CASE carrier # "handshake"
    <3>1. ChannelInitWith({TrustedHub}, {"none"})
      BY <2>2 DEF Init
    <3>2. {TrustedHub} \subseteq Hubs
      BY DEF TrustedHub, Hubs
    <3>3. QED
      BY <3>1, <3>2, ChannelKnowsInit
  <2>3. QED
    BY <2>1, <2>2
<1>2. HTTPKnows /\ MQTTKnows /\ carrier \in CarrierParts
  BY HTTPKnowsInit, MQTTKnowsInit DEF Init
<1>3. QED
  BY <1>1, <1>2 DEF CarriersKnow

\* Whatever part moves, the others are at rest.
LEMMA PartsMove ==
  ASSUME [Next]_carrierVars
  PROVE  /\ [ChannelNext]_channelVars /\ [HTTPNext]_httpVars /\ [MQTTNext]_mqttVars
         /\ UNCHANGED carrier
<1>1. CASE Next
  BY <1>1 DEF Next, ChannelNext
<1>2. CASE UNCHANGED carrierVars
  BY <1>2 DEF carrierVars
<1>3. QED
  BY <1>1, <1>2

LEMMA CarriersKeep == CarriersKnow /\ [Next]_carrierVars => CarriersKnow'
<1> SUFFICES ASSUME CarriersKnow, [Next]_carrierVars PROVE CarriersKnow'
  OBVIOUS
<1>1. ChannelKnows' /\ HTTPKnows' /\ MQTTKnows'
  BY PartsMove, ChannelKeeps, HTTPKeeps, MQTTKeeps DEF CarriersKnow
<1>2. QED
  BY <1>1, PartsMove DEF CarriersKnow

\* Every carrier keeps what it knows of its locks, sessions and loops, and the
\* channel what it knows of the frames written and heard, for any number of
\* sends, chunks, frames, sessions and generations (transport.go,
\* transport_mqtt.go, transport_noise.go, noise.go).
THEOREM CarriersInvariance == Spec => []CarriersKnow
BY CarriersKnowInit, CarriersKeep, PTL DEF Spec

\* The types of the channel, the HTTP transport and the MQTT transport hold.
THEOREM CarriersTyped == Spec => []TypeOK
<1>1. CarriersKnow => TypeOK
  BY ChannelTyped, HTTPTyped DEF CarriersKnow, ChannelKnows, HTTPKnows, MQTTKnows, TypeOK
<1>2. QED
  BY <1>1, CarriersInvariance, PTL

\* A session is with the pinned hub and one that knows the password, and each
\* verdict is what happened; chunks are written in order under the session's
\* counters and whole when the caller is told so; and the application is handed
\* whole messages of the hub's, in order and once (continueHandshake, verdict,
\* sendRetiring and receive in transport_noise.go, decryptFrame in noise.go).
THEOREM ChannelAlwaysHonest == Spec => []ChannelHonest
<1>1. CarriersKnow => ChannelHonest
  BY ChannelKnowsHonest DEF CarriersKnow
<1>2. QED
  BY <1>1, CarriersInvariance, PTL

\* An HTTP session that is up has its one poll loop, and an MQTT generation
\* tells its readiness at most once (pollDone in transport.go, handshakeReady
\* in transport_mqtt.go).
THEOREM LinksAlwaysKept == Spec => []LinksKept
<1>1. CarriersKnow => LinksKept
  BY HTTPUpIsPolled, MQTTSignalsOnce DEF CarriersKnow, LinksKept
<1>2. QED
  BY <1>1, CarriersInvariance, PTL

\* A poll loop, a handler or a write that outlived its session or generation
\* ends no other than its own (failSession and pollLoop of transport.go,
\* failGeneration of transport_mqtt.go).
THEOREM NothingOldHurtsEver == Spec => NothingOldHurts
<1>1. CarriersKnow /\ [Next]_carrierVars => OldSessionsHarmless /\ OldGenerationsHarmless
  <2>1. ASSUME CarriersKnow, [Next]_carrierVars
        PROVE  OldSessionsHarmless /\ OldGenerationsHarmless
    BY <2>1, PartsMove, HTTPHarmless, MQTTHarmless DEF CarriersKnow
  <2>2. QED
    BY <2>1
<1>2. CarriersKnow /\ [Next]_carrierVars => [OldSessionsHarmless /\ OldGenerationsHarmless]_carrierVars
  BY <1>1
<1>3. QED
  BY <1>2, CarriersInvariance, PTL DEF Spec, NothingOldHurts
================================================================================
