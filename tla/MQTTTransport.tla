-------------------------------- MODULE MQTTTransport --------------------------------
(***************************************************************************)
(* The MQTT carrier (transport_mqtt.go).  The broker's callbacks run on    *)
(* their own goroutines and a handler may be inside a receive while the    *)
(* client it belongs to is closed and another one opened: a generation     *)
(* tells them apart.  Connect waits on two channels of its generation,     *)
(* each closed by whoever gets there, and closing one twice would panic.   *)
(***************************************************************************)
EXTENDS Integers, FiniteSets

CONSTANT MaxGenerations  \* clients closed, which is what starts a generation (bounds the model)

ASSUME MQTTAssumption == MaxGenerations \in Nat

VARIABLES
  mqttOwner,  \* who holds lifecycleMu
  mqtt,       \* the transport's fields
  clients,    \* clients[g]: the client of generation g, its channel and its handler
  signals,    \* signals[g]: how often handshakeReady and failureReady were closed
  mqttConnect \* connectAttempt: where it is, what the last one told its caller

mqttVars == <<mqttOwner, mqtt, clients, signals, mqttConnect>>

Generations == 0..MaxGenerations

MQTTTypeOK ==
  /\ mqttOwner \in {"free", "connect", "disconnect", "send"}
  /\ mqtt \in [generation : Generations, client : BOOLEAN, connected : BOOLEAN,
               handshake : BOOLEAN, failedLast : BOOLEAN,
               phase : {"idle", "connecting", "handshake", "ready", "error", "closed"}]
  /\ clients \in [Generations -> [opened : BOOLEAN, session : BOOLEAN, failed : BOOLEAN,
                    handler : {"none", "receiving", "heard", "failing"},
                    writing : {"none", "waited", "alone"}, retiring : BOOLEAN]]
  /\ signals \in [Generations -> [ready : 0..2, failure : 0..2]]
  /\ mqttConnect \in [at : {"idle", "close", "drain", "begin", "open", "subscribe", "publish",
                            "wait", "undo", "undone"},
                      told : {"none", "ok", "error"}]

MQTTInit ==
  /\ mqttOwner = "free"
  /\ mqtt = [generation |-> 0, client |-> FALSE, connected |-> FALSE, handshake |-> FALSE,
             failedLast |-> FALSE, phase |-> "idle"]
  /\ clients = [g \in Generations |-> [opened |-> FALSE, session |-> FALSE, failed |-> FALSE,
                  handler |-> "none", writing |-> "none", retiring |-> FALSE]]
  /\ signals = [g \in Generations |-> [ready |-> 0, failure |-> 0]]
  /\ mqttConnect = [at |-> "idle", told |-> "none"]

--------------------------------------------------------------------------------
\* failConnection.
ConnectionFailed ==
  [mqtt EXCEPT !.connected = FALSE, !.handshake = FALSE, !.failedLast = TRUE, !.phase = "error"]

\* Mutant: what a generation left behind fails the one that followed it.
AnyGeneration(g) == mqtt.connected

\* failGeneration acts for its own generation, and once.
OwnGeneration(g) == mqtt.generation = g /\ mqtt.connected

\* failGeneration.
FailsGeneration(g) ==
  IF OwnGeneration(g)
  THEN /\ mqtt' = ConnectionFailed
       /\ signals' = [signals EXCEPT ![mqtt.generation].failure = @ + 1]
  ELSE UNCHANGED <<mqtt, signals>>

MConnectAt(at) == mqttConnect' = [mqttConnect EXCEPT !.at = at]

\* closeClient first makes the next generation the one there is.
Closed ==
  [mqtt EXCEPT !.generation = @ + 1, !.client = FALSE, !.connected = FALSE, !.handshake = FALSE]

CanClose == mqtt.generation < MaxGenerations

\* closeClient then waits for the channel's lock, which a frame being written
\* holds, to fail it; connect and disconnect hold lifecycleMu meanwhile.
Drains ==
  \A g \in Generations :
    g = mqtt.generation - 1 =>
      clients[g].writing = "none" /\ clients' = [clients EXCEPT ![g].failed = TRUE]

--------------------------------------------------------------------------------
(***************************************************************************)
(* connectAttempt.                                                         *)
(***************************************************************************)
MConnectBegins ==
  /\ mqttConnect.at = "idle" /\ mqttOwner = "free" /\ mqtt.generation < MaxGenerations
  /\ IF mqtt.connected /\ mqtt.handshake
     THEN mqttConnect' = [at |-> "idle", told |-> "ok"] /\ UNCHANGED mqttOwner
     ELSE mqttConnect' = [at |-> "close", told |-> "none"] /\ mqttOwner' = "connect"
  /\ UNCHANGED <<mqtt, clients, signals>>

MConnectCloses ==
  /\ \/ /\ mqttConnect.at = "close" /\ CanClose
        /\ mqtt' = Closed /\ MConnectAt("drain") /\ UNCHANGED clients
     \/ mqttConnect.at = "drain" /\ Drains /\ MConnectAt("begin") /\ UNCHANGED mqtt
  /\ UNCHANGED <<mqttOwner, signals>>

\* beginConnection, the identity's checks, the client and its channel.
MConnectPrepares ==
  /\ mqttConnect.at = "begin"
  /\ LET begun == [mqtt EXCEPT !.failedLast = FALSE, !.phase = "connecting"]
     IN  \/ mqtt' = [begun EXCEPT !.client = TRUE] /\ MConnectAt("open")
            /\ clients' = [clients EXCEPT ![mqtt.generation].opened = TRUE]
         \/ mqtt' = [begun EXCEPT !.failedLast = TRUE, !.phase = "error"] /\ MConnectAt("undo")
            /\ UNCHANGED clients
  /\ UNCHANGED <<mqttOwner, signals>>

\* client.Connect, Subscribe, and the two publishes: each may fail.
MConnectOpens ==
  /\ \/ /\ mqttConnect.at = "open"
        /\ mqtt' = [mqtt EXCEPT !.connected = TRUE, !.phase = "handshake"] /\ MConnectAt("subscribe")
     \/ /\ mqttConnect.at = "subscribe" /\ UNCHANGED mqtt /\ MConnectAt("publish")
     \/ /\ mqttConnect.at = "publish" /\ UNCHANGED mqtt /\ MConnectAt("wait")
     \/ /\ mqttConnect.at \in {"open", "subscribe", "publish"}
        /\ mqtt' = ConnectionFailed /\ MConnectAt("undo")
  /\ UNCHANGED <<mqttOwner, clients, signals>>

\* The select: a failure, the deadline, or, whatever else is so, readiness.
MConnectWaits ==
  /\ mqttConnect.at = "wait"
  /\ \/ /\ signals[mqtt.generation].ready > 0
        /\ mqtt' = [mqtt EXCEPT !.phase = "ready"]
        /\ mqttConnect' = [at |-> "idle", told |-> "ok"] /\ mqttOwner' = "free"
     \/ /\ signals[mqtt.generation].failure > 0
        /\ UNCHANGED <<mqtt, mqttOwner>> /\ MConnectAt("undo")
     \/ mqtt' = ConnectionFailed /\ MConnectAt("undo") /\ UNCHANGED mqttOwner
  /\ UNCHANGED <<clients, signals>>

\* The deferred closeClient and failConnection.
MConnectUndoes ==
  /\ \/ /\ mqttConnect.at = "undo" /\ CanClose
        /\ mqtt' = Closed /\ MConnectAt("undone") /\ UNCHANGED <<mqttOwner, clients>>
     \/ /\ mqttConnect.at = "undone" /\ Drains
        /\ mqtt' = ConnectionFailed
        /\ mqttConnect' = [at |-> "idle", told |-> "error"] /\ mqttOwner' = "free"
  /\ UNCHANGED signals

\* Disconnect: the offline status, closeClient, the closed phase.
MDisconnects ==
  /\ \/ /\ mqttOwner = "free" /\ CanClose
        /\ mqtt' = Closed /\ mqttOwner' = "disconnect" /\ UNCHANGED clients
     \/ /\ mqttOwner = "disconnect" /\ Drains
        /\ mqtt' = [mqtt EXCEPT !.phase = "closed"] /\ mqttOwner' = "free"
  /\ UNCHANGED <<signals, mqttConnect>>

--------------------------------------------------------------------------------
(***************************************************************************)
(* The broker's callbacks, and sends.                                      *)
(***************************************************************************)
HandlerAt(g, at) == clients' = [clients EXCEPT ![g].handler = at]

BrokerDrops(g) ==
  /\ clients[g].opened /\ FailsGeneration(g)
  /\ UNCHANGED <<mqttOwner, clients, mqttConnect>>

\* The publish handler looks first whether its client is still the one.
MessageArrives(g) ==
  /\ clients[g].handler = "none" /\ clients[g].opened
  /\ mqtt.generation = g /\ mqtt.connected /\ mqtt.client
  /\ HandlerAt(g, "receiving")
  /\ UNCHANGED <<mqttOwner, mqtt, signals, mqttConnect>>

\* channel.receive, under the channel's lock: a step of the handshake, a frame
\* of the session, or an error.
Receives(g) ==
  /\ clients[g].handler = "receiving" /\ clients[g].writing = "none"
  /\ \/ clients' = [clients EXCEPT ![g].handler = "failing", ![g].failed = TRUE]
     \/ /\ ~clients[g].failed
        /\ \E session \in {clients[g].session, TRUE} :
             clients' = [clients EXCEPT ![g].session = session,
                           ![g].handler = IF session THEN "heard" ELSE "none"]
  /\ UNCHANGED <<mqttOwner, mqtt, signals, mqttConnect>>

\* Mutant: every frame of the session closes the channel connect waits on.
EachTime(g) == mqtt.generation = g /\ mqtt.connected

\* The channel is the one in use, and its readiness has not been told.
ReadinessIsNew(g) == mqtt.generation = g /\ mqtt.connected /\ ~mqtt.handshake

\* receive, back under the transport's lock.
TellsReady(g) ==
  /\ clients[g].handler = "heard"
  /\ IF ReadinessIsNew(g) /\ ~clients[g].failed
     THEN /\ mqtt' = [mqtt EXCEPT !.handshake = TRUE]
          /\ signals' = [signals EXCEPT ![g].ready = @ + 1]
     ELSE UNCHANGED <<mqtt, signals>>
  /\ HandlerAt(g, "none")
  /\ UNCHANGED <<mqttOwner, mqttConnect>>

HandlerFails(g) ==
  /\ clients[g].handler = "failing"
  /\ FailsGeneration(g) /\ HandlerAt(g, "none")
  /\ UNCHANGED <<mqttOwner, mqttConnect>>

MSendBegins(g) ==
  /\ mqttOwner = "free" /\ mqtt.generation = g /\ mqtt.connected
  /\ clients[g].session /\ ~clients[g].failed /\ clients[g].writing = "none"
  /\ mqttOwner' = "send" /\ clients' = [clients EXCEPT ![g].writing = "waited"]
  /\ UNCHANGED <<mqtt, signals, mqttConnect>>

MSendLeft(g) ==
  /\ clients[g].writing = "waited"
  /\ mqttOwner' = "free" /\ clients' = [clients EXCEPT ![g].writing = "alone"]
  /\ UNCHANGED <<mqtt, signals, mqttConnect>>

MWriteEnds(g) ==
  /\ clients[g].writing # "none"
  /\ \E failed \in BOOLEAN :
       clients' = [clients EXCEPT ![g].writing = "none", ![g].failed = @ \/ failed,
                                  ![g].retiring = @ \/ failed]
  /\ mqttOwner' = IF clients[g].writing = "waited" THEN "free" ELSE mqttOwner
  /\ UNCHANGED <<mqtt, signals, mqttConnect>>

MWriteRetires(g) ==
  /\ clients[g].retiring
  /\ FailsGeneration(g) /\ clients' = [clients EXCEPT ![g].retiring = FALSE]
  /\ UNCHANGED <<mqttOwner, mqttConnect>>

--------------------------------------------------------------------------------
MQTTNext ==
  \/ MConnectBegins \/ MConnectCloses \/ MConnectPrepares \/ MConnectOpens \/ MConnectWaits
  \/ MConnectUndoes \/ MDisconnects
  \/ \E g \in Generations :
       \/ BrokerDrops(g) \/ MessageArrives(g) \/ Receives(g) \/ TellsReady(g) \/ HandlerFails(g)
       \/ MSendBegins(g) \/ MSendLeft(g) \/ MWriteEnds(g) \/ MWriteRetires(g)

MQTTSpec == MQTTInit /\ [][MQTTNext]_mqttVars

--------------------------------------------------------------------------------
\* Each generation's two channels are closed once at most, though the broker,
\* a handler and the write of a caller who left may each be the one to do it;
\* a second close would panic.  A connect that says it made the session made
\* it: the handshake completed on the generation it opened, and what ended it
\* since was told (transport_mqtt.go:183-186, 317-318, 358-366).
SignalsOnce ==
  /\ \A g \in Generations : signals[g].ready <= 1 /\ signals[g].failure <= 1
  /\ mqtt.handshake => mqtt.connected /\ signals[mqtt.generation].ready = 1
  /\ mqttConnect.told = "ok" /\ mqtt.client =>
       /\ signals[mqtt.generation].ready = 1
       /\ mqtt.connected \/ signals[mqtt.generation].failure = 1

\* A step of what is left of a generation fails no other one (transport_mqtt.go:339-340).
OldGenerationsHarmless ==
  \A g \in Generations :
    \/ clients[g].handler = "failing" /\ clients'[g].handler # "failing"
    \/ clients[g].retiring /\ ~clients'[g].retiring
    => mqtt.generation = g \/ UNCHANGED <<mqtt, signals>>

================================================================================
