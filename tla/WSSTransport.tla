------------------------------ MODULE WSSTransport ------------------------------
(***************************************************************************)
(* The WebSocket transport (transport_wss.go): goroutines that Connect and *)
(* Disconnect, one read loop for each socket that was opened, and writers  *)
(* of application frames.  They meet in the fields t.mu guards, here link, *)
(* and generation tells one connection from the next: Disconnect does not  *)
(* wait for a read loop to exit.  Every section under t.mu is one action.  *)
(*                                                                         *)
(* One hub answers, in the way its kind tells: it accepts, rejects the     *)
(* access key or the password, has another key than the one pinned, or has *)
(* pinned another key for this client.  The Noise handshake is modelled by *)
(* who can authenticate what: KKpsk0 fails at the hub, which only closes;  *)
(* XXpsk2 tells the client more.                                           *)
(***************************************************************************)
EXTENDS Naturals

CONSTANTS
  Callers,       \* goroutines that call Connect and Disconnect
  Writers,       \* goroutines that send application frames
  Hubs,          \* the kinds of hub: a subset of HubKinds
  Deadlines,     \* the callers whose context may end
  MaxGeneration, \* bound: connection generations
  None           \* nil

HubKinds == {"good", "access", "password", "hubKey", "clientKey"}

ASSUME KindsAssumption == Hubs \subseteq HubKinds
ASSUME RolesAssumption == Deadlines \subseteq Callers /\ None \notin Writers
ASSUME BoundAssumption == MaxGeneration \in Nat

Generations == 1 .. MaxGeneration

VARIABLES
  hub,        \* the kind of hub that answers
  generation, \* t.generation
  link,       \* the fields of the current connection
  forceXX,    \* t.forceXX
  attempt,    \* t.attempt, named by its first generation; 0 is nil
  writing,    \* who owns t.writeMu
  stored,     \* what is kept between connections: the hub's pin, a stale PSK
  socket,     \* socket[g]: the socket dialled for generation g
  ready,      \* ready[g]: the handshakeReady channel of g is closed
  done,       \* done[g]: the readDone channel of g is closed
  reader,     \* reader[g]: the read loop of g
  caller,     \* caller[p]: the call goroutine p makes
  writer      \* writer[w]: the frame goroutine w sends

vars == <<hub, generation, link, forceXX, attempt, writing, stored, socket,
          ready, done, reader, caller, writer>>

channels  == <<ready, done>>
transport == <<generation, link, forceXX, attempt>>

\* What a Connect comes to: nil, or the error it wraps.
Verdicts == {"nil", "timeout", "lost", "refused", "hubKey", "clientKey"}
Causes   == {"none", "lost", "refused", "hubKey", "timeout"}
Patterns == {"none", "KK", "XX"}

\* A socket is open, was closed by the peer with a refusal's code or otherwise,
\* or was closed here.
SocketStates == {"none", "open", "refusal", "other", "closed"}

ReaderPlaces == {"none", "read", "message1", "final", "pin", "greet", "finish",
                 "record", "signal", "gone"}
CallerPlaces == {"idle", "joined", "dial", "adopt", "waiting", "poison",
                 "conclude", "disconnecting"}
WriterPlaces == {"idle", "queued", "writing"}

TypeOK ==
  /\ hub \in Hubs
  /\ generation \in 0 .. MaxGeneration
  /\ link \in [conn : 0 .. MaxGeneration, connected : BOOLEAN,
               handshake : BOOLEAN, lastError : Causes, refused : BOOLEAN,
               keyRejected : BOOLEAN, heard : BOOLEAN, finalSent : BOOLEAN,
               pattern : Patterns]
  /\ forceXX \in BOOLEAN
  /\ attempt \in 0 .. MaxGeneration
  /\ writing \in Writers \cup {None}
  /\ stored \in [pinned : BOOLEAN, stalePSK : BOOLEAN]
  /\ socket \in [Generations -> SocketStates]
  /\ ready \in [Generations -> BOOLEAN]
  /\ done \in [Generations -> BOOLEAN]
  /\ reader \in [Generations ->
       [at : ReaderPlaces, err : Causes, heard : {"nothing", "hello", "offer", "answer"},
        sent : {"nothing", "message1", "final", "greeting"}, pattern : Patterns]]
  /\ caller \in [Callers ->
       [at : CallerPlaces, my : 0 .. MaxGeneration, first : 0 .. MaxGeneration,
        old : 0 .. MaxGeneration, ended : BOOLEAN, result : Verdicts \cup {"none"}]]
  /\ writer \in [Writers -> [at : WriterPlaces, my : 0 .. MaxGeneration]]
  /\ link.conn # 0 => socket[link.conn] # "none"
  /\ link.connected => link.conn = generation

Down == [conn |-> 0, connected |-> FALSE, handshake |-> FALSE,
         lastError |-> "none", refused |-> FALSE, keyRejected |-> FALSE,
         heard |-> FALSE, finalSent |-> FALSE, pattern |-> "none"]

\* Goroutines with nothing to do.
NoReader == [at |-> "none", err |-> "none", heard |-> "nothing", sent |-> "nothing",
             pattern |-> "none"]
NoCall   == [at |-> "idle", my |-> 0, first |-> 0, old |-> 0, ended |-> FALSE,
             result |-> "none"]
NoFrame  == [at |-> "idle", my |-> 0]

Init ==
  /\ hub \in Hubs
  /\ generation = 0
  /\ link = Down
  /\ forceXX = FALSE
  /\ attempt = 0
  /\ writing = None
  /\ stored \in [pinned : IF hub = "hubKey" THEN {TRUE} ELSE BOOLEAN,
                 stalePSK : IF hub = "good" THEN BOOLEAN ELSE {FALSE}]
  /\ socket = [g \in Generations |-> "none"]
  /\ ready = [g \in Generations |-> FALSE]
  /\ done = [g \in Generations |-> FALSE]
  /\ reader = [g \in Generations |-> NoReader]
  /\ caller = [p \in Callers |-> NoCall]
  /\ writer = [w \in Writers |-> NoFrame]

--------------------------------------------------------------------------------
(***************************************************************************)
(* Helpers.                                                                *)
(***************************************************************************)

Ready == link.connected /\ link.handshake /\ link.conn # 0

\* generationCurrentLocked, for the read loop of g.
Current(g) == generation = g /\ link.connected /\ link.conn # 0

\* Closing a socket here; one the peer has closed stays as it was.
Shut(g) == IF g # 0 THEN [socket EXCEPT ![g] = "closed"] ELSE socket

\* Down, as Disconnect and poisonGeneration leave it: what the last attempt
\* met is kept.
ClearedStillConnected == [link EXCEPT !.conn = 0, !.handshake = FALSE]    \* mutant
Cleared == [link EXCEPT !.conn = 0, !.connected = FALSE, !.handshake = FALSE]

\* Callers and readers move on.
CallerGoes(p, place) == caller' = [caller EXCEPT ![p].at = place]
CallerFails(p, place, verdict) ==
  caller' = [caller EXCEPT ![p].at = place, ![p].result = verdict]
ReaderGoes(g, place) == reader' = [reader EXCEPT ![g].at = place]
ReaderFails(g, cause) ==
  reader' = [reader EXCEPT ![g].at = "record", ![g].err = cause]

\* beginConnectionLocked: a new generation with nothing of the last one left.
BeginConnection ==
  /\ generation' = generation + 1
  /\ link' = Down

\* poisonGeneration: only the captured generation and socket are retired.
Poison(g, conn, cause) ==
  IF generation = g /\ (conn = 0 \/ link.conn = conn)
    THEN link' = [Cleared EXCEPT !.lastError = cause]
    ELSE UNCHANGED link

--------------------------------------------------------------------------------
(***************************************************************************)
(* Connect.  A transport that is Ready answers nil at once.                *)
(***************************************************************************)

\* The bound: with no generation left nothing begins, a retry included.
MayBegin == generation < MaxGeneration

ConnectBegins(p) ==
  /\ caller[p].at = "idle"
  /\ ~Ready /\ attempt = 0 /\ MayBegin
  /\ forceXX' = FALSE
  /\ BeginConnection
  /\ attempt' = generation + 1
  /\ caller' = [caller EXCEPT ![p] =
                  [NoCall EXCEPT !.at = "dial", !.my = generation + 1,
                                 !.first = generation + 1, !.old = link.conn]]
  /\ UNCHANGED <<hub, writing, stored, socket, channels, reader, writer>>

\* Another Connect is under way: this one waits for what it comes to.
ConnectJoins(p) ==
  /\ caller[p].at = "idle"
  /\ ~Ready /\ attempt # 0
  /\ caller' = [caller EXCEPT ![p] =
                  [NoCall EXCEPT !.at = "joined", !.first = attempt]]
  /\ UNCHANGED <<hub, transport, writing, stored, socket, channels, reader, writer>>

JoinLeaves(p) ==
  /\ caller[p].at = "joined"
  /\ caller[p].ended
  /\ caller' = [caller EXCEPT ![p] = NoCall]
  /\ UNCHANGED <<hub, transport, writing, stored, socket, channels, reader, writer>>

\* The socket of the last connection is closed, and a new one dialled.
Dial(p) ==
  LET before == Shut(caller[p].old)
  IN /\ caller[p].at = "dial"
     /\ \/ /\ ~caller[p].ended
           /\ socket' = [before EXCEPT ![caller[p].my] = "open"]
           /\ CallerGoes(p, "adopt")
        \/ /\ socket' = before
           /\ CallerFails(p, "poison", IF caller[p].ended THEN "timeout" ELSE "lost")
        \/ /\ hub = "access" /\ ~caller[p].ended     \* HTTP 401 or 403
           /\ socket' = before
           /\ CallerFails(p, "poison", "refused")
     /\ UNCHANGED <<hub, transport, writing, stored, channels, reader, writer>>

\* The dialled socket becomes the link's, unless the generation was retired or
\* the context ended during the dial.
Adopt(p) ==
  LET g == caller[p].my
  IN /\ caller[p].at = "adopt"
     /\ IF generation # g \/ caller[p].ended
          THEN /\ socket' = Shut(g)
               /\ CallerFails(p, "poison", "lost")
               /\ UNCHANGED <<link, reader>>
          ELSE /\ link' = [link EXCEPT !.conn = g, !.connected = TRUE]
               /\ ReaderGoes(g, "read")
               /\ CallerGoes(p, "waiting")
               /\ UNCHANGED socket
     /\ UNCHANGED <<hub, generation, forceXX, attempt, writing, stored, channels,
                    writer>>

\* What the end of the link says to Connect.
Verdict ==
  CASE link.keyRejected -> "clientKey"
    [] ~link.keyRejected /\ link.lastError \in {"hubKey", "refused"} -> link.lastError
    [] ~link.keyRejected /\ link.lastError \notin {"hubKey", "refused"} ->
         IF link.refused THEN "refused" ELSE "lost"

\* The read loop stopped before the handshake was complete.
WaitFails(p) ==
  /\ caller[p].at = "waiting"
  /\ done[caller[p].my]
  /\ CallerFails(p, "poison", Verdict)
  /\ UNCHANGED <<hub, transport, writing, stored, socket, channels, reader, writer>>

WaitTimesOut(p) ==
  /\ caller[p].at = "waiting"
  /\ caller[p].ended
  /\ CallerFails(p, "poison", "timeout")
  /\ UNCHANGED <<hub, transport, writing, stored, socket, channels, reader, writer>>

StillReady(p) ==
  generation = caller[p].my /\ link.conn = caller[p].my /\ Ready

\* The handshake completed; whether it still holds is looked at under the lock.
WaitReady(p) ==
  /\ caller[p].at = "waiting"
  /\ ready[caller[p].my]
  /\ IF caller[p].ended THEN CallerFails(p, "poison", "timeout")
     ELSE IF StillReady(p) THEN CallerFails(p, "conclude", "nil")
     ELSE CallerFails(p, "poison",
                      IF generation = caller[p].my THEN Verdict ELSE "lost")
  /\ UNCHANGED <<hub, transport, writing, stored, socket, channels, reader, writer>>

\* connectGeneration leaves with an error: the attempt's own link is retired.
PoisonAttempt(p) ==
  LET g    == caller[p].my
      conn == IF socket[g] = "none" THEN 0 ELSE g
  IN /\ caller[p].at = "poison"
     /\ Poison(g, conn,
               IF caller[p].result \in Causes THEN caller[p].result ELSE "refused")
     /\ socket' = Shut(conn)
     /\ CallerGoes(p, "conclude")
     /\ UNCHANGED <<hub, generation, forceXX, attempt, writing, stored, channels,
                    reader, writer>>

RetriesXX(p) ==
  caller[p].result = "refused" /\ link.pattern = "KK" /\ ~caller[p].ended

\* A refused KK attempt is followed, inside this Connect, by one XX attempt.
ConnectRetries(p) ==
  /\ caller[p].at = "conclude"
  /\ RetriesXX(p) /\ caller[p].my = caller[p].first
  /\ MayBegin
  /\ forceXX' = TRUE
  /\ BeginConnection
  /\ caller' = [caller EXCEPT ![p].at = "dial", ![p].my = generation + 1,
                              ![p].old = link.conn, ![p].result = "none"]
  /\ UNCHANGED <<hub, attempt, writing, stored, socket, channels, reader, writer>>

\* Connect returns, and with it every Connect that joined it.
ConnectReturns(p) ==
  /\ caller[p].at = "conclude"
  /\ ~(RetriesXX(p) /\ caller[p].my = caller[p].first)
  /\ attempt' = IF attempt = caller[p].first THEN 0 ELSE attempt
  /\ caller' = [q \in Callers |->
       IF q = p \/ (caller[q].at = "joined" /\ caller[q].first = caller[p].first)
         THEN NoCall ELSE caller[q]]
  /\ UNCHANGED <<hub, generation, link, forceXX, writing, stored, socket, channels,
                 reader, writer>>

--------------------------------------------------------------------------------
(***************************************************************************)
(* Disconnect.  One that finds neither a socket nor an attempt only moves  *)
(* the generation on, which is left out to bound it.                       *)
(***************************************************************************)

Disconnect(p) ==
  /\ caller[p].at = "idle"
  /\ MayBegin
  /\ link.conn # 0 \/ attempt # 0
  /\ generation' = generation + 1
  /\ link' = Cleared
  /\ caller' = [caller EXCEPT ![p] =
                  [NoCall EXCEPT !.at = "disconnecting", !.first = attempt,
                                 !.old = link.conn]]
  /\ UNCHANGED <<hub, forceXX, attempt, writing, stored, socket, channels, reader,
                 writer>>

LeftToTheReader(p) == socket            \* mutant: the read loop is to close it
WithoutOld(p) == Shut(caller[p].old)

\* Without the lock, the pending attempt is cancelled and the socket closed.
DisconnectEnds(p) ==
  /\ caller[p].at = "disconnecting"
  /\ socket' = WithoutOld(p)
  /\ caller' = [q \in Callers |->
       IF q = p THEN NoCall
       ELSE IF /\ caller[q].at \notin {"idle", "joined", "disconnecting"}
               /\ caller[q].first = caller[p].first
         THEN [caller[q] EXCEPT !.ended = TRUE]
         ELSE caller[q]]
  /\ UNCHANGED <<hub, transport, writing, stored, channels, reader, writer>>

--------------------------------------------------------------------------------
(***************************************************************************)
(* The read loop of generation g.                                          *)
(***************************************************************************)

\* What an honest hub of this kind sends next on the socket of g.
HubSends(g) ==
  CASE reader[g].heard = "nothing" /\ hub # "access" -> "hello"
    [] reader[g].heard = "hello" -> "params"
    [] /\ reader[g].heard = "offer" /\ reader[g].sent = "message1"
       /\ \/ reader[g].pattern = "XX"
          \/ reader[g].pattern = "KK" /\ hub = "good" /\ ~stored.stalePSK -> "answer"
    [] reader[g].sent = "greeting" /\ hub = "good" -> "frame"
    [] OTHER -> "nothing"

Frames == {"hello", "params", "answer", "frame"}

\* ReadMessage fails because the socket has ended ...
ReaderMeetsEnd(g) ==
  /\ reader[g].at = "read"
  /\ socket[g] # "open"
  /\ ReaderFails(g, "lost")
  /\ UNCHANGED <<hub, transport, writing, stored, socket, channels, caller, writer>>

\* ... or returns a frame, which handleRawMessage drops, with the socket, when
\* its generation is no longer the current one.
Receives(g, frame) ==
  reader[g].at = "read" /\ socket[g] = "open" /\ HubSends(g) = frame

ReaderStale(g) ==
  /\ \E frame \in Frames : Receives(g, frame)
  /\ ~Current(g)
  /\ ReaderFails(g, "lost")
  /\ UNCHANGED <<hub, transport, writing, stored, socket, channels, caller, writer>>

ReaderHello(g) ==
  /\ Receives(g, "hello")
  /\ Current(g)
  /\ reader' = [reader EXCEPT ![g].heard = "hello"]
  /\ UNCHANGED <<hub, transport, writing, stored, socket, channels, caller, writer>>

\* startNoiseHandshake: KK when a key is pinned, XX otherwise or when forced.
ReaderOffer(g) ==
  LET choice == IF stored.pinned /\ ~forceXX THEN "KK" ELSE "XX"
  IN /\ Receives(g, "params")
     /\ Current(g)
     /\ link' = [link EXCEPT !.pattern = choice]
     /\ reader' = [reader EXCEPT ![g].at = "message1", ![g].heard = "offer",
                                 ![g].pattern = choice]
     /\ UNCHANGED <<hub, generation, forceXX, attempt, writing, stored, socket,
                    channels, caller, writer>>

\* What the read loop writes, where it goes on, and what the hub then has.
Next1(place) == CASE place = "message1" -> "read"
                  [] place = "final" -> "pin"
                  [] place = "greet" -> "finish"
Sent(place)  == CASE place = "message1" -> "message1"
                  [] place = "final" -> "final"
                  [] place = "greet" -> "greeting"

\* writeGeneration, called by the read loop: written, or failed, which retires
\* this generation's link.
ReaderWrites(g) ==
  /\ reader[g].at \in {"message1", "final", "greet"}
  /\ writing = None
  /\ \/ /\ Current(g) /\ socket[g] # "closed"
        /\ reader' = [reader EXCEPT ![g].at = Next1(@), ![g].sent = Sent(reader[g].at)]
        /\ UNCHANGED <<link, socket>>
     \/ /\ Current(g) /\ socket[g] # "open"
        /\ ReaderFails(g, "lost")
        /\ Poison(g, g, "lost")
        /\ socket' = Shut(g)
     \/ /\ ~Current(g)
        /\ ReaderFails(g, "lost")
        /\ UNCHANGED <<link, socket>>
  /\ UNCHANGED <<hub, generation, forceXX, attempt, writing, stored, channels,
                 caller, writer>>

\* The hub's message authenticates the hub and the password it knows.
Authenticates == hub # "password" /\ ~stored.stalePSK

\* continueNoiseHandshake: an answer that does not authenticate is a refusal, and
\* the stored PSK is forgotten.
ReaderAnswer(g) ==
  /\ Receives(g, "answer")
  /\ Current(g)
  /\ IF Authenticates
       THEN /\ link' = [link EXCEPT !.finalSent = (reader[g].pattern = "XX")]
            /\ reader' = [reader EXCEPT ![g].heard = "answer",
                 ![g].at = IF reader[g].pattern = "XX" THEN "final" ELSE "pin"]
            /\ UNCHANGED stored
       ELSE /\ stored' = [stored EXCEPT !.stalePSK = FALSE]
            /\ ReaderFails(g, "refused")
            /\ UNCHANGED link
  /\ UNCHANGED <<hub, generation, forceXX, attempt, writing, socket, channels,
                 caller, writer>>

PinTakenAnew == TRUE                    \* mutant: XX accepts whatever key it meets
PinHolds == ~(hub = "hubKey" /\ stored.pinned)

\* pinServerKey: the first key is recorded, another one is refused.
ReaderPins(g) ==
  /\ reader[g].at = "pin"
  /\ IF Current(g) /\ PinHolds
       THEN /\ stored' = [stored EXCEPT !.pinned = TRUE]
            /\ ReaderGoes(g, "greet")
       ELSE /\ ReaderFails(g, IF Current(g) THEN "hubKey" ELSE "lost")
            /\ UNCHANGED stored
  /\ UNCHANGED <<hub, transport, writing, socket, channels, caller, writer>>

\* The handshake is complete: Connect is woken.
ReaderFinish(g) ==
  /\ reader[g].at = "finish"
  /\ IF Current(g)
       THEN /\ link' = [link EXCEPT !.handshake = TRUE]
            /\ ready' = [ready EXCEPT ![g] = TRUE]
            /\ ReaderGoes(g, "read")
       ELSE /\ ReaderFails(g, "lost")
            /\ UNCHANGED <<link, ready>>
  /\ UNCHANGED <<hub, generation, forceXX, attempt, writing, stored, socket, done,
                 caller, writer>>

\* A frame that decrypts: the hub has accepted this client.
ReaderFrame(g) ==
  /\ Receives(g, "frame")
  /\ Current(g)
  /\ link' = [link EXCEPT !.heard = TRUE]
  /\ UNCHANGED <<hub, generation, forceXX, attempt, writing, stored, socket, channels,
                 reader, caller, writer>>

RefusalUnheard(g) == socket[g] = "refusal"           \* mutant: heard is ignored
\* closeRefuses, inside the window in which a close is the hub's answer ...
RefusalClose(g) == socket[g] = "refusal" /\ ~link.heard

\* ... and, once an XX handshake has shown it, of this client's own key.
KeyRefused(g) ==
  RefusalClose(g) /\ link.pattern = "XX" /\ link.finalSent /\ reader[g].err # "refused"

OwnsWhateverGeneration(g) == link.connected          \* mutant
Owns(g) == generation = g /\ link.connected

\* recordReadFailure, for the current connection only.
ReaderRecords(g) ==
  /\ reader[g].at = "record"
  /\ link' = IF Owns(g)
       THEN [link EXCEPT !.lastError = reader[g].err,
                         !.refused = reader[g].err = "refused" \/ RefusalClose(g),
                         !.keyRejected = KeyRefused(g),
                         !.connected = FALSE, !.handshake = FALSE]
       ELSE link
  /\ ReaderGoes(g, "signal")
  /\ UNCHANGED <<hub, generation, forceXX, attempt, writing, stored, socket, channels,
                 caller, writer>>

SignalsWhileConnected(g) == generation = g /\ link.connected      \* mutant
MaySignal(g) == generation = g

\* A socket whose frame was bad is closed, one that had ended is left, and
\* signalReadDone wakes the Connect of this generation.
ReaderEnds(g) ==
  /\ reader[g].at = "signal"
  /\ socket' = IF socket[g] = "open" THEN Shut(g) ELSE socket
  /\ done' = [done EXCEPT ![g] = MaySignal(g)]
  /\ reader' = [reader EXCEPT ![g] = [NoReader EXCEPT !.at = "gone", !.err = reader[g].err]]
  /\ UNCHANGED <<hub, transport, writing, stored, ready, caller, writer>>

--------------------------------------------------------------------------------
(***************************************************************************)
(* Application frames: queued behind t.writeMu, then written to the end.   *)
(***************************************************************************)

Send(w) ==
  /\ writer[w].at = "idle"
  /\ Ready
  /\ writer' = [writer EXCEPT ![w] = [at |-> "queued", my |-> generation]]
  /\ UNCHANGED <<hub, transport, writing, stored, socket, channels, reader, caller>>

\* The wait for the write lock is withdrawn: nothing was sent.
SendWithdrawn(w) ==
  /\ writer[w].at = "queued"
  /\ writer' = [writer EXCEPT ![w] = NoFrame]
  /\ UNCHANGED <<hub, transport, writing, stored, socket, channels, reader, caller>>

Admits(w) ==
  generation = writer[w].my /\ link.conn = writer[w].my /\ link.connected

SendAdmitted(w) ==
  /\ writer[w].at = "queued"
  /\ writing = None
  /\ IF Admits(w)
       THEN writing' = w /\ writer' = [writer EXCEPT ![w].at = "writing"]
       ELSE writing' = None /\ writer' = [writer EXCEPT ![w] = NoFrame]
  /\ UNCHANGED <<hub, transport, stored, socket, channels, reader, caller>>

\* The frame was written, or failed: only the captured link is retired.
SendEnds(w) ==
  LET g == writer[w].my
  IN /\ writer[w].at = "writing"
     /\ \/ /\ socket[g] # "closed"
           /\ UNCHANGED <<link, socket>>
        \/ /\ Poison(g, g, "lost")
           /\ socket' = Shut(g)
     /\ writing' = None
     /\ writer' = [writer EXCEPT ![w] = NoFrame]
     /\ UNCHANGED <<hub, generation, forceXX, attempt, stored, channels, reader,
                    caller>>

--------------------------------------------------------------------------------
(***************************************************************************)
(* The surroundings.                                                       *)
(***************************************************************************)

\* A hub closes with a refusal's code to refuse, or, once it has spoken under
\* the session's keys, because it goes away.
HubRefuses(g) ==
  \/ hub = "access"
  \/ reader[g].pattern = "KK" /\ reader[g].sent = "message1" /\
       (hub \in {"password", "hubKey", "clientKey"} \/ stored.stalePSK)
  \/ hub = "clientKey" /\ reader[g].sent \in {"final", "greeting"}
  \/ hub = "good" /\ link.conn = g /\ link.heard

PeerCloses(g) ==
  /\ socket[g] = "open"
  /\ \/ socket' = [socket EXCEPT ![g] = "other"]
     \/ HubRefuses(g) /\ socket' = [socket EXCEPT ![g] = "refusal"]
  /\ UNCHANGED <<hub, transport, writing, stored, channels, reader, caller, writer>>

\* A caller withdraws or its deadline passes, where the code looks next.
ContextEnds(p) ==
  /\ p \in Deadlines
  /\ \/ caller[p].at \in {"joined", "adopt", "waiting"}
     \/ caller[p].at = "conclude" /\ RetriesXX(p)
  /\ ~caller[p].ended
  /\ caller' = [caller EXCEPT ![p].ended = TRUE]
  /\ UNCHANGED <<hub, transport, writing, stored, socket, channels, reader, writer>>

CallerStep(p) ==
  \/ JoinLeaves(p) \/ Dial(p) \/ Adopt(p)
  \/ WaitFails(p) \/ WaitTimesOut(p) \/ WaitReady(p) \/ PoisonAttempt(p)
  \/ ConnectRetries(p) \/ ConnectReturns(p) \/ DisconnectEnds(p)

ReaderStep(g) ==
  \/ ReaderMeetsEnd(g) \/ ReaderStale(g) \/ ReaderHello(g) \/ ReaderOffer(g)
  \/ ReaderWrites(g) \/ ReaderAnswer(g) \/ ReaderPins(g) \/ ReaderFinish(g)
  \/ ReaderFrame(g) \/ ReaderRecords(g) \/ ReaderEnds(g)

WriterStep(w) == SendWithdrawn(w) \/ SendAdmitted(w) \/ SendEnds(w)

Next ==
  \/ \E p \in Callers :
       ConnectBegins(p) \/ ConnectJoins(p) \/ Disconnect(p) \/ CallerStep(p)
       \/ ContextEnds(p)
  \/ \E g \in Generations : ReaderStep(g) \/ PeerCloses(g)
  \/ \E w \in Writers : Send(w) \/ WriterStep(w)

Spec == Init /\ [][Next]_vars

--------------------------------------------------------------------------------
(***************************************************************************)
(* Properties.                                                             *)
(***************************************************************************)

\* No socket is lost: one that is open is the link's, or a goroutine that knows
\* it has yet to close it (Disconnect, connectGeneration, readLoop).
NoSocketLost ==
  \A g \in Generations : socket[g] = "open" =>
    \/ link.conn = g
    \/ reader[g].at \in {"record", "signal"}
    \/ \E p \in Callers :
         \/ caller[p].at \in {"adopt", "waiting", "poison"} /\ caller[p].my = g
         \/ caller[p].at \in {"dial", "disconnecting"} /\ caller[p].old = g

\* A link that is ready goes down by Disconnect, by its own read loop, by a write
\* of its own generation, or by the Connect that brought it up; a goroutine left
\* over from another generation never touches it (generationCurrentLocked,
\* recordReadFailure, poisonGeneration).
OnlyItsOwnEndsALink ==
  [][Ready /\ ~Ready' =>
       \/ generation' # generation
       \/ reader[generation].at = "record"
       \/ \E w \in Writers : writer[w].my = generation /\ writing = w
       \/ \E p \in Callers : caller[p].my = generation /\ caller[p].at = "poison"]_vars

\* Connect's verdict is the hub's doing: no drop, stale attempt or going away is
\* read as a refusal, a changed hub key or a rejected client key; a changed or a
\* rejected key is told from a refusal unless the attempt's context ended first;
\* and a hub that accepts the password refuses only a PSK stored before it was
\* changed, which is then forgotten.
VerdictTrue ==
  \A p \in Callers : caller[p].at = "conclude" =>
    CASE caller[p].result = "clientKey" -> hub = "clientKey"
      [] caller[p].result = "hubKey" -> hub = "hubKey"
      [] caller[p].result = "refused" ->
           \/ hub \in {"access", "password"}
           \/ RetriesXX(p)
           \/ caller[p].ended
           \/ hub = "good" /\ reader[caller[p].my].err = "refused"
                           /\ ~stored.stalePSK
      [] OTHER -> TRUE

\* No session is ever used with a hub that is not the pinned one, on the XX
\* retry of a refused KK attempt least of all (pinServerKey).
NoDowngrade == link.handshake => hub # "hubKey" /\ stored.pinned

\* A Connect never sleeps through the end of its link: while it waits, its read
\* loop runs or has signalled, or a Disconnect is about to cancel it, so what
\* the hub did is reported without waiting for the clock (signalReadDone).
WakeUpComes ==
  \A p \in Callers :
    LET g == caller[p].my
    IN caller[p].at = "waiting" =>
         \/ done[g] \/ ready[g] \/ caller[p].ended
         \/ reader[g].at \notin {"none", "gone"}
         \/ \E q \in Callers : caller[q].at = "disconnecting" /\
                               caller[q].first = caller[p].first

\* What Connect says and holds is so: its verdict is the hub's, no session runs
\* past the pin, it wakes when its link ends, and no socket is lost
\* (connectGeneration, readLoop, Disconnect).
ConnectHonest == VerdictTrue /\ NoDowngrade /\ WakeUpComes /\ NoSocketLost
================================================================================
