-------------------------------- MODULE HTTPTransport --------------------------------
(***************************************************************************)
(* The HTTP carrier (transport.go): connects, disconnects and sends that   *)
(* take lifecycleMu in turn, the poll loop of each session, a poll a       *)
(* caller drives, and the hub's side of the admission.  A disconnect's     *)
(* caller and a send's may leave; what they began goes on without them,    *)
(* and must not reach the session that follows.                            *)
(***************************************************************************)
EXTENDS Integers, FiniteSets

CONSTANT MaxHTTPSessions  \* connect attempts that begin a session (bounds the model)

ASSUME HTTPAssumption == MaxHTTPSessions \in Nat

VARIABLES
  lifecycle,   \* who holds lifecycleMu
  pollMu,      \* who holds pollMu: a session's loop, or another
  http,        \* the transport's fields; session is the channel t.noise, 0 when nil
  begun,       \* sessions begun
  channel,     \* channel[n]: the Noise channel of session n and the frame it writes
  loop,        \* loop[n]: the poll loop of session n
  pollDone,    \* the loop stopPolling would join
  connector,   \* connectAttempt: where it is, the channel it waits for
  worker,      \* Disconnect's goroutine: the same
  peer         \* the session the hub holds this client admitted under

httpVars == <<lifecycle, pollMu, http, begun, channel, loop, pollDone, connector, worker, peer>>

HTTPSessions == 1..MaxHTTPSessions
Phases       == {"idle", "connecting", "handshake", "ready", "error", "closed"}
Alive        == {"idle", "waiting", "polling", "failing"}
At           == {"idle", "lock", "look", "stop", "take", "own", "reset", "drain", "begin",
                 "handshake", "undo", "bye"}

HTTPTypeOK ==
  /\ lifecycle \in {"free", "connect", "disconnect", "send"}
  /\ pollMu \in {"free", "connect", "worker", "manual"} \cup {"loop"}
  /\ http \in [session : 0..begun, connected : BOOLEAN, handshake : BOOLEAN,
               admitted : BOOLEAN, refused : BOOLEAN, phase : Phases]
  /\ (http.handshake => http.connected) /\ (http.connected => http.session # 0)
  /\ begun \in 0..MaxHTTPSessions
  /\ channel \in [HTTPSessions -> [failed : BOOLEAN, heard : BOOLEAN,
                    writing : {"none", "waited", "alone"}, retiring : BOOLEAN]]
  /\ loop \in [HTTPSessions -> [at : Alive \cup {"none", "done"}, cancelled : BOOLEAN]]
  /\ pollDone \in 0..MaxHTTPSessions /\ peer \in 0..MaxHTTPSessions
  /\ connector \in [at : At, old : 0..MaxHTTPSessions]
  /\ worker \in [at : At, old : 0..MaxHTTPSessions]

HTTPInit ==
  /\ lifecycle = "free" /\ pollMu = "free"
  /\ http = [session |-> 0, connected |-> FALSE, handshake |-> FALSE, admitted |-> FALSE,
             refused |-> FALSE, phase |-> "idle"]
  /\ begun = 0 /\ pollDone = 0 /\ peer = 0
  /\ channel = [n \in HTTPSessions |->
                  [failed |-> FALSE, heard |-> FALSE, writing |-> "none", retiring |-> FALSE]]
  /\ loop = [n \in HTTPSessions |-> [at |-> "none", cancelled |-> FALSE]]
  /\ connector = [at |-> "idle", old |-> 0] /\ worker = [at |-> "idle", old |-> 0]

--------------------------------------------------------------------------------
\* Mutant: the session goes, and the transport says it is up.
FailedQuietly(h, refusal) == [h EXCEPT !.session = 0, !.phase = "error"]

\* failLocked: the session is over, with the hub's verdict if the session was
\* still there and the hub had said nothing that decrypted.
Failed(h, refusal) ==
  [h EXCEPT !.session = 0, !.connected = FALSE, !.handshake = FALSE, !.phase = "error",
     !.refused = IF h.session # 0 THEN refusal /\ ~channel[h.session].heard ELSE @]

\* The fields when request n failed, refused by the hub (401, 403) or not.
FailsConnection == \E refusal \in BOOLEAN : http' = Failed(http, refusal)

Retired == [http EXCEPT !.session = 0, !.connected = FALSE, !.handshake = FALSE]

\* POST /disconnect: done, or refused, or done with its answer lost.  A hub
\* that holds nobody says so, which counts as done.
HubReleases(done) ==
  \/ done /\ peer' = 0
  \/ ~done /\ peer' \in {0, peer}

ConnectorAt(at) == connector' = [connector EXCEPT !.at = at]
WorkerAt(at)    == worker' = [worker EXCEPT !.at = at]
ConnectReturns  == connector' = [at |-> "idle", old |-> 0] /\ lifecycle' = "free"

\* Mutant: the loop is told to stop, and is not waited for.
Cancelled == TRUE

\* stopPolling, the wait: pollDone is nil or closed.
Joined == \A n \in HTTPSessions : n = pollDone => loop[n].at = "done"

\* A channel's lock, which a frame being written holds.
ChannelFree(old) == \A n \in HTTPSessions : n = old => channel[n].writing = "none"

\* Mutant: the loop is waited for, and not told to stop.
LeftRunning == UNCHANGED loop

Cancel == loop' = [n \in HTTPSessions |->
                     IF n = pollDone THEN [loop[n] EXCEPT !.cancelled = TRUE] ELSE loop[n]]

--------------------------------------------------------------------------------
(***************************************************************************)
(* Connect and connectAttempt.                                             *)
(***************************************************************************)
ConnectBegins ==
  /\ connector.at = "idle" /\ begun < MaxHTTPSessions
  /\ ConnectorAt("lock") /\ http' = [http EXCEPT !.refused = FALSE]
  /\ UNCHANGED <<lifecycle, pollMu, begun, channel, loop, pollDone, worker, peer>>

ConnectLocks ==
  /\ connector.at = "lock" /\ lifecycle = "free"
  /\ lifecycle' = "connect" /\ ConnectorAt("look")
  /\ UNCHANGED <<pollMu, http, begun, channel, loop, pollDone, worker, peer>>

\* The context ends during a wait for a lock or for the loop.
ConnectGivesUp ==
  /\ connector.at \in {"lock", "look", "stop", "take"}
  /\ IF connector.at = "lock" THEN connector' = [at |-> "idle", old |-> 0] /\ UNCHANGED lifecycle
     ELSE ConnectReturns
  /\ UNCHANGED <<pollMu, http, begun, channel, loop, pollDone, worker, peer>>

\* A poll a caller drives is joined before the session is judged.
ConnectLooks ==
  /\ connector.at = "look" /\ pollMu = "free"
  /\ IF http.connected /\ http.handshake
     THEN ConnectReturns /\ UNCHANGED loop
     ELSE ConnectorAt("stop") /\ Cancel /\ UNCHANGED lifecycle
  /\ UNCHANGED <<pollMu, http, begun, channel, pollDone, worker, peer>>

ConnectJoins ==
  /\ connector.at = "stop" /\ Joined
  /\ pollDone' = 0 /\ ConnectorAt("take")
  /\ UNCHANGED <<lifecycle, pollMu, http, begun, channel, loop, worker, peer>>

ConnectTakesPoll ==
  /\ connector.at = "take" /\ pollMu = "free"
  /\ pollMu' = "connect" /\ ConnectorAt("own")
  /\ UNCHANGED <<lifecycle, http, begun, channel, loop, pollDone, worker, peer>>

\* The admission this object knows of is given back before a new one.
ConnectCleans ==
  /\ connector.at = "own"
  /\ \/ /\ ~http.admitted /\ ConnectorAt("reset")
        /\ UNCHANGED <<lifecycle, pollMu, http, peer>>
     \/ /\ http.admitted /\ HubReleases(TRUE) /\ ConnectorAt("reset")
        /\ http' = [http EXCEPT !.admitted = FALSE]
        /\ UNCHANGED <<lifecycle, pollMu>>
     \/ /\ http.admitted /\ HubReleases(FALSE) /\ FailsConnection
        /\ ConnectReturns /\ pollMu' = "free"
  /\ UNCHANGED <<begun, channel, loop, pollDone, worker>>

\* invalidateNoise: t.noise is nil at once, the channel fails when its lock is
\* free, which a frame being written holds.
ConnectInvalidates ==
  /\ \/ /\ connector.at = "reset"
        /\ connector' = [at |-> "drain", old |-> http.session] /\ http' = Retired
        /\ UNCHANGED channel
     \/ /\ connector.at = "drain"
        /\ ChannelFree(connector.old)
        /\ channel' = [n \in HTTPSessions |->
             IF n = connector.old THEN [channel[n] EXCEPT !.failed = TRUE] ELSE channel[n]]
        /\ ConnectorAt("begin") /\ UNCHANGED http
  /\ UNCHANGED <<lifecycle, pollMu, begun, loop, pollDone, worker, peer>>

\* beginConnection and POST /connect.  A hub that holds a peer already offers
\* it no new handshake; an answer lost leaves the peer with the hub.
ConnectPosts ==
  /\ connector.at = "begin"
  /\ begun' = begun + 1
  /\ LET fresh == [http EXCEPT !.session = begun + 1, !.connected = FALSE, !.handshake = FALSE,
                               !.refused = FALSE, !.phase = "connecting"]
         held  == IF peer = 0 THEN begun + 1 ELSE peer
     IN  \/ /\ peer' = held /\ ConnectorAt("handshake")
            /\ http' = [fresh EXCEPT !.connected = TRUE, !.admitted = TRUE, !.phase = "handshake"]
            /\ UNCHANGED <<lifecycle, pollMu>>
         \/ /\ peer' \in {peer, held} /\ ConnectReturns /\ pollMu' = "free"
            /\ \E refusal \in BOOLEAN :
                 http' = [Failed(fresh, FALSE) EXCEPT !.refused = refusal]
  /\ UNCHANGED <<channel, loop, pollDone, worker>>

\* The polls of the handshake complete it, and the session's loop starts.
HandshakeCompletes ==
  /\ connector.at = "handshake" /\ peer = begun
  /\ http' = [http EXCEPT !.handshake = TRUE, !.phase = "ready"]
  /\ loop' = [loop EXCEPT ![begun].at = "idle"] /\ pollDone' = begun
  /\ ConnectReturns /\ pollMu' = "free"
  /\ UNCHANGED <<begun, channel, worker, peer>>

\* A poll of it fails, which ends the session, or the handshake takes too long.
HandshakeFails ==
  /\ connector.at = "handshake"
  /\ ConnectorAt("undo") /\ (FailsConnection \/ UNCHANGED http)
  /\ UNCHANGED <<lifecycle, pollMu, begun, channel, loop, pollDone, worker, peer>>

\* The deferred cleanup of a failed attempt.
ConnectUndoes ==
  /\ connector.at = "undo"
  /\ \E done, refusal \in BOOLEAN :
       /\ HubReleases(done)
       /\ http' = [Failed(http, refusal) EXCEPT !.admitted = @ /\ ~done]
  /\ ConnectReturns /\ pollMu' = "free"
  /\ UNCHANGED <<begun, channel, loop, pollDone, worker>>

--------------------------------------------------------------------------------
(***************************************************************************)
(* pollLoop and PollOnce, which callers may drive as well.                 *)
(***************************************************************************)
LoopAt(n, at) == loop' = [loop EXCEPT ![n].at = at]

LoopTicks(n) ==
  /\ loop[n].at = "idle" /\ LoopAt(n, "waiting")
  /\ UNCHANGED <<lifecycle, pollMu, http, begun, channel, pollDone, connector, worker, peer>>

LoopEnds(n) ==
  /\ loop[n].at = "idle" /\ loop[n].cancelled /\ LoopAt(n, "done")
  /\ UNCHANGED <<lifecycle, pollMu, http, begun, channel, pollDone, connector, worker, peer>>

\* pollMu is taken, or the loop's context, or the poll's 20 seconds, end first.
LoopWaits(n) ==
  /\ loop[n].at = "waiting"
  /\ \/ pollMu = "free" /\ pollMu' = "loop" /\ LoopAt(n, "polling")
     \/ UNCHANGED pollMu /\ LoopAt(n, "failing")
  /\ UNCHANGED <<lifecycle, http, begun, channel, pollDone, connector, worker, peer>>

\* pollOnceLocked: what arrived is dispatched, or the session ends; a channel
\* that hears something has its credentials accepted.
Polled(ok) ==
  IF ok
  THEN /\ UNCHANGED http
       /\ channel' \in {channel, [n \in HTTPSessions |->
            IF n = http.session THEN [channel[n] EXCEPT !.heard = TRUE] ELSE channel[n]]}
  ELSE FailsConnection /\ UNCHANGED channel

LoopPolled(n) ==
  /\ loop[n].at = "polling"
  /\ pollMu' = "free"
  /\ \E ok \in BOOLEAN : Polled(ok) /\ LoopAt(n, IF ok THEN "idle" ELSE "failing")
  /\ UNCHANGED <<lifecycle, begun, pollDone, connector, worker, peer>>

\* The loop's own failure, which asks whose session it is only for the verdict.
LoopFails(n) ==
  /\ loop[n].at = "failing"
  /\ FailsConnection /\ LoopAt(n, "done")
  /\ UNCHANGED <<lifecycle, pollMu, begun, channel, pollDone, connector, worker, peer>>

CallerPolls ==
  /\ \/ pollMu = "free" /\ pollMu' = "manual" /\ UNCHANGED <<http, channel>>
     \/ pollMu = "manual" /\ pollMu' = "free" /\ \E ok \in BOOLEAN : Polled(ok)
  /\ UNCHANGED <<lifecycle, begun, loop, pollDone, connector, worker, peer>>

--------------------------------------------------------------------------------
(***************************************************************************)
(* sendHiveMessage.  Who leaves a frame being written leaves lifecycleMu;  *)
(* the frame keeps the channel's lock and retires its session if it fails. *)
(***************************************************************************)
SendBegins(n) ==
  /\ lifecycle = "free" /\ http.session = n /\ http.connected
  /\ channel[n].writing = "none" /\ ~channel[n].failed
  /\ lifecycle' = "send" /\ channel' = [channel EXCEPT ![n].writing = "waited"]
  /\ UNCHANGED <<pollMu, http, begun, loop, pollDone, connector, worker, peer>>

SendLeft(n) ==
  /\ channel[n].writing = "waited"
  /\ lifecycle' = "free" /\ channel' = [channel EXCEPT ![n].writing = "alone"]
  /\ UNCHANGED <<pollMu, http, begun, loop, pollDone, connector, worker, peer>>

WriteEnds(n) ==
  /\ channel[n].writing # "none"
  /\ \E failed \in BOOLEAN :
       channel' = [channel EXCEPT ![n].writing = "none", ![n].retiring = @ \/ failed,
                                  ![n].failed = @ \/ failed]
  /\ lifecycle' = IF channel[n].writing = "waited" THEN "free" ELSE lifecycle
  /\ UNCHANGED <<pollMu, http, begun, loop, pollDone, connector, worker, peer>>

\* Mutant: a late failure ends whatever session there is.
Anyone(n) == TRUE

\* failSession: still the session of the channel that failed.
Its(n) == http.session = n

WriteRetires(n) ==
  /\ channel[n].retiring
  /\ channel' = [channel EXCEPT ![n].retiring = FALSE]
  /\ IF Its(n) THEN FailsConnection ELSE UNCHANGED http
  /\ UNCHANGED <<lifecycle, pollMu, begun, loop, pollDone, connector, worker, peer>>

--------------------------------------------------------------------------------
(***************************************************************************)
(* Disconnect: the worker goes on when its caller has left.                *)
(***************************************************************************)
DisconnectBegins ==
  /\ lifecycle = "free" /\ worker.at = "idle"
  /\ lifecycle' = "disconnect" /\ WorkerAt("stop") /\ Cancel
  /\ http' = [http EXCEPT !.connected = FALSE, !.handshake = FALSE, !.phase = "closed"]
  /\ UNCHANGED <<pollMu, begun, channel, pollDone, connector, peer>>

WorkerJoins ==
  /\ worker.at = "stop" /\ Joined
  /\ pollDone' = 0 /\ WorkerAt("take")
  /\ UNCHANGED <<lifecycle, pollMu, http, begun, channel, loop, connector, peer>>

WorkerTakesPoll ==
  /\ worker.at = "take" /\ pollMu = "free"
  /\ pollMu' = "worker" /\ worker' = [at |-> "drain", old |-> http.session] /\ http' = Retired
  /\ UNCHANGED <<lifecycle, begun, channel, loop, pollDone, connector, peer>>

WorkerInvalidates ==
  /\ worker.at = "drain"
  /\ ChannelFree(worker.old)
  /\ channel' = [n \in HTTPSessions |->
       IF n = worker.old THEN [channel[n] EXCEPT !.failed = TRUE] ELSE channel[n]]
  /\ WorkerAt("bye")
  /\ UNCHANGED <<lifecycle, pollMu, http, begun, loop, pollDone, connector, peer>>

\* Only an acknowledged release clears the admission.
WorkerSaysGoodbye ==
  /\ worker.at = "bye"
  /\ \E done \in BOOLEAN :
       /\ IF http.admitted THEN HubReleases(done) ELSE done /\ UNCHANGED peer
       /\ http' = [Retired EXCEPT !.admitted = @ /\ ~done, !.phase = "closed"]
  /\ worker' = [at |-> "idle", old |-> 0] /\ lifecycle' = "free" /\ pollMu' = "free"
  /\ UNCHANGED <<begun, channel, loop, pollDone, connector>>

--------------------------------------------------------------------------------
ConnectStep ==
  ConnectLocks \/ ConnectGivesUp \/ ConnectLooks \/ ConnectJoins \/ ConnectTakesPoll
    \/ ConnectCleans \/ ConnectInvalidates \/ ConnectPosts \/ HandshakeCompletes
    \/ HandshakeFails \/ ConnectUndoes

WorkerStep == WorkerJoins \/ WorkerTakesPoll \/ WorkerInvalidates \/ WorkerSaysGoodbye

HTTPNext ==
  \/ ConnectBegins \/ ConnectStep \/ DisconnectBegins \/ WorkerStep \/ CallerPolls
  \/ \E n \in HTTPSessions :
       \/ LoopTicks(n) \/ LoopEnds(n) \/ LoopWaits(n) \/ LoopPolled(n) \/ LoopFails(n)
       \/ SendBegins(n) \/ SendLeft(n) \/ WriteEnds(n) \/ WriteRetires(n)

\* Requests end, by their own timeouts, and goroutines are scheduled; a lock
\* others keep taking is had in the end, and so is a cancelled context, which
\* select may pass over for a tick.
HTTPFairness ==
  /\ SF_httpVars(ConnectStep) /\ SF_httpVars(WorkerStep)
  /\ WF_httpVars(pollMu = "manual" /\ CallerPolls)
  /\ \A n \in HTTPSessions :
       /\ SF_httpVars(LoopEnds(n))
       /\ WF_httpVars(LoopWaits(n) \/ LoopPolled(n) \/ LoopFails(n))
       /\ WF_httpVars(WriteEnds(n))

HTTPSpec == HTTPInit /\ [][HTTPNext]_httpVars /\ HTTPFairness

--------------------------------------------------------------------------------
\* A step of what is left of a session touches no session but its own: neither its poll
\* loop, inside a request while the session was replaced, nor a frame whose
\* write fails after its caller left (transport.go:301-302, 617-619).
OldSessionsHarmless ==
  \A n \in HTTPSessions :
    /\ loop[n].at \in {"polling", "failing"} /\ loop'[n].at # loop[n].at =>
         http.session \in {0, n}
    /\ channel[n].retiring /\ ~channel'[n].retiring =>
         http.session = n \/ UNCHANGED http

\* A session that says it is up, with nobody at work on it, is polled by its
\* own loop, which nobody has told to stop; and no two sessions are polled
\* (transport.go:291-297, 301-317).
UpIsPolled ==
  /\ lifecycle = "free" /\ http.connected /\ http.handshake =>
       loop[http.session].at \in Alive /\ ~loop[http.session].cancelled
  /\ Cardinality({n \in HTTPSessions : loop[n].at \in Alive}) <= 1

\* Nobody keeps the transport: a connect, a send and a disconnect end, whatever
\* waits for whom (transport.go:319-320, 335-337).
LifecycleReturns == lifecycle # "free" ~> lifecycle = "free"

\* A connect asks for admission only when the hub holds no earlier one of this
\* object's, since the hub offers a registered peer no fresh handshake
\* (transport.go:210-212).
AdmittedOnce == [][begun' # begun => peer = 0]_httpVars
================================================================================
