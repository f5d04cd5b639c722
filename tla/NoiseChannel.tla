-------------------------------- MODULE NoiseChannel --------------------------------
(***************************************************************************)
(* The Noise exchange every carrier shares (transport_noise.go, noise.go): *)
(* one connect, its KK attempt and the XX attempt that may follow it, and, *)
(* on the session they make, the sends that queue for the channel and the  *)
(* frames that come back.  A lost, repeated or reordered frame, or a write *)
(* nobody knows the end of, must end the session and never be smoothed     *)
(* over.                                                                   *)
(***************************************************************************)
EXTENDS Integers, Sequences, FiniteSets

CONSTANTS
  ChannelSends,  \* the sends of the session
  NoSend,        \* nobody writes
  MaxChunks,     \* chunks of the longest message sent (bounds the model)
  MaxHubFrames,  \* frames the hub sends on the session (bounds the model)
  ReassemblyCap  \* bodies a chunked message may hold before it is dropped

ASSUME ChannelAssumption ==
  /\ NoSend \notin ChannelSends
  /\ MaxChunks \in Nat \ {0} /\ MaxHubFrames \in Nat /\ ReassemblyCap \in Nat \ {0}

VARIABLES
  hubSide,   \* what the hub is: its password, its key, what it offers
  pin,       \* the hub key this client has pinned: "none", "ours" or "other"
  noise,     \* the noiseChannel of the attempt under way
  over,      \* connect's context has ended
  outcome,   \* what connect returned
  writer,    \* the send that holds the channel's lock
  message,   \* message[s]: one send, its chunks, its context, what it was told
  wire,      \* the frames written on the session, in order
  hubFrames, \* the frames the hub encrypted on the session, in order
  delivered  \* the messages handed to the application

channelVars == <<hubSide, pin, noise, over, outcome, writer, message, wire, hubFrames, delivered>>
handshakeVars == <<hubSide, pin, over, outcome>>
sendVars      == <<writer, message, wire>>
hearVars      == <<hubFrames, delivered>>

Patterns == {"KK", "XX"}
Markers  == {"whole", "first", "more", "last", "unknown"}
HubRefused == {"unauthentic", "refused", "key_rejected"}  \* what is ErrHubRefused
Outcomes == HubRefused \cup {"connecting", "ready", "failed", "key_changed"}

\* The reassembly buffer is nil until a chunk opens it (no chunk is empty).
NoBuffer == <<>>

FreshNoise(force) ==
  [forceXX |-> force, hello |-> FALSE, started |-> FALSE, session |-> FALSE, failed |-> FALSE,
   pattern |-> "none", finalSent |-> FALSE, heard |-> FALSE, sent |-> 0, received |-> 0,
   reassembly |-> NoBuffer]

Hubs == [password : BOOLEAN, key : {"ours", "other"}, knowsUs : BOOLEAN,
         patterns : SUBSET Patterns, suite : BOOLEAN]
TrustedHub == [password |-> TRUE, key |-> "ours", knowsUs |-> TRUE, patterns |-> Patterns, suite |-> TRUE]

ChannelTypeOK ==
  /\ hubSide \in Hubs /\ pin \in {"none", "ours", "other"}
  /\ noise \in [forceXX : BOOLEAN, hello : BOOLEAN, started : BOOLEAN, session : BOOLEAN,
                failed : BOOLEAN, pattern : Patterns \cup {"none"}, finalSent : BOOLEAN,
                heard : BOOLEAN, sent : Nat, received : 0..MaxHubFrames,
                reassembly : Seq(1..MaxHubFrames)]
  /\ over \in BOOLEAN /\ outcome \in Outcomes
  /\ writer \in ChannelSends \cup {NoSend}
  /\ message \in [ChannelSends ->
       [at : {"idle", "queued", "writing", "done"}, chunks : 1..MaxChunks,
        written : 0..MaxChunks, over : BOOLEAN,
        told : {"none", "ok", "nothing_sent", "finishing", "error", "refused"}]]
  /\ wire \in Seq([of : ChannelSends, chunk : 1..MaxChunks, counter : Nat])
  /\ hubFrames \in Seq(Markers) /\ Len(hubFrames) <= MaxHubFrames
  /\ delivered \in Seq(Seq(1..MaxHubFrames))

ChannelInitWith(hubs, pins) ==
  /\ hubSide \in hubs /\ pin \in pins
  /\ noise = FreshNoise(FALSE)
  /\ over = FALSE /\ outcome = "connecting"
  /\ writer = NoSend
  /\ message = [s \in ChannelSends |->
                  [at |-> "idle", chunks |-> 1, written |-> 0, over |-> FALSE, told |-> "none"]]
  /\ wire = <<>> /\ hubFrames = <<>> /\ delivered = <<>>

ChannelInit == ChannelInitWith(Hubs, {"none", "ours"})

--------------------------------------------------------------------------------
(***************************************************************************)
(* The handshake.  Every message of the hub's may come at any time: HTTP   *)
(* and MQTT queue and repeat them.                                         *)
(***************************************************************************)
Ready == noise.session /\ ~noise.failed

Choosing == IF noise.forceXX THEN "none" ELSE pin

\* selectNoiseOptions.
Selected ==
  IF ~hubSide.suite THEN "none"
  ELSE IF Choosing # "none" /\ "KK" \in hubSide.patterns THEN "KK"
  ELSE IF "XX" \in hubSide.patterns THEN "XX" ELSE "none"

\* What the hub's answer authenticates under: the password, and under KK both
\* static keys as well.
Authentic ==
  /\ hubSide.password
  /\ noise.pattern = "KK" => hubSide.key = pin /\ hubSide.knowsUs

Fails == noise' = [noise EXCEPT !.failed = TRUE]

\* Mutant: KK failed, and XX is not tried.
Resigns(err) == FALSE

\* retryKKWithXX.
Retries(err) == err \in HubRefused /\ noise.pattern = "KK" /\ ~over

\* Connect: the attempt failed as err; an XX attempt on a fresh channel
\* follows, or its outcome is the connect's.
AttemptFails(err) ==
  /\ IF Retries(err) THEN noise' = FreshNoise(TRUE) /\ UNCHANGED outcome
     ELSE Fails /\ outcome' = err
  /\ UNCHANGED <<pin, over>>

ConnectContextEnds ==
  /\ outcome = "connecting" /\ ~over /\ over' = TRUE
  /\ UNCHANGED <<hubSide, pin, noise, outcome, sendVars, hearVars>>

Negotiating == outcome = "connecting" /\ ~noise.failed /\ ~noise.session

HelloArrives ==
  /\ Negotiating
  /\ \E named \in BOOLEAN :
       IF noise.hello \/ noise.started \/ ~named
       THEN AttemptFails("failed")
       ELSE noise' = [noise EXCEPT !.hello = TRUE] /\ UNCHANGED <<pin, over, outcome>>
  /\ UNCHANGED <<hubSide, sendVars, hearVars>>

\* start: the store, the pattern, the first message, which may not be written.
OfferArrives ==
  /\ Negotiating
  /\ IF ~noise.hello \/ noise.started \/ Selected = "none"
     THEN AttemptFails("failed")
     ELSE \/ AttemptFails("failed")
          \/ /\ noise' = [noise EXCEPT !.started = TRUE, !.pattern = Selected]
             /\ UNCHANGED <<pin, over, outcome>>
  /\ UNCHANGED <<hubSide, sendVars, hearVars>>

\* continueHandshake: XX's last message shows the hub our key before the pin
\* is checked; the encrypted HELLO is the session's first frame.
AnswerArrives ==
  /\ Negotiating
  /\ IF ~noise.started THEN AttemptFails("failed")
     ELSE IF ~Authentic THEN AttemptFails("unauthentic")
     ELSE \/ AttemptFails("failed")  \* a message of ours was not written
          \/ ~hubSide.knowsUs /\ AttemptFails("key_rejected")  \* as the hub refused what it showed
          \/ /\ pin \notin {"none", hubSide.key}
             /\ noise' = [noise EXCEPT !.failed = TRUE, !.finalSent = noise.pattern = "XX"]
             /\ outcome' = "key_changed" /\ UNCHANGED <<pin, over>>
          \/ /\ pin \in {"none", hubSide.key}
             /\ pin' = hubSide.key
             /\ noise' = [noise EXCEPT !.session = TRUE, !.started = FALSE,
                                       !.finalSent = noise.pattern = "XX", !.sent = 1]
             /\ outcome' = "ready" /\ UNCHANGED over
  /\ UNCHANGED <<hubSide, sendVars, hearVars>>

\* Anything else: application traffic, ciphertext or garbage before Noise.
StrayArrives ==
  /\ Negotiating /\ AttemptFails("failed")
  /\ UNCHANGED <<hubSide, sendVars, hearVars>>

\* Mutant: a refusal is one whatever the hub said before.
StillRefusal == IF noise.pattern = "XX" /\ noise.finalSent THEN "key_rejected" ELSE "refused"

\* verdict: a hub that has spoken on the session accepted the credentials.
Verdict ==
  IF noise.heard THEN "failed"
  ELSE IF noise.pattern = "XX" /\ noise.finalSent THEN "key_rejected" ELSE "refused"

\* The carrier says that the hub refuses: during the handshake what it was
\* shown, and on a session of XX our key, unless it had accepted that and ends
\* the session for a reason of its own.
HubRefuses ==
  /\ \/ Negotiating
     \/ Ready /\ writer = NoSend /\ (noise.heard \/ ~hubSide.knowsUs)
  /\ AttemptFails(Verdict)
  /\ UNCHANGED <<hubSide, sendVars, hearVars>>

--------------------------------------------------------------------------------
(***************************************************************************)
(* Sending: sendRetiring, sendLocked, sendMessage.                         *)
(***************************************************************************)
SendArrives(s) ==
  /\ outcome # "connecting" /\ message[s].at = "idle"
  /\ \E c \in 1..MaxChunks :
       message' = [message EXCEPT ![s].at = "queued", ![s].chunks = c]
  /\ UNCHANGED <<handshakeVars, noise, writer, wire, hearVars>>

\* The context ends.  Only the wait for the channel is withdrawn.
SendContextEnds(s) ==
  /\ message[s].at \in {"queued", "writing"} /\ ~message[s].over
  /\ message' = [message EXCEPT ![s].over = TRUE]
  /\ UNCHANGED <<handshakeVars, noise, writer, wire, hearVars>>

SendWithdraws(s) ==
  /\ message[s].at = "queued" /\ message[s].over
  /\ message' = [message EXCEPT ![s].at = "done", ![s].told = "nothing_sent"]
  /\ UNCHANGED <<handshakeVars, noise, writer, wire, hearVars>>

SendTakesChannel(s) ==
  /\ message[s].at = "queued" /\ writer = NoSend
  /\ IF Ready
     THEN writer' = s /\ message' = [message EXCEPT ![s].at = "writing"]
     ELSE UNCHANGED writer /\ message' = [message EXCEPT ![s].at = "done", ![s].told = "refused"]
  /\ UNCHANGED <<handshakeVars, noise, wire, hearVars>>

\* The caller leaves a frame that is being written.
SendLeaves(s) ==
  /\ message[s].at = "writing" /\ message[s].over /\ message[s].told = "none"
  /\ message' = [message EXCEPT ![s].told = "finishing"]
  /\ UNCHANGED <<handshakeVars, noise, writer, wire, hearVars>>

Told(s, what) == IF message[s].told = "none" THEN what ELSE message[s].told

\* Mutant: a write nobody knows the end of leaves the session as it was.
Forgives(sent) == [noise EXCEPT !.sent = sent]

\* The deferred done of sendRetiring: the channel is poisoned.
Poisons(sent) == [noise EXCEPT !.sent = sent, !.failed = TRUE]

\* One chunk is encrypted, which uses its counter up, and written, or not, or
\* nobody knows; the next one follows under the same lock.
ChunkWritten(s) ==
  /\ writer = s
  /\ LET chunk == message[s].written + 1
         frame == [of |-> s, chunk |-> chunk, counter |-> noise.sent]
     IN  \/ /\ wire' = Append(wire, frame)
            /\ noise' = [noise EXCEPT !.sent = @ + 1]
            /\ message' = [message EXCEPT ![s].written = chunk,
                 ![s].at = IF chunk = message[s].chunks THEN "done" ELSE "writing",
                 ![s].told = IF chunk = message[s].chunks THEN Told(s, "ok") ELSE @]
            /\ writer' = IF chunk = message[s].chunks THEN NoSend ELSE s
         \/ /\ wire' \in {wire, Append(wire, frame)}
            /\ noise' = Poisons(noise.sent + 1)
            /\ message' = [message EXCEPT ![s].at = "done", ![s].told = Told(s, "error")]
            /\ writer' = NoSend
  /\ UNCHANGED <<handshakeVars, hearVars>>

--------------------------------------------------------------------------------
(***************************************************************************)
(* Receiving: receive on a session, decryptFrame.                          *)
(***************************************************************************)
HubSends(marker) ==
  /\ Ready /\ Len(hubFrames) < MaxHubFrames
  /\ hubFrames' = Append(hubFrames, marker)
  /\ UNCHANGED <<handshakeVars, noise, sendVars, delivered>>

Decrypts(i) == i = noise.received + 1

\* Mutant: a complete frame does not look at the buffer.
WholeAnyway(marker) ==
  \/ marker = "whole"
  \/ marker = "first" /\ noise.reassembly = NoBuffer
  \/ marker \in {"more", "last"} /\ noise.reassembly # NoBuffer

\* A marker the chunks received so far allow.
InSequence(marker) ==
  \/ marker \in {"whole", "first"} /\ noise.reassembly = NoBuffer
  \/ marker \in {"more", "last"} /\ noise.reassembly # NoBuffer

\* The carrier hands over a frame of the hub's, which may be one it handed
\* over before or one that overtook others.
FrameArrives(i) ==
  /\ Ready /\ writer = NoSend /\ i \in 1..Len(hubFrames)
  /\ LET marker   == hubFrames[i]
         buffered == Append(noise.reassembly, i)
     IN  IF ~Decrypts(i)
         THEN Fails /\ UNCHANGED delivered
         ELSE LET heard == [noise EXCEPT !.received = i, !.heard = TRUE]
              IN  IF ~InSequence(marker) \/ (marker # "whole" /\ Len(buffered) > ReassemblyCap)
                  THEN \* noise.heard is set after decryptFrame returned without error
                       /\ noise' = [noise EXCEPT !.received = i, !.failed = TRUE,
                                                 !.reassembly = NoBuffer]
                       /\ UNCHANGED delivered
                  ELSE /\ noise' = [heard EXCEPT !.reassembly =
                            CASE marker = "whole" -> @ [] marker = "last" -> NoBuffer
                              [] OTHER -> buffered]
                       /\ delivered' = CASE marker = "whole" -> Append(delivered, <<i>>)
                                         [] marker = "last"  -> Append(delivered, buffered)
                                         [] OTHER            -> delivered
  /\ UNCHANGED <<handshakeVars, sendVars, hubFrames>>

\* A plaintext frame on the session, or a message that does not decode; and
\* the carrier that closes the channel, which takes its lock.
ChannelEnds ==
  /\ Ready /\ writer = NoSend /\ Fails
  /\ UNCHANGED <<handshakeVars, sendVars, hearVars>>

--------------------------------------------------------------------------------
HandshakeNext ==
  HelloArrives \/ OfferArrives \/ AnswerArrives \/ StrayArrives \/ HubRefuses \/ ConnectContextEnds

SendNext ==
  \/ ChannelEnds
  \/ \E s \in ChannelSends :
       SendArrives(s) \/ SendContextEnds(s) \/ SendWithdraws(s) \/ SendTakesChannel(s)
         \/ SendLeaves(s) \/ ChunkWritten(s)

HearNext ==
  \/ ChannelEnds
  \/ \E marker \in Markers : HubSends(marker)
  \/ \E i \in 1..MaxHubFrames : FrameArrives(i)

ChannelNext == HandshakeNext \/ SendNext \/ HearNext

ChannelSpec == ChannelInit /\ [][ChannelNext]_channelVars

--------------------------------------------------------------------------------
\* What the connect says is what is so: a session is with the pinned hub, and
\* one that knows the password; a changed key is a changed key; our own key is
\* only said to be refused by a hub that showed it knows the password; and a
\* hub whose key changed is not told as one that refuses us while XX can tell
\* them apart (transport_noise.go:36-57, 66-77).
HandshakeTruth ==
  /\ Ready => hubSide.password /\ pin = hubSide.key
  /\ outcome = "key_changed" => hubSide.password /\ pin # hubSide.key
  /\ outcome = "key_rejected" => hubSide.password /\ ~hubSide.knowsUs
  /\ outcome = "unauthentic" => ~hubSide.password \/ over

\* The frames on the wire are the session's, counter by counter, and each
\* message's chunks stand together, from its first on; who was told that a
\* message was sent finds all of it there, and who was told it was not finds
\* none (transport_noise.go:12-15, 95-98, noise.go:371-377).
WireWhole ==
  /\ \A i \in 1..Len(wire) :
       /\ wire[i].counter = i
       /\ wire[i].chunk > 1 => i > 1 /\ wire[i - 1] = [of |-> wire[i].of,
            chunk |-> wire[i].chunk - 1, counter |-> i - 1]
  /\ \A s \in ChannelSends :
       LET written == {wire[i].chunk : i \in {j \in 1..Len(wire) : wire[j].of = s}}
       IN  /\ message[s].told = "ok" => written = 1..message[s].chunks
           /\ message[s].told \in {"nothing_sent", "refused"} => written = {}
           /\ message[s].told = "error" => noise.failed
           /\ message[s].told = "finishing" /\ message[s].at = "done" =>
                written = 1..message[s].chunks \/ noise.failed

\* A message handed to the application is one the hub sent: a whole frame, or
\* a first chunk and all that followed it up to its last one, with nothing of
\* another between; and no message is handed over twice or out of order
\* (noise.go:415-425).
HeardWhole ==
  \A m \in 1..Len(delivered) :
    LET d == delivered[m]
    IN  /\ \A k \in 1..Len(d) - 1 : d[k + 1] = d[k] + 1
        /\ Len(d) = 1 => hubFrames[d[1]] = "whole"
        /\ Len(d) > 1 => /\ hubFrames[d[1]] = "first" /\ hubFrames[d[Len(d)]] = "last"
                         /\ \A k \in 2..Len(d) - 1 : hubFrames[d[k]] = "more"
        /\ m > 1 => delivered[m - 1][Len(delivered[m - 1])] < d[1]
================================================================================
