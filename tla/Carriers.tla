---------------------------------- MODULE Carriers ----------------------------------
(***************************************************************************)
(* The carriers a hub session may run over, apart from the WebSocket one,  *)
(* and the Noise channel they all share.  A behaviour is one of a single   *)
(* part, the others at rest: what a carrier needs of its channel (whether  *)
(* it failed, heard something or is being written to) its own module has.  *)
(***************************************************************************)
EXTENDS NoiseChannel, HTTPTransport, MQTTTransport

CONSTANT CarrierParts  \* the parts checked, among those below

ASSUME CarrierPartsAssumption == CarrierParts \subseteq {"handshake", "sending", "http", "mqtt"}

VARIABLE carrier  \* the part this behaviour is about

carrierVars == <<carrier, channelVars, httpVars, mqttVars>>

Init ==
  /\ carrier \in CarrierParts
  /\ IF carrier = "handshake" THEN ChannelInit ELSE ChannelInitWith({TrustedHub}, {"none"})
  /\ HTTPInit /\ MQTTInit

\* The handshake, and what is heard, is checked with every hub; sending with
\* one, and with what hearing does to it: it ends the channel (ChannelEnds).
Next ==
  /\ UNCHANGED carrier
  /\ \/ carrier = "handshake" /\ (HandshakeNext \/ HearNext) /\ UNCHANGED <<httpVars, mqttVars>>
     \/ carrier = "sending" /\ (HandshakeNext \/ SendNext) /\ UNCHANGED <<httpVars, mqttVars>>
     \/ carrier = "http" /\ HTTPNext /\ UNCHANGED <<channelVars, mqttVars>>
     \/ carrier = "mqtt" /\ MQTTNext /\ UNCHANGED <<channelVars, httpVars>>

Spec == Init /\ [][Next]_carrierVars /\ (carrier = "http" => HTTPFairness)

--------------------------------------------------------------------------------
\* The types of every part.
TypeOK == ChannelTypeOK /\ HTTPTypeOK /\ MQTTTypeOK

\* What a session left behind, a poll loop, a handler or a frame whose caller
\* left, ends no other session than its own (transport.go:301-302, 617-619;
\* transport_mqtt.go:339-340).
NothingOldHurts == [][OldSessionsHarmless /\ OldGenerationsHarmless]_carrierVars

\* What was agreed, written and heard is what both ends mean by it: the mode of
\* the handshake, whole messages out, whole messages in (transport_noise.go,
\* noise.go).
ChannelHonest == HandshakeTruth /\ WireWhole /\ HeardWhole

\* A carrier that is up is polled once, and tells its readiness once
\* (transport.go:293-315, transport_mqtt.go:320-337).
LinksKept == UpIsPolled /\ SignalsOnce
================================================================================
