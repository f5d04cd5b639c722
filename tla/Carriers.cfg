SPECIFICATION Spec
CONSTANTS
  CarrierParts = {"handshake", "sending", "http", "mqtt"}
  ChannelSends = {m1, m2}
  NoSend = NoSend
  MaxChunks = 3
  MaxHubFrames = 4
  ReassemblyCap = 3
  MaxHTTPSessions = 2
  MaxGenerations = 3
CHECK_DEADLOCK FALSE
INVARIANTS TypeOK ChannelHonest LinksKept
PROPERTIES NothingOldHurts LifecycleReturns
