SPECIFICATION Spec
CONSTANTS
  CarrierParts = {"http"}
  ChannelSends = {m1}
  NoSend = NoSend
  MaxChunks = 1
  MaxHubFrames = 1
  ReassemblyCap = 1
  MaxHTTPSessions = 2
  MaxGenerations = 1
CHECK_DEADLOCK FALSE
PROPERTY AdmittedOnce
