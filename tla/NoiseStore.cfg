SPECIFICATION Spec
CONSTANTS
  Processes = {p, q}
  Nodes = {m, n}
  HubKeys = {k, l}
  OldKey = old
  Uses = {"wss", "channel", "named", "save", "forget"}
  Faults = {"crash", "publish", "unread", "unwritable"}
  MaxCalls = 3
  None = none
CHECK_DEADLOCK FALSE
SYMMETRY Symmetry
INVARIANTS IInv
PROPERTIES OthersKept CopiedWithItsPins
