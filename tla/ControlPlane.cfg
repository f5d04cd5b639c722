CHECK_DEADLOCK FALSE
CONSTANTS
  ControlParts = {"config", "tokens", "waits", "clients"}
  Merges = {"m1", "m2"}
  Replacements = {"r1", "r2"}
  Options = {"a", "b"}
  Settings = {"on", "off"}
  Starts <- MCStarts
  Changes <- MCChanges
  Others <- MCOthers
  Itself = "itself"
  AnObject = "object"
  SignIns = {s1, s2}
  Revokes = {v1, v2}
  NoToken = NoToken
  Waits = {w1}
  Timeout = 4
  Interval = 1
  MaxAsked = 3
  SlowDown = 2
  Calls = {c1}
  ConnectionKinds = {"link", "relay"}
  Ordinary = "satellite"
  MaxRevision = 3
SPECIFICATION Spec
INVARIANTS TypeOK ToldTruth
PROPERTIES MergesAreAtomic TokensAndPace WaitsEnd
