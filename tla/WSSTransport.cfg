SPECIFICATION Spec
CONSTANTS
  Callers = {a, b}
  Writers = {w}
  Hubs = {"good", "access", "password", "hubKey", "clientKey"}
  Deadlines = {a, b}
  MaxGeneration = 3
  None = none
SYMMETRY Symmetry
CHECK_DEADLOCK FALSE
INVARIANTS TypeOK ConnectHonest
PROPERTY OnlyItsOwnEndsALink
