SPECIFICATION Spec
CONSTANTS
  Callers = {a, b}
  Run = run
  Warmer = warmer
  Clients = {c1, c2}
  Entries = {"connect", "call", "warm", "probe", "close"}
  Deadlines = {a, b, run, warmer}
  None = none
SYMMETRY Symmetry
INVARIANTS IInv OneLink CallKeepsItsClient ShutStaysShut
