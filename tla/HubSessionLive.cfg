SPECIFICATION FairSpec
CONSTANTS
  Callers = {a}
  Run = run
  Warmer = warmer
  Clients = {c1, c2}
  Entries = {"call", "probe", "close"}
  Deadlines = {a}
  None = none
PROPERTIES CallsReturn CloseEndsRun LinkCaredFor
