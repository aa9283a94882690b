SPECIFICATION FairSpec
CONSTANTS
  None = None
  Pids = {p1, p2}
  Clients = {c1, c2}
  Commands = {c2}
  MaxRetries = 1
INVARIANTS OneDaemonPerRepo CleanExitLeavesNoRecord
PROPERTIES CallsAreAnswered
