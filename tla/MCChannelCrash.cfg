CONSTANTS
  None = None
  Cmd = {1, 2}
  Process = {node, cli}
  Serving = {node}
  Sweeper = {}
  Worker = {w1}
  Result = {r1, r2}
  maxPending = 2
  limit = 2
  MaxFaults = 2
SPECIFICATION FairChannelSpec
INVARIANT DoneMeansExecuted
PROPERTY CommandsFinish
