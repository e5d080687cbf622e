\* One worker, one node, one command: a result that is reported again, after a
\* timeout, while the first report is still being served.
CONSTANTS
  None = None
  Cmd = {1}
  Process = {node}
  Serving = {node}
  Sweeper = {}
  Worker = {w1}
  Result = {r1, r2}
  maxPending = 2
  limit = 2
  MaxFaults = 1
SPECIFICATION ChannelSpec
PROPERTY TerminalImmutable
CHECK_DEADLOCK FALSE
