SPECIFICATION ProcFairSpec
CONSTANTS
  g1 = g1
  g2 = g2
  p1 = p1
  p2 = p2
  NoPid = NoPid
  Callers <- MCCallers
  Pids <- MCPids
  MaxLines = 1
INVARIANT ProcTypeOK
INVARIANT Accounted
INVARIANT SoleStopper
PROPERTY StopReturns
PROPERTY VictimDies
PROPERTY SlotSpec
