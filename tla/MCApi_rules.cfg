SPECIFICATION Spec
CONSTANTS
  r1 = r1
  r2 = r2
  p1 = p1
  p2 = p2
  n1 = n1
  a1 = a1
  d1 = d1
  x1 = x1
  x2 = x2
  NoProc = NoProc
  NoNode = NoNode
  NoConf = NoConf
  Bare = Bare
  Reqs <- MCTwoReqs
  Booting = {}
  Procs <- MCTwoProcs
  Nodes <- MCOneNode
  AwgNodes = {}
  Confs <- MCDefault
  Default = d1
  Rules <- MCTwoRules
  Modes = {"config"}
  Failing = {}
  Ops = {"up", "nodes/select", "rules/add"}
INVARIANT RulesInForce
