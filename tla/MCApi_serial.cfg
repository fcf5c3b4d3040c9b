SPECIFICATION Spec
CONSTANTS
  r1 = r1
  r2 = r2
  p1 = p1
  p2 = p2
  n1 = n1
  a1 = a1
  d1 = d1
  x1 = x1
  x2 = x2
  NoProc = NoProc
  NoNode = NoNode
  NoConf = NoConf
  Bare = Bare
  Reqs <- MCOneReq
  Booting = {}
  Procs <- MCOneProc
  Nodes <- MCNodes
  AwgNodes <- MCAwgNodes
  Confs <- MCDefault
  Default = d1
  Rules <- MCOneRule
  Modes = {"config", "proxy"}
  Failing = {"generate", "awg", "spawn", "ready", "save"}
  Ops = {"up", "down", "mode", "nodes/select", "nodes/delete", "nodes/update", "nodes/import", "subs/add", "subs/update", "subs/delete", "conf", "conf/select", "conf/delete", "conf/fromurl", "rules", "rules/add", "rules/update", "rules/delete", "rules/move"}
INVARIANT TypeOK
INVARIANT UpIsHonest
INVARIANT ConfigInForce
INVARIANT AwgTornDown
PROPERTY ReverseOrder
