SPECIFICATION Spec
CONSTANTS
  NoNode = NoNode
  Specs <- MCSpecs
  Groups <- MCGroups
  Policies <- MCPolicies
  Safe <- MCSafe
  Names <- MCNames
  Nodes = {"awg", "vless"}
  MaxServers = 2
  MaxSize = 3
INVARIANT OutboundsThere
INVARIANT Resolvable
INVARIANT HostsMeant
INVARIANT GroupsMeant
