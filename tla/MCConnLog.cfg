SPECIFICATION Spec
CONSTANTS
  c1 = c1
  c2 = c2
  c3 = c3
  i1 = i1
  i2 = i2
  d1 = d1
  d2 = d2
  x1 = x1
  x2 = x2
  x3 = x3
  Nothing = Nothing
  Conns <- MCConns
  Ip <- MCIp
  Domain <- MCDomain
  RuleOf <- MCRuleOf
  Policy <- MCPolicy
  Cap = 2
  Keep = 2
INVARIANT IndexExact
PROPERTY JournalGrows
PROPERTY RecentKept
