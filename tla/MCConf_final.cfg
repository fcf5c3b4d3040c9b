SPECIFICATION Spec
CONSTANTS
  d1 = d1
  d2 = d2
  q1 = q1
  u1 = u1
  Conds <- MCConds
  Bad <- MCBad
  SetRules <- MCSetRules
  Policies <- MCPolicies
  Upper <- MCUpper
  Texts <- MCTexts
  MaxRules = 3
INVARIANT FirstMatchWins
