SPECIFICATION Spec
CONSTANTS
  wrong = wrong
  right = right
  other = other
  s1 = s1
  None = None
  NoSub = NoSub
  Missing = Missing
  Default = Default
  work = work
  tunnel = tunnel
  Awgs <- MCAwgs
  Legacies <- MCLegacies
  MaxCuts = 1
  Ids <- MCIds
  Healed <- MCHealed
  Subs <- MCSubs
  Confs <- MCConfs
INVARIANT AtRest
INVARIANT SelectionFound
INVARIANT NoStrays
INVARIANT Editable
PROPERTY TakenOver
PROPERTY NothingRevived
