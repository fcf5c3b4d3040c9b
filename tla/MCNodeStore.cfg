SPECIFICATION Spec
CONSTANTS
  r1 = r1
  r2 = r2
  s1 = s1
  s2 = s2
  a = a
  b = b
  x = x
  y = y
  NoSub = NoSub
  Reqs <- MCReqs
  Subs <- MCSubs
  Ids <- MCIds
  Names <- MCNames
  Latencies = {5}
  MaxNodes = 3
  MaxList = 2
SYMMETRY MCSymmetry
PROPERTY NoLeftovers
PROPERTY EditSticks
PROPERTY LatencyKept
PROPERTY OnlyRefreshRepeats
PROPERTY EditUnique
