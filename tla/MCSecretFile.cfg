SPECIFICATION Spec
CONSTANTS
  w1 = w1
  w2 = w2
  short = short
  long = long
  i1 = i1
  i2 = i2
  i3 = i3
  Default = Default
  NoInode = NoInode
  NoText = NoText
  Texts <- MCTexts
  Length <- MCLength
  Capacity = 2
  Inodes <- MCInodes
  Writers <- MCTwoWriters
  Locked = TRUE
  Faults = {"io", "kill", "power"}
SYMMETRY MCSymmetry
INVARIANT TypeOK
INVARIANT Settled
INVARIANT AtomicWrite
PROPERTY DurableSpec
