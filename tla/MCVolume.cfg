SPECIFICATION Spec
CONSTANTS
  a = a
  b = b
  t0 = t0
  t1 = t1
  b1 = b1
  None = None
  NodeId = {n1, n2, n3}
  ObjectId = {o1, o2, o3}
  SegmentId = {s1, s2}
  EmptyText = t0
  MaxGeneration = 3
  Names <- MCNames
  Paths <- MCBranchPaths
  Text <- MCText
  Binary <- MCBinary
  Size <- MCSize
  Escaped <- MCEscaped
  Wild <- MCWild
  Batches <- MCBranchBatches
  Trees <- MCBranchTrees
SYMMETRY Symmetry
INVARIANTS
  TypeOK
  ContentResident
  CountersExact
  EntriesPlaced
  SizesAgree
PROPERTIES
  GenerationTracks
