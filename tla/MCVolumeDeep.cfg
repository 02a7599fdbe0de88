SPECIFICATION GuardedSpec
CONSTANTS
  a = a
  b = b
  t0 = t0
  t1 = t1
  b1 = b1
  None = None
  NodeId = {n1, n2, n3, n4, n5, n6}
  ObjectId = {o1, o2}
  SegmentId = {s1}
  EmptyText = t0
  MaxGeneration = 1
  Names <- MCNames
  Paths <- MCDeepPaths
  Text <- MCText
  Binary <- MCNoBinary
  Size <- MCSize
  Escaped <- MCEscaped
  Wild <- MCWild
  Batches <- MCDeepBatches
  Trees <- MCDeepTrees
SYMMETRY Symmetry
INVARIANTS
  Connected
  Addressable
  TextInBlocks
  EntriesHaveZones
  ListAgrees
  WalkAgrees
  FastPathsAgree
PROPERTIES
  Refines
