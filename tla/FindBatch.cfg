SPECIFICATION Spec
CONSTANTS
  a = a
  b = b
  t0 = t0
  t1 = t1
  b1 = b1
  None = None
  NodeId = {n1, n2, n3, n4}
  ObjectId = {o1, o2}
  SegmentId = {s1}
  EmptyText = t0
  MaxGeneration = 1
  Names <- MCNames
  Paths <- MCPaths
  Text <- MCText
  Binary <- MCBinary
  Size <- MCSize
  Escaped <- MCEscaped
  Wild <- MCWild
  Batches <- MCBatches
  Trees <- MCTrees
SYMMETRY Symmetry
INVARIANTS
  Connected
