\* Two iterators, safe or not, over a dict that is modified and resized.
SPECIFICATION SpecIter
CONSTANTS
  k1 = k1
  k2 = k2
  k3 = k3
  v1 = v1
  i1 = i1
  i2 = i2
  NULL = NULL
  Keys = {k1, k2, k3}
  Vals = {v1}
  Iters = {i1, i2}
  Hash <- ChainHash
  InitialSize = 2
  ForceResizeRatio = 1
  EmptyVisits = 2
  TableSizes <- SmallSizes
  ResizeArgs = {3}
  RehashArgs = {}
  MaxIterators = 2
  MaxUnsafe = 1
VIEW IterView
SYMMETRY IterSymmetry
INVARIANTS IterTypeOK TraversalComplete ReadAheadIsLive PausedWhileTraversed
PROPERTY NoFalseAlarm
CHECK_DEADLOCK FALSE
