\* One safe iterator over a dict whose entries are deleted behind and ahead of it.
SPECIFICATION SpecIter
CONSTANTS
  k1 = k1
  k2 = k2
  k3 = k3
  v1 = v1
  i1 = i1
  i2 = i2
  NULL = NULL
  Keys = {k1, k2, k3}
  Vals = {v1}
  Iters = {i1}
  Hash <- ChainHash
  InitialSize = 2
  ForceResizeRatio = 1
  EmptyVisits = 2
  TableSizes <- SmallSizes
  ResizeArgs = {1}
  RehashArgs = {}
  MaxIterators = 1
  MaxUnsafe = 0
VIEW IterView
INVARIANT SafeIteratorNeverDangles
