\* The commands on a dict that grows and rehashes, with values that come and go.
SPECIFICATION DbSpec
CONSTANTS
  k1 = k1
  k2 = k2
  k3 = k3
  k4 = k4
  t1 = t1
  t2 = t2
  o1 = o1
  o2 = o2
  o3 = o3
  o4 = o4
  NULL = NULL
  Keys = {k1, k2, k3, k4}
  Vals = {o1, o2, o3, o4}
  SharedId = SharedId
  Hash <- SpreadHash
  InitialSize = 1
  ForceResizeRatio = 1
  EmptyVisits = 1
  TableSizes <- FirstSizes
  ResizeArgs = {}
  RehashArgs = {}
  MaxIterators = 0
  Texts = {t1, t2}
  Length <- Lengths
  CLIENT_BUF_SIZE = 5
  Wrapping = 3
VIEW OwnState
INVARIANTS LoadBounded EntriesOwnTheirObjects 
PROPERTY ImplementsTable
CHECK_DEADLOCK FALSE
