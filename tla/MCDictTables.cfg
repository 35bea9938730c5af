\* The two tables under growth, shrinking, bulk rehashing and a safe iterator, as the map they implement.
SPECIFICATION FairSpec
CONSTANTS
  k1 = k1
  k2 = k2
  k3 = k3
  k4 = k4
  k5 = k5
  v1 = v1
  v2 = v2
  NULL = NULL
  Keys = {k1, k2, k3}
  Vals = {v1, v2}
  Hash <- SpreadHash
  InitialSize = 1
  ForceResizeRatio = 1
  EmptyVisits = 2
  TableSizes <- FirstSizes
  ResizeArgs = {1, 4}
  RehashArgs = {2}
  MaxIterators = 1
INVARIANTS TypeOK LookupComplete KeysUnique CountersExact RehashInBounds TablesAllocated DictInv
PROPERTIES ResizeRunsToItsEnd EntriesStayPut ImplementsMap RehashEnds
VIEW OwnView
