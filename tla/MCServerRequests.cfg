\* One peer at a time: every kind of request, cut and joined by recv(), and resets.
SPECIFICATION Spec
CONSTANTS
  k = k
  v = v
  w = w
  NULL = NULL
  Blank = Blank
  Fds <- OneFd
  Keys = {k}
  Vals = {v, w}
  Lines <- AllLines
  Hollow = {w}
  MaxArg = 6
  MaxPeers = 2
  MaxPending = 3
  MaxStrings = 7
  MaxBase = 1
  Resets = TRUE
VIEW OwnView
INVARIANTS ServerTypeOK DatabaseOwnsItsStrings FreedOnce
 
CHECK_DEADLOCK FALSE
