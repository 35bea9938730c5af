\* One peer whose requests may be refused.
SPECIFICATION Spec
CONSTANTS
  k = k
  v = v
  w = w
  NULL = NULL
  Blank = Blank
  Fds <- OneFd
  Keys = {k}
  Vals = {v}
  Lines <- FewLines
  Hollow = {}
  MaxArg = 6
  MaxPeers = 1
  MaxPending = 2
  MaxStrings = 8
  MaxBase = 1
  Resets = FALSE
INVARIANT ArgumentsAreFreed
CHECK_DEADLOCK FALSE
