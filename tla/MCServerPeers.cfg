\* Two peers that connect, send, pipeline and hang up; no connection is reset.
SPECIFICATION Spec
CONSTANTS
  k = k
  v = v
  w = w
  NULL = NULL
  Blank = Blank
  Fds <- TwoFds
  Keys = {k}
  Vals = {v}
  Lines <- FewLines
  Hollow = {}
  MaxArg = 6
  MaxPeers = 2
  MaxPending = 2
  MaxStrings = 8
  MaxBase = 2
  Resets = FALSE
INVARIANTS RepliesReachTheSender OpenAreWatched
PROPERTY RequestsServed
CHECK_DEADLOCK FALSE
