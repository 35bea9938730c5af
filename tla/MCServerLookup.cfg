\* Two peers whose connections may be reset: answers that go astray.
SPECIFICATION Spec
CONSTANTS
  k = k
  v = v
  w = w
  NULL = NULL
  Blank = Blank
  Fds <- TwoFds
  Keys = {k}
  Vals = {v}
  Lines <- FewLines
  Hollow = {}
  MaxArg = 6
  MaxPeers = 2
  MaxPending = 2
  MaxStrings = 8
  MaxBase = 2
  Resets = TRUE
INVARIANT RepliesReachTheSender
CHECK_DEADLOCK FALSE
