\* Two console clients, started and left at will, with the server that answers them and
\* lets one connection wait.
SPECIFICATION Spec
CONSTANTS
  a = a
  b = b
  NULL = NULL
  Clients = {a, b}
  Backlog = 1
  MaxAhead = 1
INVARIANTS ConsoleTypeOK PromptMeansAnswered
PROPERTIES PromptReturns NobodyOutlivesTheServer ConnectionsAreHandled
CHECK_DEADLOCK FALSE
