SPECIFICATION Spec
CONSTANTS
  Clients = {c1, c2, c3}
  None = None
  Fds = {1, 2}
  Items = 1
  MaxRequests = 1
  MaxSent = 1
  Kinds = {"good"}
  Patient = TRUE
  Readers = {c1, c2, c3}
INVARIANT RepliesAreOwn
CHECK_DEADLOCK FALSE
