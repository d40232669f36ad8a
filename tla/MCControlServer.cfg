SPECIFICATION FairSpec
CONSTANTS
  Clients = {c1, c2}
  None = None
  Fds = {1, 2}
  Items = 2
  MaxRequests = 2
  MaxSent = 2
  Kinds = {"good", "bad", "huge"}
  Patient = FALSE
  Readers = {c1}
INVARIANTS BundlesAreAtomic RepliesFollowRuns MisdeliveredByReuse ReceiversKeepApart
PROPERTIES KeepsPromise EveryRequestAnswered
CHECK_DEADLOCK FALSE
