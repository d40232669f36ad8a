SPECIFICATION StreamSpec
CONSTANTS
  Slots = 1
  MaxBlocks = 1
  Receivers = {r1, r2}
  Conns = {c1, c2}
  NoConn = NoConn
  MaxQueue = 1
  Rejects = TRUE
  EmptyStarts = TRUE
SYMMETRY Symmetry
VIEW View
INVARIANTS StreamsDoNotOverlap LoggerServesClaimant ClaimHasReason
PROPERTIES PipelineSpec OneWorkerAtATime
CHECK_DEADLOCK FALSE
