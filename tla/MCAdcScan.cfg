SPECIFICATION FairScanSpec
CONSTANTS
  LastChannel = 2
  MaxScans = 2
  Missing = Missing
INVARIANTS ValuesMatchChannels ScanIsCurrent AwaitsOwedSamples
PROPERTIES ScanEnds
CHECK_DEADLOCK FALSE
