CONSTANTS
  Requests <- Everything
  OsBufferSize = 12
  kMaxMessageSize = 16
SPECIFICATION FairSpec
INVARIANTS
  TypeOK
  StreamAccounting
  EofLeavesNoBodyReader
  AbortBlame
  OnlyCancelLosesAnswer
PROPERTIES
  CompleteIsFinal
  RefinesExchange
  WholeRequestEnds
  GoneClientReleases
