SPECIFICATION FairSpec
CONSTANTS
  A = A
  B = B
  C = C
  D = D
  F = F
  a = a
  b = b
  none = none
  NoName = none
  Offers <- QueueOffers
  MaxRequests = 4
  Reenter <- ToC
  AtOnce <- OnlyD
  CanFail = TRUE
  CanRefuse = FALSE
  NewNames <- SameNames
  Dialogs = FALSE
  UniquePairs = TRUE
INVARIANTS TypeOK StopMatchesVerdict OneCopyPerDestination WaitsForACopy NoneForgotten
PROPERTIES EveryCopyStops ServesLine
CHECK_DEADLOCK FALSE
