SPECIFICATION LocalSpec
CONSTANTS
  A = A
  B = B
  C = C
  D = D
  E = E
  F = F
  none = none
  NoName = none
  NoState = NoState
  Offers <- StopOffers
  Job <- Jobs
  Faults <- StopFaults
  QuietDrafts = TRUE
  MaxRequests = 2
  Reenter <- Nobody
  AtOnce <- Anywhere
  CanFail = TRUE
  CanRefuse = FALSE
  NewNames <- NoNames
  Dialogs = FALSE
  UniquePairs = TRUE
PROPERTIES EveryCopyStops
CHECK_DEADLOCK FALSE
