SPECIFICATION LocalSpec
CONSTANTS
  A = A
  B = B
  C = C
  D = D
  E = E
  F = F
  none = none
  NoName = none
  NoState = NoState
  Offers <- LocalOffers
  Job <- Jobs
  Faults <- LocalFaults
  QuietDrafts = TRUE
  MaxRequests = 3
  Reenter <- Nobody
  AtOnce <- Anywhere
  CanFail = TRUE
  CanRefuse = FALSE
  NewNames <- NoNames
  Dialogs = FALSE
  UniquePairs = TRUE
INVARIANTS LocalTypeOK OwnState InStep DeletedOnlyIfCopied LaterTruncated
 
CHECK_DEADLOCK FALSE
