SPECIFICATION LocalSpec
CONSTANTS
  A = A
  B = B
  C = C
  D = D
  E = E
  F = F
  none = none
  NoName = none
  NoState = NoState
  Offers <- DraftOffers
  Job <- Jobs
  Faults <- DraftFaults
  QuietDrafts = FALSE
  MaxRequests = 4
  Reenter <- Nobody
  AtOnce <- Anywhere
  CanFail = TRUE
  CanRefuse = FALSE
  NewNames <- NoNames
  Dialogs = FALSE
  UniquePairs = TRUE
INVARIANTS OwnState
CHECK_DEADLOCK FALSE
