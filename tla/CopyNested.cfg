SPECIFICATION Spec
CONSTANTS
  A = A
  B = B
  C = C
  D = D
  F = F
  a = a
  b = b
  none = none
  NoName = none
  Offers <- NestedOffers
  MaxRequests = 4
  Reenter <- AnyNested
  AtOnce <- Everywhere
  CanFail = TRUE
  CanRefuse = FALSE
  NewNames <- SameNames
  Dialogs = FALSE
  UniquePairs = TRUE
INVARIANTS StopMatchesVerdict
CHECK_DEADLOCK FALSE
