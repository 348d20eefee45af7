SPECIFICATION Spec
CONSTANTS
  A = A
  B = B
  C = C
  D = D
  F = F
  a = a
  b = b
  none = none
  NoName = none
  Offers <- FreeOffers
  MaxRequests = 3
  Reenter <- AnyOfThem
  AtOnce <- Everywhere
  CanFail = TRUE
  CanRefuse = TRUE
  NewNames <- Renamed
  Dialogs = TRUE
  UniquePairs = FALSE
 
PROPERTIES KeepsLine
CHECK_DEADLOCK FALSE
