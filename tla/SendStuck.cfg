SPECIFICATION FairSpec
CONSTANTS
  m1 = m1
  m2 = m2
  m3 = m3
  Messages = {m1, m2, m3}
  Queued = {m3}
  FirstStarts = FALSE
  NoMessage = NoMessage
  Listeners = {1, 2, 3}
  MaxAsks = 1
  MaxQuits = 1

PROPERTIES EveryRunEnds
CHECK_DEADLOCK FALSE
