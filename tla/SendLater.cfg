SPECIFICATION FairSpec
CONSTANTS
  m1 = m1
  m2 = m2
  m3 = m3
  Messages = {m1, m2, m3}
  Queued = {m3}
  FirstStarts = TRUE
  NoMessage = NoMessage
  Listeners = {1, 2, 3}
  MaxAsks = 2
  MaxQuits = 2
INVARIANTS SendTypeOK OneAtATime OutboxExact
  
CHECK_DEADLOCK FALSE
