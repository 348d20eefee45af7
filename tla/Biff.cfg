SPECIFICATION FairSpec
CONSTANTS
  pop1 = pop1
  pop2 = pop2
  imap = imap
  local = local
  remote = remote
  Servers = {pop1, pop2, imap}
  Target <- SharedTarget
  Delays = {4, 5}
  WakeDelay = 2
  LateDelay = 3
  MaxChanges = 4
INVARIANTS TypeOK WokenInTime
PROPERTIES NoneOverlooked EveryLateServerChecked
