SPECIFICATION FairSpec
CONSTANTS
  Keys = {imap, pop, news}
  MaxCalls = 4
INVARIANTS TypeOK CounterCounts SomeoneWillLook FindsItsEntry OneAtATime HearsItsPrompt
PROPERTIES OneAnswer EveryCallerServed
CHECK_DEADLOCK FALSE
