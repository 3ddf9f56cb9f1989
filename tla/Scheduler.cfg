SPECIFICATION FairSpec
CONSTANTS
  Entries = {dummy, shell, e1, e2}
  Dummy = dummy
  Shell = shell
  NoEntry = NoEntry
  WakeTimes <- MCWakeTimes
  SecondMs = 1
  TickMs = 1
  UintWrap = 2
CHECK_DEADLOCK FALSE
INVARIANTS
  TypeOK
  RingIntact
  ParentSeesExit
PROPERTIES
  OnlyBehindSleepers
  EveryoneRuns
