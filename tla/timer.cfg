CONSTANTS
  Periods = {1, 2}
  IdleSleep = 3
  MaxEvents = 2
SPECIFICATION FairSpec
INVARIANTS TypeOK NoOversleep OneShotFiresOnce CancelledFiresOnce NothingLost
PROPERTIES EventsFire DeleteReturns
CHECK_DEADLOCK FALSE
