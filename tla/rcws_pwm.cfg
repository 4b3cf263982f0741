CONSTANTS
  Rows = 2
  MaxTasks = 2
SPECIFICATION FairSpec
INVARIANTS TypeOK AloneIsDefined RowsInOrder AtMostOneMore StopComesLast
PROPERTY ExitEndsThreads
CHECK_DEADLOCK FALSE
