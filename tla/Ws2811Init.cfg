SPECIFICATION Spec
CONSTANTS
  Codes = {3, 4, 13, 14, 15, 16777232, 10625154, 57005}
  Unreadable = unreadable
  NoBoard = none
  Pins0 = {4, 10, 18, 21, 31}
  Pins1 = {0, 5, 13}
  Counts = {0, 1}
  Junk = Junk
  MaxRuns = 2
INVARIANTS TypeOK TablesAgree NothingLeft ReleasedOnce DmaReadsLiveMemory
CHECK_DEADLOCK FALSE
