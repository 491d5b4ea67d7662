SPECIFICATION FairSpec
CONSTANTS
  Typed <- MCTyped
  Names = {milk, eggs}
  Times = {t8}
  Blank = blank
  DocIds = {d1, d2}
  NoDoc = NoDoc
  ScreenRows = 1
  MaxDisappeared = 1
  Faults = {"offline", "denied", "reject"}
CHECK_DEADLOCK FALSE
INVARIANTS TypeOK RowsHaveDocuments
PROPERTIES OnlyDisappearedTasksGo 
