SPECIFICATION Spec
CONSTANTS
  Emails = {me, other}
  Names = {milk}
  Times = {t8, t9}
  Blank = blank
  BadTime = late
  DocIds = {d1, d2}
  NoDoc = NoDoc
  MaxWrites = 3
  MaxSignIns = 2
  Faults = {"kill", "reject", "offline", "denied"}
SYMMETRY Symmetry
INVARIANTS TypeOK CountsAgree PathsKnown PathsSound
PROPERTIES OtherUsersUntouched DeletedStaysDeleted ImplementsPendingWrites
