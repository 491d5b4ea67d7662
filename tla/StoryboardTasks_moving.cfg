SPECIFICATION Spec
CONSTANTS
  Emails = {me}
  Names = {milk, eggs}
  Times = {t8, t9}
  Blank = blank
  BadTime = late
  DocIds = {d1, d2, d3}
  NoDoc = NoDoc
  MaxWrites = 6
  MaxSignIns = 0
  Faults = {}
PROPERTY DeletesTheShownRow
