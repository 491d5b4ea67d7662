SPECIFICATION Spec
CONSTANTS
  NoStream = NoStream
  Users = {u1, u2}
  Docs = {open, closed}
  RefusedDocs = {closed}
  MaxWrites = 3
  MaxDisturbances = 2
  kMaxPendingWrites = 2
CHECK_DEADLOCK FALSE
INVARIANTS TypeOK AssertionsHold ServerAgrees OwnCredentials ToldTheTruth
PROPERTIES ImplementsPendingWrites EveryWriteSettles
