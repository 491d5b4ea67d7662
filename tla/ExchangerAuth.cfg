SPECIFICATION FairSpec
CONSTANTS
  Emails = {ann, bob}
  Malformed = malformed
  Blank = blank
  Nobody = Nobody
  MaxRequests = 3
INVARIANTS TypeOK MainBelongsToTheLogin
PROPERTIES WaitingEnds ResetClosesAfterAMail
CHECK_DEADLOCK FALSE
