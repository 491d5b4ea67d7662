SPECIFICATION FairSpec
CONSTANTS
  Emails = {ann, bob}
  Nobody = Nobody
  Controllers = {1, 2}
  MaxStack = 3
  MaxRequests = 2
INVARIANTS TypeOK OneUserAtATime MailsGoToNewcomers
PROPERTY LoadingClears
