SPECIFICATION Spec
CONSTANTS
  Emails = {ann, bob}
  Nobody = Nobody
  Controllers = {1, 2}
  MaxStack = 3
  MaxRequests = 2
INVARIANT OnlyVerifiedUsers
