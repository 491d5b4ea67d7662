SPECIFICATION Spec
CONSTANTS
  Alphabet <- MCAlphabet
  MaxLength <- MCMaxLength
INVARIANTS EmailRule PasswordRule TimeRule
CHECK_DEADLOCK FALSE
