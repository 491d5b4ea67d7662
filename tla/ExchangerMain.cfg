SPECIFICATION FairSpec
CONSTANTS
  Currencies = {EUR, USD}
  Amounts = {ten}
  BadAmount = spaced
  Blank = blank
  NoRates = NoRates
  Zero = Zero
  MaxTasks = 2
  Faults = {"transport", "undecodable"}
INVARIANTS TypeOK RatesFollowTheTap
PROPERTIES ResultFitsInputs LoadingEnds MainThreadReturns
CHECK_DEADLOCK FALSE
