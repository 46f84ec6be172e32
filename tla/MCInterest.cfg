SPECIFICATION LateInterestSpec
CONSTANTS
  Gross = 3
  Due = 0
  LastInterestDay = 3
  RateChange = 1
  TableRates <- MCTableRates
  ManualRates = {}
  Divisor = 3
  Changes = {2, 3}
  MaxChanges = 2
  MaxInterest = 2
PROPERTY NoDayBilledTwice
CHECK_DEADLOCK FALSE
