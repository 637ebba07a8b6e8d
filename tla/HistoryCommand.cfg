\* Two commands, two days, of which the second has a summary of the first.
SPECIFICATION HistorySpec
CONSTANTS
  ann = ann
  bob = bob
  keyless = keyless
  gone = gone
  lost = lost
  Item <- MCItem
  SetLevel <- MCSetLevel
  SeedLevel <- MCSeedLevel
  ExcludedItems = {"ring"}
  MinLevel = 100
  MinStar = 1
  DestroyStar = 2
  MaxStar = 4
  Scale = 20
  Prob <- MCProb
  Price <- MCPrice
  ResetPrice <- MCResetPrice
  Member = {ann, bob, keyless, gone, lost}
  k1 = k1
  k2 = k2
  Call = {k1, k2}
  Info <- MCInfo
  Attempts <- MCAttempts
  Rolls <- MCRolls
  Given <- MCGiven
  Failures = {"auth_invalid"}
  MaxOther = 1
  WideCap = 2
  TopN = 1
  Retention = 1
  MaxParts = 3
SYMMETRY MCSymmetry
INVARIANTS EveryoneAnsweredOnce SummarisedOnce ExpectationFair
CHECK_DEADLOCK FALSE
