\* Two hours a day, a process that may crash and fail, keys that may be unreadable.
SPECIFICATION FairSpec
CONSTANTS
  m1 = m1
  m2 = m2
  c1 = c1
  c2 = c2
  k1 = k1
  k2 = k2
  Call = {k1, k2}
  Caller <- MCCaller
  Name <- MCName
  GuildName = {"guild1"}
  Member = {m1, m2}
  Character = {c1, c2}
  Owned <- MCOwned
  Stored <- MCStored
  Keys <- MCKeys
  Answer <- MCAnswer
  Choices <- MCChoices
  HoursPerDay = 2
  MaxHour = 2
  MaxRestarts = 1
  MaxChanges = 2
INVARIANTS OneCardAnHour NeverAllHidden HeadlineHonest CardFits
PROPERTIES NobodyHeldUp FailureEndsAll
CHECK_DEADLOCK FALSE
