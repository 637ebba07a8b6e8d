\* A timeout of two units, tokens of four, two clicks.
SPECIFICATION Spec
CONSTANTS
  k1 = k1
  k2 = k2
  User <- MCUser
  Ocid <- MCOcid
  Nick <- MCNick
  Slot = {"cap"}
  Click = {k1, k2}
  Strangers = {"o2"}
  WeeklyDays = 1
  Calls <- MCCalls
  SpecCap = 2
  WideCap = 3
  MaxSpecified = 2
  MaxCompare = 2
  Timeout = 2
  TokenLife = 4
  MaxTime = 4
INVARIANTS ShownIsCurrent TimeoutClears SamePeople
PROPERTIES BusyEnds
CHECK_DEADLOCK FALSE
