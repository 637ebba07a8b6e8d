\* A hub or an account sync, with two clicks under way.
SPECIFICATION FairSpec
CONSTANTS
  o1 = o1
  o2 = o2
  o3 = o3
  Ocid = {o1, o2, o3}
  Account = {o1, o2}
  Importable = {o1, o2}
  Rank <- MCRank
  PageSize = 1
  MAX_CHARACTERS_PER_USER = 2
  Contested = {o1}
  MaxClicks = 1
INVARIANT PickedFits
PROPERTIES OneDeletionPerPick BusyEnds
CHECK_DEADLOCK FALSE
