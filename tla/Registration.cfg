\* One member, two handlers in flight.
SPECIFICATION Spec
CONSTANTS
  Member = {m1}
  a1 = a1
  a2 = a2
  b1 = b1
  A = A
  B = B
  Ocid <- MCOcid
  Nickname <- MCNickname
  NameOf <- MCNameOf
  FirstOcid <- MCFirstOcid
  Key = {k1}
  Date = {d1}
  Session = {s1, s2}
  MAX_CHARACTERS_PER_USER = 2
  NoKey = NoKey
  NoOcid = NoOcid
CONSTRAINT OnePromiseCrossed
SYMMETRY Symmetric
INVARIANTS CapKept RepresentativeOwned SubscriptionAlive RemovedKeyForgotten
PROPERTY RefreshKeepsCharacters
