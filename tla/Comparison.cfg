\* One member, one handler and one comparison in flight.
SPECIFICATION ComparisonSpec
CONSTANTS
  Member = {m1}
  a1 = a1
  a2 = a2
  A = A
  Ocid <- MCOcid
  Nickname <- MCNickname
  NameOf <- MCNameOf
  FirstOcid <- MCFirstOcid
  Key = {}
  Date = {}
  Session = {s1, c1}
  Command = {c1}
  MAX_CHARACTERS_PER_USER = 2
  NoKey = NoKey
  NoOcid = NoOcid
  Guest = Guest
  None = None
PROPERTY ComparisonEnds
