\* Two weeks, two manual broadcasts at a time.
SPECIFICATION SundaySpec
CONSTANTS
  Channel = {c1, c2}
  User = {u1}
  Request = {q1, q2}
  MaxWeek = 2
SYMMETRY Symmetric
INVARIANTS OneAutomaticPerWeek MarkedWeekServed
PROPERTY OperatorFirst
