\* Two queries that overlap, days of three moments, two days.
SPECIFICATION Spec
CONSTANTS
  Query = {q1, q2}
  DayOf <- MCDayOf
  TODAY_TTL = 2
  HISTORY_CACHE_RETENTION_DAYS = 0
  NoRow = NoRow
  MaxTime = 4
SYMMETRY Symmetric
INVARIANTS RowsHonest AnswerCurrent
