\* Two days, the job and one command.
SPECIFICATION Spec
CONSTANTS
  o1 = o1
  o2 = o2
  Ocid <- MCOcid
  First <- MCFirst
  Job = job
  Builder = {job, command}
  FirstToday = 6
  MaxDay = 7
  period_days = 4
  step = 2
  BACKFILL_DAYS = 2
  RETENTION_DAYS = 4
  TOP_N = 1
  NoOcid = NoOcid
  NoDay = NoDay
SYMMETRY Symmetric
INVARIANTS OneCallInVain EveryGapAsked FilledOnce ShownForTheSameDay
