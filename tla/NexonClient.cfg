\* Three coroutines that keep calling, two keys; no symmetry: liveness.
SPECIFICATION FairSpec
CONSTANTS
  Call = {c1, c2, c3}
  app = app
  personal = personal
  Key <- MCKey
  Interval <- MCInterval
  max_retry = 1
  retry_wait = 2
INVARIANT NoLongSleep
PROPERTIES PerKeySpacing EveryCallEnds
