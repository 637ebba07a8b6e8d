\* One category, two recipients, pages shorter than the backlog; no symmetry: liveness.
SPECIFICATION FairSpec
CONSTANTS
  Category = {notice}
  Recipient = {r1, r2}
  NoCategory = NoCategory
  PageSize = 2
  EMBEDS_PER_MESSAGE = 1
  MaxId = 4
  MaxInterrupts = 1
INVARIANTS SilentBaseline NoDuplicates
PROPERTIES MarkedAfterSent Implements CaughtUp
