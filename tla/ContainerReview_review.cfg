SPECIFICATION CFairSpec
CONSTANTS
  s1 = s1
  s2 = s2
  s3 = s3
  r1 = r1
  Sessions = {s1, s2, s3}
  Redactions = {}
  Pipeline = pipeline
  None = none
  Serial = TRUE
  CanDie = TRUE
  MaxPromotions = 2
  MaxLosses = 1
INVARIANTS ReadyIsComplete DocFollowsJob
PROPERTIES PublishedIsApproved DocSettles
