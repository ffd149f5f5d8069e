SPECIFICATION FairSpec
CONSTANTS
  s1 = s1
  s2 = s2
  s3 = s3
  r1 = r1
  r2 = r2
  Sessions = {s1, s2, s3}
  Redactions = {r1}
  Pipeline = pipeline
  None = none
  Serial = TRUE
  CanDie = TRUE
INVARIANTS TypeOK RunOwnsJob DeletedLeavesNoRows ReviewIsBacked DecisionIsAudited
PROPERTIES ImplementsLifecycle Settles
