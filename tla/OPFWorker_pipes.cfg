SPECIFICATION FairSpec
CONSTANTS
  c1 = c1
  c2 = c2
  Callers = {c1, c2}
  Booter = booter
  Stopper = stopper
  NoOne = noone
  NoText = notext
  MaxCalls = 2
  StderrRoom = 1
  Long <- LongTexts
INVARIANTS TypeOK AnswersMatch NoOrphanedWorker
PROPERTY CallsReturn
CHECK_DEADLOCK FALSE
