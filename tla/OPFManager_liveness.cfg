SPECIFICATION FairSpec
CONSTANTS
  t1 = t1
  t2 = t2
  t3 = t3
  w1 = w1
  w2 = w2
  w3 = w3
  wd = wd
  ls = ls
  Threads = {t1, t2, t3}
  Workers = {w1, w2}
  Watchdog = wd
  Lifespan = ls
  Fallback = fallback
  NoWorker = none
  CanTimeOut = TRUE
  MaxLost = 1
PROPERTY TogglesReturn
ACTION_CONSTRAINT TogglesAndJobs
