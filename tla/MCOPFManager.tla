---------------------------- MODULE MCOPFManager ----------------------------
(* Model-checking instances of OPFManager. *)
EXTENDS OPFManager, TLC

CONSTANTS t1, t2, t3, w1, w2, w3, wd, ls

ThreadsAndWorkers2 == Permutations({t1, t2, t3}) \cup Permutations({w1, w2})

\* Only jobs and the toggle's two endpoints: the traffic of the liveness run.
TogglesAndJobs ==
  /\ comparing' = {}
  /\ \A t \in Threads : pc'[t] # "adhoc"
  /\ pc'[Watchdog] = "idle" /\ pc'[Lifespan] = "idle"
=============================================================================
