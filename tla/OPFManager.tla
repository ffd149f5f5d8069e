----------------------------- MODULE OPFManager -----------------------------
(***************************************************************************)
(* The runtime toggle of the OPF model (src/anonymizer_api/opf_manager.py) *)
(* and the calls that reach it: POST /api/opf/enable and /disable, the     *)
(* lease a job takes for its pipeline run, the lease the detector          *)
(* comparison takes after ensure_loaded(), one-off detections through      *)
(* ToggledBaseClient, the idle watchdog and the shutdown hook.             *)
(*                                                                         *)
(* One step is one critical section of the manager's RLock, or the work    *)
(* done between two of them.  A Condition.wait() releases the lock, so a   *)
(* thread that waits is a thread whose pc names the wait.  A detection is  *)
(* one step: SubprocessOPFClient holds its own lock for the whole exchange *)
(* and stop() takes the same lock.                                         *)
(***************************************************************************)
EXTENDS Naturals, FiniteSets

CONSTANTS
  Threads,    \* threads of the server's pool that serve requests and jobs
  Watchdog,   \* the "opf-idle-watchdog" thread
  Lifespan,   \* the thread that runs the FastAPI lifespan's finally block
  Workers,    \* OPF worker processes; one that is down and forgotten is reused
  Fallback,   \* the base used while OPF is off (RegexFallbackClient)
  NoWorker,   \* Python's None
  CanTimeOut, \* whether disable()'s 60 s of patience may run out
  MaxLost     \* bound: how many leases may be lost

ASSUME ThreadsFinite == IsFiniteSet(Threads)
ASSUME ActorsDistinct ==
  Watchdog \notin Threads /\ Lifespan \notin Threads /\ Watchdog # Lifespan
ASSUME BasesDistinct ==
  Fallback \notin Workers /\ NoWorker \notin Workers /\ Fallback # NoWorker
ASSUME CanTimeOutIsBoolean == CanTimeOut \in BOOLEAN
ASSUME MaxLostIsNat == MaxLost \in Nat

VARIABLES
  enabled, loading, client, refcount,  \* the manager's fields of those names
  idle,       \* time since _last_used_at has reached _idle_timeout
  stopping,   \* _stop_event is set
  worker,     \* what each worker process is doing
  pc,         \* where each actor is
  hold,       \* the base or worker an actor has in a local variable
  comparing,  \* the threads serving POST /jobs/{id}/detector-comparison
  lost        \* history: the leases whose job died before its try/finally

vars == <<enabled, loading, client, refcount, idle, stopping, worker, pc, hold,
          comparing, lost>>
managerVars == <<enabled, loading, client, refcount, idle>>

Actors == Threads \cup {Watchdog, Lifespan}
Bases == Workers \cup {Fallback, NoWorker}

PCs ==
  {"idle",
   "boot",         \* enable(): in client.start(), outside the lock
   "waitload",     \* enable(): waiting for another thread's load
   "loaded",       \* comparison: ensure_loaded() returned, acquire() not called
   "taken",        \* job: acquire() returned, the try/finally not entered
   "leased",       \* inside the try whose finally calls release()
   "failed",       \* a detect() of the lease raised; release() comes next
   "adhoc",        \* between current_base() and target.detect()
   "drain",        \* disable(): waiting for refcount to reach zero
   "stopDrained",  \* disable(): about to stop a worker taken at refcount zero
   "stopNow",      \* disable(): about to stop a worker taken without waiting
   "expired",      \* watchdog: found OPF idle, has dropped the lock
   "joining",      \* shutdown(): _stop_event is set, joining the watchdog
   "done"}         \* shutdown() has returned

TypeOK ==
  /\ enabled \in BOOLEAN
  /\ loading \in BOOLEAN
  /\ client \in Workers \cup {NoWorker}
  /\ refcount \in Nat
  /\ idle \in BOOLEAN
  /\ stopping \in BOOLEAN
  /\ worker \in [Workers -> {"down", "booting", "up"}]
  /\ pc \in [Actors -> PCs]
  /\ hold \in [Actors -> Bases]
  /\ comparing \in SUBSET Threads
  /\ lost \in Nat

Init ==
  /\ enabled = FALSE
  /\ loading = FALSE
  /\ client = NoWorker
  /\ refcount = 0
  /\ idle = FALSE
  /\ stopping = FALSE
  /\ worker = [w \in Workers |-> "down"]
  /\ pc = [a \in Actors |-> "idle"]
  /\ hold = [a \in Actors |-> NoWorker]
  /\ comparing = {}
  /\ lost = 0

----------------------------------------------------------------------------
(* Helpers *)

\* A server thread that may pick up a new request.
Free(t) == pc[t] = "idle" /\ ~stopping

\* An actor moves on, with base b in hand.
Goto(a, l, b) ==
  /\ pc' = [pc EXCEPT ![a] = l]
  /\ hold' = [hold EXCEPT ![a] = b]

\* The condition under which acquire() and current_base() give out OPF.
Active == enabled /\ client # NoWorker /\ worker[client] = "up"

\* The threads with an outstanding subprocess lease.
LeasesOf(p, h) ==
  {t \in Threads : p[t] \in {"taken", "leased", "failed"} /\ h[t] \in Workers}
Leases == LeasesOf(pc, hold)

\* Processes that a fresh SubprocessOPFClient may be given.
Spawnable ==
  {w \in Workers : worker[w] = "down" /\ client # w /\ \A a \in Actors : hold[a] # w}

\* enable() has returned to thread t: a comparison goes on to acquire().
EnableReturns(t) == Goto(t, IF t \in comparing THEN "loaded" ELSE "idle", NoWorker)

\* enable() has raised in thread t: the request ends with HTTP 500.
EnableRaises(t) == Goto(t, "idle", NoWorker) /\ comparing' = comparing \ {t}

----------------------------------------------------------------------------
(* enable() and ensure_loaded() *)

\* _loading is clear: t becomes the loader and spawns a worker.
StartLoad(t) ==
  \E w \in Spawnable :
    /\ loading' = TRUE
    /\ worker' = [worker EXCEPT ![w] = "booting"]
    /\ Goto(t, "boot", w)

\* Wrong on purpose (see README, "Mutants"): the _loading check is missing.
EnterEnable_NoLoadingCheck(t) ==
  StartLoad(t) /\ UNCHANGED <<enabled, client, refcount, idle, stopping, lost>>

\* The first critical section of enable(), when OPF is not enabled.
EnterEnable(t) ==
  /\ \/ ~loading /\ StartLoad(t)
     \/ loading /\ Goto(t, "waitload", NoWorker) /\ UNCHANGED <<loading, worker>>
  /\ UNCHANGED <<enabled, client, refcount, idle, stopping, lost>>

\* POST /api/opf/enable.  When OPF is enabled already nothing happens.
Enable(t) ==
  /\ Free(t)
  /\ ~enabled
  /\ EnterEnable(t)
  /\ UNCHANGED comparing

\* POST .../detector-comparison calls ensure_loaded().
EnsureLoaded(t) ==
  /\ Free(t)
  /\ comparing' = comparing \cup {t}
  /\ \/ ~enabled /\ EnterEnable(t)
     \/ enabled /\ Goto(t, "loaded", NoWorker)
        /\ UNCHANGED <<managerVars, stopping, worker, lost>>

\* client.start() returned: the last critical section of enable().
BootReady(t) ==
  /\ pc[t] = "boot"
  /\ worker' = [worker EXCEPT ![hold[t]] = "up"]
  /\ client' = hold[t]
  /\ enabled' = TRUE
  /\ loading' = FALSE
  /\ idle' = FALSE
  /\ EnableReturns(t)
  /\ UNCHANGED <<refcount, stopping, comparing, lost>>

\* Wrong on purpose: the except branch forgets to clear _loading.
BootFails_StillLoading(t) ==
  /\ pc[t] = "boot"
  /\ worker' = [worker EXCEPT ![hold[t]] = "down"]
  /\ EnableRaises(t)
  /\ UNCHANGED <<managerVars, stopping, lost>>

\* client.start() raised: the worker is dead or has been killed.
BootFails(t) ==
  /\ pc[t] = "boot"
  /\ worker' = [worker EXCEPT ![hold[t]] = "down"]
  /\ loading' = FALSE
  /\ EnableRaises(t)
  /\ UNCHANGED <<enabled, client, refcount, idle, stopping, lost>>

\* A waiter sees that nobody is loading any more.
LoadAwaited(t) ==
  /\ pc[t] = "waitload"
  /\ ~loading
  /\ \/ enabled /\ EnableReturns(t) /\ UNCHANGED comparing
     \/ ~enabled /\ EnableRaises(t)
  /\ UNCHANGED <<managerVars, stopping, worker, lost>>

----------------------------------------------------------------------------
(* acquire(), release(), current_base() *)

\* Wrong on purpose: acquire() looks at _client and not at _enabled.
TakeLease_IgnoringEnabled(t, l) ==
  /\ \/ client # NoWorker /\ Goto(t, l, client) /\ refcount' = refcount + 1
        /\ idle' = FALSE
     \/ client = NoWorker /\ Goto(t, l, Fallback) /\ UNCHANGED <<refcount, idle>>
  /\ UNCHANGED <<enabled, loading, client, stopping, worker, comparing, lost>>

\* acquire(): the caller goes on at l with the base it was given.
TakeLease(t, l) ==
  /\ \/ Active /\ Goto(t, l, client) /\ refcount' = refcount + 1 /\ idle' = FALSE
     \/ ~Active /\ Goto(t, l, Fallback) /\ UNCHANGED <<refcount, idle>>
  /\ UNCHANGED <<enabled, loading, client, stopping, worker, comparing, lost>>

\* JobService.process() leases the base for its pipeline run, before the try ...
Acquire(t) == Free(t) /\ TakeLease(t, "taken")

\* ... which it enters once opf_used is committed and the client is built.
EnterRun(t) ==
  /\ pc[t] = "taken"
  /\ Goto(t, "leased", hold[t])
  /\ UNCHANGED <<managerVars, stopping, worker, comparing, lost>>

\* The commit of opf_used or the client's construction raises: nobody will
\* call release() for this lease.
LoseLease(t) ==
  /\ pc[t] = "taken"
  /\ \/ hold[t] \in Workers /\ lost < MaxLost /\ lost' = lost + 1
     \/ hold[t] \notin Workers /\ UNCHANGED lost
  /\ Goto(t, "idle", NoWorker)
  /\ UNCHANGED <<managerVars, stopping, worker, comparing>>

\* The comparison request leases the base after ensure_loaded(); its try
\* begins at once.
AcquireLoaded(t) == pc[t] = "loaded" /\ TakeLease(t, "leased")

\* A detect() of the run finds its worker gone; the job or request fails.
\* (A detect() that succeeds changes nothing here.)
DetectFails(t) ==
  /\ pc[t] = "leased"
  /\ hold[t] \in Workers
  /\ worker[hold[t]] = "down"
  /\ Goto(t, "failed", hold[t])
  /\ UNCHANGED <<managerVars, stopping, worker, comparing, lost>>

\* Wrong on purpose: fallback leases are counted off too ...
Release_CountingFallback(t) ==
  /\ pc[t] \in {"leased", "failed"}
  /\ IF refcount = 0
       THEN UNCHANGED <<refcount, idle>>
       ELSE refcount' = refcount - 1 /\ idle' = FALSE
  /\ Goto(t, "idle", NoWorker)
  /\ comparing' = comparing \ {t}
  /\ UNCHANGED <<enabled, loading, client, stopping, worker, lost>>

\* ... or both early returns of release() are missing.
Release_Unguarded(t) ==
  /\ pc[t] \in {"leased", "failed"}
  /\ refcount' = 0 - 1 + refcount
  /\ idle' = FALSE
  /\ Goto(t, "idle", NoWorker)
  /\ comparing' = comparing \ {t}
  /\ UNCHANGED <<enabled, loading, client, stopping, worker, lost>>

Release(t) ==
  /\ pc[t] \in {"leased", "failed"}
  /\ IF hold[t] = Fallback \/ refcount = 0
       THEN UNCHANGED <<refcount, idle>>
       ELSE refcount' = refcount - 1 /\ idle' = FALSE
  /\ Goto(t, "idle", NoWorker)
  /\ comparing' = comparing \ {t}
  /\ UNCHANGED <<enabled, loading, client, stopping, worker, lost>>

\* ToggledBaseClient.detect(): current_base() picks the subprocess ...
CurrentBase(t) ==
  /\ Free(t)
  /\ Active
  /\ Goto(t, "adhoc", client)
  /\ UNCHANGED <<managerVars, stopping, worker, comparing, lost>>

\* ... then touch() resets the idle clock and the detection runs or raises.
AdhocDetect(t) ==
  /\ pc[t] = "adhoc"
  /\ idle' = FALSE
  /\ Goto(t, "idle", NoWorker)
  /\ UNCHANGED <<enabled, loading, client, refcount, stopping, worker, comparing, lost>>

----------------------------------------------------------------------------
(* disable() *)

\* Wrong on purpose: _client keeps pointing at the worker being stopped.
TakeClient_Keeping(a, l) ==
  /\ UNCHANGED client
  /\ Goto(a, IF client = NoWorker THEN (IF a = Lifespan THEN "done" ELSE "idle") ELSE l,
          client)

\* The end of disable()'s critical section: the worker moves from _client to
\* the local client_to_stop, which is stopped outside the lock (label l).
TakeClient(a, l) ==
  /\ client' = NoWorker
  /\ Goto(a, IF client = NoWorker THEN (IF a = Lifespan THEN "done" ELSE "idle") ELSE l,
          client)

\* Wrong on purpose: disable() does not look at the refcount.
Disable_NotWaiting(t) ==
  /\ Free(t)
  /\ enabled \/ client # NoWorker
  /\ enabled' = FALSE
  /\ TakeClient(t, "stopDrained")
  /\ UNCHANGED <<loading, refcount, idle, stopping, worker, comparing, lost>>

\* POST /api/opf/disable: wait_for_jobs=True.
Disable(t) ==
  /\ Free(t)
  /\ enabled \/ client # NoWorker
  /\ enabled' = FALSE
  /\ \/ refcount = 0 /\ TakeClient(t, "stopDrained")
     \/ refcount > 0 /\ Goto(t, "drain", NoWorker) /\ UNCHANGED client
  /\ UNCHANGED <<loading, refcount, idle, stopping, worker, comparing, lost>>

\* The waiting loop ends: no leases are left, or the patience is.
Drained(t) ==
  /\ pc[t] = "drain"
  /\ \/ refcount = 0 /\ TakeClient(t, "stopDrained")
     \/ refcount > 0 /\ CanTimeOut /\ TakeClient(t, "stopNow")
  /\ UNCHANGED <<enabled, loading, refcount, idle, stopping, worker, comparing, lost>>

\* disable(wait_for_jobs=False), called by the watchdog and by shutdown().
DisableNow(a) ==
  /\ enabled' = FALSE
  /\ TakeClient(a, "stopNow")
  /\ UNCHANGED <<loading, refcount, idle, stopping, worker, comparing, lost>>

\* client_to_stop.stop(): a graceful shutdown, or a kill after ten seconds.
StopWorker(a) ==
  /\ pc[a] \in {"stopDrained", "stopNow"}
  /\ worker' = [worker EXCEPT ![hold[a]] = "down"]
  /\ Goto(a, IF a = Lifespan THEN "done" ELSE "idle", NoWorker)
  /\ UNCHANGED <<managerVars, stopping, comparing, lost>>

----------------------------------------------------------------------------
(* The idle watchdog and shutdown() *)

\* _check_idle_once(): every check is made under the lock, which is dropped ...
WatchdogCheck ==
  /\ pc[Watchdog] = "idle"
  /\ ~stopping
  /\ enabled /\ refcount = 0 /\ idle
  /\ Goto(Watchdog, "expired", NoWorker)
  /\ UNCHANGED <<managerVars, stopping, worker, comparing, lost>>

\* ... before disable(wait_for_jobs=False) takes it again.
WatchdogDisable == pc[Watchdog] = "expired" /\ DisableNow(Watchdog)

\* shutdown(): sets _stop_event and joins the watchdog for two seconds at most.
ShutdownBegin ==
  /\ pc[Lifespan] = "idle"
  /\ stopping' = TRUE
  /\ Goto(Lifespan, "joining", NoWorker)
  /\ UNCHANGED <<managerVars, worker, comparing, lost>>

ShutdownDisable == pc[Lifespan] = "joining" /\ DisableNow(Lifespan)

\* Nothing is left to do: the server process exits.
Exit ==
  /\ pc[Lifespan] = "done"
  /\ \A t \in Threads \cup {Watchdog} : pc[t] = "idle"
  /\ UNCHANGED vars

----------------------------------------------------------------------------
(* The environment *)

\* A worker process dies, or a detect() that got no answer kills it.
Crash(w) ==
  /\ worker[w] = "up"
  /\ worker' = [worker EXCEPT ![w] = "down"]
  /\ UNCHANGED <<managerVars, stopping, pc, hold, comparing, lost>>

\* The idle timeout goes by since the last use.
IdleTimePasses ==
  /\ ~idle
  /\ idle' = TRUE
  /\ UNCHANGED <<enabled, loading, client, refcount, stopping, worker, pc, hold,
                 comparing, lost>>

Begin(t) ==
  Enable(t) \/ EnsureLoaded(t) \/ Acquire(t) \/ CurrentBase(t) \/ Disable(t)

Continue(t) ==
  \/ BootReady(t) \/ BootFails(t) \/ LoadAwaited(t)
  \/ AcquireLoaded(t) \/ EnterRun(t) \/ LoseLease(t)
  \/ DetectFails(t) \/ Release(t) \/ AdhocDetect(t)
  \/ Drained(t)

Next ==
  \/ \E t \in Threads : Begin(t) \/ Continue(t)
  \/ \E a \in Actors : StopWorker(a)
  \/ WatchdogCheck \/ WatchdogDisable
  \/ ShutdownBegin \/ ShutdownDisable \/ Exit
  \/ \E w \in Workers : Crash(w)
  \/ IdleTimePasses

Spec == Init /\ [][Next]_vars

----------------------------------------------------------------------------
(* Fairness: the server's threads keep running (weak fairness of each      *)
(* thread's own steps), a boot ends (its read has a timeout), a lease ends  *)
(* (a detect() has a timeout), and a waiting thread, which polls once a     *)
(* second and is notified too, sees the end of a load some time if loads    *)
(* keep ending (strong fairness of LoadAwaited).  Nobody is made to start a *)
(* request, no worker to crash and no time to pass.                         *)

Fairness ==
  /\ \A t \in Threads :
       /\ WF_vars(BootReady(t) \/ BootFails(t))
       /\ SF_vars(LoadAwaited(t))
       /\ WF_vars(AcquireLoaded(t) \/ EnterRun(t) \/ LoseLease(t) \/ Release(t)
                  \/ AdhocDetect(t))
       /\ WF_vars(Drained(t))
  /\ \A a \in Actors : WF_vars(StopWorker(a))
  /\ WF_vars(WatchdogDisable)
  /\ WF_vars(ShutdownDisable)

FairSpec == Spec /\ Fairness

----------------------------------------------------------------------------
(* Properties *)

\* _refcount is the number of subprocess leases that are out and of those whose
\* job died before it could give them back, over every interleaving of
\* acquire(), release(), re-enabling and forced stops: a disable() that finds
\* zero spares every lease, and nothing but a lost lease keeps it waiting when
\* no job is left.
RefcountCountsLeases == refcount = Cardinality(Leases) + lost

\* _loading is set exactly while one thread is between the two critical
\* sections of enable(), and never while OPF is enabled: a second enable(), a
\* comparison or a failed boot cannot start or announce a second load.
OneLoader ==
  LET loaders == {t \in Threads : pc[t] = "boot"}
  IN  /\ loading <=> loaders # {}
      /\ \A t, u \in loaders : t = u
      /\ loading => ~enabled

Stoppers == {a \in Actors : pc[a] \in {"stopDrained", "stopNow"}}

\* Every worker has one owner: a worker that some disable() has taken, or that
\* is still booting, is never the one acquire() hands out, and no two actors
\* stop or boot the same worker.
OneOwner ==
  LET owners == Stoppers \cup {t \in Threads : pc[t] = "boot"}
  IN  \A a \in owners :
        /\ hold[a] \in Workers
        /\ hold[a] # client
        /\ \A b \in owners : hold[a] = hold[b] => a = b

\* A disable() that waited until the refcount was zero stops a worker nobody
\* leases, although others may have re-enabled OPF and leased while it waited.
DrainedStopSparesLeases ==
  \A a \in Stoppers :
    pc[a] = "stopDrained" => \A t \in Leases : hold[t] # hold[a]

\* The manager implements the toggle its callers are promised.
Toggle ==
  INSTANCE OPFToggle WITH
    mode <- IF loading THEN "loading" ELSE IF enabled THEN "on" ELSE "off",
    leases <- Leases
ImplementsToggle == Toggle!Spec

\* Every request that enters enable() or disable() returns: nobody waits for
\* ever for a load or for a lease, even when the load fails, others toggle
\* meanwhile or the worker being waited for has crashed.
TogglesReturn ==
  \A t \in Threads :
    pc[t] \in {"boot", "waitload", "drain", "stopDrained", "stopNow"} ~>
      pc[t] \in {"idle", "loaded"}

\* The module docstring (opf_manager.py:14-16): toggling OFF does not pull the
\* rug, the subprocess stays alive until the refcount drops to zero.  (The
\* shutdown hook is left out: main.py:143 says that it does not wait.)
NoStopUnderLease ==
  \A a \in Stoppers \ {Lifespan} : \A t \in Leases : hold[t] # hold[a]

=============================================================================
