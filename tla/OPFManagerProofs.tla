-------------------------- MODULE OPFManagerProofs --------------------------
(***************************************************************************)
(* What OPFManager guarantees for any number of threads and workers:       *)
(* type correctness, the refcount, the single loader, the single owner of  *)
(* a worker, and that the manager implements OPFToggle.                    *)
(***************************************************************************)
EXTENDS OPFManager, FiniteSetTheorems, TLAPS

\* What an actor has in its hand, by where it is.
HoldOK ==
  \A a \in Actors :
    /\ pc[a] \in {"boot", "stopDrained", "stopNow"} => hold[a] \in Workers
    /\ pc[a] \in {"taken", "leased", "failed"} => hold[a] \in Workers \cup {Fallback}

Typed == TypeOK /\ HoldOK

----------------------------------------------------------------------------
(* Type correctness *)

LEMMA InitTyped == Init => Typed
  <1> SUFFICES ASSUME Init PROVE TypeOK /\ HoldOK
    BY DEF Typed
  <1>1. /\ enabled \in BOOLEAN /\ loading \in BOOLEAN
        /\ idle \in BOOLEAN /\ stopping \in BOOLEAN
    BY DEF Init
  <1>2. client \in Workers \cup {NoWorker} /\ refcount \in Nat
    BY DEF Init
  <1>3. worker \in [Workers -> {"down", "booting", "up"}]
    BY DEF Init
  <1>4. pc \in [Actors -> PCs]
    BY DEF Init, PCs
  <1>5. hold \in [Actors -> Bases] /\ comparing \in SUBSET Threads /\ lost \in Nat
    BY DEF Init, Bases
  <1>6. HoldOK
    BY DEF Init, HoldOK
  <1> QED
    BY <1>1, <1>2, <1>3, <1>4, <1>5, <1>6 DEF TypeOK

\* An actor that moves to a known label, with a base that fits the label,
\* keeps the types of pc and hold.
LEMMA GotoTypes ==
  ASSUME TypeOK, HoldOK,
         NEW a \in Actors, NEW l \in PCs, NEW b \in Bases, Goto(a, l, b),
         l \in {"boot", "stopDrained", "stopNow"} => b \in Workers,
         l \in {"taken", "leased", "failed"} => b \in Workers \cup {Fallback}
  PROVE  pc' \in [Actors -> PCs] /\ hold' \in [Actors -> Bases] /\ HoldOK'
  BY DEF TypeOK, Goto, HoldOK

\* acquire() leases the client, or the fallback.
LEMMA TakeLeaseTyped ==
  ASSUME TypeOK, HoldOK, NEW t \in Threads, NEW l \in {"taken", "leased"},
         TakeLease(t, l)
  PROVE  TypeOK' /\ HoldOK'
  <1>1. t \in Actors /\ l \in PCs
    BY DEF Actors, PCs
  <1>2. CASE Active
    <2>1. client \in Workers /\ client \in Bases
      BY <1>2 DEF Active, TypeOK, Bases
    <2>2. Goto(t, l, client) /\ refcount' = refcount + 1 /\ idle' = FALSE
      BY <1>2 DEF TakeLease
    <2>3. pc' \in [Actors -> PCs] /\ hold' \in [Actors -> Bases] /\ HoldOK'
      BY <1>1, <2>1, <2>2, GotoTypes
    <2>4. refcount' \in Nat
      BY <2>2 DEF TypeOK
    <2>5. UNCHANGED <<enabled, loading, client, stopping, worker, comparing, lost>>
      BY DEF TakeLease
    <2> QED
      BY <2>2, <2>3, <2>4, <2>5 DEF TypeOK
  <1>3. CASE ~Active
    <2>1. Goto(t, l, Fallback) /\ UNCHANGED <<refcount, idle>>
      BY <1>3 DEF TakeLease
    <2>2. pc' \in [Actors -> PCs] /\ hold' \in [Actors -> Bases] /\ HoldOK'
      BY <1>1, <2>1, GotoTypes DEF Bases
    <2> QED
      BY <2>1, <2>2 DEF TakeLease, TypeOK
  <1> QED
    BY <1>2, <1>3

\* disable() hands the client over, if there is one.
LEMMA TakeClientTyped ==
  ASSUME TypeOK, HoldOK, NEW a \in Actors, NEW l \in {"stopDrained", "stopNow"},
         TakeClient(a, l)
  PROVE  /\ client' \in Workers \cup {NoWorker}
         /\ pc' \in [Actors -> PCs] /\ hold' \in [Actors -> Bases] /\ HoldOK'
  <1>1. client' = NoWorker /\ client \in Bases /\ {"idle", "done", l} \subseteq PCs
    BY DEF TakeClient, TypeOK, Bases, PCs
  <1>2. CASE client = NoWorker
    <2>1. Goto(a, IF a = Lifespan THEN "done" ELSE "idle", NoWorker)
      BY <1>2 DEF TakeClient
    <2>2. (IF a = Lifespan THEN "done" ELSE "idle") \in {"idle", "done"}
      OBVIOUS
    <2> QED
      BY <1>1, <2>1, <2>2, GotoTypes DEF Bases
  <1>3. CASE client # NoWorker
    <2>1. Goto(a, l, client) /\ client \in Workers
      BY <1>3 DEF TakeClient, TypeOK
    <2> QED
      BY <1>1, <2>1, GotoTypes
  <1> QED
    BY <1>2, <1>3

LEMMA NextTyped == Typed /\ [Next]_vars => Typed'
  <1> SUFFICES ASSUME TypeOK, HoldOK, [Next]_vars PROVE TypeOK' /\ HoldOK'
    BY DEF Typed
  <1> USE BasesDistinct, GotoTypes DEF Actors, Bases, PCs, managerVars
  <1>1. ASSUME NEW t \in Threads, Begin(t) PROVE TypeOK' /\ HoldOK'
    <2>1. ASSUME EnterEnable(t), comparing' \in SUBSET Threads PROVE TypeOK' /\ HoldOK'
      <3>1. CASE StartLoad(t)
        BY <2>1, <3>1 DEF TypeOK, EnterEnable, StartLoad, Spawnable
      <3>2. CASE Goto(t, "waitload", NoWorker) /\ UNCHANGED <<loading, worker>>
        BY <2>1, <3>2 DEF TypeOK, EnterEnable
      <3> QED
        BY <2>1, <3>1, <3>2 DEF EnterEnable
    <2>2. CASE Enable(t)
      BY <2>1, <2>2 DEF Enable, TypeOK
    <2>3. CASE EnsureLoaded(t)
      <3>1. CASE EnterEnable(t)
        BY <2>1, <2>3, <3>1 DEF EnsureLoaded, TypeOK
      <3>2. CASE Goto(t, "loaded", NoWorker)
                 /\ UNCHANGED <<managerVars, stopping, worker, lost>>
        BY <2>3, <3>2 DEF EnsureLoaded, TypeOK
      <3> QED
        BY <2>3, <3>1, <3>2 DEF EnsureLoaded
    <2>4. CASE Acquire(t)
      BY <2>4, TakeLeaseTyped DEF Acquire
    <2>5. CASE CurrentBase(t)
      BY <2>5 DEF CurrentBase, TypeOK
    <2>6. CASE Disable(t)
      <3>1. /\ enabled' = FALSE
            /\ UNCHANGED <<loading, refcount, idle, stopping, worker, comparing, lost>>
        BY <2>6 DEF Disable
      <3>2. CASE TakeClient(t, "stopDrained")
        BY <3>1, <3>2, TakeClientTyped DEF TypeOK
      <3>3. CASE Goto(t, "drain", NoWorker) /\ UNCHANGED client
        BY <3>1, <3>3 DEF TypeOK
      <3> QED
        BY <2>6, <3>2, <3>3 DEF Disable
    <2> QED
      BY <1>1, <2>2, <2>3, <2>4, <2>5, <2>6 DEF Begin
  <1>2. ASSUME NEW t \in Threads, Continue(t) PROVE TypeOK' /\ HoldOK'
    <2>1. CASE BootReady(t)
      <3>1. hold[t] \in Workers
        BY <2>1 DEF BootReady, HoldOK
      <3> QED
        BY <2>1, <3>1 DEF BootReady, EnableReturns, TypeOK
    <2>2. CASE BootFails(t)
      BY <2>2 DEF BootFails, EnableRaises, TypeOK
    <2>3. CASE LoadAwaited(t)
      <3>1. CASE enabled
        BY <2>3, <3>1 DEF LoadAwaited, EnableReturns, TypeOK
      <3>2. CASE ~enabled
        BY <2>3, <3>2 DEF LoadAwaited, EnableRaises, TypeOK
      <3> QED
        BY <3>1, <3>2
    <2>4. CASE AcquireLoaded(t)
      BY <2>4, TakeLeaseTyped DEF AcquireLoaded
    <2>5. CASE DetectFails(t)
      BY <2>5 DEF DetectFails, TypeOK
    <2>6. CASE Release(t)
      <3>1. \/ refcount' = refcount /\ idle' = idle
            \/ refcount # 0 /\ refcount' = refcount - 1 /\ idle' = FALSE
        BY <2>6 DEF Release
      <3>2. refcount' \in Nat
        BY <3>1 DEF TypeOK
      <3>3. idle' \in BOOLEAN
        BY <3>1 DEF TypeOK
      <3>4. Goto(t, "idle", NoWorker) /\ comparing' = comparing \ {t}
            /\ UNCHANGED <<enabled, loading, client, stopping, worker, lost>>
        BY <2>6 DEF Release
      <3> QED
        BY <3>2, <3>3, <3>4 DEF TypeOK
    <2>7. CASE AdhocDetect(t)
      BY <2>7 DEF AdhocDetect, TypeOK
    <2>8. CASE Drained(t)
      BY <2>8, TakeClientTyped DEF Drained, TypeOK
    <2>9. CASE EnterRun(t)
      <3>1. hold[t] \in Workers \cup {Fallback}
        BY <2>9 DEF EnterRun, HoldOK
      <3> QED
        BY <2>9, <3>1 DEF EnterRun, TypeOK
    <2>10. CASE LoseLease(t)
      <3>1. lost' \in Nat
        BY <2>10 DEF LoseLease, TypeOK
      <3> QED
        BY <2>10, <3>1 DEF LoseLease, TypeOK
    <2> QED
      BY <1>2, <2>1, <2>2, <2>3, <2>4, <2>5, <2>6, <2>7, <2>8, <2>9, <2>10 DEF Continue
  <1>3. ASSUME NEW a \in Actors, StopWorker(a) PROVE TypeOK' /\ HoldOK'
    BY <1>3 DEF StopWorker, TypeOK
  <1>4. CASE WatchdogCheck
    BY <1>4 DEF WatchdogCheck, TypeOK
  <1>5. ASSUME NEW a \in Actors, DisableNow(a) PROVE TypeOK' /\ HoldOK'
    BY <1>5, TakeClientTyped DEF DisableNow, TypeOK
  <1>6. CASE ShutdownBegin
    BY <1>6 DEF ShutdownBegin, TypeOK
  <1>7. ASSUME NEW w \in Workers, Crash(w) PROVE TypeOK' /\ HoldOK'
    BY <1>7 DEF Crash, TypeOK, HoldOK
  <1>8. CASE IdleTimePasses
    BY <1>8 DEF IdleTimePasses, TypeOK, HoldOK
  <1>9. CASE UNCHANGED vars
    BY <1>9 DEF vars, TypeOK, HoldOK
  <1> QED
    BY <1>1, <1>2, <1>3, <1>4, <1>5, <1>6, <1>7, <1>8, <1>9
    DEF Next, Exit, WatchdogDisable, ShutdownDisable

----------------------------------------------------------------------------
(* The refcount *)

\* A move of actor a adds a to the lease holders or takes it from them.
LEMMA GotoLeases ==
  ASSUME TypeOK, NEW a \in Actors, NEW l, NEW b, Goto(a, l, b)
  PROVE  /\ a \in Threads /\ l \in {"taken", "leased", "failed"} /\ b \in Workers
              => Leases' = Leases \cup {a}
         /\ ~(a \in Threads /\ l \in {"taken", "leased", "failed"} /\ b \in Workers)
              => Leases' = Leases \ {a}
  BY DEF TypeOK, Goto, Leases, LeasesOf, Actors

\* Nothing happens to the leases.
SameLeases == Leases' = Leases /\ refcount' = refcount /\ lost' = lost

\* Thread t takes a lease on the client.
NewLease(t) ==
  /\ t \notin Leases /\ Leases' = Leases \cup {t}
  /\ refcount' = refcount + 1
  /\ Active
  /\ UNCHANGED <<enabled, loading, lost>>

\* Thread t gives its lease back.
OldLease(t) ==
  /\ t \in Leases /\ Leases' = Leases \ {t}
  /\ refcount' = IF refcount = 0 THEN 0 ELSE refcount - 1
  /\ UNCHANGED <<enabled, loading, lost>>

\* Thread t dies with its lease, which stays counted.
LostLease(t) ==
  /\ t \in Leases /\ Leases' = Leases \ {t}
  /\ refcount' = refcount /\ lost' = lost + 1
  /\ UNCHANGED <<enabled, loading>>

\* A move of an actor outside the leases that does not end in a lease.
LEMMA PlainMove ==
  ASSUME TypeOK, NEW a \in Actors, NEW l, NEW b, Goto(a, l, b),
         refcount' = refcount, lost' = lost,
         pc[a] \notin {"taken", "leased", "failed"}, l \notin {"taken", "leased", "failed"}
  PROVE  SameLeases
  <1>1. a \notin Leases
    BY DEF Leases, LeasesOf
  <1>2. Leases' = Leases \ {a}
    BY GotoLeases
  <1> QED
    BY <1>1, <1>2 DEF SameLeases

LEMMA TakeLeaseSteps ==
  ASSUME TypeOK, NEW t \in Threads, NEW l \in {"taken", "leased"}, TakeLease(t, l),
         pc[t] \notin {"taken", "leased", "failed"}
  PROVE  SameLeases \/ NewLease(t)
  <1>1. t \in Actors /\ t \notin Leases
    BY DEF Actors, Leases, LeasesOf
  <1>2. CASE Active
    <2>1. Goto(t, l, client) /\ refcount' = refcount + 1 /\ client \in Workers
          /\ UNCHANGED <<enabled, loading, lost>>
      BY <1>2 DEF TakeLease, Active, TypeOK
    <2>2. Leases' = Leases \cup {t}
      BY <1>1, <2>1, GotoLeases
    <2> QED
      BY <1>1, <1>2, <2>1, <2>2 DEF NewLease
  <1>3. CASE ~Active
    <2>1. Goto(t, l, Fallback) /\ refcount' = refcount /\ lost' = lost
      BY <1>3 DEF TakeLease
    <2>2. Leases' = Leases \ {t}
      BY <1>1, <2>1, GotoLeases, BasesDistinct
    <2> QED
      BY <1>1, <2>1, <2>2 DEF SameLeases
  <1> QED
    BY <1>2, <1>3

LEMMA TakeClientSteps ==
  ASSUME TypeOK, NEW a \in Actors, NEW l \in {"stopDrained", "stopNow"},
         TakeClient(a, l), refcount' = refcount, lost' = lost, pc[a] \notin {"taken", "leased", "failed"}
  PROVE  SameLeases
  <1>1. CASE client = NoWorker
    BY <1>1, PlainMove DEF TakeClient
  <1>2. CASE client # NoWorker
    BY <1>2, PlainMove DEF TakeClient
  <1> QED
    BY <1>1, <1>2

\* All that a step can do to the leases and the count of them.
LEMMA LeaseSteps ==
  ASSUME Typed, [Next]_vars
  PROVE  SameLeases \/ \E t \in Threads : NewLease(t) \/ OldLease(t) \/ LostLease(t)
  <1> USE PlainMove DEF Typed, Actors
  <1>1. ASSUME NEW t \in Threads, Begin(t)
        PROVE  SameLeases \/ NewLease(t)
    <2>1. ASSUME EnterEnable(t), Free(t) PROVE SameLeases
      BY <2>1 DEF EnterEnable, StartLoad, Free
    <2>2. CASE Enable(t)
      BY <2>1, <2>2 DEF Enable
    <2>3. CASE EnsureLoaded(t)
      BY <2>1, <2>3 DEF EnsureLoaded, managerVars, Free
    <2>4. CASE Acquire(t)
      BY <2>4, TakeLeaseSteps DEF Acquire, Free
    <2>5. CASE CurrentBase(t)
      BY <2>5 DEF CurrentBase, managerVars, Free
    <2>6. CASE Disable(t)
      BY <2>6, TakeClientSteps DEF Disable, Free
    <2> QED
      BY <1>1, <2>2, <2>3, <2>4, <2>5, <2>6 DEF Begin
  <1>2. ASSUME NEW t \in Threads, Continue(t)
        PROVE  SameLeases \/ NewLease(t) \/ OldLease(t) \/ LostLease(t)
    <2>1. CASE BootReady(t)
      BY <2>1 DEF BootReady, EnableReturns
    <2>2. CASE BootFails(t)
      BY <2>2 DEF BootFails, EnableRaises
    <2>3. CASE LoadAwaited(t)
      BY <2>3 DEF LoadAwaited, EnableReturns, EnableRaises, managerVars
    <2>4. CASE AcquireLoaded(t)
      BY <2>4, TakeLeaseSteps DEF AcquireLoaded
    <2>5. CASE DetectFails(t)
      <3>1. t \in Leases /\ Goto(t, "failed", hold[t]) /\ refcount' = refcount
            /\ hold[t] \in Workers /\ lost' = lost
        BY <2>5 DEF DetectFails, Leases, LeasesOf, managerVars
      <3>2. Leases' = Leases \cup {t}
        BY <3>1, GotoLeases
      <3> QED
        BY <3>1, <3>2 DEF SameLeases
    <2>6. CASE Release(t)
      <3>1. /\ Goto(t, "idle", NoWorker) /\ Leases' = Leases \ {t}
            /\ UNCHANGED <<enabled, loading, lost>>
        BY <2>6, GotoLeases DEF Release
      <3>2. CASE hold[t] = Fallback
        <4>1. t \notin Leases /\ refcount' = refcount
          BY <2>6, <3>2, BasesDistinct DEF Release, Leases, LeasesOf
        <4> QED
          BY <3>1, <4>1 DEF SameLeases
      <3>3. CASE hold[t] # Fallback
        <4>1. t \in Leases
          BY <2>6, <3>3 DEF Release, HoldOK, Leases, LeasesOf
        <4>2. refcount' = IF refcount = 0 THEN 0 ELSE refcount - 1
          BY <2>6, <3>3 DEF Release
        <4> QED
          BY <3>1, <4>1, <4>2 DEF OldLease
      <3> QED
        BY <3>2, <3>3
    <2>7. CASE AdhocDetect(t)
      BY <2>7 DEF AdhocDetect
    <2>8. CASE Drained(t)
      BY <2>8, TakeClientSteps DEF Drained
    <2>9. CASE EnterRun(t)
      <3>1. Goto(t, "leased", hold[t]) /\ pc[t] = "taken" /\ UNCHANGED <<refcount, lost>>
        BY <2>9 DEF EnterRun, managerVars
      <3>2. CASE hold[t] \in Workers
        <4>1. Leases' = Leases \cup {t}
          BY <3>1, <3>2, GotoLeases
        <4>2. t \in Leases
          BY <3>1, <3>2 DEF Leases, LeasesOf
        <4> QED
          BY <3>1, <4>1, <4>2 DEF SameLeases
      <3>3. CASE hold[t] \notin Workers
        <4>1. Leases' = Leases \ {t}
          BY <3>1, <3>3, GotoLeases
        <4>2. t \notin Leases
          BY <3>3 DEF Leases, LeasesOf
        <4> QED
          BY <3>1, <4>1, <4>2 DEF SameLeases
      <3> QED
        BY <3>2, <3>3
    <2>10. CASE LoseLease(t)
      <3>1. Leases' = Leases \ {t} /\ pc[t] = "taken"
        BY <2>10, GotoLeases DEF LoseLease
      <3>2. UNCHANGED <<enabled, loading, refcount>>
        BY <2>10 DEF LoseLease, managerVars
      <3>3. CASE hold[t] \in Workers
        <4>1. t \in Leases
          BY <3>1, <3>3 DEF Leases, LeasesOf
        <4>2. lost' = lost + 1
          BY <2>10, <3>3 DEF LoseLease
        <4> QED
          BY <3>1, <3>2, <4>1, <4>2 DEF LostLease
      <3>4. CASE hold[t] \notin Workers
        <4>1. t \notin Leases
          BY <3>4 DEF Leases, LeasesOf
        <4>2. lost' = lost
          BY <2>10, <3>4 DEF LoseLease
        <4> QED
          BY <3>1, <3>2, <4>1, <4>2 DEF SameLeases
      <3> QED
        BY <3>3, <3>4
    <2> QED
      BY <1>2, <2>1, <2>2, <2>3, <2>4, <2>5, <2>6, <2>7, <2>8, <2>9, <2>10 DEF Continue
  <1>3. ASSUME NEW a \in Actors, StopWorker(a) PROVE SameLeases
    BY <1>3 DEF StopWorker, managerVars
  <1>4. CASE WatchdogCheck
    BY <1>4 DEF WatchdogCheck, managerVars
  <1>5. CASE WatchdogDisable
    BY <1>5, TakeClientSteps DEF WatchdogDisable, DisableNow
  <1>6. CASE ShutdownBegin
    BY <1>6 DEF ShutdownBegin, managerVars
  <1>7. CASE ShutdownDisable
    BY <1>7, TakeClientSteps DEF ShutdownDisable, DisableNow
  <1>8. ASSUME UNCHANGED <<pc, hold, refcount, lost>> PROVE SameLeases
    BY <1>8 DEF SameLeases, Leases
  <1>9. ASSUME NEW w \in Workers, Crash(w) PROVE SameLeases
    BY <1>8, <1>9 DEF Crash, managerVars
  <1>10. CASE IdleTimePasses \/ UNCHANGED vars
    BY <1>8, <1>10 DEF IdleTimePasses, vars
  <1> QED
    BY <1>1, <1>2, <1>3, <1>4, <1>5, <1>6, <1>7, <1>9, <1>10 DEF Next, Exit

LEMMA LeasesFinite ==
  /\ IsFiniteSet(Leases) /\ Cardinality(Leases) \in Nat
  /\ Cardinality(Leases) = 0 <=> Leases = {}
  <1>1. IsFiniteSet(Leases)
    BY ThreadsFinite, FS_Subset DEF Leases, LeasesOf
  <1> QED
    BY <1>1, FS_CardinalityType, FS_EmptySet

LEMMA NextCounts ==
  ASSUME Typed, RefcountCountsLeases, [Next]_vars
  PROVE  RefcountCountsLeases'
  <1>0. lost \in Nat /\ refcount \in Nat /\ Cardinality(Leases) \in Nat
    BY LeasesFinite DEF Typed, TypeOK
  <1>1. CASE SameLeases
    BY <1>1 DEF SameLeases, RefcountCountsLeases
  <1>2. ASSUME NEW t \in Threads, NewLease(t) PROVE RefcountCountsLeases'
    <2>1. Cardinality(Leases \cup {t}) = Cardinality(Leases) + 1
      BY <1>2, LeasesFinite, FS_AddElement DEF NewLease
    <2> QED
      BY <1>0, <1>2, <2>1 DEF NewLease, RefcountCountsLeases
  <1>3. ASSUME NEW t \in Threads, OldLease(t) PROVE RefcountCountsLeases'
    <2>1. Cardinality(Leases \ {t}) = Cardinality(Leases) - 1
      BY <1>3, LeasesFinite, FS_RemoveElement DEF OldLease
    <2>2. refcount # 0
      BY <1>0, <1>3, LeasesFinite DEF OldLease, RefcountCountsLeases
    <2> QED
      BY <1>0, <1>3, <2>1, <2>2 DEF OldLease, RefcountCountsLeases
  <1>4. ASSUME NEW t \in Threads, LostLease(t) PROVE RefcountCountsLeases'
    <2>1. Cardinality(Leases \ {t}) = Cardinality(Leases) - 1
      BY <1>4, LeasesFinite, FS_RemoveElement DEF LostLease
    <2> QED
      BY <1>0, <1>4, <2>1 DEF LostLease, RefcountCountsLeases
  <1> QED
    BY <1>1, <1>2, <1>3, <1>4, LeaseSteps

----------------------------------------------------------------------------
(* One loader *)

\* A move from and to a place other than "boot" keeps OneLoader, if it
\* leaves _loading alone and does not enable OPF during a load.
LEMMA MoveKeepsLoader ==
  ASSUME TypeOK, OneLoader, NEW a \in Actors, NEW l, NEW b, Goto(a, l, b),
         pc[a] # "boot", l # "boot", loading' = loading, loading => ~enabled'
  PROVE  OneLoader'
  BY DEF TypeOK, OneLoader, Goto, Actors

LEMMA TakeClientKeepsLoader ==
  ASSUME TypeOK, OneLoader, NEW a \in Actors, NEW l \in {"stopDrained", "stopNow"},
         TakeClient(a, l), pc[a] # "boot", loading' = loading, loading => ~enabled'
  PROVE  OneLoader'
  <1>1. CASE client = NoWorker
    BY <1>1, MoveKeepsLoader DEF TakeClient
  <1>2. CASE client # NoWorker
    BY <1>2, MoveKeepsLoader DEF TakeClient
  <1> QED
    BY <1>1, <1>2

\* A step that moves nobody.
LEMMA StillKeepsLoader ==
  ASSUME OneLoader, UNCHANGED <<pc, loading, enabled>>
  PROVE  OneLoader'
  BY DEF OneLoader

LEMMA NextLoader ==
  ASSUME Typed, OneLoader, [Next]_vars
  PROVE  OneLoader'
  <1> USE MoveKeepsLoader, StillKeepsLoader DEF Typed, Actors
  <1>1. ASSUME NEW t \in Threads, Begin(t) PROVE OneLoader'
    <2>1. ASSUME EnterEnable(t), Free(t), ~enabled PROVE OneLoader'
      <3>1. CASE ~loading /\ StartLoad(t)
        <4>1. \A u \in Threads : pc[u] # "boot"
          BY <3>1 DEF OneLoader
        <4>2. loading' = TRUE /\ pc' = [pc EXCEPT ![t] = "boot"] /\ enabled' = enabled
          BY <2>1, <3>1 DEF EnterEnable, StartLoad, Goto
        <4> QED
          BY <2>1, <4>1, <4>2 DEF OneLoader, TypeOK
      <3>2. CASE Goto(t, "waitload", NoWorker) /\ UNCHANGED loading
        BY <2>1, <3>2 DEF EnterEnable, Free
      <3> QED
        BY <2>1, <3>1, <3>2 DEF EnterEnable
    <2>2. CASE Enable(t)
      BY <2>1, <2>2 DEF Enable
    <2>3. CASE EnsureLoaded(t)
      <3>1. CASE ~enabled /\ EnterEnable(t)
        BY <2>1, <2>3, <3>1 DEF EnsureLoaded
      <3>2. CASE Goto(t, "loaded", NoWorker) /\ UNCHANGED managerVars
        BY <2>3, <3>2 DEF EnsureLoaded, managerVars, Free, OneLoader
      <3> QED
        BY <2>3, <3>1, <3>2 DEF EnsureLoaded
    <2>4. CASE Acquire(t)
      <3>1. PICK b : Goto(t, "taken", b)
        BY <2>4 DEF Acquire, TakeLease
      <3> QED
        BY <2>4, <3>1 DEF Acquire, TakeLease, Free, OneLoader
    <2>5. CASE CurrentBase(t)
      BY <2>5 DEF CurrentBase, managerVars, Free, OneLoader
    <2>6. CASE Disable(t)
      BY <2>6, TakeClientKeepsLoader DEF Disable, Free
    <2> QED
      BY <1>1, <2>2, <2>3, <2>4, <2>5, <2>6 DEF Begin
  <1>2. ASSUME NEW t \in Threads, Continue(t) PROVE OneLoader'
    <2>1. ASSUME pc[t] = "boot", loading' = FALSE, NEW l, l # "boot",
                 pc' = [pc EXCEPT ![t] = l]
          PROVE  OneLoader'
      <3>1. \A u \in Threads \ {t} : pc[u] # "boot"
        BY <2>1 DEF OneLoader
      <3> QED
        BY <2>1, <3>1 DEF OneLoader, TypeOK
    <2>2. CASE BootReady(t)
      <3>1. PICK l \in {"idle", "loaded"} : Goto(t, l, NoWorker)
        BY <2>2 DEF BootReady, EnableReturns
      <3> QED
        BY <2>1, <2>2, <3>1 DEF BootReady, Goto
    <2>3. CASE BootFails(t)
      BY <2>1, <2>3 DEF BootFails, EnableRaises, Goto
    <2>4. CASE LoadAwaited(t)
      BY <2>4 DEF LoadAwaited, EnableReturns, EnableRaises, managerVars, OneLoader
    <2>5. CASE AcquireLoaded(t)
      BY <2>5 DEF AcquireLoaded, TakeLease, OneLoader
    <2>6. CASE DetectFails(t)
      BY <2>6 DEF DetectFails, managerVars, OneLoader
    <2>7. CASE Release(t)
      BY <2>7 DEF Release, OneLoader
    <2>8. CASE AdhocDetect(t)
      BY <2>8 DEF AdhocDetect, OneLoader
    <2>9. CASE Drained(t)
      <3>1. pc[t] # "boot" /\ loading' = loading /\ (loading => ~enabled')
        BY <2>9 DEF Drained, OneLoader
      <3> QED
        BY <2>9, <3>1, TakeClientKeepsLoader DEF Drained
    <2>10. CASE EnterRun(t)
      BY <2>10 DEF EnterRun, managerVars, OneLoader
    <2>11. CASE LoseLease(t)
      BY <2>11 DEF LoseLease, managerVars, OneLoader
    <2> QED
      BY <1>2, <2>2, <2>3, <2>4, <2>5, <2>6, <2>7, <2>8, <2>9, <2>10, <2>11
      DEF Continue
  <1>3. ASSUME NEW a \in Actors, StopWorker(a) PROVE OneLoader'
    BY <1>3 DEF StopWorker, managerVars, OneLoader
  <1>4. CASE WatchdogCheck
    BY <1>4 DEF WatchdogCheck, managerVars, OneLoader
  <1>5. CASE WatchdogDisable \/ ShutdownDisable
    BY <1>5, TakeClientKeepsLoader DEF WatchdogDisable, ShutdownDisable, DisableNow
  <1>6. CASE ShutdownBegin
    BY <1>6 DEF ShutdownBegin, managerVars, OneLoader
  <1>7. ASSUME NEW w \in Workers, Crash(w) PROVE OneLoader'
    BY <1>7 DEF Crash, managerVars
  <1>8. CASE IdleTimePasses \/ UNCHANGED vars
    BY <1>8 DEF IdleTimePasses, vars
  <1> QED
    BY <1>1, <1>2, <1>3, <1>4, <1>5, <1>6, <1>7, <1>8 DEF Next, Exit

----------------------------------------------------------------------------
(* One owner, and the worker of a drained stop *)

OwnerPCs == {"boot", "stopDrained", "stopNow"}

\* A move to a place where nobody owns a worker.
LEMMA MoveKeepsOwner ==
  ASSUME TypeOK, OneOwner, NEW a \in Actors, NEW l, NEW b, Goto(a, l, b),
         l \notin OwnerPCs, client' = client
  PROVE  OneOwner'
  BY DEF TypeOK, OneOwner, Goto, Actors, Stoppers, OwnerPCs

\* The worker taken from _client had no other owner.
LEMMA TakeClientKeepsOwner ==
  ASSUME TypeOK, OneOwner, NEW a \in Actors, NEW l \in {"stopDrained", "stopNow"},
         TakeClient(a, l)
  PROVE  OneOwner'
  <1>1. CASE client = NoWorker
    BY <1>1, MoveKeepsOwner DEF TakeClient, OwnerPCs
  <1>2. CASE client # NoWorker
    <2>1. Goto(a, l, client) /\ client \in Workers /\ client' = NoWorker
      BY <1>2 DEF TakeClient, TypeOK
    <2> QED
      BY <2>1, BasesDistinct DEF TypeOK, OneOwner, Goto, Actors, Stoppers
  <1> QED
    BY <1>1, <1>2

LEMMA NextOwner ==
  ASSUME Typed, OneOwner, [Next]_vars
  PROVE  OneOwner'
  <1> USE MoveKeepsOwner DEF Typed, Actors, OwnerPCs
  <1>1. ASSUME NEW t \in Threads, Begin(t) PROVE OneOwner'
    <2>1. ASSUME EnterEnable(t) PROVE OneOwner'
      <3>1. CASE StartLoad(t)
        <4>1. PICK w \in Spawnable : Goto(t, "boot", w)
          BY <3>1 DEF StartLoad
        <4>2. w \in Workers /\ w # client /\ \A a \in Actors : hold[a] # w
          BY DEF Spawnable
        <4>3. client' = client
          BY <2>1 DEF EnterEnable
        <4> QED
          BY <4>1, <4>2, <4>3 DEF TypeOK, OneOwner, Goto, Stoppers
      <3>2. CASE Goto(t, "waitload", NoWorker)
        BY <2>1, <3>2 DEF EnterEnable
      <3> QED
        BY <2>1, <3>1, <3>2 DEF EnterEnable
    <2>2. CASE Enable(t)
      BY <2>1, <2>2 DEF Enable
    <2>3. CASE EnsureLoaded(t)
      BY <2>1, <2>3 DEF EnsureLoaded, managerVars
    <2>4. CASE Acquire(t)
      BY <2>4 DEF Acquire, TakeLease
    <2>5. CASE CurrentBase(t)
      BY <2>5 DEF CurrentBase, managerVars
    <2>6. CASE Disable(t)
      BY <2>6, TakeClientKeepsOwner DEF Disable
    <2> QED
      BY <1>1, <2>2, <2>3, <2>4, <2>5, <2>6 DEF Begin
  <1>2. ASSUME NEW t \in Threads, Continue(t) PROVE OneOwner'
    <2>1. CASE BootReady(t)
      <3>1. PICK l \in {"idle", "loaded"} : Goto(t, l, NoWorker)
        BY <2>1 DEF BootReady, EnableReturns
      <3>2. client' = hold[t] /\ pc[t] = "boot"
        BY <2>1 DEF BootReady
      <3> QED
        BY <3>1, <3>2 DEF TypeOK, OneOwner, Goto, Stoppers
    <2>2. CASE BootFails(t)
      BY <2>2 DEF BootFails, EnableRaises
    <2>3. CASE LoadAwaited(t)
      BY <2>3 DEF LoadAwaited, EnableReturns, EnableRaises, managerVars
    <2>4. CASE AcquireLoaded(t)
      BY <2>4 DEF AcquireLoaded, TakeLease
    <2>5. CASE DetectFails(t)
      BY <2>5 DEF DetectFails, managerVars
    <2>6. CASE Release(t)
      BY <2>6 DEF Release
    <2>7. CASE AdhocDetect(t)
      BY <2>7 DEF AdhocDetect
    <2>8. CASE Drained(t)
      BY <2>8, TakeClientKeepsOwner DEF Drained
    <2>9. CASE EnterRun(t) \/ LoseLease(t)
      BY <2>9 DEF EnterRun, LoseLease, managerVars
    <2> QED
      BY <1>2, <2>1, <2>2, <2>3, <2>4, <2>5, <2>6, <2>7, <2>8, <2>9 DEF Continue
  <1>3. ASSUME NEW a \in Actors, StopWorker(a) PROVE OneOwner'
    BY <1>3 DEF StopWorker, managerVars
  <1>4. CASE WatchdogCheck
    BY <1>4 DEF WatchdogCheck, managerVars
  <1>5. CASE WatchdogDisable \/ ShutdownDisable
    BY <1>5, TakeClientKeepsOwner DEF WatchdogDisable, ShutdownDisable, DisableNow
  <1>6. CASE ShutdownBegin
    BY <1>6 DEF ShutdownBegin, managerVars
  <1>7. ASSUME UNCHANGED <<pc, hold, client>> PROVE OneOwner'
    BY <1>7 DEF OneOwner, Stoppers
  <1>8. ASSUME NEW w \in Workers, Crash(w) PROVE OneOwner'
    BY <1>7, <1>8 DEF Crash, managerVars
  <1>9. CASE IdleTimePasses \/ UNCHANGED vars
    BY <1>7, <1>9 DEF IdleTimePasses, vars
  <1> QED
    BY <1>1, <1>2, <1>3, <1>4, <1>5, <1>6, <1>8, <1>9 DEF Next, Exit

\* Everything the safety run checks, as one inductive invariant.
IInv ==
  /\ Typed
  /\ RefcountCountsLeases
  /\ OneLoader
  /\ OneOwner
  /\ DrainedStopSparesLeases

\* A step that makes nobody a stopper and gives nobody a lease.
LEMMA DrainedKept ==
  ASSUME Typed, DrainedStopSparesLeases,
         NEW a \in Actors, NEW l, NEW b, Goto(a, l, b),
         l \notin {"stopDrained", "stopNow"},
         l \in {"taken", "leased", "failed"} => a \in Leases /\ b = hold[a]
  PROVE  DrainedStopSparesLeases'
  BY DEF Typed, TypeOK, DrainedStopSparesLeases, Goto, Leases, LeasesOf, Stoppers, Actors

LEMMA NextDrained ==
  ASSUME IInv, [Next]_vars
  PROVE  DrainedStopSparesLeases'
  <1> USE DrainedKept DEF IInv, Actors
  <1>1. ASSUME NEW a \in Actors, TakeClient(a, "stopDrained"), refcount = 0
        PROVE  DrainedStopSparesLeases'
    <2>1. Leases = {}
      BY <1>1, LeasesFinite DEF RefcountCountsLeases, Typed, TypeOK
    <2>2. PICK l, b : Goto(a, l, b) /\ l \notin {"taken", "leased", "failed"}
      BY <1>1 DEF TakeClient
    <2>3. Leases' = {}
      BY <2>1, <2>2, GotoLeases DEF Typed
    <2> QED
      BY <2>3 DEF DrainedStopSparesLeases
  <1>2. ASSUME NEW a \in Actors, TakeClient(a, "stopNow")
        PROVE  DrainedStopSparesLeases'
    <2>1. PICK l, b : Goto(a, l, b) /\ l \notin {"taken", "leased", "failed", "stopDrained"}
      BY <1>2 DEF TakeClient
    <2> QED
      BY <2>1 DEF Typed, TypeOK, DrainedStopSparesLeases, Goto, Leases, LeasesOf, Stoppers
  <1>3. ASSUME NEW t \in Threads, NEW l \in {"taken", "leased"}, TakeLease(t, l)
        PROVE  DrainedStopSparesLeases'
    <2>1. Goto(t, l, client) \/ Goto(t, l, Fallback)
      BY <1>3 DEF TakeLease
    <2>2. ASSUME NEW b \in {client, Fallback}, Goto(t, l, b)
          PROVE  DrainedStopSparesLeases'
      BY <2>2, BasesDistinct
      DEF Typed, TypeOK, OneOwner, DrainedStopSparesLeases, Goto, Leases, LeasesOf,
          Stoppers
    <2> QED
      BY <2>1, <2>2
  <1>4. ASSUME NEW t \in Threads, Begin(t) PROVE DrainedStopSparesLeases'
    <2>1. ASSUME EnterEnable(t) PROVE DrainedStopSparesLeases'
      <3>1. PICK l \in {"boot", "waitload"}, w \in Bases : Goto(t, l, w)
        BY <2>1 DEF EnterEnable, StartLoad, Spawnable, Bases
      <3> QED
        BY <3>1
    <2>2. CASE Enable(t)
      BY <2>1, <2>2 DEF Enable
    <2>3. CASE EnsureLoaded(t)
      BY <2>1, <2>3 DEF EnsureLoaded
    <2>4. CASE Acquire(t)
      BY <1>3, <2>4 DEF Acquire
    <2>5. CASE CurrentBase(t)
      BY <2>5 DEF CurrentBase
    <2>6. CASE Disable(t)
      <3>1. CASE Goto(t, "drain", NoWorker)
        BY <3>1
      <3>2. CASE refcount = 0 /\ TakeClient(t, "stopDrained")
        BY <1>1, <3>2
      <3> QED
        BY <2>6, <3>1, <3>2 DEF Disable
    <2> QED
      BY <1>4, <2>2, <2>3, <2>4, <2>5, <2>6 DEF Begin
  <1>5. ASSUME NEW t \in Threads, Continue(t) PROVE DrainedStopSparesLeases'
    <2>1. CASE BootReady(t) \/ BootFails(t) \/ LoadAwaited(t)
      <3>1. PICK l \in {"idle", "loaded"} : Goto(t, l, NoWorker)
        BY <2>1 DEF BootReady, BootFails, LoadAwaited, EnableReturns, EnableRaises
      <3> QED
        BY <3>1
    <2>2. CASE AcquireLoaded(t)
      BY <1>3, <2>2 DEF AcquireLoaded
    <2>3. CASE DetectFails(t)
      BY <2>3 DEF DetectFails, Leases, LeasesOf
    <2>4. CASE Release(t) \/ AdhocDetect(t)
      BY <2>4 DEF Release, AdhocDetect
    <2>5. CASE Drained(t)
      BY <1>1, <1>2, <2>5 DEF Drained
    <2>6. CASE EnterRun(t)
      <3>1. Goto(t, "leased", hold[t]) /\ pc[t] = "taken"
        BY <2>6 DEF EnterRun
      <3> QED
        BY <3>1
        DEF Typed, TypeOK, DrainedStopSparesLeases, Goto, Leases, LeasesOf, Stoppers
    <2>7. CASE LoseLease(t)
      BY <2>7 DEF LoseLease
    <2> QED
      BY <1>5, <2>1, <2>2, <2>3, <2>4, <2>5, <2>6, <2>7 DEF Continue
  <1>6. ASSUME NEW a \in Actors, StopWorker(a) PROVE DrainedStopSparesLeases'
    BY <1>6 DEF StopWorker
  <1>7. CASE WatchdogCheck \/ ShutdownBegin
    BY <1>7 DEF WatchdogCheck, ShutdownBegin
  <1>8. CASE WatchdogDisable \/ ShutdownDisable
    BY <1>2, <1>8 DEF WatchdogDisable, ShutdownDisable, DisableNow
  <1>9. ASSUME UNCHANGED <<pc, hold>> PROVE DrainedStopSparesLeases'
    BY <1>9 DEF DrainedStopSparesLeases, Stoppers, Leases
  <1>10. ASSUME NEW w \in Workers, Crash(w) PROVE DrainedStopSparesLeases'
    BY <1>9, <1>10 DEF Crash
  <1>11. CASE IdleTimePasses \/ UNCHANGED vars
    BY <1>9, <1>11 DEF IdleTimePasses, vars
  <1> QED
    BY <1>4, <1>5, <1>6, <1>7, <1>8, <1>10, <1>11 DEF Next, Exit

LEMMA Invariance == Spec => []IInv
  <1>1. Init => IInv
    <2>1. Init => RefcountCountsLeases
      <3> SUFFICES ASSUME Init PROVE RefcountCountsLeases
        OBVIOUS
      <3>1. Leases = {} /\ refcount = 0 /\ lost = 0
        BY DEF Init, Leases, LeasesOf, Actors
      <3> QED
        BY <3>1, LeasesFinite DEF RefcountCountsLeases
    <2>2. Init => OneLoader /\ OneOwner /\ DrainedStopSparesLeases
      BY DEF Init, OneLoader, OneOwner, DrainedStopSparesLeases, Actors, Stoppers
    <2> QED
      BY <2>1, <2>2, InitTyped DEF IInv
  <1>2. IInv /\ [Next]_vars => IInv'
    BY NextTyped, NextCounts, NextLoader, NextOwner, NextDrained DEF IInv
  <1> QED
    BY <1>1, <1>2, PTL DEF Spec

\* Type correctness: in every reachable state of the manager every field has
\* its type, whatever the interleaving of requests, watchdog and shutdown.
THEOREM TypeCorrect == Spec => []TypeOK
  BY Invariance, PTL DEF IInv, Typed

\* In every reachable state the refcount is the number of outstanding leases
\* plus the number of those lost between acquire() and the try/finally: zero
\* means that no job uses OPF, and nothing but a lost lease keeps it up.
THEOREM RefcountCorrect == Spec => []RefcountCountsLeases
  BY Invariance, PTL DEF IInv

\* However requests interleave, at most one thread spawns a worker, and
\* never while OPF is enabled.
THEOREM LoaderIsAlone == Spec => []OneLoader
  BY Invariance, PTL DEF IInv

\* No worker that is booting or being stopped is ever handed out by
\* acquire(), and no two actors boot or stop the same worker.
THEOREM OwnerIsAlone == Spec => []OneOwner
  BY Invariance, PTL DEF IInv

\* A disable() that waited for the refcount to reach zero never stops a worker
\* that a job still leases, however others toggle OPF while it waits.
THEOREM DrainedStopIsSafe == Spec => []DrainedStopSparesLeases
  BY Invariance, PTL DEF IInv

----------------------------------------------------------------------------
(* The manager implements the toggle *)

\* All that a step can do to _enabled and _loading.
LEMMA ModeSteps ==
  ASSUME Typed, OneLoader, [Next]_vars
  PROVE  \/ UNCHANGED <<enabled, loading>>
         \/ ~enabled /\ ~enabled' /\ ~loading /\ loading'
         \/ loading /\ ~loading'
         \/ ~enabled' /\ loading' = loading
  <1>1. ASSUME NEW t \in Threads, Begin(t), ~UNCHANGED <<enabled, loading>>
        PROVE  \/ ~enabled /\ ~enabled' /\ ~loading /\ loading'
               \/ ~enabled' /\ loading' = loading
    BY <1>1 DEF Begin, Enable, EnsureLoaded, EnterEnable, StartLoad, Acquire, TakeLease,
                CurrentBase, Disable, managerVars
  <1>2. ASSUME NEW t \in Threads, Continue(t), ~UNCHANGED <<enabled, loading>>
        PROVE  loading /\ ~loading'
    BY <1>2 DEF Continue, BootReady, BootFails, LoadAwaited, AcquireLoaded, TakeLease,
                EnterRun, LoseLease, DetectFails, Release, AdhocDetect, Drained,
                OneLoader, managerVars
  <1> QED
    BY <1>1, <1>2
    DEF Next, StopWorker, WatchdogCheck, WatchdogDisable, ShutdownBegin, ShutdownDisable,
        DisableNow, Exit, Crash, IdleTimePasses, vars, managerVars

LEMMA NextImplements ==
  ASSUME IInv, [Next]_vars
  PROVE  [Toggle!Next]_(Toggle!vars)
  <1> DEFINE mode == IF loading THEN "loading" ELSE IF enabled THEN "on" ELSE "off"
  <1>1. CASE SameLeases
    <2>1. Leases' = Leases
      BY <1>1 DEF SameLeases
    <2>2. \/ mode' = mode
          \/ mode = "off" /\ mode' = "loading"
          \/ mode = "loading" /\ mode' \in {"on", "off"}
          \/ mode = "on" /\ mode' = "off"
      BY ModeSteps DEF IInv, OneLoader
    <2> QED
      BY <2>1, <2>2
      DEF Toggle!Next, Toggle!vars, Toggle!StartLoading, Toggle!LoadEnds, Toggle!TurnOff
  <1>2. ASSUME NEW t \in Threads, NewLease(t) PROVE Toggle!Lease(t)
    BY <1>2 DEF NewLease, Toggle!Lease, IInv, OneLoader, Active
  <1>3. ASSUME NEW t \in Threads, OldLease(t) PROVE Toggle!EndLease(t)
    BY <1>3 DEF OldLease, Toggle!EndLease
  <1>4. ASSUME NEW t \in Threads, LostLease(t) PROVE Toggle!EndLease(t)
    BY <1>4 DEF LostLease, Toggle!EndLease
  <1> QED
    BY <1>1, <1>2, <1>3, <1>4, LeaseSteps DEF IInv, Toggle!Next

\* The manager, with its workers, waits, timeouts and crashes, behaves as the
\* toggle its callers are promised: OPF goes from OFF to ON only through
\* LOADING, and a lease on a worker starts only while OPF is ON.
THEOREM ManagerImplementsToggle == Spec => ImplementsToggle
  <1>1. Init => Toggle!Init
    BY DEF Init, Toggle!Init, Leases, LeasesOf, Actors
  <1>2. IInv /\ [Next]_vars => [Toggle!Next]_(Toggle!vars)
    BY NextImplements
  <1> QED
    BY Invariance, <1>1, <1>2, PTL DEF Spec, ImplementsToggle, Toggle!Spec
=============================================================================
