------------------------ MODULE ReconcilerRefinement ------------------------
(***************************************************************************)
(* Proofs about Reconciler, for any set of managers: that the loop         *)
(* implements the daily claim, and that a run that ends leaves a cause     *)
(* for another.                                                            *)
(***************************************************************************)
EXTENDS ReconcilerCaches

-----------------------------------------------------------------------------
(* What one step does to the claims that are open.                         *)

Open == {obj[m].rv : m \in {n \in Managers : Claiming(n)}}

\* Every worker's step leaves the others alone.
LEMMA OthersRested ==
  ASSUME Inductive, NEW m \in Managers, Reconcile(m) \/ Crash(m)
  PROVE  OthersRest(m)
<1>1. pc \in [Managers -> Labels] /\ obj \in [Managers -> Ssws]
  BY DEF Inductive, TypeOK
<1>2. ASSUME Stop(m) \/ Retry(m) \/ After(m, Poll) \/ After(m, Day) \/ Finish(m)
      PROVE  OthersRest(m)
  BY <1>1, <1>2 DEF Stop, Retry, After, Finish, OthersRest
<1>3. ASSUME NEW label \in Labels, Goto(m, label), NEW x,
             obj' = obj \/ obj' = [obj EXCEPT ![m] = x]
      PROVE  OthersRest(m)
  BY <1>1, <1>3 DEF Goto, OthersRest
<1>4. CASE Fetch(m)
  BY <1>1, <1>4 DEF Fetch, OthersRest
<1>5. CASE Started(m)
  <2>1. NextAfterStart(obj[m]) \in Labels
    BY Typed DEF NextAfterStart, Ssws, Labels
  <2>. QED  BY <1>2, <1>3, <1>5, <2>1 DEF Started
<1>6. CASE RemoveFinalizer(m) \/ ConfigMapCondition(m) \/ WriteReport(m) \/ Crash(m)
  BY <1>2, <1>6 DEF RemoveFinalizer, ConfigMapCondition, WriteReport, Crash
<1>7. CASE AddFinalizer(m) \/ FinalizerCondition(m)
  BY <1>3, <1>7 DEF AddFinalizer, FinalizerCondition, Labels
<1>8. CASE EnsureConfigMap(m) \/ PrepareWatchList(m) \/ CalculateHashes(m)
  BY <1>2, <1>3, <1>8 DEF EnsureConfigMap, PrepareWatchList, CalculateHashes, Labels
<1>9. CASE StoreHashes(m) \/ CompleteCondition(m) \/ ClaimDay(m)
  BY <1>2, <1>3, <1>9 DEF StoreHashes, CompleteCondition, ClaimDay, AfterStoreError,
                          AfterClaimError, Labels
<1>10. CASE ReadLedger(m) \/ NotifySlack(m)
  BY <1>2, <1>3, <1>10 DEF ReadLedger, NotifySlack, AfterSlackError, Labels
<1>. QED  BY <1>4, <1>5, <1>6, <1>7, <1>8, <1>9, <1>10 DEF Reconcile

\* A worker that holds no claim before or after a step leaves them as they are.
LEMMA OpenKept ==
  ASSUME NEW m \in Managers, OthersRest(m),
         \/ ~Claiming(m) /\ ~Claiming(m)'
         \/ Claiming(m) /\ Claiming(m)' /\ obj'[m] = obj[m]
  PROVE  Open' = Open
<1>1. \A n \in Managers : Claiming(n)' <=> Claiming(n)
  BY DEF OthersRest, Claiming
<1>2. \A n \in Managers : Claiming(n) => obj'[n] = obj[n]
  BY DEF OthersRest
<1>. QED  BY <1>1, <1>2 DEF Open

\* A worker that gives its claim up takes away no other worker's.
LEMMA OpenLapses ==
  ASSUME ClaimsUnsent, NEW m \in Managers, OthersRest(m), Claiming(m), ~Claiming(m)'
  PROVE  obj[m].rv \in Open /\ Open' = Open \ {obj[m].rv}
<1>1. \A n \in Managers \ {m} : (Claiming(n)' <=> Claiming(n)) /\ obj'[n] = obj[n]
  BY DEF OthersRest, Claiming
<1>2. \A n \in Managers \ {m} : Claiming(n) => obj[n].rv # obj[m].rv
  BY DEF ClaimsUnsent
<1>. QED  BY <1>1, <1>2 DEF Open

\* One that makes a claim adds the version it made.
LEMMA OpenGains ==
  ASSUME NEW m \in Managers, OthersRest(m), ~Claiming(m), Claiming(m)', obj'[m] = ssw'
  PROVE  Open' = Open \cup {ssw'.rv}
<1>1. \A n \in Managers \ {m} : (Claiming(n)' <=> Claiming(n)) /\ obj'[n] = obj[n]
  BY DEF OthersRest, Claiming
<1>. QED  BY <1>1 DEF Open

\* Where the workers are that hold a claim: between ClaimDay and NotifySlack
\* (lines 635 to 669).
LEMMA ClaimingSteps ==
  ASSUME Inductive, NEW m \in Managers, Reconcile(m)
  PROVE  /\ ClaimDay(m) => ~Claiming(m)
         /\ ReadLedger(m) \/ NotifySlack(m) => Claiming(m)
         /\ ~(ClaimDay(m) \/ ReadLedger(m) \/ NotifySlack(m)) =>
              ~Claiming(m) /\ ~Claiming(m)' /\ notices' = notices
         /\ now' = now
<1>1. pc \in [Managers -> Labels]
  BY DEF Inductive, TypeOK
<1>2. Stop(m) \/ Retry(m) \/ After(m, Day) \/ Finish(m) => ~Claiming(m)'
  BY <1>1 DEF Stop, Retry, After, Finish, Claiming
<1>3. ASSUME NEW label \in Labels \ {"window", "notify"}, Goto(m, label)
      PROVE  ~Claiming(m)'
  BY <1>1, <1>3 DEF Goto, Claiming
<1>. DEFINE Rests(n) == ~Claiming(n) /\ ~Claiming(n)' /\ notices' = notices /\ now' = now
<1>4. Fetch(m) => Rests(m)
  BY <1>1 DEF Fetch, Claiming
<1>5. Started(m) => Rests(m)
  <2>1. NextAfterStart(obj[m]) \in {"unfinal", "ledger", "final"}
    BY Typed DEF NextAfterStart, Ssws
  <2>. QED  BY <1>2, <1>3, <2>1 DEF Started, Claiming, Labels
<1>6. RemoveFinalizer(m) \/ ConfigMapCondition(m) \/ WriteReport(m) => Rests(m)
  BY <1>2 DEF RemoveFinalizer, ConfigMapCondition, WriteReport, Claiming
<1>7. AddFinalizer(m) \/ FinalizerCondition(m) => Rests(m)
  BY <1>3 DEF AddFinalizer, FinalizerCondition, Claiming, Labels
<1>8. EnsureConfigMap(m) => Rests(m)
  BY <1>2, <1>3 DEF EnsureConfigMap, Claiming, Labels
<1>9. PrepareWatchList(m) \/ CalculateHashes(m) => Rests(m)
  BY <1>2, <1>3 DEF PrepareWatchList, CalculateHashes, Claiming, Labels
<1>10. StoreHashes(m) \/ CompleteCondition(m) => Rests(m)
  BY <1>2, <1>3 DEF StoreHashes, AfterStoreError, CompleteCondition, Claiming, Labels
<1>11. ClaimDay(m) => ~Claiming(m) /\ now' = now
  BY DEF ClaimDay, Claiming
<1>12. ReadLedger(m) \/ NotifySlack(m) => Claiming(m) /\ now' = now
  BY DEF ReadLedger, NotifySlack, Claiming
<1>. HIDE DEF Rests
<1>. QED  BY <1>4, <1>5, <1>6, <1>7, <1>8, <1>9, <1>10, <1>11, <1>12
          DEF Reconcile, Rests

-----------------------------------------------------------------------------
(* The refinement.  Every step of the loop is a step of the daily claim or *)
(* none.                                                                   *)

\* Steps that neither claim nor announce: at most a new version, made by the
\* conditions, the finalizer, the report or a user.
LEMMA QuietImplements ==
  ASSUME Unclaimed, Open' = Open, notices' = notices, now' = now
  PROVE  [Abstract!Next]_Abstract!vars
<1>1. ssw' = ssw => UNCHANGED Abstract!vars
  BY DEF Abstract!vars, Open
<1>2. Edited => Abstract!Edit
  BY DEF Edited, Abstract!Edit, Open
<1>3. Replaced => Abstract!Replace
  BY DEF Replaced, Abstract!Replace, Open
<1>. QED  BY <1>1, <1>2, <1>3 DEF Unclaimed, Abstract!Next

\* The claim, whether or not its maker learns of it (lines 639 to 642).
LEMMA ClaimImplements ==
  ASSUME ClaimedNow, Open' = Open \/ Open' = Open \cup {ssw'.rv},
         notices' = notices, now' = now
  PROVE  Abstract!Next
BY DEF ClaimedNow, Open, Abstract!Claim, Abstract!Next

\* A claim given up without a message: outside the window, without data, or
\* because the worker is gone.
LEMMA LapseImplements ==
  ASSUME NEW c \in Open, Open' = Open \ {c}, UNCHANGED <<ssw, notices, now>>
  PROVE  Abstract!Next
BY DEF Open, Abstract!Lapse, Abstract!Next

\* The message (lines 656 to 669).
LEMMA AnnounceImplements ==
  ASSUME NEW c \in Open, Open' = Open \ {c}, notices' = Append(notices, c),
         UNCHANGED <<ssw, now>>
  PROVE  Abstract!Next
BY DEF Open, Abstract!Announce, Abstract!Next

\* The check: it claims the day and holds the claim, or leaves the claims alone.
LEMMA ClaimDayImplements ==
  ASSUME Inductive, CachesTrail, NEW m \in Managers, ClaimDay(m)
  PROVE  [Abstract!Next]_Abstract!vars
<1>1. Reconcile(m) /\ now' = now /\ notices' = notices /\ ~Claiming(m) /\ OthersRest(m)
  BY ClaimingSteps, OthersRested DEF Reconcile, ClaimDay
<1>2. pc \in [Managers -> Labels] /\ obj \in [Managers -> Ssws]
  BY DEF Inductive, TypeOK
<1>3. CASE Goto(m, "window")
  <2>1. Claiming(m)' /\ obj'[m] = ssw'
    BY <1>2, <1>3 DEF Goto, Claiming, ClaimDay, After, Retry, AfterClaimError, Finish
  <2>. QED  BY <1>1, <1>3, <2>1, ClaimDayStored, OpenGains, ClaimImplements
<1>4. CASE ~Goto(m, "window")
  <2>1. ~Claiming(m)'
    BY <1>2, <1>4 DEF Claiming, ClaimDay, After, Retry, AfterClaimError, Finish
  <2>2. Open' = Open
    BY <1>1, <2>1, OpenKept
  <2>. QED  BY <1>1, <2>2, ClaimDayStored, ClaimImplements, QuietImplements DEF Unclaimed
<1>. QED  BY <1>3, <1>4

\* Every worker's step.
LEMMA WorkerImplements ==
  ASSUME Inductive, CachesTrail, NEW m \in Managers, Reconcile(m)
  PROVE  [Abstract!Next]_Abstract!vars
<1>1. now' = now /\ OthersRest(m) /\ ClaimsUnsent
  BY ClaimingSteps, OthersRested DEF Inductive
<1>2. pc \in [Managers -> Labels] /\ obj \in [Managers -> Ssws]
  BY DEF Inductive, TypeOK
<1>3. CASE ReadLedger(m)
  <2>1. Claiming(m) /\ UNCHANGED <<ssw, notices>>
    BY <1>3 DEF ReadLedger, Claiming, store
  <2>2. CASE Claiming(m)'
    <3>1. obj'[m] = obj[m]
      BY <1>2, <1>3, <2>2 DEF ReadLedger, Claiming, After, Retry, Finish
    <3>. QED  BY <1>1, <2>1, <2>2, <3>1, OpenKept, QuietImplements DEF Unclaimed
  <2>3. CASE ~Claiming(m)'
    BY <1>1, <2>1, <2>3, OpenLapses, LapseImplements
  <2>. QED  BY <2>2, <2>3
<1>4. CASE NotifySlack(m)
  <2>1. /\ Claiming(m) /\ ssw' = ssw
        /\ notices' = notices \/ notices' = Append(notices, obj[m].rv)
    BY <1>4 DEF NotifySlack, Claiming, store
  <2>2. ~Claiming(m)'
    BY <1>2, <1>4 DEF NotifySlack, Claiming, Goto, AfterSlackError, Retry, Finish
  <2>. QED  BY <1>1, <2>1, <2>2, OpenLapses, LapseImplements, AnnounceImplements
<1>5. CASE ~(ClaimDay(m) \/ ReadLedger(m) \/ NotifySlack(m))
  <2>1. Unclaimed
    BY <1>5, WorkerStored
  <2>. QED  BY <1>1, <1>5, <2>1, ClaimingSteps, OpenKept, QuietImplements
<1>. QED  BY <1>3, <1>4, <1>5, ClaimDayImplements

\* A crash gives up the worker's claim.
LEMMA CrashImplements ==
  ASSUME Inductive, NEW m \in Managers, Crash(m)
  PROVE  [Abstract!Next]_Abstract!vars
<1>1. UNCHANGED <<ssw, notices, now>> /\ OthersRest(m) /\ ClaimsUnsent
  BY OthersRested DEF Crash, Inductive
<1>2. ~Claiming(m)'
  BY DEF Crash, Finish, Claiming, Inductive, TypeOK
<1>. QED  BY <1>1, <1>2, OpenKept, OpenLapses, LapseImplements, QuietImplements
          DEF Unclaimed

\* Informers, users and the clock hold no claim.
LEMMA OutsideImplements ==
  ASSUME Inductive, CachesTrail,
         Environment \/ \E m \in Managers : Informers(m)
  PROVE  [Abstract!Next]_Abstract!vars
<1>1. UNCHANGED <<pc, obj, notices>>
  BY DEF Environment, CreateSsw, EditSsw, DeleteSsw, ChangeSecret, DeleteLedger, Tick,
         Informers, DeliverSsw, DeliverLedger, NoteLedger, TimerFires, worker
<1>2. Open' = Open
  BY <1>1 DEF Open, Claiming
<1>3. CASE Tick
  BY <1>1, <1>2, <1>3 DEF Tick, store, Open, Abstract!Pass, Abstract!Next
<1>4. CASE Environment /\ ~Tick
  <2>1. now' = now
    BY <1>4 DEF Environment, CreateSsw, EditSsw, DeleteSsw, ChangeSecret, DeleteLedger
  <2>. QED  BY <1>1, <1>2, <1>4, <2>1, EnvironmentStored, QuietImplements
<1>5. CASE \E m \in Managers : Informers(m)
  <2>1. UNCHANGED <<ssw, now>>
    BY <1>5 DEF Informers, DeliverSsw, DeliverLedger, NoteLedger, TimerFires, store
  <2>. QED  BY <1>1, <1>2, <2>1, QuietImplements DEF Unclaimed
<1>. QED  BY <1>3, <1>4, <1>5

\* For any number of managers, each with caches of its own, with faults, crashes
\* and lost replies, the loop makes a claim a day at most and announces each at
\* most once, by the worker that made it: it implements DailyClaim.
THEOREM DailyClaimImplemented == Spec => ImplementsDailyClaim
<1>1. Init => Abstract!Init
  BY DEF Init, Abstract!Init, NewSsw, NoSsw, Claiming
<1>2. Inductive /\ CachesTrail /\ [Next]_vars => [Abstract!Next]_Abstract!vars
  <2>1. UNCHANGED vars => UNCHANGED Abstract!vars
    BY DEF vars, store, worker, Claiming, Abstract!vars
  <2>. QED  BY <2>1, WorkerImplements, CrashImplements, OutsideImplements DEF Next
<1>. QED
  BY <1>1, <1>2, InductiveHolds, CachesTrailHolds, PTL
  DEF Spec, ImplementsDailyClaim, Abstract!Spec

-----------------------------------------------------------------------------
(* What a run that ends leaves behind.                                     *)

\* Every end of a run but Stop leaves an entry in a queue: at once after an
\* error, or after a delay, however late it is.
LEMMA EndsAwaited ==
  ASSUME Inductive, NEW m \in Managers,
         Retry(m) \/ After(m, Poll) \/ After(m, Day)
  PROVE  Awaited(m)'
<1>1. /\ queued \in [Managers -> BOOLEAN] /\ timer \in [Managers -> 0..Never]
      /\ now \in 0..MaxTime
  BY DEF Inductive, TypeOK
<1>2. Retry(m) => queued'[m]
  BY <1>1 DEF Retry
<1>3. ASSUME NEW delay \in 1..Day, After(m, delay)
      PROVE  timer'[m] # Never
  <2>1. now + delay < Never /\ timer[m] \in Int /\ now + delay \in Int
    BY <1>1, DayAssumption, BoundAssumption DEF Never
  <2>2. timer'[m] = IF now + delay < timer[m] THEN now + delay ELSE timer[m]
    BY <1>1, <1>3 DEF After
  <2>. QED  BY <2>1, <2>2
<1>4. Poll \in 1..Day /\ Day \in 1..Day
  BY DayAssumption, PollAssumption
<1>. QED  BY <1>2, <1>3, <1>4 DEF Awaited

\* A batch that fails on a vanished secret ends its run without an error (line
\* 175): the vanishing itself queues the ssw, unless the cache has lost it, and
\* then a version is still to come.
LEMMA BatchAwaited ==
  ASSUME Inductive, CachesTrail, NEW m \in Managers, CalculateHashes(m),
         pc'[m] = "idle", ssw.exists
  PROVE  Awaited(m)'
<1>1. pc \in [Managers -> Labels] /\ queued \in [Managers -> BOOLEAN]
  BY DEF Inductive, TypeOK
<1>2. CASE Retry(m)
  BY <1>2, EndsAwaited
<1>3. CASE SecretEvent /\ UNCHANGED store
  <2>1. cache[m].exists => queued'[m]
    BY <1>1, <1>3 DEF SecretEvent
  <2>2. ~cache[m].exists => pend'[m] # {}
    BY <1>3 DEF CachesTrail, store
  <2>. QED  BY <2>1, <2>2 DEF Awaited
<1>. QED  BY <1>1, <1>2, <1>3 DEF CalculateHashes, Goto

\* Every worker's step.
LEMMA WorkerAwaited ==
  ASSUME Inductive, CachesTrail, NEW m \in Managers, Reconcile(m),
         pc[m] \notin {"idle", "unfinal", "store"}, pc'[m] = "idle", ssw.exists
  PROVE  Awaited(m)'
<1>1. pc \in [Managers -> Labels]
  BY DEF Inductive, TypeOK
<1>2. ASSUME NEW label, Goto(m, label) PROVE label = "idle"
  BY <1>1, <1>2 DEF Goto
<1>3. CASE Fetch(m) \/ RemoveFinalizer(m) \/ StoreHashes(m)
  BY <1>3 DEF Fetch, RemoveFinalizer, StoreHashes
<1>4. CASE Started(m)
  <2>1. NextAfterStart(obj[m]) # "idle"
    BY Typed DEF NextAfterStart, Ssws
  <2>. QED  BY <1>2, <1>4, <2>1, EndsAwaited DEF Started
<1>5. CASE AddFinalizer(m) \/ FinalizerCondition(m)
  BY <1>2, <1>5 DEF AddFinalizer, FinalizerCondition
<1>6. CASE EnsureConfigMap(m) \/ ConfigMapCondition(m) \/ PrepareWatchList(m)
  BY <1>2, <1>6, EndsAwaited DEF EnsureConfigMap, ConfigMapCondition, PrepareWatchList
<1>7. CASE CompleteCondition(m) \/ ClaimDay(m)
  BY <1>2, <1>7, EndsAwaited DEF CompleteCondition, ClaimDay, AfterClaimError
<1>8. CASE ReadLedger(m) \/ NotifySlack(m) \/ WriteReport(m)
  BY <1>2, <1>8, EndsAwaited DEF ReadLedger, NotifySlack, AfterSlackError, WriteReport
<1>. QED  BY <1>3, <1>4, <1>5, <1>6, <1>7, <1>8, BatchAwaited DEF Reconcile

\* For any number of managers: however a run ends, by an error of any call, a
\* refused write or a crash, something is left that looks at the ssw again; but
\* for the run that removed a finalizer and the one whose store failed.
THEOREM WakeupIsLeft == Spec => RunLeavesWakeup
<1>. DEFINE Left(m) == pc[m] \notin {"idle", "unfinal", "store"} /\ pc'[m] = "idle"
                         /\ ssw.exists => Awaited(m)'
<1>1. ASSUME Inductive, CachesTrail, [Next]_vars, NEW m \in Managers
      PROVE  Left(m)
  <2>1. CASE Reconcile(m)
    BY <1>1, <2>1, WorkerAwaited
  <2>2. CASE Crash(m)
    <3>1. ssw.exists => queued'[m]
      BY <1>1, <2>2 DEF Crash, Inductive, TypeOK
    <3>. QED  BY <3>1 DEF Awaited
  <2>3. ASSUME NEW n \in Managers \ {m}, Reconcile(n) \/ Crash(n) PROVE Left(m)
    BY <1>1, <2>3, OthersRested DEF OthersRest
  <2>4. CASE Environment \/ (\E n \in Managers : Informers(n)) \/ UNCHANGED vars
    <3>1. pc' = pc
      BY <2>4 DEF Environment, CreateSsw, EditSsw, DeleteSsw, ChangeSecret,
           DeleteLedger, Tick, Informers, DeliverSsw, DeliverLedger, NoteLedger,
           TimerFires, worker, vars
    <3>. QED  BY <3>1
  <2>. QED  BY <1>1, <2>1, <2>2, <2>3, <2>4 DEF Next
<1>2. Inductive /\ CachesTrail /\ [Next]_vars => [\A m \in Managers : Left(m)]_vars
  BY <1>1
<1>. QED
  BY <1>2, InductiveHolds, CachesTrailHolds, PTL DEF Spec, RunLeavesWakeup

=============================================================================
