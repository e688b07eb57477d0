------------------------ MODULE ReconcilerFinalizer ------------------------
(***************************************************************************)
(* Proofs about Reconciler with one manager, which is what leader election *)
(* leaves: a checked ssw has its finalizer, and keeps it until it is       *)
(* deleted.                                                                *)
(***************************************************************************)
EXTENDS ReconcilerCaches

-----------------------------------------------------------------------------
(* What a step has to keep.                                                *)

\* The step strips no live ssw of its finalizer.
FinalizerStays == ssw.exists /\ ssw'.exists /\ ssw.fin => ssw'.fin

Keeps(m) == ClaimedHasFinalizer' /\ FinalizerStays /\ FinalizerKnown(m)'

\* What the steps below start from.
Given(m) ==
  /\ Inductive /\ CachesTrail /\ ClaimedHasFinalizer /\ FinalizerKnown(m)
  /\ Inductive' /\ CachesTrail'

\* The facts about versions that every case needs.
LEMMA Versions ==
  ASSUME NEW m \in Managers, Given(m)
  PROVE  /\ ssw \in Ssws /\ ssw' \in Ssws /\ ssw.rv \in Nat /\ ssw'.rv \in Nat
         /\ ssw'.rv > 0 /\ NoSsw(0).rv = 0
         /\ cache[m] \in Ssws /\ obj[m] \in Ssws /\ pend[m] \subseteq Ssws
         /\ cache[m].rv <= ssw.rv /\ obj[m].rv <= ssw.rv
         /\ cache[m].rv = ssw.rv => \A o \in pend[m] \cup {cache[m]} : o = ssw
         /\ Stored => \/ ssw' = ssw /\ pend'[m] = pend[m]
                      \/ ssw'.rv = ssw.rv + 1 /\ pend'[m] = pend[m] \cup {ssw'}
<1>1. /\ ssw \in Ssws /\ ssw' \in Ssws /\ ssw'.rv > 0
      /\ cache[m] \in Ssws /\ obj[m] \in Ssws /\ pend[m] \subseteq Ssws
      /\ cache[m].rv <= ssw.rv /\ obj[m].rv <= ssw.rv
      /\ \A o \in pend[m] : o.rv <= ssw.rv
  BY DEF Given, Inductive, TypeOK, CopiesKnown, Known
<1>2. cache[m].rv = ssw.rv => \A o \in pend[m] \cup {cache[m]} : o = ssw
  <2>1. \A o \in pend[m] : cache[m].rv <= o.rv /\ o.rv <= ssw.rv /\ o.rv \in Nat
    BY <1>1 DEF Given, CachesTrail, Ssws
  <2>2. cache[m].rv = ssw.rv => \A o \in pend[m] \cup {cache[m]} : o.rv = ssw.rv
    BY <1>1, <2>1 DEF Ssws
  <2>. QED  BY <2>2 DEF Given, CachesTrail
<1>3. Stored => \/ ssw' = ssw /\ pend'[m] = pend[m]
                \/ ssw'.rv = ssw.rv + 1 /\ pend'[m] = pend[m] \cup {ssw'}
  BY DEF Stored, Publish, store
<1>. QED  BY <1>1, <1>2, <1>3 DEF Ssws, NoSsw

\* Steps that change the ssw at most as a condition does, and let the worker go on
\* with its copy or drop it.
LEMMA RevisionKeeps ==
  ASSUME NEW m \in Managers, Given(m), Stored, Revised, cache' = cache,
         obj'[m] \in {obj[m], NoSsw(0)},
         pc'[m] \in {"started", "final"} =>
           pc[m] \in {"started", "final"} /\ obj'[m] = obj[m],
         PastFinalizer(m)' => obj'[m] = obj[m] /\ (PastFinalizer(m) \/ obj[m].fin),
         Stripping(m)' => Stripping(m)
  PROVE  Keeps(m)
<1>1. /\ ssw'.exists = ssw.exists /\ ssw'.deleting = ssw.deleting
      /\ ssw'.fin = ssw.fin /\ ssw'.last = ssw.last
  BY DEF Revised, SameObject
<1>2. ClaimedHasFinalizer' /\ FinalizerStays
  BY <1>1 DEF Given, ClaimedHasFinalizer, FinalizerStays
<1>3. obj'[m].rv = ssw'.rv =>
        /\ obj'[m] = obj[m] /\ obj[m].rv = ssw.rv
        /\ ssw' = ssw /\ pend'[m] = pend[m]
  BY Versions DEF Ssws
<1>4. pend'[m] \subseteq pend[m] \cup {ssw'}
  BY Versions
<1>. QED  BY <1>1, <1>2, <1>3, <1>4 DEF Given, Keeps, FinalizerKnown, Stripping

\* The steps of a worker that write a status or nothing at all.
LEMMA QuietWorkerKeeps ==
  ASSUME NEW m \in Managers, Given(m), WritesStatus(m) \/ (OnlyLocal(m) /\ ~Fetch(m))
  PROVE  Keeps(m)
<1>1. pc \in [Managers -> Labels] /\ obj \in [Managers -> Ssws]
  BY DEF Given, Inductive, TypeOK
<1>2. Stored /\ Revised /\ cache' = cache
  <2>1. Stored /\ Revised
    BY StatusStored, LocalStored DEF Given, Stored, Revised, store
  <2>2. cache' = cache
    BY DEF WritesStatus, OnlyLocal, Started, FinalizerCondition, ConfigMapCondition,
           PrepareWatchList, CompleteCondition, WriteReport, EnsureConfigMap,
           CalculateHashes, StoreHashes, ReadLedger, NotifySlack, views
  <2>. QED  BY <2>1, <2>2
<1>. DEFINE Ends == pc'[m] = "idle" /\ obj'[m] = NoSsw(0)
            Goes(label) == pc'[m] = label /\ obj'[m] = obj[m]
<1>3. Retry(m) \/ Stop(m) \/ After(m, Poll) \/ After(m, Day) \/ Finish(m) => Ends
  BY <1>1 DEF Retry, Stop, After, Finish
<1>4. ASSUME NEW label, Goto(m, label), UNCHANGED obj PROVE Goes(label)
  BY <1>1, <1>4 DEF Goto
<1>. HIDE DEF Ends
<1>5. CASE Started(m)
  <2>1. \/ Ends
        \/ obj[m].deleting /\ Goes("unfinal")
        \/ obj[m].fin /\ Goes("ledger")
        \/ Goes("final")
    <3>1. /\ NextAfterStart(obj[m]) \in {"unfinal", "ledger", "final"}
          /\ NextAfterStart(obj[m]) = "unfinal" => obj[m].deleting
          /\ NextAfterStart(obj[m]) = "ledger" => obj[m].fin
      BY Versions DEF NextAfterStart, Ssws
    <3>. QED  BY <1>3, <1>4, <1>5, <3>1 DEF Started
  <2>. QED  BY <1>2, <1>5, <2>1, RevisionKeeps
            DEF Started, Ends, PastFinalizer, Stripping
<1>6. CASE FinalizerCondition(m) \/ EnsureConfigMap(m) \/ ConfigMapCondition(m)
  <2>1. pc[m] \in {"finalCond", "ledger", "cmCond"}
    BY <1>6 DEF FinalizerCondition, EnsureConfigMap, ConfigMapCondition
  <2>2. Ends \/ Goes("ledger") \/ Goes("list") \/ Goes("cmCond")
    BY <1>3, <1>4, <1>6 DEF FinalizerCondition, EnsureConfigMap, ConfigMapCondition
  <2>. QED  BY <1>2, <2>1, <2>2, RevisionKeeps DEF Ends, PastFinalizer, Stripping
<1>7. CASE PrepareWatchList(m) \/ CalculateHashes(m)
  <2>1. pc[m] \in {"list", "hash"}
    BY <1>7 DEF PrepareWatchList, CalculateHashes
  <2>2. Ends \/ Goes("hash") \/ Goes("store") \/ Goes("complete")
    BY <1>3, <1>4, <1>7 DEF PrepareWatchList, CalculateHashes
  <2>. QED  BY <1>2, <2>1, <2>2, RevisionKeeps DEF Ends, PastFinalizer, Stripping
<1>8. CASE StoreHashes(m) \/ CompleteCondition(m)
  <2>1. pc[m] \in {"store", "complete"}
    BY <1>8 DEF StoreHashes, CompleteCondition
  <2>2. Ends \/ Goes("complete") \/ Goes("daily")
    BY <1>3, <1>4, <1>8 DEF StoreHashes, AfterStoreError, CompleteCondition
  <2>. QED  BY <1>2, <2>1, <2>2, RevisionKeeps DEF Ends, PastFinalizer, Stripping
<1>9. CASE ReadLedger(m) \/ NotifySlack(m) \/ WriteReport(m)
  <2>1. Ends \/ Goes("notify") \/ Goes("report")
    BY <1>3, <1>4, <1>9 DEF ReadLedger, NotifySlack, AfterSlackError, WriteReport
  <2>. QED  BY <1>2, <2>1, RevisionKeeps DEF Ends, PastFinalizer, Stripping
<1>. QED  BY <1>5, <1>6, <1>7, <1>8, <1>9 DEF WritesStatus, OnlyLocal

\* The queue, the ledger and the clock leave the worker and the ssw alone.
LEMMA StillKeeps ==
  ASSUME NEW m \in Managers, Given(m), UNCHANGED <<store, cache, pc, obj>>
  PROVE  Keeps(m)
<1>1. Stored /\ Revised
  BY DEF Stored, Revised, store
<1>. QED  BY <1>1, RevisionKeeps DEF PastFinalizer, Stripping

\* A version that is fetched is the stored one or older (lines 64 to 76).
LEMMA FetchKeeps ==
  ASSUME NEW m \in Managers, Given(m), Fetch(m)
  PROVE  Keeps(m)
<1>1. pc \in [Managers -> Labels] /\ obj \in [Managers -> Ssws]
  BY DEF Given, Inductive, TypeOK
<1>2. /\ UNCHANGED <<store, cache>>
      /\ \/ UNCHANGED <<pc, obj>>
         \/ pc'[m] = "started" /\ obj'[m] = cache[m]
  BY <1>1 DEF Fetch, views
<1>3. CASE UNCHANGED <<pc, obj>>
  BY <1>2, <1>3, StillKeeps
<1>4. CASE pc'[m] = "started" /\ obj'[m] = cache[m]
  <2>1. UNCHANGED <<ssw, pend, cache>>
    BY <1>2 DEF store
  <2>2. ClaimedHasFinalizer' /\ FinalizerStays
    BY <2>1 DEF Given, ClaimedHasFinalizer, FinalizerStays
  <2>. QED  BY <1>4, <2>1, <2>2, Versions
            DEF Given, Keeps, FinalizerKnown, PastFinalizer, Stripping
<1>. QED  BY <1>2, <1>3, <1>4

\* removeFinalizer strips only what is being deleted: nothing else that has its
\* finalizer is met by a worker that goes there (lines 203 to 219).
LEMMA RemoveFinalizerKeeps ==
  ASSUME NEW m \in Managers, Given(m), RemoveFinalizer(m)
  PROVE  Keeps(m)
<1>1. pc \in [Managers -> Labels] /\ obj \in [Managers -> Ssws]
  BY DEF Given, Inductive, TypeOK
<1>2. cache' = cache /\ pc'[m] = "idle" /\ obj'[m] = NoSsw(0)
  BY <1>1 DEF RemoveFinalizer, Stop, Retry, Finish, views
<1>3. Stripping(m)
  BY DEF RemoveFinalizer, Stripping
<1>4. CASE ssw.deleting /\ Removed
  <2>1. ~ssw'.exists /\ ~ssw'.fin
    BY <1>4 DEF Removed, SameObject, NoSsw
  <2>2. obj'[m].rv # ssw'.rv
    BY <1>2, Versions
  <2>. QED  BY <1>2, <2>1, <2>2 DEF Keeps, ClaimedHasFinalizer, FinalizerStays,
               FinalizerKnown, PastFinalizer, Stripping
<1>5. CASE ~(ssw.deleting /\ Removed)
  <2>1. Stored
    BY RemoveFinalizerStored DEF Given
  <2>2. Revised
    <3>1. ~ssw.deleting => ~ssw.fin
      BY <1>3 DEF Given, FinalizerKnown
    <3>2. SameObject([ssw EXCEPT !.fin = FALSE]) /\ ~ssw.fin => SameObject(ssw)
      BY Versions DEF SameObject, Ssws
    <3>. QED  BY <1>5, <3>1, <3>2, RemoveFinalizerStored DEF Given, Revised, Accepts
  <2>. QED  BY <1>2, <2>1, <2>2, RevisionKeeps DEF PastFinalizer, Stripping
<1>. QED  BY <1>4, <1>5

\* addFinalizer: after a failure that Reconcile ignores, the worker's copy either
\* has the finalizer or is of a version that is gone (lines 116 to 121).
LEMMA AddFinalizerKeeps ==
  ASSUME NEW m \in Managers, Given(m), AddFinalizer(m)
  PROVE  Keeps(m)
<1>. DEFINE Done == Succeeds(cache[m], UpdateMain(Finalized(cache[m])))
<1>1. pc \in [Managers -> Labels] /\ obj \in [Managers -> Ssws]
  BY DEF Given, Inductive, TypeOK
<1>2. /\ cache' = cache /\ pc[m] = "final" /\ PastFinalizer(m)'
      /\ pc'[m] \in {"finalCond", "ledger"}
  BY <1>1 DEF AddFinalizer, Goto, PastFinalizer, views
<1>3. \/ Done /\ obj'[m] = ssw'
      \/ obj'[m] = IF cache[m].exists THEN Finalized(cache[m]) ELSE obj[m]
  BY <1>1 DEF AddFinalizer
<1>4. /\ Stored
      /\ \/ ssw' = ssw
         \/ /\ Accepts(cache[m]) /\ ssw'.rv = ssw.rv + 1
            /\ SameObject([ssw EXCEPT !.fin = TRUE])
      /\ Done => Accepts(cache[m]) /\ ssw'.fin
  BY AddFinalizerStored DEF Given
<1>. HIDE DEF Done
<1>5. Finalized(cache[m]).fin /\ Finalized(cache[m]).rv = cache[m].rv
  BY Versions DEF Finalized, Ssws
<1>6. CASE ssw' = ssw
  <2>1. ClaimedHasFinalizer' /\ FinalizerStays /\ pend'[m] = pend[m]
    BY <1>4, <1>6, Versions DEF Given, ClaimedHasFinalizer, FinalizerStays
  <2>2. obj'[m].rv = ssw'.rv /\ ssw'.exists => obj'[m].fin
    BY <1>2, <1>3, <1>4, <1>5, <1>6 DEF Given, FinalizerKnown
  <2>3. obj'[m].rv = ssw'.rv => obj[m].rv = ssw.rv \/ cache[m].rv = ssw.rv
    BY <1>3, <1>4, <1>5, <1>6 DEF Accepts
  <2>4. ssw'.fin \/ obj'[m].rv = ssw'.rv =>
          \A o \in pend[m] \cup {cache[m]} : o.deleting => ssw.deleting
    BY <1>6, <2>3, Versions DEF Given, FinalizerKnown
  <2>. QED  BY <1>2, <1>6, <2>1, <2>2, <2>4 DEF Keeps, FinalizerKnown, Stripping
<1>7. CASE /\ Accepts(cache[m]) /\ ssw'.rv = ssw.rv + 1
           /\ SameObject([ssw EXCEPT !.fin = TRUE])
  <2>1. ssw'.fin /\ ssw'.deleting = ssw.deleting
    BY <1>7, Versions DEF SameObject, Ssws
  <2>2. pend'[m] = pend[m] \cup {ssw'} /\ \A o \in pend[m] \cup {cache[m]} : o = ssw
    BY <1>4, <1>7, Versions DEF Accepts
  <2>3. obj'[m].rv = ssw'.rv => obj'[m] = ssw'
    BY <1>3, <1>5, <1>7, Versions DEF Ssws
  <2>. QED  BY <1>2, <2>1, <2>2, <2>3
            DEF Keeps, ClaimedHasFinalizer, FinalizerStays, FinalizerKnown, Stripping
<1>. QED  BY <1>4, <1>6, <1>7

\* The claim: an accepted copy has got its finalizer (lines 635 to 642).
LEMMA ClaimDayKeeps ==
  ASSUME NEW m \in Managers, Given(m), ClaimDay(m)
  PROVE  Keeps(m)
<1>1. pc \in [Managers -> Labels] /\ obj \in [Managers -> Ssws]
  BY DEF Given, Inductive, TypeOK
<1>2. /\ cache' = cache /\ pc[m] = "daily"
      /\ pc'[m] \in {"idle", "window"} /\ obj'[m] \in {NoSsw(0), ssw'}
  BY <1>1 DEF ClaimDay, After, AfterClaimError, Retry, Finish, Goto, views
<1>3. /\ Stored
      /\ \/ ssw' = ssw /\ pc'[m] = "idle"
         \/ /\ Accepts(obj[m]) /\ ssw'.rv = ssw.rv + 1
            /\ SameObject([ssw EXCEPT !.fin = obj[m].fin, !.last = now])
  <2>1. pc'[m] = "window" => Goto(m, "window")
    BY <1>1 DEF ClaimDay, After, AfterClaimError, Retry, Finish
  <2>. QED  BY <1>2, <2>1, ClaimDayStored DEF Given, ClaimedNow
<1>4. CASE ssw' = ssw /\ pc'[m] = "idle"
  <2>1. obj'[m] = NoSsw(0)
    BY <1>1, <1>4 DEF ClaimDay, After, AfterClaimError, Retry, Finish, Goto
  <2>2. Revised
    BY <1>4 DEF Revised
  <2>. QED  BY <1>2, <1>3, <1>4, <2>1, <2>2, RevisionKeeps DEF PastFinalizer, Stripping
<1>5. CASE /\ Accepts(obj[m]) /\ ssw'.rv = ssw.rv + 1
           /\ SameObject([ssw EXCEPT !.fin = obj[m].fin, !.last = now])
  <2>1. ssw'.fin = obj[m].fin /\ ssw'.deleting = ssw.deleting
    BY <1>5, Versions DEF SameObject, Ssws
  <2>2. ssw'.fin /\ \A o \in pend[m] \cup {cache[m]} : o.deleting => ssw.deleting
    BY <1>2, <1>5, <2>1 DEF Given, FinalizerKnown, PastFinalizer, Accepts
  <2>3. pend'[m] = pend[m] \cup {ssw'}
    BY <1>3, <1>5, Versions
  <2>. QED  BY <1>2, <2>1, <2>2, <2>3 DEF Keeps, ClaimedHasFinalizer, FinalizerStays,
               FinalizerKnown, PastFinalizer, Stripping
<1>. QED  BY <1>3, <1>4, <1>5

\* Users: only a delete marks the ssw, and a new one has no claim.
LEMMA UserKeeps ==
  ASSUME NEW m \in Managers, Given(m), CreateSsw \/ EditSsw \/ DeleteSsw
  PROVE  Keeps(m)
<1>1. UNCHANGED <<cache, pc, obj>>
  BY DEF CreateSsw, EditSsw, DeleteSsw, views, worker
<1>2. CASE Revised
  BY <1>1, <1>2, UserStored, RevisionKeeps DEF Given, PastFinalizer, Stripping
<1>3. CASE /\ (~ssw.exists /\ SameObject(NewSsw(ssw.rv + 1))) \/ Removed
           /\ ssw'.rv = ssw.rv + 1
  <2>1. ~ssw'.fin /\ ssw'.last = Epoch /\ (ssw.exists => ~ssw'.exists)
    BY <1>3, Versions DEF Removed, SameObject, NewSsw, NoSsw
  <2>2. obj'[m].rv # ssw'.rv
    BY <1>1, <1>3, Versions DEF Ssws
  <2>. QED  BY <2>1, <2>2 DEF Keeps, ClaimedHasFinalizer, FinalizerStays, FinalizerKnown
<1>4. CASE /\ ssw.exists /\ ssw.fin /\ ssw'.rv = ssw.rv + 1
           /\ SameObject([ssw EXCEPT !.deleting = TRUE])
  <2>1. ssw'.fin /\ ssw'.deleting
    BY <1>4, Versions DEF SameObject, Ssws
  <2>2. obj'[m].rv # ssw'.rv
    BY <1>1, <1>4, Versions DEF Ssws
  <2>. QED  BY <2>1, <2>2 DEF Keeps, ClaimedHasFinalizer, FinalizerStays, FinalizerKnown
<1>. QED  BY <1>2, <1>3, <1>4, UserStored DEF Given, Removed

\* A delivered version follows the cached one.
LEMMA DeliverKeeps ==
  ASSUME NEW m \in Managers, Given(m), DeliverSsw(m)
  PROVE  Keeps(m)
<1>1. PICK o \in pend[m] :
        /\ cache' = [cache EXCEPT ![m] = o]
        /\ pend' = [pend EXCEPT ![m] = @ \ {o}]
        /\ UNCHANGED <<ssw, pc, obj>>
  BY DEF DeliverSsw
<1>2. cache'[m] = o /\ pend'[m] = pend[m] \ {o}
  BY <1>1 DEF Given, Inductive, TypeOK
<1>3. cache[m] = ssw => cache'[m] = ssw
  BY <1>2, Versions
<1>4. ClaimedHasFinalizer' /\ FinalizerStays
  BY <1>1 DEF Given, ClaimedHasFinalizer, FinalizerStays
<1>. QED  BY <1>1, <1>2, <1>3, <1>4
          DEF Given, Keeps, FinalizerKnown, PastFinalizer, Stripping

\* A restarted process knows the stored version only.
LEMMA CrashKeeps ==
  ASSUME NEW m \in Managers, Given(m), Crash(m)
  PROVE  Keeps(m)
<1>1. /\ ssw' = ssw /\ cache'[m] = ssw /\ pend'[m] = {}
      /\ pc'[m] = "idle" /\ obj'[m] = NoSsw(0)
  BY DEF Crash, Finish, Given, Inductive, TypeOK
<1>. QED  BY <1>1 DEF Given, Keeps, ClaimedHasFinalizer, FinalizerStays,
             FinalizerKnown, PastFinalizer, Stripping

-----------------------------------------------------------------------------
(* The theorems.                                                           *)

\* What every step keeps when no other manager writes.
LEMMA FinalizerStepKept ==
  ASSUME NEW m, Managers = {m}, Inductive, FinalizerInductive, [Next]_vars
  PROVE  FinalizerInductive' /\ FinalizerStays
<1>1. m \in Managers /\ Given(m)
  BY StepInductive, CachesTrailKept DEF FinalizerInductive, Given
<1>2. SUFFICES Keeps(m)
  BY <1>1 DEF Given, Keeps, FinalizerInductive
<1>3. CASE Reconcile(m)
  BY <1>1, <1>3, QuietWorkerKeeps, FetchKeeps, RemoveFinalizerKeeps, AddFinalizerKeeps,
     ClaimDayKeeps DEF Reconcile, WritesStatus, OnlyLocal
<1>4. CASE DeliverLedger(m) \/ NoteLedger(m) \/ TimerFires(m) \/ ChangeSecret
           \/ DeleteLedger \/ Tick \/ UNCHANGED vars
  <2>1. UNCHANGED <<store, cache, pc, obj>>
    BY <1>4 DEF DeliverLedger, NoteLedger, TimerFires, ChangeSecret, DeleteLedger,
                Tick, vars, store, views, worker
  <2>. QED  BY <1>1, <2>1, StillKeeps
<1>5. CASE DeliverSsw(m) \/ Crash(m) \/ CreateSsw \/ EditSsw \/ DeleteSsw
  BY <1>1, <1>5, DeliverKeeps, CrashKeeps, UserKeeps
<1>. QED  BY <1>3, <1>4, <1>5 DEF Next, Informers, Environment

\* It holds at the start: nothing is claimed, deleted or being worked on.
LEMMA InitFinalizer == Init => FinalizerInductive
<1>1. NewSsw(1).last = Epoch /\ ~NewSsw(1).deleting /\ ~NoSsw(0).deleting
  BY DEF NewSsw, NoSsw
<1>. QED  BY <1>1, InitCachesTrail DEF Init, FinalizerInductive, ClaimedHasFinalizer,
             FinalizerKnown, PastFinalizer, Stripping

\* With one manager, whatever fails and whenever it restarts, and whatever users
\* do: the inductive invariant holds in every state.
THEOREM FinalizerInductiveHolds ==
  ASSUME NEW m, Managers = {m}
  PROVE  Spec => []FinalizerInductive
<1>1. Inductive /\ FinalizerInductive /\ [Next]_vars => FinalizerInductive'
  BY FinalizerStepKept
<1>. QED  BY <1>1, InitFinalizer, InductiveHolds, PTL DEF Spec

\* With one manager, a ssw that has been checked has its finalizer, although the
\* errors of addFinalizer are ignored (line 120).
THEOREM CheckedHasFinalizer ==
  ASSUME NEW m, Managers = {m}
  PROVE  Spec => []ClaimedHasFinalizer
<1>1. FinalizerInductive => ClaimedHasFinalizer
  BY DEF FinalizerInductive
<1>. QED  BY <1>1, FinalizerInductiveHolds, PTL

\* With one manager, a ssw keeps its finalizer until it goes away, although
\* removeFinalizer refetches and strips what it finds (line 206).
THEOREM FinalizerIsKept ==
  ASSUME NEW m, Managers = {m}
  PROVE  Spec => FinalizerKept
<1>1. Inductive /\ FinalizerInductive /\ [Next]_vars => [FinalizerStays]_vars
  BY FinalizerStepKept
<1>. QED
  BY <1>1, FinalizerInductiveHolds, InductiveHolds, PTL
  DEF Spec, FinalizerKept, FinalizerStays

=============================================================================
