-------------------------- MODULE ReconcilerCaches --------------------------
(***************************************************************************)
(* Proofs about Reconciler, for any set of managers: what one step makes   *)
(* of the stored ssw, field by field, and what caches and copies tell of   *)
(* it (CachesTrail).                                                       *)
(***************************************************************************)
EXTENDS ReconcilerProofs

USE DayAssumption, PollAssumption, BoundAssumption

-----------------------------------------------------------------------------
(* What a write makes of the stored ssw, field by field.                   *)

\* The fields that only the two kinds of Update, creation and deletion touch.
SameObject(o) ==
  /\ ssw'.exists = o.exists /\ ssw'.uid = o.uid /\ ssw'.deleting = o.deleting
  /\ ssw'.fin = o.fin /\ ssw'.last = o.last

\* The step stores no version, or one that a user or a condition may make.
Revised ==
  \/ ssw' = ssw
  \/ ssw.exists /\ SameObject(ssw) /\ ssw'.rv = ssw.rv + 1

\* The step removes the ssw.
Removed == ssw.exists /\ SameObject(NoSsw(ssw.rv)) /\ ssw'.rv = ssw.rv + 1

\* The step stores the finalizer and the annotation of a copy.
Updated(copy) ==
  /\ Accepts(copy) /\ ssw'.rv = ssw.rv + 1
  /\ SameObject([ssw EXCEPT !.fin = copy.fin, !.last = copy.last])

\* A version is what was written, under the next number.
LEMMA BumpFields ==
  ASSUME ssw \in Ssws, NEW o \in Ssws, ssw' = Bump(o)
  PROVE  SameObject(o) /\ ssw'.rv = ssw.rv + 1 /\ ssw' \in Ssws
  BY DEF Bump, SameObject, Ssws

\* A write of the status keeps the rest of the object (lines 288 to 316 and 671
\* to 689).
LEMMA StatusFields ==
  ASSUME TypeOK, NEW copy \in Ssws, NEW from \in Ssws,
         Succeeds(copy, UpdateStatus(from)) \/ Fails(copy, UpdateStatus(from))
  PROVE  Stored /\ Revised
<1>. DEFINE o == UpdateStatus(from)
<1>1. ssw \in Ssws
  BY DEF TypeOK
<1>2. o \in Ssws /\ o.rv = ssw.rv
  BY <1>1, UpdatesTyped
<1>3. /\ o.exists = ssw.exists /\ o.uid = ssw.uid /\ o.deleting = ssw.deleting
      /\ o.fin = ssw.fin /\ o.last = ssw.last
  BY <1>1 DEF UpdateStatus, Ssws
<1>. HIDE DEF o
<1>4. Succeeds(copy, o) \/ Fails(copy, o)
  BY DEF o
<1>5. Stored /\ (ssw' = ssw \/ (Accepts(copy) /\ ssw' = Bump(o)))
  BY <1>2, <1>4, WriteOutcome
<1>6. ssw' = Bump(o) => SameObject(o) /\ ssw'.rv = ssw.rv + 1
  BY <1>1, <1>2, BumpFields
<1>. QED  BY <1>3, <1>5, <1>6 DEF Revised, SameObject, Accepts

\* An update stores the finalizer and the annotation of its copy, or removes an
\* ssw that is being deleted (lines 213, 242 and 725).
LEMMA UpdateFields ==
  ASSUME TypeOK, NEW copy \in Ssws, NEW from \in Ssws,
         from.rv = copy.rv, from.exists = copy.exists,
         Succeeds(copy, UpdateMain(from)) \/ Fails(copy, UpdateMain(from))
  PROVE  /\ Stored
         /\ Succeeds(copy, UpdateMain(from)) => Accepts(copy)
         /\ \/ /\ ssw' = ssw
               /\ Succeeds(copy, UpdateMain(from)) =>
                    from.fin = ssw.fin /\ from.last = ssw.last
            \/ Accepts(copy) /\ ssw.deleting /\ ~from.fin /\ Removed
            \/ ~(ssw.deleting /\ ~from.fin) /\ Updated(from)
<1>. DEFINE o == UpdateMain(from)
<1>1. ssw \in Ssws
  BY DEF TypeOK
<1>2. o \in Ssws /\ o.rv = ssw.rv
  BY <1>1, UpdatesTyped
<1>3. CASE ssw.deleting /\ ~from.fin
  <2>1. o = NoSsw(ssw.rv)
    BY <1>3 DEF UpdateMain
  <2>. HIDE DEF o
  <2>2. Succeeds(copy, o) \/ Fails(copy, o)
    BY DEF o
  <2>3. /\ Stored /\ (ssw' = ssw \/ (Accepts(copy) /\ ssw' = Bump(o)))
        /\ Succeeds(copy, o) => Accepts(copy) /\ ApiWrite(o)
    BY <1>2, <2>2, WriteOutcome DEF Succeeds
  <2>4. ssw' = Bump(o) => SameObject(NoSsw(ssw.rv)) /\ ssw'.rv = ssw.rv + 1
    BY <1>1, <1>2, <2>1, BumpFields
  <2>5. Succeeds(copy, o) => ssw' = Bump(o)
    <3>1. Accepts(copy) => o # ssw
      BY <2>1 DEF Accepts, NoSsw
    <3>. QED  BY <1>1, <1>2, <2>3, <3>1, WriteStored
  <2>6. Succeeds(copy, o) => Accepts(copy) /\ ssw' # ssw
    BY <2>3, <2>4, <2>5 DEF Accepts, NoSsw, SameObject
  <2>. QED  BY <1>3, <2>3, <2>4, <2>6 DEF Removed, Accepts, o
<1>4. CASE ~(ssw.deleting /\ ~from.fin)
  <2>1. o = [ssw EXCEPT !.fin = from.fin, !.last = from.last]
    BY <1>4 DEF UpdateMain
  <2>2. o.fin = from.fin /\ o.last = from.last
    BY <1>1, <2>1 DEF Ssws
  <2>. HIDE DEF o
  <2>3. Succeeds(copy, o) \/ Fails(copy, o)
    BY DEF o
  <2>4. /\ Stored /\ (ssw' = ssw \/ (Accepts(copy) /\ ssw' = Bump(o)))
        /\ Succeeds(copy, o) => Accepts(copy) /\ ApiWrite(o)
    BY <1>2, <2>3, WriteOutcome DEF Succeeds
  <2>5. Accepts(copy) /\ ssw' = Bump(o) => Updated(from)
    <3>1. ssw' = Bump(o) => SameObject(o) /\ ssw'.rv = ssw.rv + 1
      BY <1>1, <1>2, BumpFields
    <3>. QED  BY <2>1, <3>1 DEF Updated, Accepts
  <2>6. Succeeds(copy, o) /\ ssw' = ssw => o = ssw
    <3>1. ApiWrite(o) /\ o # ssw => ssw'.rv = ssw.rv + 1
      BY <1>1, <1>2, WriteStored, BumpFields
    <3>. QED  BY <1>1, <2>4, <3>1 DEF Ssws
  <2>. QED  BY <1>4, <2>2, <2>4, <2>5, <2>6 DEF o
<1>. QED  BY <1>3, <1>4

-----------------------------------------------------------------------------
(* What one step stores.                                                   *)

\* The kinds of new versions that the daily claim tells apart.
Edited ==
  ssw.exists /\ ssw'.exists /\ ssw'.last = ssw.last /\ ssw'.rv = ssw.rv + 1

Replaced ==
  ssw'.exists = ~ssw.exists /\ ssw'.last = Epoch /\ ssw'.rv = ssw.rv + 1

ClaimedNow ==
  /\ ssw.exists /\ ssw'.exists /\ now - ssw.last >= Day
  /\ ssw'.last = now /\ ssw'.rv = ssw.rv + 1

Unclaimed == ssw' = ssw \/ Edited \/ Replaced

\* What is being deleted waits for its finalizer.
StillFinal == ssw'.deleting => ssw'.fin

\* The steps of a worker that store no ssw.
OnlyLocal(m) ==
  \/ Fetch(m) \/ EnsureConfigMap(m) \/ CalculateHashes(m) \/ StoreHashes(m)
  \/ ReadLedger(m) \/ NotifySlack(m)

\* The steps of a worker that write a status.
WritesStatus(m) ==
  \/ Started(m) \/ FinalizerCondition(m) \/ ConfigMapCondition(m)
  \/ PrepareWatchList(m) \/ CompleteCondition(m) \/ WriteReport(m)

\* They keep the store: the ledger, Slack and the worker's memory are no ssw.
LEMMA LocalStored ==
  ASSUME NEW m \in Managers, OnlyLocal(m)
  PROVE  UNCHANGED store
  BY DEF OnlyLocal, Fetch, EnsureConfigMap, CalculateHashes, StoreHashes,
         ReadLedger, NotifySlack

\* Conditions and reports change nothing that a claim or a deletion rests on.
LEMMA StatusStored ==
  ASSUME Inductive, NEW m \in Managers, WritesStatus(m)
  PROVE  Stored /\ Revised
<1>1. TypeOK /\ cache[m] \in Ssws /\ base[m] \in Nat
  BY Typed
<1>2. ASSUME NEW c \in Conditions, ConditionSet(m, c) \/ ConditionFails(m, c)
      PROVE  Stored /\ Revised
  <2>1. [cache[m] EXCEPT !.conds = @ \cup {c}] \in Ssws
    BY <1>1 DEF Ssws
  <2>. QED  BY <1>1, <1>2, <2>1, StatusFields DEF ConditionSet, ConditionFails, WithCondition
<1>3. CASE WriteReport(m)
  <2>1. [cache[m] EXCEPT !.report = base[m]] \in Ssws
    BY <1>1 DEF Ssws
  <2>. QED  BY <1>1, <1>3, <2>1, StatusFields DEF WriteReport
<1>4. CASE ~WriteReport(m)
  <2>1. \E c \in Conditions : ConditionSet(m, c) \/ ConditionFails(m, c)
    BY <1>4 DEF WritesStatus, Started, FinalizerCondition, ConfigMapCondition,
                PrepareWatchList, CompleteCondition, Conditions
  <2>. QED  BY <1>2, <2>1
<1>. QED  BY <1>3, <1>4

\* removeFinalizer removes the ssw, or takes the finalizer from one that is not
\* being deleted (lines 203 to 219).
LEMMA RemoveFinalizerStored ==
  ASSUME Inductive, NEW m \in Managers, RemoveFinalizer(m)
  PROVE  /\ Stored
         /\ \/ ssw' = ssw
            \/ Accepts(cache[m]) /\ ssw.deleting /\ Removed
            \/ /\ Accepts(cache[m]) /\ ~ssw.deleting /\ ssw'.rv = ssw.rv + 1
               /\ SameObject([ssw EXCEPT !.fin = FALSE])
<1>. DEFINE from == [cache[m] EXCEPT !.fin = FALSE]
<1>1. TypeOK /\ ssw \in Ssws /\ cache[m] \in Ssws /\ Known(cache[m], ssw)
  BY Typed
<1>2. /\ from \in Ssws /\ from.rv = cache[m].rv /\ from.exists = cache[m].exists
      /\ from.fin = FALSE /\ from.last = cache[m].last
  BY <1>1 DEF Ssws
<1>3. Succeeds(cache[m], UpdateMain(from)) \/ Fails(cache[m], UpdateMain(from))
  BY DEF RemoveFinalizer
<1>. HIDE DEF from
<1>4. /\ Stored
      /\ \/ ssw' = ssw
         \/ Accepts(cache[m]) /\ ssw.deleting /\ Removed
         \/ ~ssw.deleting /\ Updated(from)
  BY <1>1, <1>2, <1>3, UpdateFields
<1>5. Updated(from) =>
        /\ Accepts(cache[m]) /\ ssw'.rv = ssw.rv + 1
        /\ SameObject([ssw EXCEPT !.fin = FALSE])
  BY <1>1, <1>2 DEF Updated, Accepts, Known, SameObject, Ssws
<1>. QED  BY <1>4, <1>5

\* addFinalizer gives the ssw its finalizer; when the caller sees success it has
\* it (lines 236 to 245).
LEMMA AddFinalizerStored ==
  ASSUME Inductive, NEW m \in Managers, AddFinalizer(m)
  PROVE  /\ Stored
         /\ \/ ssw' = ssw
            \/ /\ Accepts(cache[m]) /\ ssw'.rv = ssw.rv + 1
               /\ SameObject([ssw EXCEPT !.fin = TRUE])
         /\ Succeeds(cache[m], UpdateMain(Finalized(cache[m]))) =>
              Accepts(cache[m]) /\ ssw'.fin
<1>. DEFINE from == Finalized(cache[m])
<1>1. TypeOK /\ ssw \in Ssws /\ cache[m] \in Ssws /\ Known(cache[m], ssw)
  BY Typed
<1>2. /\ from \in Ssws /\ from.rv = cache[m].rv /\ from.exists = cache[m].exists
      /\ from.fin = TRUE /\ from.last = cache[m].last
  BY <1>1 DEF Finalized, Ssws
<1>3. Succeeds(cache[m], UpdateMain(from)) \/ Fails(cache[m], UpdateMain(from))
  BY DEF AddFinalizer
<1>. HIDE DEF from
<1>4. /\ Stored
      /\ Succeeds(cache[m], UpdateMain(from)) => Accepts(cache[m])
      /\ \/ /\ ssw' = ssw
            /\ Succeeds(cache[m], UpdateMain(from)) => from.fin = ssw.fin
         \/ Updated(from)
  BY <1>1, <1>2, <1>3, UpdateFields
<1>5. Updated(from) =>
        /\ Accepts(cache[m]) /\ ssw'.rv = ssw.rv + 1
        /\ SameObject([ssw EXCEPT !.fin = TRUE])
  BY <1>1, <1>2 DEF Updated, Accepts, Known, SameObject, Ssws
<1>6. Updated(from) => ssw'.fin
  BY <1>1, <1>2 DEF Updated, SameObject, Ssws
<1>. QED  BY <1>2, <1>4, <1>5, <1>6 DEF from

\* The claim: the copy of an accepted update lacks no finalizer, so the update
\* removes nothing, and it is a day after the last claim (lines 635 to 642).
LEMMA ClaimDayStored ==
  ASSUME Inductive, CachesTrail, NEW m \in Managers, ClaimDay(m)
  PROVE  /\ Stored
         /\ \/ ssw' = ssw /\ ~Goto(m, "window")
            \/ /\ Accepts(obj[m]) /\ ClaimedNow
               /\ SameObject([ssw EXCEPT !.fin = obj[m].fin, !.last = now])
<1>. DEFINE from == [obj[m] EXCEPT !.last = now]
<1>1. TypeOK /\ ssw \in Ssws /\ obj[m] \in Ssws /\ Known(obj[m], ssw)
      /\ now \in Nat /\ pc \in [Managers -> Labels]
  BY Typed DEF TypeOK
<1>2. /\ from \in Ssws /\ from.rv = obj[m].rv /\ from.exists = obj[m].exists
      /\ from.fin = obj[m].fin /\ from.last = now
  BY <1>1 DEF Ssws
<1>3. CASE After(m, Poll) /\ UNCHANGED store
  <2>1. pc'[m] = "idle" /\ ~Goto(m, "window")
    BY <1>1, <1>3 DEF After, Finish, Goto
  <2>. QED  BY <1>3, <2>1 DEF Stored, store
<1>4. CASE /\ DueForCheck(obj[m])
           /\ \/ Succeeds(obj[m], UpdateMain(from))
              \/ Fails(obj[m], UpdateMain(from)) /\ Retry(m)
  <2>. HIDE DEF from
  <2>1. /\ Stored
        /\ Succeeds(obj[m], UpdateMain(from)) => Accepts(obj[m])
        /\ \/ /\ ssw' = ssw
              /\ Succeeds(obj[m], UpdateMain(from)) => from.last = ssw.last
           \/ Accepts(obj[m]) /\ ssw.deleting /\ ~from.fin
           \/ Updated(from)
    BY <1>1, <1>2, <1>4, UpdateFields
  <2>2. Accepts(obj[m]) =>
          now - ssw.last >= Day /\ now # ssw.last /\ ~(ssw.deleting /\ ~from.fin)
    <3>1. Accepts(obj[m]) =>
            obj[m].rv = ssw.rv /\ obj[m].last = ssw.last /\ (ssw.deleting => obj[m].fin)
      BY <1>1 DEF Accepts, Known, CachesTrail
    <3>. QED  BY <1>1, <1>2, <1>4, <3>1 DEF DueForCheck, Ssws
  <2>3. Updated(from) =>
          /\ Accepts(obj[m]) /\ ssw'.rv = ssw.rv + 1
          /\ SameObject([ssw EXCEPT !.fin = obj[m].fin, !.last = now])
    BY <1>2 DEF Updated, Accepts
  <2>4. Updated(from) => ClaimedNow
    BY <1>1, <2>2, <2>3 DEF SameObject, ClaimedNow, Accepts, Ssws
  <2>5. Retry(m) => ~Goto(m, "window")
    BY <1>1 DEF Retry, Finish, Goto
  <2>. QED  BY <1>2, <1>4, <2>1, <2>2, <2>3, <2>4, <2>5
<1>. QED  BY <1>3, <1>4 DEF ClaimDay, AfterClaimError, ClaimStamp

\* Users create, edit and delete; one without finalizer goes at once.
LEMMA UserStored ==
  ASSUME Inductive, CreateSsw \/ EditSsw \/ DeleteSsw
  PROVE  /\ Stored
         /\ \/ ~ssw.exists /\ SameObject(NewSsw(ssw.rv + 1)) /\ ssw'.rv = ssw.rv + 1
            \/ Revised \/ Removed
            \/ /\ ssw.exists /\ ssw.fin /\ ssw'.rv = ssw.rv + 1
               /\ SameObject([ssw EXCEPT !.deleting = TRUE])
<1>1. ssw \in Ssws /\ ssw.rv \in Nat
  BY DEF Inductive, TypeOK, Ssws
<1>2. CASE CreateSsw
  <2>1. ssw' = NewSsw(ssw.rv + 1) /\ Publish(ssw') /\ ~ssw.exists
    BY <1>2 DEF CreateSsw, Publish
  <2>2. ssw' \in Ssws
    BY <1>1, <2>1, ConstantsTyped
  <2>. QED  BY <1>1, <2>1, <2>2 DEF NewSsw, NoSsw, SameObject, Stored
<1>3. CASE EditSsw
  <2>1. ssw' = Bump(ssw) /\ Publish(ssw') /\ ssw.exists
    BY <1>3 DEF EditSsw, Publish
  <2>. QED  BY <1>1, <2>1, BumpFields DEF Stored, Revised
<1>4. CASE DeleteSsw
  <2>1. CASE ssw.fin
    <3>1. /\ ssw' = Bump([ssw EXCEPT !.deleting = TRUE]) /\ Publish(ssw')
          /\ ssw.exists
      BY <1>4, <2>1 DEF DeleteSsw, Publish
    <3>2. [ssw EXCEPT !.deleting = TRUE] \in Ssws
      BY <1>1 DEF Ssws
    <3>. QED  BY <1>1, <2>1, <3>1, <3>2, BumpFields DEF Stored
  <2>2. CASE ~ssw.fin
    <3>1. ssw' = Bump(NoSsw(ssw.rv)) /\ Publish(ssw') /\ ssw.exists
      BY <1>4, <2>2 DEF DeleteSsw, Publish
    <3>2. NoSsw(ssw.rv) \in Ssws
      BY <1>1, ConstantsTyped
    <3>. QED  BY <1>1, <3>1, <3>2, BumpFields DEF Stored, Removed
  <2>. QED  BY <2>1, <2>2
<1>. QED  BY <1>2, <1>3, <1>4

\* A worker makes a claim with a success or a failure of ClaimDay, and no other
\* step claims.
LEMMA WorkerStored ==
  ASSUME Inductive, CachesTrail, NEW m \in Managers, Reconcile(m)
  PROVE  /\ Stored /\ StillFinal
         /\ Unclaimed \/ (ClaimDay(m) /\ ClaimedNow)
<1>1. ssw \in Ssws /\ cache[m] \in Ssws /\ obj[m] \in Ssws /\ ssw.deleting \in BOOLEAN
      /\ ssw.fin \in BOOLEAN
  BY Typed DEF Ssws
<1>2. ssw.deleting => ssw.fin
  BY DEF CachesTrail
<1>3. CASE OnlyLocal(m)
  BY <1>2, <1>3, LocalStored DEF Stored, Unclaimed, StillFinal, store
<1>4. CASE WritesStatus(m)
  BY <1>2, <1>4, StatusStored DEF Revised, SameObject, Unclaimed, Edited, StillFinal
<1>5. CASE RemoveFinalizer(m)
  <2>1. Removed => Replaced /\ StillFinal
    BY <1>1 DEF Removed, SameObject, NoSsw, Replaced, StillFinal
  <2>2. /\ Accepts(cache[m]) /\ ~ssw.deleting /\ ssw'.rv = ssw.rv + 1
        /\ SameObject([ssw EXCEPT !.fin = FALSE])
        => Edited /\ StillFinal
    BY <1>1 DEF Accepts, SameObject, Edited, StillFinal, Ssws
  <2>. QED  BY <1>2, <1>5, <2>1, <2>2, RemoveFinalizerStored DEF Unclaimed, StillFinal
<1>6. CASE AddFinalizer(m)
  <2>1. /\ Accepts(cache[m]) /\ ssw'.rv = ssw.rv + 1
        /\ SameObject([ssw EXCEPT !.fin = TRUE])
        => Edited /\ StillFinal
    BY <1>1 DEF Accepts, SameObject, Edited, StillFinal, Ssws
  <2>. QED  BY <1>2, <1>6, <2>1, AddFinalizerStored DEF Unclaimed, StillFinal
<1>7. CASE ClaimDay(m)
  <2>1. /\ Accepts(obj[m])
        /\ SameObject([ssw EXCEPT !.fin = obj[m].fin, !.last = now])
        => StillFinal
    BY <1>1, <1>2 DEF Accepts, SameObject, StillFinal, CachesTrail, Ssws
  <2>. QED  BY <1>2, <1>7, <2>1, ClaimDayStored DEF Unclaimed, StillFinal
<1>. QED  BY <1>3, <1>4, <1>5, <1>6, <1>7 DEF Reconcile, OnlyLocal, WritesStatus

\* Nor do users and the clock.
LEMMA EnvironmentStored ==
  ASSUME Inductive, CachesTrail, Environment
  PROVE  Stored /\ StillFinal /\ Unclaimed
<1>1. ssw \in Ssws /\ ssw.exists \in BOOLEAN /\ ssw.rv + 1 \in Nat
  BY DEF Inductive, TypeOK, Ssws
<1>2. ssw.deleting => ssw.fin
  BY DEF CachesTrail
<1>3. CASE CreateSsw \/ EditSsw \/ DeleteSsw
  <2>1. ~ssw.exists /\ SameObject(NewSsw(ssw.rv + 1)) /\ ssw'.rv = ssw.rv + 1
          => Replaced /\ StillFinal
    BY <1>1 DEF SameObject, NewSsw, NoSsw, Replaced, StillFinal
  <2>2. Removed => Replaced /\ StillFinal
    BY <1>1 DEF Removed, SameObject, NoSsw, Replaced, StillFinal
  <2>3. Revised => Unclaimed /\ StillFinal
    BY <1>2 DEF Revised, SameObject, Unclaimed, Edited, StillFinal
  <2>4. /\ ssw.exists /\ ssw.fin /\ ssw'.rv = ssw.rv + 1
        /\ SameObject([ssw EXCEPT !.deleting = TRUE])
        => Edited /\ StillFinal
    BY <1>1 DEF SameObject, Edited, StillFinal, Ssws
  <2>. QED  BY <1>3, <2>1, <2>2, <2>3, <2>4, UserStored DEF Unclaimed
<1>4. CASE ChangeSecret \/ DeleteLedger \/ Tick
  BY <1>2, <1>4 DEF ChangeSecret, DeleteLedger, Tick, Stored, Unclaimed, StillFinal, store
<1>. QED  BY <1>3, <1>4 DEF Environment

-----------------------------------------------------------------------------
(* What the caches tell.                                                   *)

\* A step that stores and delivers nothing to the cache keeps it: a copy of an
\* older version is none of the new one.
LEMMA StoredTrails ==
  ASSUME Inductive, CachesTrail, CopiesFollow, Stored, StillFinal, UNCHANGED cache
  PROVE  CachesTrail'
<1>1. /\ ssw \in Ssws /\ ssw.rv \in Nat /\ pend \in [Managers -> SUBSET Ssws]
      /\ \A m \in Managers :
           /\ cache[m] \in Ssws /\ obj[m] \in Ssws /\ pend[m] \subseteq Ssws
           /\ cache[m].rv <= ssw.rv /\ obj[m].rv <= ssw.rv
           /\ \A o \in pend[m] : o.rv <= ssw.rv
  BY DEF Inductive, TypeOK, CopiesKnown, Known, Ssws
<1>2. ASSUME NEW m \in Managers
      PROVE  obj'[m].rv = ssw'.rv /\ ssw'.fin => obj'[m].fin
  <2>1. CASE ssw' = ssw
    <3>1. obj'[m] \in {obj[m], NoSsw(0), cache[m], Finalized(cache[m]), ssw}
      BY <2>1 DEF CopiesFollow
    <3>2. cache[m].rv = ssw.rv => cache[m] = ssw
      BY DEF CachesTrail
    <3>3. NoSsw(0).rv # ssw.rv
      BY <1>1 DEF NoSsw, Inductive, CopiesKnown
    <3>4. Finalized(cache[m]).fin
      BY <1>1 DEF Finalized, Ssws
    <3>. QED  BY <2>1, <3>1, <3>2, <3>3, <3>4 DEF CachesTrail
  <2>2. CASE ssw'.rv = ssw.rv + 1
    <3>1. NoSsw(0).rv # ssw'.rv
      BY <1>1, <2>2 DEF NoSsw
    <3>2. Finalized(cache[m]).rv = cache[m].rv
      BY <1>1 DEF Finalized, Ssws
    <3>3. obj[m].rv # ssw'.rv /\ cache[m].rv # ssw'.rv
      BY <1>1, <2>2 DEF Ssws
    <3>. QED  BY <3>1, <3>2, <3>3 DEF CopiesFollow
  <2>. QED  BY <2>1, <2>2 DEF Stored, store
<1>3. ASSUME NEW m \in Managers
      PROVE  /\ cache'[m] = ssw' \/ ssw' \in pend'[m]
             /\ \A o \in pend'[m] : cache'[m].rv <= o.rv
             /\ \A o \in pend'[m] \cup {cache'[m]} : o.rv = ssw'.rv => o = ssw'
  <2>1. CASE UNCHANGED store
    BY <2>1 DEF CachesTrail, store
  <2>2. CASE ssw' \in Ssws /\ ssw'.rv = ssw.rv + 1 /\ Publish(ssw')
    <3>1. pend'[m] = pend[m] \cup {ssw'} /\ cache'[m] = cache[m]
      BY <1>1, <2>2 DEF Publish
    <3>2. cache[m].rv <= ssw'.rv /\ \A o \in pend[m] \cup {cache[m]} : o.rv # ssw'.rv
      BY <1>1, <2>2 DEF Ssws
    <3>. QED  BY <3>1, <3>2 DEF CachesTrail
  <2>. QED  BY <2>1, <2>2 DEF Stored
<1>. QED  BY <1>2, <1>3 DEF CachesTrail, StillFinal

\* Versions are delivered in order (line 281).
LEMMA DeliveredTrails ==
  ASSUME Inductive, CachesTrail, NEW m \in Managers, DeliverSsw(m)
  PROVE  CachesTrail'
<1>1. PICK o \in pend[m] :
        /\ \A other \in pend[m] : o.rv <= other.rv
        /\ cache' = [cache EXCEPT ![m] = o]
        /\ pend' = [pend EXCEPT ![m] = @ \ {o}]
        /\ ssw' = ssw /\ obj' = obj
  BY DEF DeliverSsw
<1>2. /\ cache \in [Managers -> Ssws] /\ pend \in [Managers -> SUBSET Ssws]
  BY DEF Inductive, TypeOK
<1>3. /\ cache'[m] = o /\ pend'[m] = pend[m] \ {o}
      /\ \A n \in Managers \ {m} : cache'[n] = cache[n] /\ pend'[n] = pend[n]
  BY <1>1, <1>2
<1>4. ssw \in pend[m] => o = ssw \/ ssw \in pend'[m]
  BY <1>3
<1>5. cache[m] = ssw => o = ssw
  <2>1. o.rv <= ssw.rv /\ cache[m].rv <= o.rv /\ o \in Ssws /\ ssw \in Ssws
    BY <1>1, <1>2 DEF CachesTrail, Inductive, CopiesKnown, Known, TypeOK
  <2>2. cache[m] = ssw => o.rv = ssw.rv
    BY <2>1 DEF Ssws
  <2>. QED  BY <2>2 DEF CachesTrail
<1>. QED  BY <1>1, <1>3, <1>4, <1>5 DEF CachesTrail

\* A restarted informer lists the stored version.
LEMMA CrashTrails ==
  ASSUME Inductive, CachesTrail, NEW m \in Managers, Crash(m)
  PROVE  CachesTrail'
<1>1. /\ cache \in [Managers -> Ssws] /\ pend \in [Managers -> SUBSET Ssws]
      /\ obj \in [Managers -> Ssws]
  BY DEF Inductive, TypeOK
<1>2. /\ ssw' = ssw /\ cache'[m] = ssw /\ pend'[m] = {} /\ obj'[m] = NoSsw(0)
      /\ \A n \in Managers \ {m} :
           cache'[n] = cache[n] /\ pend'[n] = pend[n] /\ obj'[n] = obj[n]
  BY <1>1 DEF Crash, Finish
<1>3. NoSsw(0).rv # ssw.rv
  BY DEF NoSsw, Inductive, CopiesKnown, TypeOK, Ssws
<1>. QED  BY <1>2, <1>3 DEF CachesTrail

\* Every step keeps it.
LEMMA CachesTrailKept ==
  Inductive /\ CachesTrail /\ [Next]_vars => CachesTrail'
<1>. SUFFICES ASSUME Inductive, CachesTrail, [Next]_vars PROVE CachesTrail'
  OBVIOUS
<1>1. ASSUME Next PROVE CopiesFollow
  BY <1>1, NextStep DEF Summary
<1>2. ASSUME NEW m \in Managers, Reconcile(m) PROVE CachesTrail'
  <2>1. UNCHANGED cache
    BY <1>2 DEF Reconcile, Fetch, Started, RemoveFinalizer, AddFinalizer,
       FinalizerCondition, EnsureConfigMap, ConfigMapCondition, PrepareWatchList,
       CalculateHashes, StoreHashes, CompleteCondition, ClaimDay, ReadLedger,
       NotifySlack, WriteReport, views
  <2>. QED  BY <1>1, <1>2, <2>1, WorkerStored, StoredTrails DEF Next
<1>3. CASE Environment
  <2>1. UNCHANGED cache
    BY <1>3 DEF Environment, CreateSsw, EditSsw, DeleteSsw, ChangeSecret,
       DeleteLedger, Tick, views
  <2>. QED  BY <1>1, <1>3, <2>1, EnvironmentStored, StoredTrails DEF Next
<1>4. ASSUME NEW m \in Managers, DeliverLedger(m) \/ NoteLedger(m) \/ TimerFires(m)
      PROVE  CachesTrail'
  BY <1>4 DEF CachesTrail, DeliverLedger, NoteLedger, TimerFires, store, views, worker
<1>5. CASE UNCHANGED vars
  BY <1>5 DEF CachesTrail, vars, store, views, worker
<1>. QED  BY <1>2, <1>3, <1>4, <1>5, DeliveredTrails, CrashTrails DEF Next, Informers

\* It holds at the start.
LEMMA InitCachesTrail == Init => CachesTrail
<1>1. /\ NewSsw(1).rv = 1 /\ NewSsw(1).deleting = FALSE /\ NewSsw(1).fin = FALSE
      /\ NoSsw(0).rv = 0
  BY DEF NewSsw, NoSsw
<1>. QED  BY <1>1 DEF Init, CachesTrail

\* For any number of managers, faults and restarts: a write that is accepted was
\* made from the stored version, finalizer and claim included.
THEOREM CachesTrailHolds == Spec => []CachesTrail
BY InitCachesTrail, CachesTrailKept, InductiveHolds, PTL DEF Spec

=============================================================================
