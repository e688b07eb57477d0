------------------------ MODULE ReconcilerUndisturbed -----------------------
(***************************************************************************)
(* Proofs about Reconciler, for any set of managers and secrets to watch:  *)
(* as long as no user, fault or restart disturbs the managers, a daily     *)
(* check in the window finds data in its cache of the ledger, the days are *)
(* claimed one after the other, and a claim made in the window has its     *)
(* message.                                                                *)
(***************************************************************************)
EXTENDS ReconcilerCaches

-----------------------------------------------------------------------------
(* What holds while nothing disturbs the managers.                         *)

\* The ledger is created once and filled once: its number tells its content.
Version(o) ==
  /\ o.rv \in 0..2 /\ (o.exists <=> o.rv > 0)
  /\ o.exists => o.owner = 1
  /\ o.data = IF o.rv = 2 THEN InitSecrets ELSE 0

\* Versions of the ledger are delivered in order.
LedgerSeen(m) ==
  /\ Version(cmCache[m]) /\ cmCache[m].rv <= cm.rv
  /\ \A o \in cmPend[m] : Version(o) /\ cmCache[m].rv <= o.rv /\ o.rv <= cm.rv

\* There has been one ssw only.
OursSeen(m) ==
  /\ \A o \in pend[m] : o.uid = 1
  /\ cache[m].exists => cache[m].uid = 1
  /\ pc[m] # "idle" => obj[m].uid = 1

\* A worker that could claim and would find no data.
Blind(m) == obj[m].rv = ssw.rv /\ cmCache[m].rv # 2

\* A blind worker that has stored the hashes is the first to do so, and loses its
\* copy to its own last condition (lines 186 and 725).
Progress(m) ==
  /\ pc[m] \in {"hash", "store"} => base[m] = InitSecrets
  /\ pc[m] = "complete" =>
       cm.rv = 2 /\ (Blind(m) => "ReconcileComplete" \notin ssw.conds)
  /\ pc[m] = "daily" => ~Blind(m)
  /\ pc[m] = "window" => cmCache[m].rv = 2

Alive == ssw.exists /\ ssw.uid = 1 /\ ~ssw.deleting

Undisturbed ==
  /\ secrets = InitSecrets /\ Alive /\ Version(cm)
  /\ "ReconcileComplete" \in ssw.conds => cm.rv = 2
  /\ \A m \in Managers : LedgerSeen(m) /\ OursSeen(m) /\ Progress(m)

\* The inductive invariant.
DataKnown == budget = Budget => Undisturbed

\* What the steps below start from.
Given ==
  /\ Inductive /\ CachesTrail /\ Undisturbed /\ InitSecrets > 0
  /\ Inductive' /\ budget' = budget

-----------------------------------------------------------------------------
(* What a step makes of the ssw and its conditions.                        *)

\* The ssw stays, and its reconciliation is not complete if it was not.
Goes == Stored /\ Alive' /\ ("ReconcileComplete" \in ssw'.conds =>
                               "ReconcileComplete" \in ssw.conds)

\* A disturbance takes from the budget.
LEMMA NotDisturbed == ASSUME Given PROVE ~Disturb
BY DEF Given, Inductive, TypeOK, Disturb

\* Undisturbed, a write is stored or is refused.
LEMMA WriteMade ==
  ASSUME Given, NEW copy \in Ssws, NEW o \in Ssws, o.rv = ssw.rv,
         Succeeds(copy, o) \/ Fails(copy, o)
  PROVE  /\ Stored
         /\ \/ UNCHANGED store /\ (Succeeds(copy, o) => o = ssw)
            \/ /\ Accepts(copy) /\ SameObject(o) /\ ssw'.rv = ssw.rv + 1
               /\ ssw'.conds = o.conds
<1>1. TypeOK /\ ssw \in Ssws
  BY DEF Given, Inductive, TypeOK
<1>2. Stored
  BY <1>1, WriteOutcome
<1>3. Succeeds(copy, o) \/ (~Accepts(copy) /\ UNCHANGED store)
  BY NotDisturbed DEF Fails
<1>4. CASE Succeeds(copy, o)
  <2>1. Accepts(copy) /\ (IF o = ssw THEN UNCHANGED store ELSE Publish(Bump(o)))
    BY <1>4 DEF Succeeds, ApiWrite
  <2>2. o # ssw => SameObject(o) /\ ssw'.rv = ssw.rv + 1 /\ ssw'.conds = o.conds
    <3>1. o # ssw => ssw' = Bump(o)
      BY <2>1 DEF Publish
    <3>2. Bump(o).conds = o.conds
      BY DEF Bump, Ssws
    <3>. QED  BY <1>1, <3>1, <3>2, BumpFields
  <2>. QED  BY <1>2, <2>1, <2>2
<1>5. CASE ~Succeeds(copy, o)
  BY <1>2, <1>3, <1>5
<1>. QED  BY <1>4, <1>5

\* The conditions of what is accepted are those of the store and the new one
\* (lines 288 to 316).
LEMMA ConditionMade ==
  ASSUME Given, NEW m \in Managers, NEW c \in Conditions,
         ConditionSet(m, c) \/ ConditionFails(m, c)
  PROVE  /\ Stored /\ Alive'
         /\ ssw'.conds \subseteq ssw.conds \cup {c}
         /\ ConditionSet(m, c) => c \in ssw'.conds /\ (c \in ssw.conds \/ ssw' # ssw)
<1>1. /\ TypeOK /\ ssw \in Ssws /\ cache[m] \in Ssws
  BY Typed DEF Given
<1>2. PICK from : from = [cache[m] EXCEPT !.conds = @ \cup {c}]
  OBVIOUS
<1>3. from \in Ssws /\ from.conds = cache[m].conds \cup {c}
  BY <1>1, <1>2 DEF Ssws
<1>4. PICK o : o = UpdateStatus(from)
  OBVIOUS
<1>5. /\ o \in Ssws /\ o.rv = ssw.rv /\ o.conds = from.conds
      /\ o.exists = ssw.exists /\ o.uid = ssw.uid /\ o.deleting = ssw.deleting
  <2>1. o \in Ssws /\ o.rv = ssw.rv
    BY <1>1, <1>3, <1>4, UpdatesTyped
  <2>. QED  BY <1>1, <1>3, <1>4, <2>1 DEF UpdateStatus, Ssws
<1>6. /\ ConditionSet(m, c) <=> Succeeds(cache[m], o)
      /\ ConditionFails(m, c) <=> Fails(cache[m], o)
  BY <1>2, <1>4 DEF ConditionSet, ConditionFails, WithCondition
<1>7. /\ Stored
      /\ \/ UNCHANGED store /\ (Succeeds(cache[m], o) => o = ssw)
         \/ /\ Accepts(cache[m]) /\ SameObject(o) /\ ssw'.rv = ssw.rv + 1
            /\ ssw'.conds = o.conds
  BY <1>1, <1>5, <1>6, WriteMade
<1>8. Accepts(cache[m]) => cache[m] = ssw
  BY DEF Accepts, Given, CachesTrail
<1>9. CASE UNCHANGED store /\ (Succeeds(cache[m], o) => o = ssw)
  <2>1. ssw' = ssw
    BY <1>9 DEF store
  <2>2. Alive'
    BY <2>1 DEF Given, Undisturbed, Alive
  <2>. QED  BY <1>3, <1>5, <1>6, <1>7, <1>9, <2>1, <2>2
<1>10. CASE /\ Accepts(cache[m]) /\ SameObject(o) /\ ssw'.rv = ssw.rv + 1
            /\ ssw'.conds = o.conds
  <2>1. Alive'
    BY <1>5, <1>10 DEF Given, Undisturbed, Alive, SameObject
  <2>2. ssw'.conds = ssw.conds \cup {c}
    BY <1>3, <1>5, <1>8, <1>10
  <2>3. ssw' # ssw
    BY <1>1, <1>10 DEF Ssws
  <2>. QED  BY <1>7, <2>1, <2>2, <2>3
<1>. QED  BY <1>7, <1>9, <1>10

\* An update writes no condition, and what is not being deleted stays.
LEMMA UpdateMade ==
  ASSUME Given, NEW copy \in Ssws, NEW from \in Ssws,
         Succeeds(copy, UpdateMain(from)) \/ Fails(copy, UpdateMain(from))
  PROVE  Goes
<1>1. ssw \in Ssws /\ ~ssw.deleting
  BY DEF Given, Inductive, TypeOK, Undisturbed, Alive
<1>2. PICK o : o = UpdateMain(from)
  OBVIOUS
<1>3. o = [ssw EXCEPT !.fin = from.fin, !.last = from.last]
  BY <1>1, <1>2 DEF UpdateMain
<1>4. /\ o \in Ssws /\ o.rv = ssw.rv /\ o.conds = ssw.conds
      /\ o.exists = ssw.exists /\ o.uid = ssw.uid /\ o.deleting = ssw.deleting
  BY <1>1, <1>3 DEF Ssws
<1>5. /\ Stored
      /\ \/ UNCHANGED store
         \/ SameObject(o) /\ ssw'.conds = o.conds
  BY <1>2, <1>4, WriteMade
<1>6. CASE UNCHANGED store
  BY <1>5, <1>6 DEF Goes, Given, Undisturbed, Alive, store
<1>7. CASE SameObject(o) /\ ssw'.conds = o.conds
  BY <1>4, <1>5, <1>7 DEF Goes, Given, Undisturbed, Alive, SameObject
<1>. QED  BY <1>5, <1>6, <1>7

\* Only the last condition of a run completes the reconciliation (line 186).
LEMMA WorkerGoes ==
  ASSUME Given, NEW m \in Managers, Reconcile(m), ~CompleteCondition(m)
  PROVE  Goes
<1>1. /\ ssw \in Ssws /\ cache[m] \in Ssws /\ obj[m] \in Ssws /\ base[m] \in Nat
      /\ now \in Nat
  BY Typed DEF Given, Inductive, TypeOK
<1>2. CASE OnlyLocal(m)
  BY <1>2, LocalStored DEF Goes, Given, Undisturbed, Alive, Stored, store
<1>3. ASSUME NEW c \in Conditions \ {"ReconcileComplete"},
             ConditionSet(m, c) \/ ConditionFails(m, c)
      PROVE  Goes
  BY <1>3, ConditionMade DEF Goes
<1>4. CASE Started(m) \/ FinalizerCondition(m) \/ ConfigMapCondition(m)
           \/ PrepareWatchList(m)
  <2>1. \E c \in Conditions \ {"ReconcileComplete"} :
          ConditionSet(m, c) \/ ConditionFails(m, c)
    BY <1>4 DEF Started, FinalizerCondition, ConfigMapCondition, PrepareWatchList,
                Conditions
  <2>. QED  BY <1>3, <2>1
<1>5. CASE RemoveFinalizer(m)
  <2>1. [cache[m] EXCEPT !.fin = FALSE] \in Ssws
    BY <1>1 DEF Ssws
  <2>. QED  BY <1>1, <1>5, <2>1, UpdateMade DEF RemoveFinalizer
<1>6. CASE AddFinalizer(m)
  <2>1. Finalized(cache[m]) \in Ssws
    BY <1>1 DEF Ssws, Finalized
  <2>. QED  BY <1>1, <1>6, <2>1, UpdateMade DEF AddFinalizer
<1>7. CASE ClaimDay(m)
  <2>1. [obj[m] EXCEPT !.last = ClaimStamp] \in Ssws
    BY <1>1 DEF Ssws, ClaimStamp
  <2>2. CASE UNCHANGED store
    BY <2>2 DEF Goes, Given, Undisturbed, Alive, Stored, store
  <2>. QED  BY <1>1, <1>7, <2>1, <2>2, UpdateMade DEF ClaimDay
<1>8. CASE WriteReport(m)
  <2>1. PICK from : from = [cache[m] EXCEPT !.report = base[m]]
    OBVIOUS
  <2>2. from \in Ssws /\ from.conds = cache[m].conds
    BY <1>1, <2>1 DEF Ssws
  <2>3. PICK o : o = UpdateStatus(from)
    OBVIOUS
  <2>4. /\ o \in Ssws /\ o.rv = ssw.rv /\ o.conds = from.conds
        /\ o.exists = ssw.exists /\ o.uid = ssw.uid /\ o.deleting = ssw.deleting
    <3>1. o \in Ssws /\ o.rv = ssw.rv
      BY <1>1, <2>2, <2>3, UpdatesTyped
    <3>. QED  BY <1>1, <2>2, <2>3, <3>1 DEF UpdateStatus, Ssws
  <2>5. Succeeds(cache[m], o) \/ Fails(cache[m], o)
    BY <1>8, <2>1, <2>3 DEF WriteReport
  <2>6. /\ Stored
        /\ \/ UNCHANGED store
           \/ Accepts(cache[m]) /\ SameObject(o) /\ ssw'.conds = o.conds
    BY <1>1, <2>4, <2>5, WriteMade
  <2>7. Accepts(cache[m]) => cache[m] = ssw
    BY DEF Accepts, Given, CachesTrail
  <2>8. CASE UNCHANGED store
    BY <2>6, <2>8 DEF Goes, Given, Undisturbed, Alive, store
  <2>9. CASE Accepts(cache[m]) /\ SameObject(o) /\ ssw'.conds = o.conds
    BY <2>2, <2>4, <2>6, <2>7, <2>9 DEF Goes, Given, Undisturbed, Alive, SameObject
  <2>. QED  BY <2>6, <2>8, <2>9
<1>. QED  BY <1>2, <1>4, <1>5, <1>6, <1>7, <1>8 DEF Reconcile, OnlyLocal

-----------------------------------------------------------------------------
(* What a step makes of the ledger.                                        *)

\* The ledger stays, or its next version is there to be delivered to all.
LedgerGrows ==
  \/ UNCHANGED <<cm, cmPend>>
  \/ /\ Version(cm') /\ cm'.rv = cm.rv + 1
     /\ cmPend' = [n \in Managers |-> cmPend[n] \cup {cm'}]

\* The ledger is created by the one ssw (lines 140 to 155).
LEMMA EnsureGrows ==
  ASSUME Given, NEW m \in Managers, EnsureConfigMap(m)
  PROVE  LedgerGrows
<1>. PICK created : created = [NoLedger(cm.rv + 1) EXCEPT !.exists = TRUE,
                                                          !.owner = obj[m].uid]
  OBVIOUS
<1>1. \/ UNCHANGED <<cm, cmPend>>
      \/ ~cm.exists /\ PublishLedger(created)
  BY DEF EnsureConfigMap, ledger
<1>2. obj[m].uid = 1
  BY DEF EnsureConfigMap, Given, Undisturbed, OursSeen
<1>3. ~cm.exists => cm.rv = 0
  BY DEF Given, Undisturbed, Version
<1>4. ~cm.exists => /\ created.rv = 1 /\ created.exists /\ created.owner = 1
                    /\ created.data = 0
  BY <1>2, <1>3 DEF NoLedger
<1>5. ~cm.exists => Version(created) /\ created.rv = cm.rv + 1
  BY <1>3, <1>4 DEF Version
<1>. QED  BY <1>1, <1>5 DEF PublishLedger, LedgerGrows

\* It is filled once: with the secrets as they are, the hashes are the same ever
\* after (lines 486 to 505).
LEMMA StoreGrows ==
  ASSUME Given, NEW m \in Managers, StoreHashes(m)
  PROVE  /\ LedgerGrows
         /\ pc'[m] = "complete" =>
              cmCache[m].rv = cm.rv /\ cm.rv > 0 /\ cm'.rv = 2
<1>1. /\ pc \in [Managers -> Labels] /\ cm \in Ledgers
  BY DEF Given, Inductive, TypeOK
<1>2. base[m] = InitSecrets /\ Version(cm) /\ InitSecrets > 0
  BY DEF StoreHashes, Given, Undisturbed, Progress
<1>3. \/ AcceptsLedger(cmCache[m]) /\ WriteLedger(base[m])
      \/ UNCHANGED <<cm, cmPend>> /\ pc'[m] = "idle"
  BY <1>1, NotDisturbed DEF StoreHashes, AfterStoreError, Stop, Finish, ledger
<1>4. CASE AcceptsLedger(cmCache[m]) /\ WriteLedger(base[m])
  <2>1. cm.exists /\ cmCache[m].rv = cm.rv /\ cm.rv \in {1, 2}
    BY <1>2, <1>4 DEF AcceptsLedger, Version
  <2>2. CASE cm.rv = 2
    <3>1. cm.data = base[m]
      BY <1>2, <2>2 DEF Version
    <3>. QED  BY <1>4, <2>1, <2>2, <3>1 DEF WriteLedger, LedgerGrows, ledger
  <2>3. CASE cm.rv = 1
    <3>1. cm.data # base[m]
      BY <1>2, <2>3 DEF Version
    <3>2. PICK o : o = [cm EXCEPT !.rv = cm.rv + 1, !.data = base[m]]
      OBVIOUS
    <3>3. PublishLedger(o)
      BY <1>4, <3>1, <3>2 DEF WriteLedger
    <3>4. o.rv = 2 /\ o.exists = cm.exists /\ o.owner = cm.owner /\ o.data = InitSecrets
      BY <1>1, <1>2, <2>3, <3>2 DEF Ledgers
    <3>5. Version(o) /\ o.rv = cm.rv + 1
      BY <1>2, <2>1, <2>3, <3>4 DEF Version
    <3>. QED  BY <2>1, <3>3, <3>4, <3>5 DEF PublishLedger, LedgerGrows
  <2>. QED  BY <2>1, <2>2, <2>3
<1>5. CASE UNCHANGED <<cm, cmPend>> /\ pc'[m] = "idle"
  BY <1>5 DEF LedgerGrows
<1>. QED  BY <1>3, <1>4, <1>5

\* No other step of a worker writes the ledger.
LEMMA WorkerGrows ==
  ASSUME Given, NEW m \in Managers, Reconcile(m)
  PROVE  LedgerGrows /\ UNCHANGED <<secrets, cmCache, cache>>
<1>1. CASE EnsureConfigMap(m) \/ StoreHashes(m)
  BY <1>1, EnsureGrows, StoreGrows DEF EnsureConfigMap, StoreHashes, views
<1>2. CASE ~(EnsureConfigMap(m) \/ StoreHashes(m))
  <2>1. UNCHANGED <<cm, cmPend>> /\ UNCHANGED views
    BY <1>2 DEF Reconcile, Fetch, Started, RemoveFinalizer, AddFinalizer,
       FinalizerCondition, ConfigMapCondition, PrepareWatchList, CalculateHashes,
       CompleteCondition, ClaimDay, ReadLedger, NotifySlack, WriteReport, ledger
  <2>2. UNCHANGED secrets
    BY <1>2, NotDisturbed DEF Reconcile, Fetch, Started, RemoveFinalizer, AddFinalizer,
       FinalizerCondition, ConfigMapCondition, PrepareWatchList, CalculateHashes,
       CompleteCondition, ClaimDay, ReadLedger, NotifySlack, WriteReport, SecretEvent
  <2>. QED  BY <2>1, <2>2 DEF LedgerGrows, views
<1>. QED  BY <1>1, <1>2

\* A version that is stored is later than what the caches have.
LEMMA SeenGrows ==
  ASSUME Given, LedgerGrows, NEW m \in Managers, cmCache' = cmCache
  PROVE  LedgerSeen(m)' /\ Version(cm)' /\ (cm.rv = 2 => cm' = cm)
<1>1. LedgerSeen(m) /\ Version(cm)
  BY DEF Given, Undisturbed
<1>2. CASE UNCHANGED <<cm, cmPend>>
  BY <1>1, <1>2 DEF LedgerSeen, Version
<1>3. CASE /\ Version(cm') /\ cm'.rv = cm.rv + 1
           /\ cmPend' = [n \in Managers |-> cmPend[n] \cup {cm'}]
  <2>1. cm.rv \in Nat /\ cmCache[m].rv \in Nat /\ cm'.rv \in 0..2
        /\ \A o \in cmPend[m] : o.rv \in Nat
    BY <1>1, <1>3 DEF LedgerSeen, Version
  <2>2. \A o \in cmPend'[m] :
          Version(o) /\ cmCache[m].rv <= o.rv /\ o.rv <= cm'.rv
    <3>1. cmPend'[m] = cmPend[m] \cup {cm'}
      BY <1>3
    <3>. QED  BY <1>1, <1>3, <2>1, <3>1 DEF LedgerSeen
  <2>3. cmCache[m].rv <= cm'.rv
    BY <1>1, <1>3, <2>1 DEF LedgerSeen
  <2>. QED  BY <1>1, <1>3, <2>1, <2>2, <2>3 DEF LedgerSeen, Version
<1>. QED  BY <1>2, <1>3 DEF LedgerGrows

-----------------------------------------------------------------------------
(* The workers.                                                            *)

\* A version that is stored is not the one a worker has a copy of.
LEMMA CopyLoses ==
  ASSUME Given, Stored, NEW m \in Managers, obj'[m] = obj[m], obj'[m].rv = ssw'.rv
  PROVE  ssw' = ssw
<1>1. obj[m].rv \in Nat /\ ssw.rv \in Nat /\ obj[m].rv <= ssw.rv
  BY DEF Given, Inductive, TypeOK, CopiesKnown, Known, Ssws
<1>. QED  BY <1>1 DEF Stored, store

\* What another worker does leaves a worker where it is.
LEMMA OthersProgress ==
  ASSUME Given, Goes, LedgerGrows, NEW m \in Managers, cmCache' = cmCache,
         UNCHANGED <<pc[m], obj[m], base[m]>>
  PROVE  Progress(m)'
<1>1. Progress(m) /\ (cm.rv = 2 => cm' = cm)
  BY SeenGrows DEF Given, Undisturbed
<1>2. Blind(m)' => Blind(m) /\ ssw' = ssw
  BY CopyLoses DEF Goes, Blind
<1>. QED  BY <1>1, <1>2 DEF Progress

\* A worker that completes the reconciliation loses its copy (lines 186 and 725).
LEMMA CompletionKeeps ==
  ASSUME Given, NEW m \in Managers, CompleteCondition(m)
  PROVE  /\ Stored /\ Alive' /\ cm'.rv = 2 /\ LedgerGrows
         /\ \A n \in Managers : Progress(n)'
<1>1. /\ pc \in [Managers -> Labels] /\ obj \in [Managers -> Ssws]
      /\ base \in [Managers -> Nat]
  BY DEF Given, Inductive, TypeOK
<1>2. pc[m] = "complete" /\ cm.rv = 2 /\ UNCHANGED <<cm, cmPend, cmCache>>
  BY DEF CompleteCondition, Given, Undisturbed, Progress, ledger, views
<1>3. /\ Stored /\ Alive'
      /\ ConditionSet(m, "ReconcileComplete") =>
           "ReconcileComplete" \in ssw.conds \/ ssw' # ssw
  BY ConditionMade DEF CompleteCondition, Conditions
<1>4. \/ pc'[m] = "idle"
      \/ /\ pc'[m] = "daily" /\ obj'[m] = obj[m]
         /\ ConditionSet(m, "ReconcileComplete")
  BY <1>1 DEF CompleteCondition, Goto, Retry, Finish
<1>5. Progress(m)'
  <2>1. CASE pc'[m] = "idle"
    BY <2>1 DEF Progress
  <2>2. CASE pc'[m] = "daily" /\ obj'[m] = obj[m] /\ ConditionSet(m, "ReconcileComplete")
    <3>1. Blind(m)' => Blind(m) /\ ssw' = ssw
      BY <1>2, <1>3, <2>2, CopyLoses DEF Blind
    <3>2. Blind(m) => "ReconcileComplete" \notin ssw.conds
      BY <1>2 DEF Given, Undisturbed, Progress
    <3>3. ~Blind(m)'
      BY <1>3, <2>2, <3>1, <3>2
    <3>. QED  BY <2>2, <3>3 DEF Progress
  <2>. QED  BY <1>4, <2>1, <2>2
<1>6. ASSUME NEW n \in Managers \ {m} PROVE Progress(n)'
  <2>1. UNCHANGED <<pc[n], obj[n], base[n]>>
    BY <1>1 DEF CompleteCondition, Goto, Retry, Finish
  <2>2. Progress(n) /\ LedgerSeen(n)
    BY DEF Given, Undisturbed
  <2>3. Blind(n)' => Blind(n) /\ ssw' = ssw
    BY <1>2, <1>3, <2>1, CopyLoses DEF Blind
  <2>. QED  BY <1>2, <2>1, <2>2, <2>3 DEF Progress
<1>. QED  BY <1>2, <1>3, <1>5, <1>6 DEF LedgerGrows

\* A worker gets to the labels between the hashes and the check with what they
\* stand for (lines 157 to 190 and 635 to 663).
LEMMA OwnProgress ==
  ASSUME Given, NEW m \in Managers, Reconcile(m), ~CompleteCondition(m)
  PROVE  Progress(m)'
<1>1. /\ pc \in [Managers -> Labels] /\ obj \in [Managers -> Ssws]
      /\ base \in [Managers -> Nat] /\ ssw.rv \in Nat
  BY DEF Given, Inductive, TypeOK, Ssws
<1>2. Goes /\ LedgerGrows /\ UNCHANGED <<secrets, cmCache>>
  BY WorkerGoes, WorkerGrows
<1>3. secrets = InitSecrets
  BY DEF Given, Undisturbed
<1>4. CASE PrepareWatchList(m)
  <2>1. pc'[m] = "idle" \/ (pc'[m] = "hash" /\ base'[m] = secrets)
    BY <1>1, <1>4 DEF PrepareWatchList, Goto, Retry, Finish
  <2>. QED  BY <1>3, <2>1 DEF Progress
<1>5. CASE CalculateHashes(m)
  <2>1. base[m] # 0
    BY <1>5 DEF CalculateHashes, Given, Undisturbed, Progress
  <2>2. pc'[m] = "idle" \/ (pc'[m] = "store" /\ base'[m] = secrets)
    BY <1>1, <1>5, <2>1 DEF CalculateHashes, Goto, Retry, Finish
  <2>. QED  BY <1>3, <2>2 DEF Progress
<1>6. CASE StoreHashes(m)
  <2>1. pc'[m] = "idle" \/ (pc'[m] = "complete" /\ obj'[m] = obj[m])
    BY <1>1, <1>6 DEF StoreHashes, AfterStoreError, Goto, Stop, Finish
  <2>2. CASE pc'[m] = "idle"
    BY <2>2 DEF Progress
  <2>3. CASE pc'[m] = "complete"
    <3>1. cmCache[m].rv = cm.rv /\ cm'.rv = 2
      BY <1>6, <2>3, StoreGrows
    <3>2. Blind(m)' => cm.rv # 2
      BY <1>2, <3>1 DEF Blind
    <3>3. Blind(m)' => "ReconcileComplete" \notin ssw'.conds
      BY <1>2, <3>2 DEF Goes, Given, Undisturbed
    <3>. QED  BY <2>3, <3>1, <3>3 DEF Progress
  <2>. QED  BY <2>1, <2>2, <2>3
<1>7. CASE ClaimDay(m)
  <2>1. \/ pc'[m] = "idle"
        \/ /\ pc'[m] = "window" /\ pc[m] = "daily"
           /\ \E o : Succeeds(obj[m], o)
    BY <1>1, <1>7 DEF ClaimDay, AfterClaimError, After, Goto, Retry, Finish
  <2>2. CASE pc'[m] = "idle"
    BY <2>2 DEF Progress
  <2>3. CASE pc'[m] = "window" /\ pc[m] = "daily" /\ \E o : Succeeds(obj[m], o)
    <3>1. obj[m].rv = ssw.rv
      BY <2>3 DEF Succeeds, Accepts
    <3>2. cmCache[m].rv = 2
      BY <2>3, <3>1 DEF Given, Undisturbed, Progress, Blind
    <3>. QED  BY <1>2, <2>3, <3>2 DEF Progress
  <2>. QED  BY <2>1, <2>2, <2>3
<1>8. CASE ~(PrepareWatchList(m) \/ CalculateHashes(m) \/ StoreHashes(m) \/ ClaimDay(m))
  <2>1. pc'[m] \notin {"hash", "store", "complete", "daily", "window"}
    <3>1. CASE Fetch(m) \/ RemoveFinalizer(m) \/ AddFinalizer(m) \/ FinalizerCondition(m)
      BY <1>1, <3>1 DEF Fetch, RemoveFinalizer, AddFinalizer, FinalizerCondition,
         Goto, Stop, Retry, Finish
    <3>2. CASE Started(m)
      <4>1. NextAfterStart(obj[m]) \in {"unfinal", "ledger", "final"}
        BY <1>1 DEF NextAfterStart, Ssws
      <4>. QED  BY <1>1, <3>2, <4>1 DEF Started, Goto, Retry, Finish
    <3>3. CASE EnsureConfigMap(m) \/ ConfigMapCondition(m)
      BY <1>1, <3>3 DEF EnsureConfigMap, ConfigMapCondition, Goto, Retry, Finish
    <3>4. CASE ReadLedger(m) \/ NotifySlack(m) \/ WriteReport(m)
      BY <1>1, <3>4 DEF ReadLedger, NotifySlack, WriteReport, AfterSlackError,
         Goto, After, Retry, Finish
    <3>. QED  BY <1>8, <3>1, <3>2, <3>3, <3>4 DEF Reconcile
  <2>. QED  BY <2>1 DEF Progress
<1>. QED  BY <1>4, <1>5, <1>6, <1>7, <1>8

\* Every copy is one of the one ssw.
LEMMA CopiesOurs ==
  ASSUME Given, NEW m \in Managers, Reconcile(m), Stored, Alive', UNCHANGED cache,
         NEW n \in Managers
  PROVE  OursSeen(n)'
<1>1. /\ pc \in [Managers -> Labels] /\ obj \in [Managers -> Ssws]
      /\ cache[m] \in Ssws
  BY DEF Given, Inductive, TypeOK
<1>2. OursSeen(m) /\ OursSeen(n)
  BY DEF Given, Undisturbed
<1>3. \A o \in pend'[n] : o.uid = 1
  <2>1. pend'[n] \subseteq pend[n] \cup {ssw'}
    BY DEF Stored, Publish, store
  <2>. QED  BY <1>2, <2>1 DEF OursSeen, Alive
<1>4. pc'[m] # "idle" => obj'[m].uid = 1
  <2>1. CASE Fetch(m)
    <3>1. \/ UNCHANGED <<pc, obj>> /\ pc[m] = "idle"
          \/ cache[m].exists /\ obj'[m] = cache[m]
      BY <1>1, <2>1 DEF Fetch
    <3>. QED  BY <1>2, <3>1 DEF OursSeen
  <2>2. CASE AddFinalizer(m)
    <3>1. obj'[m] \in {ssw', obj[m]} \/ (cache[m].exists /\ obj'[m] = Finalized(cache[m]))
      BY <1>1, <2>2 DEF AddFinalizer
    <3>2. Finalized(cache[m]).uid = cache[m].uid
      BY <1>1 DEF Finalized, Ssws
    <3>3. pc[m] # "idle"
      BY <2>2 DEF AddFinalizer
    <3>. QED  BY <1>2, <3>1, <3>2, <3>3 DEF OursSeen, Alive
  <2>3. CASE ClaimDay(m)
    <3>1. pc'[m] = "idle" \/ obj'[m] = ssw'
      BY <1>1, <2>3 DEF ClaimDay, AfterClaimError, After, Retry, Finish
    <3>. QED  BY <3>1 DEF Alive
  <2>4. CASE ~(Fetch(m) \/ AddFinalizer(m) \/ ClaimDay(m))
    <3>1. pc[m] # "idle" /\ (pc'[m] = "idle" \/ obj'[m] = obj[m])
      BY <1>1, <2>4 DEF Reconcile, Started, RemoveFinalizer, FinalizerCondition,
         EnsureConfigMap, ConfigMapCondition, PrepareWatchList, CalculateHashes,
         StoreHashes, AfterStoreError, CompleteCondition, ReadLedger, NotifySlack,
         AfterSlackError, WriteReport, After, Stop, Retry, Finish
    <3>. QED  BY <1>2, <3>1 DEF OursSeen
  <2>. QED  BY <2>1, <2>2, <2>3, <2>4
<1>5. n # m => pc'[n] = pc[n] /\ obj'[n] = obj[n]
  BY <1>1 DEF Reconcile, Fetch, Started, RemoveFinalizer, AddFinalizer,
     FinalizerCondition, EnsureConfigMap, ConfigMapCondition, PrepareWatchList,
     CalculateHashes, StoreHashes, AfterStoreError, CompleteCondition, ClaimDay,
     AfterClaimError, ReadLedger, NotifySlack, AfterSlackError, WriteReport, After,
     Stop, Retry, Goto, Finish
<1>. QED  BY <1>2, <1>3, <1>4, <1>5 DEF OursSeen

\* A worker touches no other worker.
LEMMA OneWorker ==
  ASSUME Given, NEW m \in Managers, Reconcile(m), NEW n \in Managers, n # m
  PROVE  UNCHANGED <<pc[n], obj[n], base[n]>>
<1>1. /\ pc \in [Managers -> Labels] /\ obj \in [Managers -> Ssws]
      /\ base \in [Managers -> Nat]
  BY DEF Given, Inductive, TypeOK
<1>. QED
  BY <1>1 DEF Reconcile, Fetch, Started, RemoveFinalizer, AddFinalizer,
     FinalizerCondition, EnsureConfigMap, ConfigMapCondition, PrepareWatchList,
     CalculateHashes, StoreHashes, AfterStoreError, CompleteCondition, ClaimDay,
     AfterClaimError, ReadLedger, NotifySlack, AfterSlackError, WriteReport, After,
     Stop, Retry, Goto, Finish

\* The steps of the workers.
LEMMA WorkerKeeps ==
  ASSUME Given, NEW m \in Managers, Reconcile(m)
  PROVE  Undisturbed'
<1>1. LedgerGrows /\ UNCHANGED <<secrets, cmCache, cache>>
  BY WorkerGrows
<1>2. /\ Stored /\ Alive' /\ \A n \in Managers : Progress(n)'
      /\ "ReconcileComplete" \in ssw'.conds => cm'.rv = 2
  <2>1. CASE CompleteCondition(m)
    BY <2>1, CompletionKeeps
  <2>2. CASE ~CompleteCondition(m)
    <3>1. Goes
      BY <2>2, WorkerGoes
    <3>2. \A n \in Managers : Progress(n)'
      BY <1>1, <2>2, <3>1, OwnProgress, OneWorker, OthersProgress
    <3>3. cm.rv = 2 => cm' = cm
      BY <1>1, SeenGrows
    <3>. QED  BY <3>1, <3>2, <3>3 DEF Goes, Given, Undisturbed
  <2>. QED  BY <2>1, <2>2
<1>3. \A n \in Managers : LedgerSeen(n)' /\ Version(cm)'
  BY <1>1, SeenGrows
<1>4. \A n \in Managers : OursSeen(n)'
  BY <1>1, <1>2, CopiesOurs
<1>. QED  BY <1>1, <1>2, <1>3, <1>4 DEF Given, Undisturbed

\* A version is delivered after those with lower numbers.
LEMMA DeliverKeeps ==
  ASSUME Given, NEW m \in Managers, DeliverSsw(m) \/ DeliverLedger(m)
  PROVE  Undisturbed'
<1>1. UNCHANGED <<secrets, ssw, cm, pc, obj, base>>
  BY DEF DeliverSsw, DeliverLedger, store, ledger, worker
<1>2. Alive' /\ Version(cm)' /\ ("ReconcileComplete" \in ssw'.conds => cm'.rv = 2)
  BY <1>1 DEF Given, Undisturbed, Alive, Version
<1>3. CASE DeliverSsw(m)
  <2>1. PICK o \in pend[m] :
          /\ cache' = [cache EXCEPT ![m] = o] /\ pend' = [pend EXCEPT ![m] = @ \ {o}]
          /\ UNCHANGED <<cmCache, cmPend>>
    BY <1>3 DEF DeliverSsw, ledger
  <2>2. ASSUME NEW n \in Managers PROVE LedgerSeen(n)' /\ OursSeen(n)' /\ Progress(n)'
    <3>1. LedgerSeen(n) /\ OursSeen(n) /\ OursSeen(m) /\ Progress(n)
      BY DEF Given, Undisturbed
    <3>2. cache'[n] \in {cache[n], o} /\ pend'[n] \subseteq pend[n]
      BY <2>1 DEF Given, Inductive, TypeOK
    <3>3. OursSeen(n)'
      BY <1>1, <3>1, <3>2 DEF OursSeen
    <3>4. LedgerSeen(n)' /\ Progress(n)'
      BY <1>1, <2>1, <3>1 DEF LedgerSeen, Progress, Blind, Version
    <3>. QED  BY <3>3, <3>4
  <2>. QED  BY <1>1, <1>2, <2>2 DEF Given, Undisturbed
<1>4. CASE DeliverLedger(m)
  <2>1. PICK o \in cmPend[m] :
          /\ \A other \in cmPend[m] : o.rv <= other.rv
          /\ cmCache' = [cmCache EXCEPT ![m] = o]
          /\ cmPend' = [cmPend EXCEPT ![m] = @ \ {o}]
          /\ UNCHANGED <<cache, pend>>
    BY <1>4 DEF DeliverLedger, store
  <2>2. ASSUME NEW n \in Managers PROVE LedgerSeen(n)' /\ OursSeen(n)' /\ Progress(n)'
    <3>1. LedgerSeen(n) /\ LedgerSeen(m) /\ OursSeen(n) /\ Progress(n)
      BY DEF Given, Undisturbed
    <3>2. /\ cmCache'[m] = o /\ cmPend'[m] = cmPend[m] \ {o}
          /\ n # m => cmCache'[n] = cmCache[n] /\ cmPend'[n] = cmPend[n]
      BY <2>1 DEF Given, Inductive, TypeOK
    <3>3. LedgerSeen(n)'
      <4>1. CASE n = m
        BY <1>1, <2>1, <3>1, <3>2, <4>1 DEF LedgerSeen, Version
      <4>2. CASE n # m
        BY <1>1, <3>1, <3>2, <4>2 DEF LedgerSeen, Version
      <4>. QED  BY <4>1, <4>2
    <3>4. OursSeen(n)'
      BY <1>1, <2>1, <3>1 DEF OursSeen
    <3>5. cmCache[n].rv = 2 => cmCache'[n].rv = 2
      <4>1. o.rv \in 0..2 /\ cmCache[m].rv \in 0..2 /\ cmCache[m].rv <= o.rv
        BY <3>1 DEF LedgerSeen, Version
      <4>. QED  BY <3>2, <4>1
    <3>6. Progress(n)'
      BY <1>1, <3>1, <3>5 DEF Progress, Blind
    <3>. QED  BY <3>3, <3>4, <3>6
  <2>. QED  BY <1>1, <1>2, <2>2 DEF Given, Undisturbed
<1>. QED  BY <1>3, <1>4

\* The queue and the clock say nothing of the ssw and its ledger.
LEMMA StillKeeps ==
  ASSUME Given,
         UNCHANGED <<secrets, ssw, pend, cm, cmPend, cache, cmCache, pc, obj, base>>
  PROVE  Undisturbed'
BY DEF Given, Undisturbed, Alive, Version, LedgerSeen, OursSeen, Progress, Blind

-----------------------------------------------------------------------------
(* The first theorem.                                                      *)

\* The budget is never raised: what is undisturbed has been so from the start.
LEMMA BudgetFalls ==
  ASSUME Inductive, [Next]_vars
  PROVE  budget' = budget \/ Disturb
<1>1. ASSUME NEW m \in Managers, NEW copy, NEW o, Succeeds(copy, o) \/ Fails(copy, o)
      PROVE  budget' = budget \/ Disturb
  BY <1>1 DEF Succeeds, Fails
<1>2. ASSUME NEW m \in Managers, Reconcile(m) PROVE budget' = budget \/ Disturb
  <2>1. ASSUME WritesStatus(m) PROVE budget' = budget \/ Disturb
    BY <1>1, <2>1 DEF WritesStatus, Started, FinalizerCondition, ConfigMapCondition,
       PrepareWatchList, CompleteCondition, WriteReport, ConditionSet, ConditionFails
  <2>2. ASSUME RemoveFinalizer(m) \/ AddFinalizer(m) \/ ClaimDay(m)
        PROVE  budget' = budget \/ Disturb
    BY <1>1, <2>2 DEF RemoveFinalizer, AddFinalizer, ClaimDay
  <2>3. ASSUME OnlyLocal(m) PROVE budget' = budget \/ Disturb
    BY <2>3 DEF OnlyLocal, Fetch, EnsureConfigMap, CalculateHashes, SecretEvent,
       StoreHashes, ReadLedger, NotifySlack
  <2>. QED  BY <1>2, <2>1, <2>2, <2>3 DEF Reconcile, WritesStatus, OnlyLocal
<1>3. ASSUME NEW m \in Managers, Informers(m) \/ Crash(m)
      PROVE  budget' = budget \/ Disturb
  BY <1>3 DEF Informers, DeliverSsw, DeliverLedger, NoteLedger, TimerFires, Crash
<1>4. CASE Environment
  BY <1>4 DEF Environment, CreateSsw, EditSsw, DeleteSsw, ChangeSecret, SecretEvent,
     DeleteLedger, Tick
<1>5. CASE UNCHANGED vars
  BY <1>5 DEF vars
<1>. QED  BY <1>2, <1>3, <1>4, <1>5 DEF Next

\* Every step keeps the invariant.
LEMMA DataKept ==
  ASSUME InitSecrets > 0, Inductive, CachesTrail, DataKnown, [Next]_vars
  PROVE  DataKnown'
<1>. SUFFICES ASSUME budget' = Budget PROVE Undisturbed'
  BY DEF DataKnown
<1>1. budget' = budget /\ ~Disturb
  <2>1. budget \in 0..Budget
    BY DEF Inductive, TypeOK
  <2>. QED  BY <2>1, BudgetFalls DEF Disturb
<1>2. Given
  BY <1>1, StepInductive DEF DataKnown, Given
<1>3. ASSUME NEW m \in Managers, Reconcile(m) PROVE Undisturbed'
  BY <1>2, <1>3, WorkerKeeps
<1>4. ASSUME NEW m \in Managers, Informers(m) \/ Crash(m) PROVE Undisturbed'
  <2>1. CASE NoteLedger(m) \/ TimerFires(m)
    BY <1>2, <2>1, StillKeeps DEF NoteLedger, TimerFires, store, views, ledger
  <2>. QED  BY <1>1, <1>2, <1>4, <2>1, DeliverKeeps DEF Informers, Crash
<1>5. CASE Environment
  <2>1. ~DeleteLedger
    <3>1. OwnerLives \/ ~cm.exists
      BY <1>2 DEF Given, Undisturbed, Alive, Version, OwnerLives
    <3>. QED  BY <1>1, <3>1 DEF DeleteLedger
  <2>2. Tick
    BY <1>1, <1>5, <2>1 DEF Environment, CreateSsw, EditSsw, DeleteSsw, ChangeSecret,
       SecretEvent
  <2>. QED  BY <1>2, <2>2, StillKeeps DEF Tick, store, views, ledger
<1>6. CASE UNCHANGED vars
  BY <1>2, <1>6, StillKeeps DEF vars, store, views, ledger, worker
<1>. QED  BY <1>3, <1>4, <1>5, <1>6 DEF Next

\* At the start there is no ledger, and the ssw has just been applied.
LEMMA InitDataKnown == Init => DataKnown
<1>. SUFFICES ASSUME Init PROVE Undisturbed
  BY DEF DataKnown
<1>1. /\ NewSsw(1).exists /\ NewSsw(1).uid = 1 /\ ~NewSsw(1).deleting
      /\ NewSsw(1).conds = {} /\ ~NoSsw(0).exists
  BY DEF NewSsw, NoSsw
<1>2. NoLedger(0).rv = 0 /\ ~NoLedger(0).exists /\ NoLedger(0).data = 0
  BY DEF NoLedger
<1>3. Version(NoLedger(0))
  BY <1>2 DEF Version
<1>. QED  BY <1>1, <1>2, <1>3 DEF Init, Undisturbed, Alive, LedgerSeen, OursSeen, Progress

\* As long as nothing disturbs the managers, a check in the window finds data,
\* although it reads a cache that trails what the same run has stored, and for
\* any number of managers (lines 175, 186, 653 and 725).
THEOREM CheckFindsData ==
  ASSUME InitSecrets > 0
  PROVE  Spec => CheckHasData
<1>1. Inductive /\ CachesTrail /\ DataKnown /\ [Next]_vars => DataKnown'
  BY DataKept
<1>2. ASSUME Inductive, CachesTrail, DataKnown, [Next]_vars, NEW m \in Managers,
             pc[m] = "window", pc'[m] = "idle", budget' = Budget
      PROVE  ~InWindow
  <2>1. budget' = budget /\ ~Disturb
    <3>1. budget \in 0..Budget
      BY <1>2 DEF Inductive, TypeOK
    <3>. QED  BY <1>2, <3>1, BudgetFalls DEF Disturb
  <2>2. Given
    BY <1>2, <2>1, StepInductive DEF DataKnown, Given
  <2>3. cmCache[m].data = InitSecrets
    BY <1>2, <2>2 DEF Given, Undisturbed, Progress, LedgerSeen, Version
  <2>4. ReadLedger(m)
    <3>1. ASSUME NEW n \in Managers, Reconcile(n) PROVE ReadLedger(m)
      <4>1. n = m
        BY <1>2, <2>2, <3>1, OneWorker
      <4>. QED
        BY <1>2, <3>1, <4>1 DEF Reconcile, Fetch, Started, RemoveFinalizer,
           AddFinalizer, FinalizerCondition, EnsureConfigMap, ConfigMapCondition,
           PrepareWatchList, CalculateHashes, StoreHashes, CompleteCondition,
           ClaimDay, NotifySlack, WriteReport
    <3>2. ~UNCHANGED pc
      BY <1>2
    <3>. QED
      BY <1>2, <2>1, <3>1, <3>2 DEF Next, Informers, DeliverSsw, DeliverLedger,
         NoteLedger, TimerFires, Crash, Environment, CreateSsw, EditSsw, DeleteSsw,
         ChangeSecret, DeleteLedger, Tick, vars, worker
  <2>5. pc \in [Managers -> Labels]
    BY <1>2 DEF Inductive, TypeOK
  <2>. QED  BY <1>2, <2>3, <2>4, <2>5 DEF ReadLedger, Goto
<1>3. Inductive /\ CachesTrail /\ DataKnown /\ [Next]_vars =>
        [\A m \in Managers :
           pc[m] = "window" /\ pc'[m] = "idle" /\ budget' = Budget => ~InWindow]_vars
  BY <1>2
<1>. QED
  BY <1>1, <1>3, InitDataKnown, InductiveHolds, CachesTrailHolds, PTL
  DEF Spec, CheckHasData

-----------------------------------------------------------------------------
(* The daily claim.                                                        *)

\* A cause for a manager to look at the ssw that needs no clock.
Waiting(m) == queued[m] \/ pc[m] # "idle" \/ pend[m] # {} \/ cmNote[m]

\* Nobody has a version of the ssw that is being deleted, or one with a later
\* claim than the stored one's.
CopiesServe(m) ==
  /\ pc[m] # "unfinal"
  /\ \A o \in pend[m] \cup {cache[m], obj[m]} : ~o.deleting /\ o.last <= ssw.last

\* The clock stands still from the claim of a run to its end.
ClaimsNow(m) == pc[m] \in {"window", "notify", "report"} => ssw.last = now

\* The stored ledger is cached or on its way.
Delivered(m) == cmCache[m].rv = cm.rv \/ cm \in cmPend[m]

\* A manager with the filled ledger, whose runs get to the claim, looks at the ssw
\* again before its next day is late by a poll.
Serves(m) ==
  cmCache[m].rv = 2 /\ (Waiting(m) \/ timer[m] < ssw.last + Day + Poll)

\* Before the first claim there is a cause to look at the ssw: at last the resync
\* of the informers.
Pending ==
  IF ssw.last = Epoch
    THEN (\E m \in Managers : Waiting(m)) \/ (cm.rv = 2 /\ now < Resync)
    ELSE \E m \in Managers : Serves(m)

\* A claim made in the window has its message, or its worker is about to send it.
Announced ==
  ssw.last # Epoch /\ ssw.last % Day \in Window =>
    notices # <<>> \/ \E m \in Managers : Claiming(m)

\* Before the clock first moves the ledger has been filled and delivered.
Filled == now > 0 => \A m \in Managers : cmCache[m].rv = 2

Serving ==
  /\ Epoch <= ssw.last
  /\ \A m \in Managers :
       /\ CopiesServe(m) /\ ClaimsNow(m) /\ Delivered(m)
       /\ pc[m] = "store" => cmCache[m].rv > 0
  /\ Filled /\ Pending /\ Announced

\* The inductive invariant.
ServingKnown == budget = Budget => Serving

\* There are managers, and the clock waits for them.
Attentive == Managers # {} /\ Prompt

\* What the steps below start from.
Attended == Given /\ Undisturbed' /\ Serving /\ Attentive

-----------------------------------------------------------------------------
(* What the steps of the workers do to it.                                 *)

\* The numbers of the clock.
LEMMA Numbers ==
  ASSUME Attended
  PROVE  /\ now \in Nat /\ ssw.last \in Int /\ Epoch = 0 - Day
         /\ Day \in Nat \ {0} /\ Poll \in Nat \ {0} /\ Resync \in Nat \ {0}
BY DayAssumption, PollAssumption, ResyncAssumption
DEF Attended, Given, Inductive, TypeOK, Ssws, Epoch

\* Messages are not taken back.
LEMMA NoticesGrow ==
  ASSUME Given, Next
  PROVE  notices' = <<>> => notices = <<>>
<1>1. Summary /\ notices \in Seq(Nat) /\ \A m \in Managers : obj[m].rv \in Nat
  BY NextStep, Typed DEF Given, Inductive, TypeOK, Ssws
<1>2. ASSUME NEW x \in Nat PROVE Append(notices, x) # <<>>
  <2>1. Len(Append(notices, x)) = Len(notices) + 1 /\ Len(notices) \in Nat
    BY <1>1
  <2>. QED  BY <2>1
<1>. QED  BY <1>1, <1>2 DEF Summary, ClaimStep

\* A worker keeps the clock and the claim, or claims the day now.
LEMMA LastKept ==
  ASSUME Attended, NEW m \in Managers, Reconcile(m)
  PROVE  /\ now' = now /\ ssw'.last \in Int /\ ssw.last <= ssw'.last
         /\ ssw'.last = ssw.last \/ (ClaimDay(m) /\ ClaimedNow)
<1>1. now' = now
  BY DEF Reconcile, Fetch, Started, RemoveFinalizer, AddFinalizer,
     FinalizerCondition, EnsureConfigMap, ConfigMapCondition, PrepareWatchList,
     CalculateHashes, StoreHashes, CompleteCondition, ClaimDay, ReadLedger,
     NotifySlack, WriteReport
<1>2. Unclaimed \/ (ClaimDay(m) /\ ClaimedNow)
  BY WorkerStored DEF Attended, Given
<1>3. ssw.exists /\ ssw'.exists
  BY DEF Attended, Given, Undisturbed, Alive
<1>4. Unclaimed => ssw'.last = ssw.last
  BY <1>3 DEF Unclaimed, Edited, Replaced
<1>5. ClaimedNow => ssw'.last \in Int /\ ssw.last <= ssw'.last
  BY Numbers DEF ClaimedNow
<1>. QED  BY <1>1, <1>2, <1>4, <1>5, Numbers

\* Copies come from copies: none of them is being deleted or knows of a later
\* claim, unless the stored version does.
LEMMA CopiesKept ==
  ASSUME Attended, Next, ssw'.last \in Int, ssw.last <= ssw'.last, NEW m \in Managers
  PROVE  \A o \in pend'[m] \cup {cache'[m], obj'[m]} : ~o.deleting /\ o.last <= ssw'.last
<1>1. CopiesFollow
  BY NextStep DEF Attended, Given, Summary
<1>2. ~ssw.deleting /\ ~ssw'.deleting /\ CopiesServe(m) /\ Epoch <= ssw.last
  BY DEF Attended, Given, Undisturbed, Alive, Serving
<1>3. cache[m] \in Ssws /\ obj[m] \in Ssws /\ pend[m] \subseteq Ssws
  BY DEF Attended, Given, Inductive, TypeOK
<1>4. /\ ~NoSsw(0).deleting /\ NoSsw(0).last = Epoch
      /\ Finalized(cache[m]).deleting = cache[m].deleting
      /\ Finalized(cache[m]).last = cache[m].last
  BY <1>3 DEF NoSsw, Finalized, Ssws
<1>5. ASSUME NEW n \in Int, n <= ssw.last PROVE n <= ssw'.last
  BY <1>5, Numbers
<1>6. \A o \in pend[m] \cup {cache[m], obj[m]} : ~o.deleting /\ o.last <= ssw'.last
  BY <1>2, <1>3, <1>5 DEF CopiesServe, Ssws
<1>7. Epoch <= ssw'.last /\ ssw.last <= ssw'.last /\ ssw'.last <= ssw'.last
  BY <1>2, Numbers
<1>. QED  BY <1>1, <1>2, <1>4, <1>6, <1>7 DEF CopiesFollow

\* Nobody comes to strip a finalizer (lines 111 to 117).
LEMMA NotStripping ==
  ASSUME Attended, NEW m \in Managers, Reconcile(m), NEW n \in Managers
  PROVE  pc'[n] # "unfinal"
<1>1. /\ pc \in [Managers -> Labels] /\ obj[m] \in Ssws
      /\ CopiesServe(m) /\ CopiesServe(n)
  BY Typed DEF Attended, Given, Inductive, TypeOK, Serving
<1>2. pc'[m] # "unfinal"
  <2>1. CASE Started(m)
    <3>1. NextAfterStart(obj[m]) # "unfinal"
      BY <1>1 DEF NextAfterStart, CopiesServe, Ssws
    <3>. QED  BY <1>1, <2>1, <3>1 DEF Started, Goto, Retry, Finish
  <2>2. CASE Fetch(m) \/ RemoveFinalizer(m) \/ AddFinalizer(m) \/ FinalizerCondition(m)
    BY <1>1, <2>2 DEF Fetch, RemoveFinalizer, AddFinalizer, FinalizerCondition,
       CopiesServe, Goto
  <2>3. CASE EnsureConfigMap(m) \/ ConfigMapCondition(m) \/ PrepareWatchList(m)
             \/ CalculateHashes(m)
    BY <1>1, <2>3 DEF EnsureConfigMap, ConfigMapCondition, PrepareWatchList,
       CalculateHashes, Goto, Retry, Finish
  <2>4. CASE StoreHashes(m) \/ CompleteCondition(m) \/ ClaimDay(m)
    BY <1>1, <2>4 DEF StoreHashes, CompleteCondition, ClaimDay, AfterStoreError,
       AfterClaimError, After, Stop, Goto, Retry, Finish
  <2>5. CASE ReadLedger(m) \/ NotifySlack(m) \/ WriteReport(m)
    BY <1>1, <2>5 DEF ReadLedger, NotifySlack, WriteReport, AfterSlackError,
       After, Goto, Retry, Finish
  <2>. QED  BY <2>1, <2>2, <2>3, <2>4, <2>5 DEF Reconcile
<1>. QED  BY <1>1, <1>2, OneWorker DEF Attended, CopiesServe

\* What a worker does to the ledger is on its way to every cache.
LEMMA DeliveredGrows ==
  ASSUME Attended, LedgerGrows, UNCHANGED cmCache, NEW n \in Managers
  PROVE  Delivered(n)'
<1>1. Delivered(n)
  BY DEF Attended, Serving
<1>2. CASE UNCHANGED <<cm, cmPend>>
  BY <1>1, <1>2 DEF Delivered
<1>3. CASE cmPend' = [k \in Managers |-> cmPend[k] \cup {cm'}]
  BY <1>3 DEF Delivered
<1>. QED  BY <1>2, <1>3 DEF LedgerGrows

\* A worker stores hashes after it has seen the ledger (lines 402 to 416).
LEMMA StoresSeen ==
  ASSUME Attended, NEW m \in Managers, Reconcile(m), NEW n \in Managers
  PROVE  pc'[n] = "store" => cmCache'[n].rv > 0
<1>1. /\ pc \in [Managers -> Labels] /\ obj[m] \in Ssws
  BY Typed DEF Attended, Given, Inductive, TypeOK
<1>2. cmCache' = cmCache
  BY WorkerGrows DEF Attended
<1>3. n # m => pc'[n] = pc[n]
  BY OneWorker DEF Attended
<1>4. pc[n] = "store" => cmCache[n].rv > 0
  BY DEF Attended, Serving
<1>5. pc'[m] = "store" => cmCache[m].rv > 0
  <2>1. CASE CalculateHashes(m)
    <3>1. pc'[m] = "store" => cmCache[m].exists
      BY <1>1, <2>1 DEF CalculateHashes, Goto, Retry, Finish
    <3>. QED  BY <3>1 DEF Attended, Given, Undisturbed, LedgerSeen, Version
  <2>2. CASE Started(m)
    <3>1. NextAfterStart(obj[m]) # "store"
      BY <1>1 DEF NextAfterStart, Ssws
    <3>. QED  BY <1>1, <2>2, <3>1 DEF Started, Goto, Retry, Finish
  <2>3. CASE ~(CalculateHashes(m) \/ Started(m))
    <3>1. pc'[m] # "store"
      BY <1>1, <2>3 DEF Reconcile, Fetch, RemoveFinalizer, AddFinalizer,
         FinalizerCondition, EnsureConfigMap, ConfigMapCondition, PrepareWatchList,
         StoreHashes, AfterStoreError, CompleteCondition, ClaimDay, AfterClaimError,
         ReadLedger, NotifySlack, AfterSlackError, WriteReport, After, Stop, Retry,
         Goto, Finish
    <3>. QED  BY <3>1
  <2>. QED  BY <2>1, <2>2, <2>3
<1>. QED  BY <1>2, <1>3, <1>4, <1>5

\* A worker is past the claim only if it has just made it, or was so (lines 639 to
\* 672).
LEMMA PastClaim ==
  ASSUME Attended, NEW m \in Managers, Reconcile(m),
         pc'[m] \in {"window", "notify", "report"}
  PROVE  \/ pc[m] \in {"window", "notify", "report"}
         \/ ClaimDay(m) /\ Goto(m, "window")
<1>1. /\ pc \in [Managers -> Labels] /\ obj[m] \in Ssws
  BY Typed DEF Attended, Given, Inductive, TypeOK
<1>2. CASE ClaimDay(m)
  BY <1>1, <1>2 DEF ClaimDay, AfterClaimError, After, Retry, Goto, Finish
<1>3. CASE Started(m)
  <2>1. NextAfterStart(obj[m]) \in {"unfinal", "ledger", "final"}
    BY <1>1 DEF NextAfterStart, Ssws
  <2>. QED  BY <1>1, <1>3, <2>1 DEF Started, Goto, Retry, Finish
<1>4. CASE ReadLedger(m) \/ NotifySlack(m) \/ WriteReport(m)
  BY <1>4 DEF ReadLedger, NotifySlack, WriteReport
<1>5. CASE ~(ClaimDay(m) \/ Started(m) \/ ReadLedger(m) \/ NotifySlack(m) \/ WriteReport(m))
  BY <1>1, <1>5 DEF Reconcile, Fetch, RemoveFinalizer, AddFinalizer,
     FinalizerCondition, EnsureConfigMap, ConfigMapCondition, PrepareWatchList,
     CalculateHashes, StoreHashes, AfterStoreError, CompleteCondition, Stop, Retry,
     Goto, Finish
<1>. QED  BY <1>2, <1>3, <1>4, <1>5

\* The clock has not moved since the claim of a worker that is past it.
LEMMA StandsStill ==
  ASSUME Attended, NEW m \in Managers, Reconcile(m), NEW n \in Managers
  PROVE  ClaimsNow(n)'
<1>. SUFFICES ASSUME pc'[n] \in {"window", "notify", "report"}
              PROVE  ssw'.last = now'
  BY DEF ClaimsNow
<1>1. now' = now /\ (ssw'.last = ssw.last \/ ClaimedNow)
  BY LastKept
<1>2. CASE pc[n] \in {"window", "notify", "report"}
  <2>1. ssw.last = now
    BY <1>2 DEF Attended, Serving, ClaimsNow
  <2>. QED  BY <1>1, <2>1 DEF ClaimedNow
<1>3. CASE pc[n] \notin {"window", "notify", "report"}
  <2>1. n = m
    BY <1>3, OneWorker DEF Attended
  <2>2. ClaimDay(m) /\ Goto(m, "window")
    BY <1>3, <2>1, PastClaim
  <2>3. ClaimedNow
    BY <2>2, ClaimDayStored DEF Attended, Given
  <2>. QED  BY <1>1, <2>3 DEF ClaimedNow
<1>. QED  BY <1>2, <1>3

\* A store that is refused is one before the clock first moves, and not one of a
\* manager that has the filled ledger (line 175).
LEMMA RefusedStore ==
  ASSUME Attended, NEW m \in Managers, StoreHashes(m), pc'[m] = "idle"
  PROVE  cmCache[m].rv # 2 /\ cm'.rv = 2 /\ now < Resync
<1>1. /\ pc \in [Managers -> Labels] /\ now \in Nat
  BY DEF Attended, Given, Inductive, TypeOK
<1>2. ~AcceptsLedger(cmCache[m]) /\ cm' = cm
  BY <1>1, NotDisturbed DEF Attended, StoreHashes, Goto, ledger
<1>3. /\ Version(cm) /\ Version(cmCache[m]) /\ cmCache[m].rv <= cm.rv
      /\ cmCache[m].rv > 0
  BY DEF Attended, Given, Undisturbed, LedgerSeen, Serving, StoreHashes
<1>4. cmCache[m].rv = 1 /\ cm.rv = 2
  BY <1>2, <1>3 DEF AcceptsLedger, Version
<1>5. now = 0
  BY <1>1, <1>4 DEF Attended, Serving, Filled
<1>. QED  BY <1>2, <1>4, <1>5, Numbers

\* A requeue that comes before the next day is late by a poll: there is a claim, or
\* the first day would be late already.
InTime(m) == ssw.last # Epoch /\ timer'[m] < ssw.last + Day + Poll

LEMMA RequeuedInTime ==
  ASSUME Attended, NEW m \in Managers, NEW delay \in Nat, delay >= Poll,
         After(m, delay), now + delay < ssw.last + Day + Poll
  PROVE  InTime(m)
<1>1. timer \in [Managers -> 0..Never] /\ Never \in Int
  BY DayAssumption, BoundAssumption DEF Attended, Given, Inductive, TypeOK, Never
<1>2. timer'[m] = IF now + delay < timer[m] THEN now + delay ELSE timer[m]
  BY <1>1 DEF After
<1>3. timer[m] \in Int
  BY <1>1
<1>4. timer'[m] \in Int /\ timer'[m] <= now + delay
  BY <1>2, <1>3, Numbers
<1>. QED  BY <1>4, Numbers DEF InTime

\* A run is not done, or the ssw is looked at again, or it has found no ledger to
\* store to (lines 85 to 194 and 625 to 711).
LEMMA EndsServing ==
  ASSUME Attended, NEW m \in Managers, Reconcile(m)
  PROVE  \/ Waiting(m)' \/ InTime(m)
         \/ StoreHashes(m) /\ pc'[m] = "idle"
<1>1. /\ pc \in [Managers -> Labels] /\ queued \in [Managers -> BOOLEAN]
  BY DEF Attended, Given, Inductive, TypeOK
<1>2. ASSUME Retry(m) PROVE Waiting(m)'
  BY <1>1, <1>2 DEF Retry, Waiting
<1>3. ASSUME NEW label, label # "idle", Goto(m, label) PROVE Waiting(m)'
  BY <1>1, <1>3 DEF Goto, Waiting
<1>4. CASE Fetch(m)
  <2>1. pc'[m] = "started" \/ (~cache[m].exists /\ UNCHANGED pend)
    BY <1>1, <1>4 DEF Fetch, store
  <2>2. ~cache[m].exists => pend[m] # {}
    BY DEF Attended, Given, Undisturbed, Alive, CachesTrail
  <2>. QED  BY <2>1, <2>2 DEF Waiting
<1>5. CASE Started(m)
  <2>1. NextAfterStart(obj[m]) # "idle"
    <3>1. obj[m] \in Ssws
      BY Typed DEF Attended, Given, Inductive
    <3>. QED  BY <3>1 DEF NextAfterStart, Ssws
  <2>. QED  BY <1>2, <1>3, <1>5, <2>1 DEF Started
<1>6. CASE AddFinalizer(m) \/ FinalizerCondition(m) \/ EnsureConfigMap(m)
           \/ ConfigMapCondition(m) \/ PrepareWatchList(m) \/ CompleteCondition(m)
  BY <1>2, <1>3, <1>6 DEF AddFinalizer, FinalizerCondition, EnsureConfigMap,
     ConfigMapCondition, PrepareWatchList, CompleteCondition
<1>7. CASE CalculateHashes(m)
  <2>1. ~SecretEvent
    BY NotDisturbed DEF Attended, SecretEvent
  <2>. QED  BY <1>2, <1>3, <1>7, <2>1 DEF CalculateHashes
<1>8. CASE StoreHashes(m)
  <2>1. pc'[m] # "idle" => Waiting(m)'
    BY DEF Waiting
  <2>. QED  BY <1>8, <2>1
<1>9. CASE ClaimDay(m)
  <2>1. CASE Goto(m, "window") \/ Retry(m)
    BY <1>2, <1>3, <2>1
  <2>2. CASE ~DueForCheck(obj[m]) /\ After(m, Poll)
    <3>1. obj[m].last \in Int /\ obj[m].last <= ssw.last
      <4>1. obj[m] \in Ssws
        BY Typed DEF Attended, Given, Inductive
      <4>. QED  BY <4>1 DEF Attended, Serving, CopiesServe, Ssws
    <3>2. now + Poll < ssw.last + Day + Poll
      BY <2>2, <3>1, Numbers DEF DueForCheck
    <3>. QED  BY <2>2, <3>2, RequeuedInTime, Numbers
  <2>. QED  BY <1>9, <2>1, <2>2 DEF ClaimDay, AfterClaimError
<1>10. CASE ReadLedger(m)
  <2>1. CASE Goto(m, "notify") \/ Retry(m)
    BY <1>2, <1>3, <2>1
  <2>2. CASE After(m, Poll)
    <3>1. ssw.last = now
      BY <1>10 DEF ReadLedger, Attended, Serving, ClaimsNow
    <3>2. now + Poll < ssw.last + Day + Poll
      BY <3>1, Numbers
    <3>. QED  BY <2>2, <3>2, RequeuedInTime, Numbers
  <2>. QED  BY <1>10, <2>1, <2>2 DEF ReadLedger
<1>11. CASE NotifySlack(m)
  BY <1>2, <1>3, <1>11 DEF NotifySlack, AfterSlackError
<1>12. CASE WriteReport(m)
  <2>1. CASE Retry(m)
    BY <1>2, <2>1
  <2>2. CASE After(m, Day)
    <3>1. ssw.last = now
      BY <1>12 DEF WriteReport, Attended, Serving, ClaimsNow
    <3>2. now + Day < ssw.last + Day + Poll /\ Day >= Poll
      BY <3>1, Numbers, PollAssumption
    <3>. QED  BY <2>2, <3>2, RequeuedInTime, Numbers
  <2>. QED  BY <1>12, <2>1, <2>2 DEF WriteReport
<1>13. ~RemoveFinalizer(m)
  BY DEF Attended, Serving, CopiesServe, RemoveFinalizer
<1>. QED
  BY <1>4, <1>5, <1>6, <1>7, <1>8, <1>9, <1>10, <1>11, <1>12, <1>13 DEF Reconcile

\* What a worker does takes no cause to look at the ssw from another manager.
LEMMA OthersWait ==
  ASSUME Attended, NEW m \in Managers, Reconcile(m), NEW n \in Managers, n # m
  PROVE  (Waiting(n) => Waiting(n)') /\ timer'[n] = timer[n]
<1>1. /\ queued \in [Managers -> BOOLEAN] /\ timer \in [Managers -> 0..Never]
      /\ pend \in [Managers -> SUBSET Ssws] /\ cmNote \in [Managers -> BOOLEAN]
  BY DEF Attended, Given, Inductive, TypeOK
<1>2. pend[n] \subseteq pend'[n]
  <2>1. Stored
    BY WorkerStored DEF Attended, Given
  <2>. QED  BY <1>1, <2>1 DEF Stored, Publish, store
<1>3. cmNote[n] => cmNote'[n]
  <2>1. CASE EnsureConfigMap(m) \/ StoreHashes(m)
    BY <1>1, <2>1 DEF EnsureConfigMap, StoreHashes, WriteLedger, PublishLedger, ledger
  <2>2. CASE ~(EnsureConfigMap(m) \/ StoreHashes(m))
    BY <2>2 DEF Reconcile, Fetch, Started, RemoveFinalizer, AddFinalizer,
       FinalizerCondition, ConfigMapCondition, PrepareWatchList, CalculateHashes,
       CompleteCondition, ClaimDay, ReadLedger, NotifySlack, WriteReport, ledger
  <2>. QED  BY <2>1, <2>2
<1>4. queued'[n] = queued[n] /\ timer'[n] = timer[n]
  <2>1. ~SecretEvent
    BY NotDisturbed DEF Attended, SecretEvent
  <2>. QED
    BY <1>1, <2>1 DEF Reconcile, Fetch, Started, RemoveFinalizer, AddFinalizer,
       FinalizerCondition, EnsureConfigMap, ConfigMapCondition, PrepareWatchList,
       CalculateHashes, StoreHashes, AfterStoreError, CompleteCondition, ClaimDay,
       AfterClaimError, ReadLedger, NotifySlack, AfterSlackError, WriteReport, After,
       Stop, Retry, Goto, Finish
<1>. QED  BY <1>2, <1>3, <1>4, OneWorker DEF Attended, Waiting

\* Whoever has claimed the day has the filled ledger, and its run is not done.
LEMMA ClaimantServes ==
  ASSUME Attended, NEW m \in Managers, ClaimDay(m), ClaimedNow
  PROVE  ssw'.last = ssw.last \/ (Claiming(m)' /\ Serves(m)')
<1>1. pc \in [Managers -> Labels]
  BY DEF Attended, Given, Inductive, TypeOK
<1>2. Goto(m, "window") \/ ssw'.last = ssw.last
  BY NotDisturbed DEF ClaimDay, AfterClaimError, Fails, store, Attended
<1>3. CASE Goto(m, "window")
  <2>1. pc'[m] = "window"
    BY <1>1, <1>3 DEF Goto
  <2>2. cmCache'[m].rv = 2
    BY <2>1 DEF Attended, Undisturbed, Progress
  <2>. QED  BY <2>1, <2>2 DEF Claiming, Serves, Waiting
<1>. QED  BY <1>2, <1>3

\* The ssw will be looked at in time.
LEMMA WorkerPends ==
  ASSUME Attended, NEW m \in Managers, Reconcile(m)
  PROVE  Pending'
<1>1. /\ now' = now /\ cmCache' = cmCache
      /\ ssw'.last = ssw.last \/ (ClaimDay(m) /\ ClaimedNow)
  BY LastKept, WorkerGrows DEF Attended
<1>2. Pending /\ \A n \in Managers : ClaimsNow(n)
  BY DEF Attended, Serving
<1>3. CASE ssw'.last # ssw.last
  <2>1. Serves(m)' /\ ssw'.last = now
    BY <1>1, <1>3, ClaimantServes DEF ClaimedNow
  <2>2. ssw'.last # Epoch
    BY <2>1, Numbers
  <2>3. Epoch' = Epoch
    BY DEF Epoch
  <2>. QED  BY <2>1, <2>2, <2>3 DEF Pending
<1>4. CASE ssw'.last = ssw.last /\ ssw.last = Epoch
  <2>1. Waiting(m)' \/ (cm'.rv = 2 /\ now < Resync)
    BY <1>4, EndsServing, RefusedStore DEF InTime
  <2>2. Epoch' = Epoch /\ Resync' = Resync
    BY DEF Epoch
  <2>. QED  BY <1>1, <1>4, <2>1, <2>2 DEF Pending
<1>5. CASE ssw'.last = ssw.last /\ ssw.last # Epoch
  <2>1. PICK n \in Managers : Serves(n)
    BY <1>2, <1>5 DEF Pending
  <2>2. Serves(n)'
    <3>1. CASE n = m
      <4>1. ~(StoreHashes(m) /\ pc'[m] = "idle")
        BY <2>1, <3>1, RefusedStore DEF Serves
      <4>2. Waiting(m)' \/ InTime(m)
        BY <4>1, EndsServing
      <4>. QED  BY <1>1, <1>5, <2>1, <3>1, <4>2 DEF Serves, InTime
    <3>2. CASE n # m
      BY <1>1, <1>5, <2>1, <3>2, OthersWait DEF Serves
    <3>. QED  BY <3>1, <3>2
  <2>. QED  BY <1>5, <2>2 DEF Pending, Epoch
<1>. QED  BY <1>3, <1>4, <1>5

\* A worker that has claimed the day in the window finds data and sends its message
\* (lines 644 to 669).
LEMMA ClaimKept ==
  ASSUME Attended, NEW m \in Managers, Reconcile(m), Claiming(m),
         ssw.last % Day \in Window, notices' = <<>>
  PROVE  Claiming(m)'
<1>1. /\ pc \in [Managers -> Labels] /\ obj[m] \in Ssws /\ notices \in Seq(Nat)
  BY Typed DEF Attended, Given, Inductive, TypeOK
<1>2. CASE pc[m] = "window"
  <2>1. InWindow
    BY <1>2 DEF InWindow, Attended, Serving, ClaimsNow
  <2>2. cmCache[m].data > 0
    BY <1>2 DEF Attended, Given, Undisturbed, Progress, LedgerSeen, Version
  <2>3. ReadLedger(m)
    BY <1>2 DEF Reconcile, Fetch, Started, RemoveFinalizer, AddFinalizer,
       FinalizerCondition, EnsureConfigMap, ConfigMapCondition, PrepareWatchList,
       CalculateHashes, StoreHashes, CompleteCondition, ClaimDay, NotifySlack,
       WriteReport
  <2>. QED  BY <1>1, <2>1, <2>2, <2>3 DEF ReadLedger, Goto, Claiming
<1>3. CASE pc[m] = "notify"
  <2>1. NotifySlack(m)
    BY <1>3 DEF Reconcile, Fetch, Started, RemoveFinalizer, AddFinalizer,
       FinalizerCondition, EnsureConfigMap, ConfigMapCondition, PrepareWatchList,
       CalculateHashes, StoreHashes, CompleteCondition, ClaimDay, ReadLedger,
       WriteReport
  <2>2. notices' = Append(notices, obj[m].rv)
    BY <2>1, NotDisturbed DEF NotifySlack, Attended
  <2>3. Len(notices') = Len(notices) + 1 /\ Len(notices) \in Nat
    BY <1>1, <2>2 DEF Ssws
  <2>. QED  BY <2>3
<1>. QED  BY <1>2, <1>3 DEF Claiming

\* What is claimed in the window will be announced.
LEMMA WorkerAnnounces ==
  ASSUME Attended, NEW m \in Managers, Reconcile(m)
  PROVE  Announced'
<1>. SUFFICES ASSUME (ssw.last # Epoch /\ ssw.last % Day \in Window)', notices' = <<>>
              PROVE  \E n \in Managers : Claiming(n)'
  BY DEF Announced
<1>1. ssw'.last = ssw.last \/ (ClaimDay(m) /\ ClaimedNow)
  BY LastKept
<1>2. CASE ssw'.last # ssw.last
  BY <1>1, <1>2, ClaimantServes
<1>3. CASE ssw'.last = ssw.last
  <2>1. ssw.last # Epoch /\ ssw.last % Day \in Window /\ notices = <<>>
    BY <1>3, NoticesGrow DEF Attended, Next, Epoch
  <2>2. PICK n \in Managers : Claiming(n)
    BY <2>1 DEF Attended, Serving, Announced
  <2>3. n # m => pc'[n] = pc[n]
    BY OneWorker DEF Attended
  <2>. QED  BY <2>1, <2>2, <2>3, ClaimKept DEF Claiming
<1>. QED  BY <1>2, <1>3

\* So the steps of the workers keep it all.
LEMMA WorkerServes ==
  ASSUME Attended, NEW m \in Managers, Reconcile(m)
  PROVE  Serving'
<1>1. /\ LedgerGrows /\ UNCHANGED cmCache
      /\ now' = now /\ ssw'.last \in Int /\ ssw.last <= ssw'.last
  BY WorkerGrows, LastKept DEF Attended
<1>2. (Epoch <= ssw.last)'
  BY <1>1, Numbers DEF Attended, Serving, Epoch
<1>3. ASSUME NEW n \in Managers
      PROVE  /\ CopiesServe(n)' /\ ClaimsNow(n)' /\ Delivered(n)'
             /\ pc'[n] = "store" => cmCache'[n].rv > 0
  <2>1. CopiesServe(n)'
    BY <1>1, NotStripping, CopiesKept DEF Next, CopiesServe
  <2>. QED  BY <1>1, <2>1, StandsStill, DeliveredGrows, StoresSeen
<1>4. Filled'
  BY <1>1 DEF Attended, Serving, Filled
<1>. QED  BY <1>2, <1>3, <1>4, WorkerPends, WorkerAnnounces DEF Serving

-----------------------------------------------------------------------------
(* The steps of the informers and of the clock.                            *)

\* A delivery brings the ledger nearer, or the ssw into the queue.
LEMMA InformersServe ==
  ASSUME Attended, NEW m \in Managers, Informers(m)
  PROVE  Serving'
<1>1. /\ UNCHANGED <<now, ssw, cm, pc, obj, notices>>
      /\ queued \in [Managers -> BOOLEAN] /\ timer \in [Managers -> 0..Never]
      /\ cmCache \in [Managers -> Ledgers] /\ cmPend \in [Managers -> SUBSET Ledgers]
      /\ pend \in [Managers -> SUBSET Ssws] /\ cmNote \in [Managers -> BOOLEAN]
  BY DEF Attended, Given, Inductive, TypeOK, Informers, DeliverSsw, DeliverLedger,
     NoteLedger, TimerFires, store, ledger, worker
<1>2. ASSUME NEW n \in Managers PROVE CopiesServe(n)' /\ ClaimsNow(n)'
  <2>1. CopiesServe(n) /\ ClaimsNow(n)
    BY DEF Attended, Serving
  <2>2. ssw'.last \in Int /\ ssw.last <= ssw'.last
    BY <1>1, Numbers
  <2>3. \A o \in pend'[n] \cup {cache'[n], obj'[n]} : ~o.deleting /\ o.last <= ssw'.last
    BY <2>2, CopiesKept DEF Next
  <2>. QED  BY <1>1, <2>1, <2>3 DEF CopiesServe, ClaimsNow
<1>3. \A n \in Managers :
        /\ Delivered(n)' /\ (cmCache[n].rv > 0 => cmCache'[n].rv > 0)
        /\ cmCache[n].rv = 2 => cmCache'[n].rv = 2
  <2>1. \A n \in Managers : Delivered(n) /\ LedgerSeen(n) /\ LedgerSeen(n)'
    BY DEF Attended, Given, Undisturbed, Serving
  <2>2. CASE DeliverLedger(m)
    <3>1. PICK o \in cmPend[m] :
            /\ \A other \in cmPend[m] : o.rv <= other.rv
            /\ cmCache' = [cmCache EXCEPT ![m] = o]
            /\ cmPend' = [cmPend EXCEPT ![m] = @ \ {o}]
      BY <2>2 DEF DeliverLedger
    <3>2. /\ cmCache'[m] = o /\ cmPend'[m] = cmPend[m] \ {o}
          /\ \A n \in Managers \ {m} : cmCache'[n] = cmCache[n] /\ cmPend'[n] = cmPend[n]
      BY <1>1, <3>1
    <3>3. /\ o.rv \in 0..2 /\ cmCache[m].rv \in 0..2 /\ cm.rv \in 0..2
          /\ cmCache[m].rv <= o.rv /\ o.rv <= cm.rv
      BY <2>1 DEF LedgerSeen, Version, Attended, Given, Undisturbed
    <3>4. Delivered(m)'
      <4>1. CASE cmCache[m].rv = cm.rv
        BY <1>1, <3>2, <3>3, <4>1 DEF Delivered
      <4>2. CASE cm \in cmPend[m]
        BY <1>1, <3>2, <4>2 DEF Delivered
      <4>. QED  BY <2>1, <4>1, <4>2 DEF Delivered
    <3>5. \A n \in Managers \ {m} : Delivered(n)'
      BY <1>1, <2>1, <3>2 DEF Delivered
    <3>. QED  BY <3>2, <3>3, <3>4, <3>5
  <2>3. CASE UNCHANGED <<cmCache, cmPend>>
    BY <1>1, <2>1, <2>3 DEF Delivered
  <2>. QED
    BY <2>2, <2>3 DEF Informers, DeliverSsw, NoteLedger, TimerFires, views, ledger
<1>4. ASSUME NEW n \in Managers
      PROVE  /\ Waiting(n) => Waiting(n)'
             /\ timer'[n] = timer[n] \/ Waiting(n)'
  <2>1. CASE n = m /\ ~DeliverLedger(m)
    <3>1. queued'[m]
      BY <1>1, <2>1 DEF Informers, DeliverSsw, NoteLedger, TimerFires
    <3>. QED  BY <2>1, <3>1 DEF Waiting
  <2>2. CASE DeliverLedger(m)
    BY <1>1, <2>2 DEF DeliverLedger, Waiting, store, worker
  <2>3. CASE n # m
    BY <1>1, <2>3 DEF Informers, DeliverSsw, DeliverLedger, NoteLedger, TimerFires,
       Waiting, store, ledger, worker
  <2>. QED  BY <2>1, <2>2, <2>3
<1>5. Pending'
  <2>1. ASSUME NEW n \in Managers, Serves(n) PROVE Serves(n)'
    BY <1>1, <1>3, <1>4, <2>1 DEF Serves
  <2>. QED  BY <1>1, <1>4, <2>1 DEF Attended, Serving, Pending, Epoch
<1>6. Filled' /\ Announced' /\ (Epoch <= ssw.last)'
  BY <1>1, <1>3 DEF Attended, Serving, Filled, Announced, Claiming, Epoch
<1>. QED  BY <1>1, <1>2, <1>3, <1>5, <1>6 DEF Attended, Serving

\* Who has nothing left to do has the filled ledger in its cache, and the next
\* look at the ssw is in time.
LEMMA QuietServes ==
  ASSUME Undisturbed, Serving, CachesTrail, Quiet
  PROVE  /\ \A m \in Managers : cmCache[m].rv = 2 /\ cache[m] = ssw /\ ~Claiming(m)
         /\ ssw.last = Epoch => now < Resync
         /\ ssw.last # Epoch =>
              \E m \in Managers : timer[m] > now /\ timer[m] < ssw.last + Day + Poll
<1>1. \A m \in Managers :
        /\ ~Claiming(m) /\ ~Waiting(m) /\ timer[m] > now
        /\ cmPend[m] = {} /\ cache[m] = ssw
  BY DEF Quiet, Claiming, Waiting, CachesTrail
<1>2. /\ ssw.last = Epoch => cm.rv = 2 /\ now < Resync
      /\ ssw.last # Epoch =>
           \E m \in Managers : cmCache[m].rv = 2 /\ timer[m] < ssw.last + Day + Poll
  BY <1>1 DEF Serving, Pending, Serves
<1>3. cm.rv = 2
  BY <1>1, <1>2 DEF Serving, Delivered
<1>. QED  BY <1>1, <1>2, <1>3 DEF Serving, Delivered

\* The resync comes after as many ticks as its period has.
LEMMA MultipleOfItself == ASSUME NEW n \in Nat \ {0} PROVE n % n = 0
OBVIOUS

\* The clock moves when the ledger is filled and delivered, and at the latest the
\* resync makes the managers look again (ten hours).
LEMMA TickServes ==
  ASSUME Attended, Tick
  PROVE  Serving'
<1>1. /\ UNCHANGED <<ssw, pend, cm, cmPend, cmNote, cache, cmCache, timer, pc, obj, notices>>
      /\ now' = now + 1 /\ Quiet
  BY DEF Tick, Attended, Attentive, store, ledger, views
<1>2. /\ \A m \in Managers : cmCache[m].rv = 2 /\ cache[m] = ssw /\ ~Claiming(m)
      /\ ssw.last = Epoch => now < Resync
      /\ ssw.last # Epoch =>
           \E m \in Managers : timer[m] > now /\ timer[m] < ssw.last + Day + Poll
  BY <1>1, QuietServes DEF Attended, Given
<1>3. \A m \in Managers :
        /\ CopiesServe(m)' /\ ClaimsNow(m)' /\ Delivered(m)'
        /\ pc'[m] = "store" => cmCache'[m].rv > 0
  BY <1>1 DEF Attended, Serving, CopiesServe, ClaimsNow, Delivered, Quiet
<1>4. Filled' /\ Announced' /\ (Epoch <= ssw.last)'
  BY <1>1, <1>2 DEF Attended, Serving, Filled, Announced, Claiming, Epoch
<1>5. ASSUME ssw.last # Epoch PROVE Pending'
  BY <1>1, <1>2, <1>5 DEF Pending, Serves, Epoch
<1>6. ASSUME ssw.last = Epoch PROVE Pending'
  <2>1. PICK m \in Managers : TRUE
    BY DEF Attended, Attentive
  <2>2. cm.rv = 2
    <3>1. cm.rv \in 0..2 /\ cmCache[m].rv = 2 /\ cmCache[m].rv <= cm.rv
      BY <1>2, <2>1 DEF Attended, Given, Undisturbed, LedgerSeen, Version
    <3>. QED  BY <3>1
  <2>3. CASE now' < Resync
    BY <1>1, <1>6, <2>2, <2>3 DEF Pending, Epoch
  <2>4. CASE now' = Resync
    <3>1. now' % Resync = 0
      BY <2>4, MultipleOfItself, Numbers
    <3>2. queued'[m]
      BY <1>2, <2>1, <3>1 DEF Tick, Attended, Given, Undisturbed, Alive
    <3>. QED  BY <1>1, <1>6, <2>1, <3>2 DEF Pending, Waiting, Epoch
  <2>. QED  BY <1>1, <1>2, <1>6, <2>3, <2>4, Numbers
<1>. QED  BY <1>3, <1>4, <1>5, <1>6 DEF Serving

-----------------------------------------------------------------------------
(* The second theorem.                                                     *)

\* A step that changes nothing keeps it.
LEMMA StillServes ==
  ASSUME Attended, UNCHANGED vars
  PROVE  Serving'
BY DEF Attended, Serving, CopiesServe, ClaimsNow, Delivered, Filled, Pending, Serves,
   Announced, Claiming, Waiting, Epoch, vars, store, ledger, views, worker

\* At the start the informers have the new ssw to deliver.
LEMMA InitServes == ASSUME Init, Managers # {} PROVE Serving
<1>1. /\ NewSsw(1).last = Epoch /\ ~NewSsw(1).deleting
      /\ NoSsw(0).last = Epoch /\ ~NoSsw(0).deleting
      /\ Epoch <= Epoch
  BY DayAssumption DEF NewSsw, NoSsw, Epoch
<1>2. \A m \in Managers :
        /\ CopiesServe(m) /\ ClaimsNow(m) /\ Delivered(m) /\ Waiting(m)
        /\ pc[m] = "idle"
  BY <1>1 DEF Init, CopiesServe, ClaimsNow, Delivered, Waiting
<1>3. Filled /\ Pending /\ Announced /\ Epoch <= ssw.last
  BY <1>1, <1>2 DEF Init, Filled, Pending, Announced
<1>. QED  BY <1>2, <1>3 DEF Serving

\* Every undisturbed step keeps the invariant.
LEMMA ServingKept ==
  ASSUME Attentive, InitSecrets > 0,
         Inductive, CachesTrail, DataKnown, ServingKnown, [Next]_vars
  PROVE  ServingKnown'
<1>. SUFFICES ASSUME budget' = Budget PROVE Serving'
  BY DEF ServingKnown
<1>1. budget' = budget /\ ~Disturb
  <2>1. budget \in 0..Budget
    BY DEF Inductive, TypeOK
  <2>. QED  BY <2>1, BudgetFalls DEF Disturb
<1>2. Attended
  BY <1>1, StepInductive, DataKept DEF DataKnown, ServingKnown, Given, Attended
<1>3. CASE UNCHANGED vars
  BY <1>2, <1>3, StillServes
<1>4. ASSUME Environment PROVE Tick
  <2>1. OwnerLives \/ ~cm.exists
    BY <1>2 DEF Attended, Given, Undisturbed, Alive, Version, OwnerLives
  <2>. QED
    BY <1>1, <1>4, <2>1 DEF Environment, CreateSsw, EditSsw, DeleteSsw, ChangeSecret,
       SecretEvent, DeleteLedger
<1>. QED
  BY <1>1, <1>2, <1>3, <1>4, WorkerServes, InformersServe, TickServes DEF Next, Crash

\* As long as nothing disturbs the managers the days are claimed one after the
\* other, and what is claimed in the window is announced, for any window and any
\* number of managers that race for the claims, if there are secrets to watch and
\* the clock waits for the controllers (lines 175, 193 and 622 to 711).
THEOREM DaysAreClaimed ==
  ASSUME Managers # {}, Prompt, InitSecrets > 0
  PROVE  Spec => []CheckedDaily
<1>. Attentive
  BY DEF Attentive
<1>1. Init => DataKnown /\ ServingKnown
  BY InitDataKnown, InitServes DEF ServingKnown
<1>2. Inductive /\ CachesTrail /\ DataKnown /\ ServingKnown /\ [Next]_vars =>
        DataKnown' /\ ServingKnown'
  BY DataKept, ServingKept
<1>3. Inductive /\ CachesTrail /\ DataKnown /\ ServingKnown => CheckedDaily
  <2>. SUFFICES ASSUME Inductive, CachesTrail, DataKnown, ServingKnown,
                       budget = Budget, Quiet
                PROVE  IF ssw.last = Epoch
                         THEN now < Resync
                         ELSE /\ now - ssw.last < Day + Poll
                              /\ ssw.last % Day \in Window => notices # <<>>
    BY DEF CheckedDaily
  <2>1. /\ \A m \in Managers : ~Claiming(m)
        /\ ssw.last = Epoch => now < Resync
        /\ ssw.last # Epoch =>
             \E m \in Managers : timer[m] > now /\ timer[m] < ssw.last + Day + Poll
    BY QuietServes DEF DataKnown, ServingKnown
  <2>2. /\ now \in Nat /\ ssw.last \in Int /\ Day + Poll \in Int
        /\ \A m \in Managers : timer[m] \in Int
    BY DayAssumption, PollAssumption, BoundAssumption
    DEF Inductive, TypeOK, Ssws, Never
  <2>3. ssw.last # Epoch => now - ssw.last < Day + Poll
    BY <2>1, <2>2, DayAssumption, PollAssumption
  <2>4. ssw.last # Epoch /\ ssw.last % Day \in Window => notices # <<>>
    BY <2>1 DEF ServingKnown, Serving, Announced
  <2>. QED  BY <2>1, <2>3, <2>4
<1>. QED
  BY <1>1, <1>2, <1>3, InductiveHolds, CachesTrailHolds, PTL DEF Spec

=============================================================================
