----------------------------- MODULE Reconciler -----------------------------
(***************************************************************************)
(* The reconcile loop of one StaleSecretWatch ("ssw").  Every manager      *)
(* process runs one worker over a work queue; it reads the ssw and the     *)
(* ConfigMap (the ledger of secret hashes) through informer caches that    *)
(* trail the API server, and writes with optimistic concurrency on the     *)
(* resource version.  One action stands for the code between two calls     *)
(* that other processes can be interleaved with.                           *)
(*                                                                         *)
(* What the ledger holds is the business of another module: here its data  *)
(* is only the version of the secrets it was computed from.                *)
(***************************************************************************)
EXTENDS Integers, Sequences

CONSTANTS
  Managers,     \* the manager processes; more than one without --leader-elect
  Day,          \* 24 hours, in ticks of the clock
  Poll,         \* the 10 minutes of the regular requeue, in ticks
  Resync,       \* the 10 hours of the informers' resync, in ticks
  Window,       \* the ticks of a day in which notices may be sent (10h to 20h)
  MaxTime,      \* bound: the clock stops here
  Budget,       \* bound: user edits, faults and crashes in one behaviour
  Prompt,       \* TRUE: the clock waits until the controllers have no work
  InitSecrets   \* version of the watched secrets at the start, 0 for none

ASSUME DayAssumption == Day \in Nat \ {0}
ASSUME PollAssumption == Poll \in 1..Day
ASSUME ResyncAssumption == Resync \in Nat \ {0}
ASSUME WindowAssumption == Window \subseteq 0..(Day - 1)
ASSUME BoundAssumption == MaxTime \in Nat /\ Budget \in Nat
ASSUME PromptAssumption == Prompt \in BOOLEAN
ASSUME SecretsAssumption == InitSecrets \in Nat

Epoch == 0 - Day              \* a ssw without annotation is always due
Never == MaxTime + Day + 1    \* no requeue is pending

Conditions == {"ReconcileStarted", "FinalizerAdded", "ConfigMapCreated",
               "PrepareWatchlist", "ReconcileComplete"}

\* What a worker does next; "idle" is waiting for the queue.
Labels == {"idle", "started", "unfinal", "final", "finalCond", "ledger",
           "cmCond", "list", "hash", "store", "complete", "daily", "window",
           "notify", "report"}

(***************************************************************************)
(* A version of the ssw: "last" is the lastChecked annotation, "report"    *)
(* stands for status.secretStatus.  "uid" tells a recreated ssw apart.     *)
(* The record with exists = FALSE stands for an absent ssw.                *)
(***************************************************************************)
Ssws == [exists : BOOLEAN, rv : Nat, uid : Nat, deleting : BOOLEAN,
         fin : BOOLEAN, last : Int, conds : SUBSET Conditions, report : Nat]

NoSsw(rv) == [exists |-> FALSE, rv |-> rv, uid |-> 0, deleting |-> FALSE,
              fin |-> FALSE, last |-> Epoch, conds |-> {}, report |-> 0]

NewSsw(rv) == [NoSsw(rv) EXCEPT !.exists = TRUE, !.uid = rv]

\* A version of the ledger; "owner" is the uid of the ssw that created it.
Ledgers == [exists : BOOLEAN, rv : Nat, owner : Nat, data : Nat]

NoLedger(rv) == [exists |-> FALSE, rv |-> rv, owner |-> 0, data |-> 0]

VARIABLES
  now,      \* the clock
  budget,   \* what is left of Budget
  secrets,  \* version of the watched secrets, 0 when there is none
  ssw,      \* the ssw in the API server
  cm,       \* the ledger in the API server
  cache,    \* cache[m]: the ssw as m's informer knows it
  pend,     \* pend[m]: the versions of the ssw not yet delivered to m
  cmCache,  \* cmCache[m]: the ledger as m's typed informer knows it
  cmPend,   \* cmPend[m]: the versions of the ledger not yet delivered to m
  cmNote,   \* cmNote[m]: m's metadata-only informer has an event to deliver
  queued,   \* queued[m]: the ssw is in m's work queue
  timer,    \* timer[m]: when m's delaying queue adds the ssw
  pc,       \* pc[m]: the label of m's worker
  obj,      \* obj[m]: the worker's copy of the ssw (staleSecretWatch)
  base,     \* base[m]: version of the secrets the worker has read
  notices   \* the claims for which Slack got a message, in order

store == <<ssw, pend>>
ledger == <<cm, cmPend, cmNote>>
views == <<cache, cmCache>>
worker == <<queued, timer, pc, obj, base>>
vars == <<now, budget, secrets, store, ledger, views, worker, notices>>

-----------------------------------------------------------------------------
(* The API server.                                                         *)

\* Something from outside happens: a user's edit, a fault or a crash.
Disturb == budget > 0 /\ budget' = budget - 1

\* A version of the ssw is stored, and every informer has it to deliver.
Publish(o) ==
  /\ ssw' = o
  /\ pend' = [m \in Managers |-> pend[m] \cup {o}]

Bump(o) == [o EXCEPT !.rv = ssw.rv + 1]

\* An accepted write that changes nothing stores nothing.
ApiWrite(o) == IF o = ssw THEN UNCHANGED store ELSE Publish(Bump(o))

\* The server accepts a write only if it was made from the stored version.
Accepts(copy) == copy.exists /\ ssw.exists /\ copy.rv = ssw.rv

\* Update writes the object, not its status; an object being deleted goes
\* away with its finalizer.
UpdateMain(copy) ==
  IF ssw.deleting /\ ~copy.fin
    THEN NoSsw(ssw.rv)
    ELSE [ssw EXCEPT !.fin = copy.fin, !.last = copy.last]

\* Status().Update writes the status only.
UpdateStatus(copy) == [ssw EXCEPT !.conds = copy.conds, !.report = copy.report]

Succeeds(copy, o) == Accepts(copy) /\ ApiWrite(o) /\ UNCHANGED budget

\* The caller sees an error: the write is refused, lost, or stored but its
\* reply is lost.
Fails(copy, o) ==
  \/ ~Accepts(copy) /\ UNCHANGED <<store, budget>>
  \/ Accepts(copy) /\ Disturb /\ UNCHANGED store
  \/ Accepts(copy) /\ Disturb /\ ApiWrite(o)

PublishLedger(o) ==
  /\ cm' = o
  /\ cmPend' = [m \in Managers |-> cmPend[m] \cup {o}]
  /\ cmNote' = [m \in Managers |-> TRUE]

AcceptsLedger(copy) == copy.exists /\ cm.exists /\ copy.rv = cm.rv

\* Update of the ledger's data.
WriteLedger(data) ==
  IF data = cm.data
    THEN UNCHANGED ledger
    ELSE PublishLedger([cm EXCEPT !.rv = @ + 1, !.data = data])

-----------------------------------------------------------------------------
(* How a step or a run of Reconcile ends.                                  *)

Goto(m, label) ==
  /\ pc' = [pc EXCEPT ![m] = label]
  /\ UNCHANGED <<queued, timer>>

Finish(m) ==
  /\ pc' = [pc EXCEPT ![m] = "idle"]
  /\ obj' = [obj EXCEPT ![m] = NoSsw(0)]
  /\ base' = [base EXCEPT ![m] = 0]

\* Result{}, nil: nothing is added to the queue.
Stop(m) == Finish(m) /\ UNCHANGED <<queued, timer>>

\* An error, or Requeue: true.  The rate limited entry replaces a later one
\* of the delaying queue.
Retry(m) ==
  /\ Finish(m)
  /\ queued' = [queued EXCEPT ![m] = TRUE]
  /\ timer' = [timer EXCEPT ![m] = Never]

\* Variant: the delay is lost.
AfterNothing(m, delay) == Stop(m)

\* Variant: no delay at all.
AfterNoDelay(m, delay) == Retry(m)

\* RequeueAfter: the delaying queue keeps the earlier of two entries.
After(m, delay) ==
  /\ Finish(m)
  /\ timer' = [timer EXCEPT ![m] = IF now + delay < @ THEN now + delay ELSE @]
  /\ UNCHANGED queued

-----------------------------------------------------------------------------
(* The worker.                                                             *)

\* updateStatusCondition refetches from the cache, so a conflict means the
\* cache trails; the retries that change nothing are not steps here.
WithCondition(m, c) == UpdateStatus([cache[m] EXCEPT !.conds = @ \cup {c}])

ConditionSet(m, c) == Succeeds(cache[m], WithCondition(m, c))

ConditionFails(m, c) == Fails(cache[m], WithCondition(m, c))

\* Take the ssw from the queue and read it from the cache.
Fetch(m) ==
  /\ pc[m] = "idle" /\ queued[m]
  /\ queued' = [queued EXCEPT ![m] = FALSE]
  /\ IF cache[m].exists
       THEN /\ pc' = [pc EXCEPT ![m] = "started"]
            /\ obj' = [obj EXCEPT ![m] = cache[m]]
       ELSE UNCHANGED <<pc, obj>>
  /\ UNCHANGED <<now, budget, secrets, store, ledger, views, timer, base, notices>>

\* Variant: deletion is not looked at.
NextAfterStartAlive(o) == IF o.fin THEN "ledger" ELSE "final"

\* Variant: having a finalizer is taken for being deleted.
NextAfterStartStrip(o) == IF o.fin THEN "unfinal" ELSE "final"

NextAfterStart(o) ==
  CASE o.deleting -> "unfinal"
    [] ~o.deleting /\ o.fin -> "ledger"
    [] ~o.deleting /\ ~o.fin -> "final"

Started(m) ==
  /\ pc[m] = "started"
  /\ \/ /\ ConditionSet(m, "ReconcileStarted")
        /\ Goto(m, NextAfterStart(obj[m]))
        /\ UNCHANGED <<obj, base>>
     \/ ConditionFails(m, "ReconcileStarted") /\ Retry(m)
  /\ UNCHANGED <<now, secrets, ledger, views, notices>>

\* removeFinalizer.  The object is refetched, so the one that loses its
\* finalizer need not be the one that was seen being deleted.  (An object
\* being deleted without a finalizer is gone, so the test at line 198 holds.)
RemoveFinalizer(m) ==
  LET o == UpdateMain([cache[m] EXCEPT !.fin = FALSE])
  IN /\ pc[m] = "unfinal"
     /\ \/ Succeeds(cache[m], o) /\ Stop(m)
        \/ Fails(cache[m], o) /\ Retry(m)
     /\ UNCHANGED <<now, secrets, ledger, views, notices>>

\* Variant: the finalizer is not put on the object.
FinalizedNot(o) == o

Finalized(o) == [o EXCEPT !.fin = TRUE]

\* addFinalizer; Reconcile ignores its result.  After a refused Update the
\* worker's copy has the finalizer and the store has not.
AddFinalizer(m) ==
  LET copy == Finalized(cache[m])
  IN /\ pc[m] = "final"
     /\ \/ /\ Succeeds(cache[m], UpdateMain(copy))
           /\ obj' = [obj EXCEPT ![m] = ssw']
           /\ Goto(m, "finalCond")
        \/ /\ Fails(cache[m], UpdateMain(copy))
           /\ obj' = [obj EXCEPT ![m] = IF cache[m].exists THEN copy ELSE @]
           /\ Goto(m, "ledger")
     /\ UNCHANGED <<now, secrets, ledger, views, base, notices>>

\* The condition of addFinalizer, its error ignored as well.
FinalizerCondition(m) ==
  /\ pc[m] = "finalCond"
  /\ ConditionSet(m, "FinalizerAdded") \/ ConditionFails(m, "FinalizerAdded")
  /\ Goto(m, "ledger")
  /\ UNCHANGED <<now, secrets, ledger, views, obj, base, notices>>

\* Create the ledger unless the cache has it; the server may have it already.
EnsureConfigMap(m) ==
  LET created == [NoLedger(cm.rv + 1) EXCEPT !.exists = TRUE, !.owner = obj[m].uid]
  IN /\ pc[m] = "ledger"
     /\ \/ /\ cmCache[m].exists
           /\ Goto(m, "list")
           /\ UNCHANGED <<obj, base, ledger, budget>>
        \/ /\ ~cmCache[m].exists /\ ~cm.exists
           /\ PublishLedger(created)
           /\ Goto(m, "cmCond")
           /\ UNCHANGED <<obj, base, budget>>
        \/ /\ ~cmCache[m].exists
           /\ \/ cm.exists /\ UNCHANGED <<ledger, budget>>
              \/ Disturb /\ UNCHANGED ledger
              \/ Disturb /\ ~cm.exists /\ PublishLedger(created)
           /\ Retry(m)
     /\ UNCHANGED <<now, secrets, store, views, notices>>

\* A run that created the ledger ends here, to be repeated at once.
ConfigMapCondition(m) ==
  /\ pc[m] = "cmCond"
  /\ ConditionSet(m, "ConfigMapCreated") \/ ConditionFails(m, "ConfigMapCreated")
  /\ Retry(m)
  /\ UNCHANGED <<now, secrets, ledger, views, notices>>

\* prepareWatchList and its condition.
PrepareWatchList(m) ==
  /\ pc[m] = "list"
  /\ \/ /\ ConditionSet(m, "PrepareWatchlist")
        /\ base' = [base EXCEPT ![m] = secrets]
        /\ Goto(m, "hash")
        /\ UNCHANGED obj
     \/ ConditionFails(m, "PrepareWatchlist") /\ Retry(m)
  /\ UNCHANGED <<now, secrets, ledger, views, notices>>

\* The watched secrets change; the mapping function of SetupWithManager adds
\* every ssw in the cache to the queue.
SecretEvent ==
  /\ Disturb
  /\ secrets' = secrets + 1
  /\ queued' = [m \in Managers |-> queued[m] \/ cache[m].exists]

\* calculateAndStoreHashedSecrets up to the encoding: with nothing to watch
\* nothing is written, and one listed secret that is gone fails the batch, an
\* error that Reconcile swallows.
CalculateHashes(m) ==
  /\ pc[m] = "hash"
  /\ \/ /\ ~cmCache[m].exists
        /\ Retry(m)
        /\ UNCHANGED <<budget, secrets>>
     \/ /\ cmCache[m].exists /\ base[m] = 0
        /\ Goto(m, "complete")
        /\ UNCHANGED <<obj, base, budget, secrets>>
     \/ /\ cmCache[m].exists /\ base[m] > 0
        /\ base' = [base EXCEPT ![m] = secrets]
        /\ Goto(m, "store")
        /\ UNCHANGED <<obj, budget, secrets>>
     \/ /\ cmCache[m].exists /\ base[m] > 0
        /\ SecretEvent
        /\ Finish(m) /\ UNCHANGED timer
  /\ UNCHANGED <<now, store, ledger, views, notices>>

\* Variant: the run goes on after a failed store.
AfterStoreErrorGoOn(m) == Goto(m, "complete") /\ UNCHANGED <<obj, base>>

\* The run ends with an empty result and no error.
AfterStoreError(m) == Stop(m)

\* createOrUpdateConfigMap.  Creating is always refused: the object carries the
\* resource version it was read with.
StoreHashes(m) ==
  /\ pc[m] = "store"
  /\ \/ /\ AcceptsLedger(cmCache[m])
        /\ WriteLedger(base[m])
        /\ Goto(m, "complete")
        /\ UNCHANGED <<obj, base, budget>>
     \/ /\ ~AcceptsLedger(cmCache[m])
        /\ AfterStoreError(m)
        /\ UNCHANGED <<ledger, budget>>
     \/ /\ AcceptsLedger(cmCache[m]) /\ Disturb
        /\ UNCHANGED ledger \/ WriteLedger(base[m])
        /\ AfterStoreError(m)
  /\ UNCHANGED <<now, secrets, store, views, notices>>

CompleteCondition(m) ==
  /\ pc[m] = "complete"
  /\ \/ /\ ConditionSet(m, "ReconcileComplete")
        /\ Goto(m, "daily")
        /\ UNCHANGED <<obj, base>>
     \/ ConditionFails(m, "ReconcileComplete") /\ Retry(m)
  /\ UNCHANGED <<now, secrets, ledger, views, notices>>

-----------------------------------------------------------------------------
(* performDailyChecks.                                                     *)

\* Variant: a check is due at every requeue.
DueEveryPoll(o) == now - o.last >= Poll

DueForCheck(o) == now - o.last >= Day

\* Variant: the annotation says the next check, not this one.
ClaimStampNext == now + Day

ClaimStamp == now

\* Variant: the checks go on without the claim.
AfterClaimErrorGoOn(m) == Goto(m, "window") /\ UNCHANGED <<obj, base>>

AfterClaimError(m) == Retry(m)

\* Claim the day by updating the annotation, before the checks.  The copy has
\* the resource version of Fetch or AddFinalizer, not that of the conditions.
ClaimDay(m) ==
  LET copy == [obj[m] EXCEPT !.last = ClaimStamp]
  IN /\ pc[m] = "daily"
     /\ \/ /\ ~DueForCheck(obj[m])
           /\ After(m, Poll)
           /\ UNCHANGED <<store, budget>>
        \/ /\ DueForCheck(obj[m])
           /\ Succeeds(obj[m], UpdateMain(copy))
           /\ obj' = [obj EXCEPT ![m] = ssw']
           /\ Goto(m, "window")
           /\ UNCHANGED base
        \/ /\ DueForCheck(obj[m])
           /\ Fails(obj[m], UpdateMain(copy))
           /\ AfterClaimError(m)
     /\ UNCHANGED <<now, secrets, ledger, views, notices>>

InWindow == now % Day \in Window

\* Outside the window the claimed day passes without a check; so it does when
\* the ledger is missing or has no data to decode.
ReadLedger(m) ==
  /\ pc[m] = "window"
  /\ \/ /\ ~InWindow
        /\ After(m, Poll)
     \/ /\ InWindow /\ cmCache[m].data > 0
        /\ base' = [base EXCEPT ![m] = cmCache[m].data]
        /\ Goto(m, "notify")
        /\ UNCHANGED obj
     \/ /\ InWindow /\ cmCache[m].data = 0
        /\ Retry(m)
  /\ UNCHANGED <<now, budget, secrets, store, ledger, views, notices>>

\* Variant: a failed call to Slack is made again.
AfterSlackErrorAgain(m) == Goto(m, "notify") /\ UNCHANGED <<obj, base>>

AfterSlackError(m) == Retry(m)

\* NotifySlack: the message is delivered or not, and the caller sees success
\* or not; any answer of Slack counts as success.
NotifySlack(m) ==
  \E delivered, success \in BOOLEAN :
    /\ pc[m] = "notify"
    /\ IF delivered /\ success THEN UNCHANGED budget ELSE Disturb
    /\ notices' = IF delivered THEN Append(notices, obj[m].rv) ELSE notices
    /\ IF success
         THEN Goto(m, "report") /\ UNCHANGED <<obj, base>>
         ELSE AfterSlackError(m)
    /\ UNCHANGED <<now, secrets, store, ledger, views>>

\* The status goes to the latest version the cache has.  Retrying a conflict
\* with the same object cannot succeed.
WriteReport(m) ==
  LET o == UpdateStatus([cache[m] EXCEPT !.report = base[m]])
  IN /\ pc[m] = "report"
     /\ \/ Succeeds(cache[m], o) /\ After(m, Day)
        \/ Fails(cache[m], o) /\ Retry(m)
     /\ UNCHANGED <<now, secrets, ledger, views, notices>>

Reconcile(m) ==
  \/ Fetch(m) \/ Started(m) \/ RemoveFinalizer(m) \/ AddFinalizer(m)
  \/ FinalizerCondition(m) \/ EnsureConfigMap(m) \/ ConfigMapCondition(m)
  \/ PrepareWatchList(m) \/ CalculateHashes(m) \/ StoreHashes(m)
  \/ CompleteCondition(m) \/ ClaimDay(m) \/ ReadLedger(m) \/ NotifySlack(m)
  \/ WriteReport(m)

-----------------------------------------------------------------------------
(* Informers, queue and process of a manager.                              *)

\* The next version of the ssw reaches the cache and the ssw is queued.
DeliverSsw(m) ==
  \E o \in pend[m] :
    /\ \A other \in pend[m] : o.rv <= other.rv
    /\ cache' = [cache EXCEPT ![m] = o]
    /\ pend' = [pend EXCEPT ![m] = @ \ {o}]
    /\ queued' = [queued EXCEPT ![m] = TRUE]
    /\ UNCHANGED <<now, budget, secrets, ssw, ledger, cmCache, timer, pc, obj,
                   base, notices>>

\* The typed informer of ConfigMaps: it feeds the cache only.
DeliverLedger(m) ==
  \E o \in cmPend[m] :
    /\ \A other \in cmPend[m] : o.rv <= other.rv
    /\ cmCache' = [cmCache EXCEPT ![m] = o]
    /\ cmPend' = [cmPend EXCEPT ![m] = @ \ {o}]
    /\ UNCHANGED <<now, budget, secrets, store, cm, cmNote, cache, worker, notices>>

\* The metadata-only informer of Owns: it feeds the queue only.
NoteLedger(m) ==
  /\ cmNote[m]
  /\ cmNote' = [cmNote EXCEPT ![m] = FALSE]
  /\ queued' = [queued EXCEPT ![m] = TRUE]
  /\ UNCHANGED <<now, budget, secrets, store, cm, cmPend, views, timer, pc, obj,
                 base, notices>>

TimerFires(m) ==
  /\ timer[m] <= now
  /\ timer' = [timer EXCEPT ![m] = Never]
  /\ queued' = [queued EXCEPT ![m] = TRUE]
  /\ UNCHANGED <<now, budget, secrets, store, ledger, views, pc, obj, base, notices>>

\* The process restarts: its queue is lost and its informers list afresh.
Crash(m) ==
  /\ Disturb
  /\ cache' = [cache EXCEPT ![m] = ssw]
  /\ pend' = [pend EXCEPT ![m] = {}]
  /\ cmCache' = [cmCache EXCEPT ![m] = cm]
  /\ cmPend' = [cmPend EXCEPT ![m] = {}]
  /\ cmNote' = [cmNote EXCEPT ![m] = FALSE]
  /\ queued' = [queued EXCEPT ![m] = ssw.exists \/ cm.exists]
  /\ timer' = [timer EXCEPT ![m] = Never]
  /\ Finish(m)
  /\ UNCHANGED <<now, secrets, ssw, cm, notices>>

-----------------------------------------------------------------------------
(* Users, the garbage collector and the clock.                             *)

CreateSsw ==
  /\ ~ssw.exists /\ Disturb
  /\ Publish(NewSsw(ssw.rv + 1))
  /\ UNCHANGED <<now, secrets, ledger, views, worker, notices>>

\* An edit of the spec.
EditSsw ==
  /\ ssw.exists /\ Disturb
  /\ Publish(Bump(ssw))
  /\ UNCHANGED <<now, secrets, ledger, views, worker, notices>>

DeleteSsw ==
  /\ ssw.exists /\ ~ssw.deleting /\ Disturb
  /\ Publish(Bump(IF ssw.fin THEN [ssw EXCEPT !.deleting = TRUE] ELSE NoSsw(ssw.rv)))
  /\ UNCHANGED <<now, secrets, ledger, views, worker, notices>>

ChangeSecret ==
  /\ SecretEvent
  /\ UNCHANGED <<now, store, ledger, views, timer, pc, obj, base, notices>>

OwnerLives == ssw.exists /\ ssw.uid = cm.owner

\* The garbage collector takes a ledger whose owner is gone; a user may delete
\* it at any time.
DeleteLedger ==
  /\ cm.exists
  /\ \/ ~OwnerLives /\ UNCHANGED budget
     \/ OwnerLives /\ Disturb
  /\ PublishLedger(NoLedger(cm.rv + 1))
  /\ UNCHANGED <<now, secrets, store, views, worker, notices>>

\* Nothing is left to do before the clock moves.
Quiet ==
  \A m \in Managers :
    /\ pc[m] = "idle" /\ ~queued[m] /\ timer[m] > now
    /\ pend[m] = {} /\ cmPend[m] = {} /\ ~cmNote[m]

\* The informers of all managers resync at the same ticks: what they have in
\* their caches is queued once more.
Tick ==
  /\ now < MaxTime
  /\ Prompt => Quiet
  /\ now' = now + 1
  /\ queued' = IF now' % Resync = 0
                 THEN [m \in Managers |-> queued[m] \/ cache[m].exists]
                 ELSE queued
  /\ UNCHANGED <<budget, secrets, store, ledger, views, timer, pc, obj, base, notices>>

Informers(m) == DeliverSsw(m) \/ DeliverLedger(m) \/ NoteLedger(m) \/ TimerFires(m)

Environment ==
  CreateSsw \/ EditSsw \/ DeleteSsw \/ ChangeSecret \/ DeleteLedger \/ Tick

\* A ssw has just been applied, and the managers start.
Init ==
  /\ now = 0 /\ budget = Budget /\ secrets = InitSecrets
  /\ ssw = NewSsw(1) /\ cm = NoLedger(0)
  /\ cache = [m \in Managers |-> NoSsw(0)]
  /\ pend = [m \in Managers |-> {NewSsw(1)}]
  /\ cmCache = [m \in Managers |-> NoLedger(0)]
  /\ cmPend = [m \in Managers |-> {}]
  /\ cmNote = [m \in Managers |-> FALSE]
  /\ queued = [m \in Managers |-> FALSE]
  /\ timer = [m \in Managers |-> Never]
  /\ pc = [m \in Managers |-> "idle"]
  /\ obj = [m \in Managers |-> NoSsw(0)]
  /\ base = [m \in Managers |-> 0]
  /\ notices = <<>>

Next ==
  \/ \E m \in Managers : Reconcile(m) \/ Informers(m) \/ Crash(m)
  \/ Environment

Spec == Init /\ [][Next]_vars

\* A manager that runs keeps working, delivering and firing its timers; the
\* garbage collector and the clock go on.  Users and faults promise nothing.
Fairness ==
  /\ \A m \in Managers :
       /\ WF_vars(Reconcile(m))
       /\ WF_vars(DeliverSsw(m)) /\ WF_vars(DeliverLedger(m))
       /\ WF_vars(NoteLedger(m)) /\ WF_vars(TimerFires(m))
  /\ WF_vars(DeleteLedger /\ ~OwnerLives)
  /\ WF_vars(Tick)

FairSpec == Spec /\ Fairness

-----------------------------------------------------------------------------
(* Properties.                                                             *)

\* The clock's values, the copies and the queue entries are what the code
\* keeps, and no annotation is from the future: a check that stamped one
\* would silence the days until then (lines 635 and 722).
TypeOK ==
  /\ now \in 0..MaxTime /\ budget \in 0..Budget /\ secrets \in Nat
  /\ ssw \in Ssws /\ cm \in Ledgers
  /\ cache \in [Managers -> Ssws] /\ pend \in [Managers -> SUBSET Ssws]
  /\ cmCache \in [Managers -> Ledgers] /\ cmPend \in [Managers -> SUBSET Ledgers]
  /\ cmNote \in [Managers -> BOOLEAN] /\ queued \in [Managers -> BOOLEAN]
  /\ timer \in [Managers -> 0..Never] /\ pc \in [Managers -> Labels]
  /\ obj \in [Managers -> Ssws] /\ base \in [Managers -> Nat]
  /\ notices \in Seq(Nat)
  /\ ssw.last <= now

\* Two claims of the same ssw are a day apart, whatever the managers race on:
\* the test at line 635 is made on a copy that may be long stale.
ClaimsSpaced ==
  [][ssw.exists /\ ssw'.exists /\ ssw'.last # ssw.last
       => ssw'.last >= ssw.last + Day]_vars

\* Slack gets at most one message for a claim: the claim precedes the message,
\* and no error, retry, crash or second manager repeats it (lines 639 to 669).
NoticePerClaim ==
  \A i, j \in DOMAIN notices : notices[i] = notices[j] => i = j

\* What the two rest on: no version is newer than the store's, and a copy of
\* the stored version tells the last claim.
Known(o, stored) == o.rv <= stored.rv /\ (o.rv = stored.rv => o.last = stored.last)

CopiesKnown ==
  /\ ssw.rv > 0
  /\ \A m \in Managers :
       /\ Known(cache[m], ssw) /\ Known(obj[m], ssw)
       /\ \A o \in pend[m] : Known(o, ssw)

\* Between its claim and its message a worker's copy is the claim's version:
\* not yet told to Slack, and not another worker's.
Claiming(m) == pc[m] \in {"window", "notify"}

ClaimsUnsent ==
  /\ \A i \in DOMAIN notices : notices[i] <= ssw.rv
  /\ \A m \in Managers : Claiming(m) =>
       /\ \A i \in DOMAIN notices : notices[i] # obj[m].rv
       /\ \A n \in Managers : Claiming(n) /\ n # m => obj[n].rv # obj[m].rv

\* The inductive invariant of the proofs (lines 635, 722, 725 and 663): claims
\* are made on known copies, and each is the worker's own.
Inductive == TypeOK /\ CopiesKnown /\ ClaimsUnsent /\ NoticePerClaim

\* What an accepted write rests on (lines 213, 242, 291 and 725): a cache gets
\* every version in order, a cached version of the store's number is the stored
\* one, and a worker's copy of that number lacks no finalizer.
CachesTrail ==
  /\ ssw.deleting => ssw.fin
  /\ \A m \in Managers :
       /\ cache[m] = ssw \/ ssw \in pend[m]
       /\ \A o \in pend[m] : cache[m].rv <= o.rv
       /\ \A o \in pend[m] \cup {cache[m]} : o.rv = ssw.rv => o = ssw
       /\ obj[m].rv = ssw.rv /\ ssw.fin => obj[m].fin

\* A checked ssw has its finalizer, although Reconcile ignores the errors of
\* addFinalizer (line 120) and works on after them.  For one manager: with two,
\* the refetch of removeFinalizer can meet a recreated ssw of the other.
ClaimedHasFinalizer == ssw.exists /\ ssw.last # Epoch => ssw.fin

\* A ssw that has got its finalizer keeps it until it is deleted, although
\* removeFinalizer refetches and strips whatever it finds (line 206).
FinalizerKept ==
  [][ssw.exists /\ ssw'.exists /\ ssw.fin => ssw'.fin]_vars

\* The inductive invariant of the two before (lines 111 to 120 and 203 to 245).
\* A copy that can still be written has got the finalizer by the time the ledger
\* is looked at; a version being deleted is only met, in the cache or by a worker,
\* before the ssw that replaces it has its finalizer.
Stripping(m) == pc[m] = "unfinal" \/ (pc[m] = "started" /\ obj[m].deleting)

PastFinalizer(m) ==
  pc[m] \in {"finalCond", "ledger", "cmCond", "list", "hash", "store", "complete",
            "daily"}

FinalizerKnown(m) ==
  /\ pc[m] \in {"started", "final"} /\ obj[m].rv = ssw.rv => cache[m] = ssw
  /\ PastFinalizer(m) /\ obj[m].rv = ssw.rv /\ ssw.exists => obj[m].fin
  /\ ssw.fin \/ obj[m].rv = ssw.rv =>
       \A o \in pend[m] \cup {cache[m]} : o.deleting => ssw.deleting
  /\ Stripping(m) /\ ssw.fin => ssw.deleting

FinalizerInductive ==
  CachesTrail /\ ClaimedHasFinalizer /\ \A m \in Managers : FinalizerKnown(m)

\* The loop implements the daily claim: a worker between its claim and its
\* message holds the one claim that is open, whatever it and the others read
\* from their caches (lines 635 to 669).
Abstract ==
  INSTANCE DailyClaim WITH
    exists <- ssw.exists, last <- ssw.last, version <- ssw.rv,
    open <- {obj[m].rv : m \in {n \in Managers : Claiming(n)}},
    announced <- notices

ImplementsDailyClaim == Abstract!Spec

\* Something will look at the ssw again.
Awaited(m) ==
  queued[m] \/ timer[m] # Never \/ pc[m] # "idle" \/ pend[m] # {} \/ cmNote[m]

\* A run that ends, however it fails, leaves a requeue behind; except the run
\* that removed a finalizer and the one whose hash store failed (line 175).
RunLeavesWakeup ==
  [][\A m \in Managers :
       pc[m] \notin {"idle", "unfinal", "store"} /\ pc'[m] = "idle" /\ ssw.exists
         => Awaited(m)']_vars

\* Undisturbed, a check in the window finds data in the ledger although it
\* reads a cache that trails what the same run has stored: had the cache
\* trailed, the store would have been refused and the run ended (line 175),
\* and the run that first stores cannot claim, its copy being outdated by its
\* own conditions (line 725).
CheckHasData ==
  [][\A m \in Managers :
       pc[m] = "window" /\ pc'[m] = "idle" /\ budget' = Budget => ~InWindow]_vars

\* Undisturbed, the days are claimed one after the other, whatever the window:
\* the first at the latest at the resync, for a refused store forgets the ssw
\* until then (line 175), each later one within a poll of its day (line 193).
\* And what is claimed within the window is announced (lines 640 to 669).
CheckedDaily ==
  ssw.exists /\ ~ssw.deleting /\ budget = Budget /\ Quiet =>
    IF ssw.last = Epoch
      THEN now < Resync
      ELSE /\ now - ssw.last < Day + Poll
           /\ ssw.last % Day \in Window => notices # <<>>

\* A ssw that is being deleted goes away: its finalizer is removed in spite of
\* conflicts, faults and restarts.
DeletionCompletes == ssw.deleting ~> ~ssw.deleting

\* The controllers come to rest: no error path feeds itself for ever.
Quiesces ==
  <>[](\A m \in Managers : pc[m] = "idle" /\ ~queued[m])

-----------------------------------------------------------------------------
(* Properties that comments of the code promise and the code does not keep. *)

\* A manager never forgets a live ssw: "RefreshInterval is the amount of time
\* after which the Reconciler would watch the cluster" (types, line 76).
NeverForgotten ==
  ssw.exists /\ ~ssw.deleting => \A m \in Managers : Awaited(m)

\* Undisturbed, a ssw has had a message in Slack after two days: a check
\* outside the window "will run on the next schedule" (line 706), and one
\* inside performs "the daily secret status updates" (line 622).
ServedInTwoDays ==
  /\ ssw.exists /\ ~ssw.deleting
  /\ budget = Budget /\ Quiet /\ now >= 2 * Day
  => notices # <<>>

\* "Fetch the latest version to avoid update conflicts" (line 671): undisturbed,
\* the report follows the message into the status.
ReportFollowsNotice ==
  [][\A m \in Managers :
       pc[m] = "report" /\ pc'[m] = "idle" /\ budget' = Budget
         => ssw'.report = base[m]]_vars

=============================================================================
