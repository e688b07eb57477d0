# Stale secrets watch: specifications and proofs

StaleSecretWatch is a Kubernetes operator. It keeps a ledger of the hashes of
secrets in a ConfigMap, and once a day reports to Slack, and in the status of a
`StaleSecretWatch` object (short: *ssw*), which of them have not been modified for
a number of days. This directory holds TLA+ modules of its control flow, the TLC
configurations that check them and TLAPS proofs about them.

In what follows `ctl` is `internal/controller/stalesecretwatch_controller.go`, and
paths are relative to the root of the repository.

## 1. Inventory

| Component | State it keeps | Operations | Interacts with |
|---|---|---|---|
| Reconcile loop (`ctl` 85-316, 376-399) | finalizer and conditions of the ssw; existence of the ledger; the worker's copy of the ssw | `Reconcile`, `addFinalizer`, `removeFinalizer`, `updateStatusCondition`, `configMapForStaleSecretWatch` | reads through informer caches, writes to the API server with optimistic concurrency; calls all that follows |
| Informers and work queue (`ctl` 256-285) | caches, queue, delaying queue | ssw events, ConfigMap events (metadata only), Secret events to every ssw | start runs of the loop |
| Watch list (`ctl` 557-620, `utils.go` 48-56) | none | `prepareWatchList`, `Contains` | lists namespaces and secrets |
| Hash ledger (`ctl` 402-554, `configmap_structure.go`) | the ConfigMap's JSON: namespaces, secrets, histories | `calculateAndStoreHashedSecrets`, `updateOrAppendSecretData`, `addSecretData`, `createOrUpdateConfigMap` | reads secrets one by one; reads the ledger twice, writes it once |
| Daily check (`ctl` 623-731) | the `lastChecked` annotation; `status.secretStatus` | `performDailyChecks`, `updateLastCheckedAnnotation` | ledger, Slack, status of the ssw |
| Staleness rule (`ctl` 319-361, `utils.go` 31-37, 58-75, 88-90) | none | `updateSecretStatuses`, `RetrieveModifiedTime`, `CalculateHash` | ledger entries, clock |
| Slack notification (`slack.go`) | none | `NotifySlack`, `sendSlackNotification` | one HTTP call |
| Admission (`api/v1beta1/stalesecretwatch_webhook.go`, CRD schema) | none | `Default`, `ValidateCreate`, `ValidateUpdate` | decides which specs the loop sees |
| Several ssws (`ctl` 124, 395, 529) | one ConfigMap for all of them, owned by its creator | - | garbage collector |
| Manager (`cmd/main.go`) | processes; leader election, off by default | start, stop | runs one worker per process |
| Cluster name, generated deep copies, manifests | none | - | - |

What is hard in it:

- *Stale reads.* Every `Get` is answered by a cache that trails the API server by
  any number of versions, per type and per process. The event that starts a run
  may come from another informer than the data the run reads (`ctl` 282).
- *Conflicts.* An update is refused unless it was made from the stored version.
  The daily check relies on that alone to be done once.
- *Interleaving.* Two managers, users, the garbage collector and changes of the
  secrets run between any two calls of a worker.
- *Partial failure.* Each call may fail, or succeed and lose its answer; the
  process may restart. Errors are sometimes returned, sometimes ignored (`ctl` 120),
  and once swallowed by a mix-up of two variables (`ctl` 175).
- *Time.* Requeue after 10 minutes or 24 hours, a retry that replaces either, an
  informer resync after 10 hours, a window of hours in which checks are made.

What makes each component correct: claims of a day are a day apart; a claim is
announced at most once; every run leaves a cause for another one; deletion
completes; an object that was checked has its finalizer; a check sees data; the
ledger has one list per namespace, one entry per secret, no hash twice; the ledger
loses nothing that was not read stale; it converges to the present state of the
secrets; the watch list is the documented one; a report tells exactly which of the
watched secrets are stale; the ledger serves all ssws that share it. Where the code does not keep what its comments say, section 5 says so.

## 2. Modules

| Module | Models | Notes |
|---|---|---|
| `Reconciler` | reconcile loop, daily check, informers, queue, restarts, users, clock | the component's module; the ledger's content is abstracted to the version of the secrets it was made from |
| `MCReconciler` | - | symmetry, and starts with an ssw that was reconciled before, or is being deleted |
| `DailyClaim` | - | abstract specification of the daily check, which `Reconciler` implements |
| `ReconcilerProofs` | - | theorems about `Reconciler`: types, claims and messages |
| `ReconcilerCaches` | - | theorem: caches trail the store in order; what each step may store |
| `ReconcilerRefinement` | - | theorems: the loop implements `DailyClaim`; a run leaves a wakeup |
| `ReconcilerFinalizer` | - | theorems: the finalizer, for one manager |
| `ReconcilerUndisturbed` | - | theorems: what holds while no user, fault or restart disturbs the managers |
| `ConfigData` | data of the ledger and the operations on it, `CalculateHash` | pure operators |
| `HashLedger` | a run: list the secrets, read the ledger, hash each secret, read the ledger again, write | content in full, over lagging caches of secrets and of the ledger; the ledger always exists |
| `MCHashLedger` | - | two contents for secrets of two keys; starts with a new or a full ledger |
| `ConfigDataProofs` | - | theorems about the operators of `ConfigData` |
| `HashLedgerProofs` | - | theorems about `HashLedger` |
| `StaleRule` | threshold, age and modification time | pure operators, in the arithmetic of `time.Duration` |
| `WatchList` | `prepareWatchList`, `Contains`; `Monitored`, what the comments of the types describe | pure operators |
| `Admission` | patterns and default of the CRD schema, the validating webhook | pure operators |
| `Reports` | several ssws on one ledger: admission, watch list, ledger, report, garbage collection | composes the four above |
| `MCReports` | - | the specs that users submit |
| `ReportsProofs` | - | theorems about `Reports` and the operators it composes |

`Reconciler`, `HashLedger` and `Reports` look at the same code from three sides. In
the first a whole hashing run is two actions and its result a number, over stale
caches and faults; in the second these two actions are taken apart and the rest of
the loop is gone; in the third the contents of specs, secrets and reports matter, and
several ssws, while caches are current. Definitions named
*Variant* are deliberately broken forms of the definition after them (a dropped
guard, a lost delay, a retry too many); nothing uses them, and putting one in the
place of its original shows that a property notices.

### Reconciler

One action is the code between two calls that others can be interleaved with.

| Action | Code |
|---|---|
| `Fetch`, `Started` | `ctl` 91-117: take from the queue, `Get`, first condition |
| `RemoveFinalizer` | 197-229, with the refetch |
| `AddFinalizer`, `FinalizerCondition` | 232-253; results ignored at 120 |
| `EnsureConfigMap`, `ConfigMapCondition` | 122-148; creation ends the run with `Requeue: true` |
| `PrepareWatchList` | 150-160, 557-620 |
| `CalculateHashes`, `StoreHashes` | 162-176, 402-465, 531-554 |
| `CompleteCondition` | 178-181 |
| `ClaimDay` | 625-642, 716-731 |
| `ReadLedger`, `NotifySlack`, `WriteReport` | 644-697, `slack.go` |
| `DeliverSsw`, `DeliverLedger`, `NoteLedger`, `TimerFires` | informers and delaying queue (280-283) |
| `Crash` | restart: queue and copies lost, informers list afresh |
| `CreateSsw`, `EditSsw`, `DeleteSsw`, `ChangeSecret`, `DeleteLedger`, `Tick` | users, garbage collector, clock |

- `ssw`, `cm` are the stored versions; `cache`, `cmCache` what a manager's
  informers know; `pend`, `cmPend` versions still to be delivered, in order;
  `cmNote` the metadata-only informer, which queues but does not feed the cache.
- A write `Succeeds`, or `Fails` in one of three ways: refused because the copy is
  not the stored version, lost, or stored with a lost answer. The two last use up
  `budget`, as do crashes and user edits. A write that changes nothing stores nothing.
- An update of the main resource leaves the status alone and the other way round;
  an object in deletion goes away with its finalizer.
- Retries of a conflict that refetch from the cache are the same step taken later;
  the retry of `WriteReport` sends the same object and so cannot succeed.
- `timer` holds the one entry of the delaying queue, the earlier of two; an error
  replaces it by an immediate retry (the back-off is a matter of milliseconds).
- Secrets are one version number; the secret informer is immediate, which a worker
  cannot tell from a change that comes later. What a lagging one does to the
  ledger is `HashLedger`'s part.
- `notices` is a history: the claims for which a message reached Slack.

### ConfigData and HashLedger

The actions of `HashLedger` are `Start` (`ctl` 150-160, the watch list), `ReadLedger`
(402-416), `HashSecret` and `SecretGone` (420-441, 422-426), `StoreConfig` (531-554),
the deliveries of the two informers, and the users' changes. `known[m]` is what the
informer of secrets has told a manager, which lists and reads secrets there
(`ctl` 523, 580), `news[m]` what it has still to tell; it trails independently of the
informer of ConfigMaps. `had[s]` is a history: the contents a secret has had. The
`excludeList` is read as it is stored when the list is made: a manager that still has
the older spec behaves as if the edit came later.

The ledger is a sequence of namespaces with sequences of entries, as in the JSON;
times are counters of modifications. A digest tells any two inputs apart, so
`HashesOf` is the sequence of bytes that `CalculateHash` writes to it, the values in
the order of their sorted keys. `pend[m]` holds the
versions not delivered to a cache, so a write is accepted exactly when it is
empty (`UpToDate`): resource versions need no number here. `fresh[m]` notes that the
first read (line 406) was of the version stored now. JSON encoding is the identity
on this data and left out.

### DailyClaim

A watch is claimed, at most once in `Day` ticks; a claim is announced once or never.
Under the mapping in `Reconciler` a claim is the version of the ssw that it makes,
and the claims that are open are the copies that workers hold between claim and
message. A write that is stored with its answer lost is a claim open to nobody.

### StaleRule, WatchList, Admission and Reports

- A text that may hold a list is the sequence of its items, each with its name and
  whether white space precedes it: what splitting, trimming and the patterns
  of the CRD tell apart.
- `Monitored` is written from the comments of `stalesecretwatch_types.go` (25, 28,
  37) and `PrepareWatchList` from the code. The comments also promise a list of
  namespaces (25), which the pattern below them (26) refuses, and an interval of zero
  (78), which the webhook refuses (122): these are among the submissions of
  `MCReports` that `Admission` turns down, so the loop never sees them (section 5). The interval,
  once admitted, is read by nobody.
- A secret has the set of its `managedFields` entries, and beside it the true times of
  its last write and of its last change of data, which the code cannot see.
- `Fetch`, `CreateLedger`, `ListSecrets`, `RecordSecrets`, `ClaimDay`, `PublishReport`
  are the run of a worker (`ctl` 91-194); `ListFails`, `RecordFails`, `NoClaim` and
  `NoReport` its early ends. Conflicts, faults, the hours and the finalizer are
  `Reconciler`'s: here a step that they may prevent may just end the run.
- The ledger carries the uid of its creator; `CollectLedger` takes it when that is
  gone, as the owner reference of line 395 asks for.

## 3. Runs

Behaviour that must hold:

| Run | Question | Bounds |
|---|---|---|
| `reconcile_one` | safety of the loop from the first apply on; it implements `DailyClaim`; the inductive invariant of the finalizer | one manager, a day of 2 ticks, 3 clock values, clock free, 2 disturbances |
| `reconcile_two` | race of two managers for the claim, as a refinement; the inductive invariant | 2 managers, 5 clock values (two whole days), no disturbance |
| `reconcile_live` | deletion completes, no path feeds itself, the daily check comes, and with data | 1 manager, 1 disturbance, a day of 4 ticks of which 2 are the window, a poll of 1, a resync of 3, two days |
| `ledger` | races and batches: the ledger's lists, histories and convergence; the inductive invariant | 2 managers, 2 secrets of one name in 2 namespaces with 2 keys, 2 contents, 1 change, caches of the ledger 1 version and of the secrets 1 change behind |
| `reports` | several ssws on one ledger, from the admission to the report | 2 ssws, 2 namespaces, 2 secrets, one skipped type, 2 good and 5 refused submissions, 3 clock values, 1 change by users from any initial cluster |

Why these bounds are enough to be of interest. Two disturbances make an update
lost *and* a user's edit, a deletion *and* a crash, a recreation after a deletion.
A day of two ticks with a window of one gives all orders of claim, window and
requeue; the theorems of section 6 lift the safety part to any day, clock and
number of disturbances. Two managers are
the least that race; faults are left to `reconcile_one`, and to the proofs, which
allow both in any number. `reconcile_two` starts from an object that was set up
before, because the setup is covered by `reconcile_one`; `reconcile_live` starts from
a new, a settled or a just deleted object, so that its one disturbance is left for
the middle of what must complete.

In `reconcile_live` the day is longer than the poll and the resync, and the window is
a part of it, as in the code: the first claim comes with the resync after a refused
store, the later ones with a poll, in the window or outside it.

Two namespaces with a secret of the same name are what the lookup of an entry has to
tell apart, and two keys are the least whose order matters. `MaxLag` bounds what a
cache of the ledger may trail by; one version is enough for a first read of the old
ledger and a second of the new. `Budget` bounds the changes of secrets and so what
their caches trail by: one is enough for a manager to record what another has already
seen overwritten. `MCHashLedger` starts with a new ledger and all secrets but one
excluded, so that the managers race for the first entry, and the one change may bring
the other secret in; or with a ledger that has all of them, so that the change meets
batches. All changes on top of a race for two new entries are beyond TLC in five
minutes, and left to the proofs. The initial states of `reports` are all clusters of up to two ssws
with any admissible spec and secrets of any type, so one change by a user meets runs
of both ssws in any state: the owner of the ledger is deleted under the other's run,
a secret under the batch that lists it. A threshold of one day and three clock values
give an age below, at and above it. `MaxDuration` stands for the 106751 days of a
`Duration`; submissions beyond it are not among those of the run (see section 7).

Deadlock checking is off: the clock stops at `MaxTime`, and the controllers are
meant to come to rest.

### Fairness

`Fairness` of `Reconciler` asks weak fairness of: a worker (a goroutine that is
always scheduled), each delivery (a watch that is re-established when it breaks),
a timer that is due, the garbage collector for a ledger without owner, and the
clock. A worker with a queued object can always take a step, so weak fairness is
enough. Users, faults and crashes promise nothing, and there are finitely many of them.
It excludes a call to Slack that never returns: the client has no
timeout (`slack.go` 235), and such a call would stop the only worker.
`HashLedger` asks the same of its workers and of both informers. In `Reports` a run goes on
by weak fairness and an ssw's turn to be fetched needs strong fairness, since the
worker is busy again and again: the work queue is first in, first out, and the resync
of the informers (ten hours) enqueues every ssw however its last run ended.
`Prompt = TRUE` lets the clock wait until the controllers have no work; ticks are
minutes to hours, and a run takes seconds. The safety runs of the races do not use it.

## 4. Properties

- `TypeOK` (`Reconciler`): types, and no annotation from the future.
- `ClaimsSpaced`: two claims of an ssw are at least a day apart.
- `NoticePerClaim`: one message per claim at most.
- `ImplementsDailyClaim`: every step of the loop is one of `DailyClaim` or leaves its
  state alone. It says more than the two before: a message is of a claim that its
  sender made, holds, and gives up with it.
- `Inductive`: the invariant of the proofs, `TypeOK`, `CopiesKnown`, `ClaimsUnsent`
  and `NoticePerClaim`.
- `CachesTrail`: a cache has the stored version or it is on its way, versions come in
  order, and one of the stored number is the stored one (within `FinalizerInductive`).
- `FinalizerInductive`: the invariant of the finalizer's proofs, see section 6.
- `ClaimedHasFinalizer`: a claimed ssw has its finalizer (one manager).
- `FinalizerKept`: a finalizer stays until the ssw is gone, refetches and stale
  deletions notwithstanding (one manager).
- `RunLeavesWakeup`: a run that ends leaves a timer, a queue entry or an event,
  except after a removed finalizer and a failed store.
- `DeletionCompletes`, `Quiesces`: see the table above.
- `CheckedDaily`: as long as nothing disturbs the managers, the days of an ssw are
  claimed one after the other, whatever the window: the first before the informers'
  first resync, each later one within a poll of its day; and as soon as a claim has
  been made in the window there is a message. (`ServedInTwoDays`, which asks for a
  message whenever the checks fall, is false: section 5.)
- `CheckHasData`: an undisturbed check in the window never finds an empty ledger. This
  rests on two accidents: a store from a trailing cache is refused and ends the run, and the
  run that first stores cannot claim, its copy being outdated by its own conditions.
- `LedgerWellFormed`, `HistoryBounded`, `SameReadKeepsHistory`, `Converges`: the
  ledger's lists; a history has no more hashes than its secret has had contents; what
  a run may not lose; and that the ledger catches up with the secrets.
- `LedgerInductive`: every version there is, stored, cached, on its way or being made,
  is well formed and has no hash of what the secret never held, and a run whose
  first read was of the stored one extends it.
- `TypeOK` (`Reports`): types, and that a stored spec passes the webhook again, which
  looks at the controller's own updates too.
- `WatchedAsDocumented`: the watch list is `Monitored`, for all admitted specs.
- `ReportExact`: of the watched secrets a report names exactly those not written for
  longer than the threshold, if they are written by updates (`false_alarm` is about
  the others).
- `EventuallyRecorded`: when users are done, the ledger has every monitored secret of
  every ssw with its time, whoever owned the ledger before.
- `LedgerCollected`: with the last ssw the ledger goes, even one made too late.

## 5. Where the code does not keep its word

| Run | What it shows |
|---|---|
| `forgotten` | `ctl` 175 returns `err`, which is nil, for `herr`: after a refused store nothing is requeued, until the informers resync. No fault is needed: a run that reads the ledger before its own last write has come back is refused. |
| `outside_window` | The day is claimed before the hour is looked at. An ssw applied in the evening is claimed every evening and not checked, against "will run on the next schedule" (706). |
| `nothing_watched` | Without a secret to watch the ledger stays without data and its decoding fails; the message that all is up to date is never sent. |
| `report_lost` | The refetch "to avoid update conflicts" (671) is from a cache that need not have the run's own claim; the status update is refused, and so is each retry, which sends the same object. The message is out, the status is of the day before. |
| `history_lost` | Data made from one version of the ledger is written over a later one: the two reads at 406 and 533. |
| `false_alarm` | `utils.go` 33 takes the last entry of `managedFields` for the latest. The API server sorts those of server-side applies before those of updates: a secret applied a moment ago is reported by the time of an older update, as one whose "secret data has not been modified" (`slack.go` 93). |
| `foreign_reported` | `updateSecretStatuses` (329) goes over the ledger that all ssws share: an ssw reports secrets of other namespaces and those it excludes (`stalesecretwatch_types.go` 28, 44). |

One more, which has no run of its own: the branch "does not exist, create it" (`ctl`
535) sends an object with a resource version, which the API server always refuses;
`StoreHashes` has no outcome in which it succeeds. And two comments of
`stalesecretwatch_types.go` promise what the admission refuses: a list of namespaces
(25, refused by the pattern in 26) and an interval of zero (78, refused by the webhook
in 122); both are among the refused submissions of the run `reports`.

Each of these runs checks one property, without any user edit or fault where the
bound `Budget` is 0, and TLC finds a behaviour that violates it.

## 6. Proofs

Every safety property that a passing run checks is also a theorem: for any set of
managers, secrets, namespaces or ssws, any day, clock and number of disturbances that
satisfy the named assumptions of the modules. The assumptions that single theorems
add to those are in the table.

| Theorem | States | Assumes besides |
|---|---|---|
| `ReconcilerProofs!InductiveHolds` | `Spec => []Inductive` | |
| `ReconcilerProofs!TypeCorrect` | `Spec => []TypeOK` | |
| `ReconcilerProofs!OneNoticePerClaim` | `Spec => []NoticePerClaim` | |
| `ReconcilerProofs!ClaimsAreSpaced` | `Spec => ClaimsSpaced` | |
| `ReconcilerCaches!CachesTrailHolds` | `Spec => []CachesTrail` | |
| `ReconcilerRefinement!DailyClaimImplemented` | `Spec => ImplementsDailyClaim` | |
| `ReconcilerRefinement!WakeupIsLeft` | `Spec => RunLeavesWakeup` | |
| `ReconcilerFinalizer!FinalizerInductiveHolds` | `Spec => []FinalizerInductive` | one manager |
| `ReconcilerFinalizer!CheckedHasFinalizer` | `Spec => []ClaimedHasFinalizer` | one manager |
| `ReconcilerFinalizer!FinalizerIsKept` | `Spec => FinalizerKept` | one manager |
| `ReconcilerUndisturbed!CheckFindsData` | `Spec => CheckHasData` | there are secrets to watch |
| `ReconcilerUndisturbed!DaysAreClaimed` | `Spec => []CheckedDaily` | the same, at least one manager, `Prompt` |
| `ConfigDataProofs!HashIsFunction` | `CalculateHash` sees the map, not an order of its keys | |
| `ConfigDataProofs!RecordedIsWell` | `Recorded` keeps the ledger well formed and touches one entry | |
| `HashLedgerProofs!LedgerInductiveHolds` | `Spec => []LedgerInductive` | |
| `HashLedgerProofs!LedgerStaysWellFormed` | `Spec => []LedgerWellFormed` | |
| `HashLedgerProofs!HistoryStaysBounded` | `Spec => []HistoryBounded` | |
| `HashLedgerProofs!SameReadKeeps` | `Spec => SameReadKeepsHistory` | |
| `ReportsProofs!TypeCorrect` | `Spec => []TypeOK` | |
| `ReportsProofs!ListIsDocumented` | `Spec => WatchedAsDocumented` | |
| `ReportsProofs!BatchRecorded` | a batch records every listed secret with its time | secrets are written by updates |
| `ReportsProofs!ReportIsExact` | `Spec => ReportExact` | the same |

*One manager.* With two, the refetch of `removeFinalizer` (`ctl` 206) in one can meet
the ssw that a user has made anew and the other has given its finalizer, and strip it:
`ClaimedHasFinalizer` and `FinalizerKept` are false then. *Updates.* `false_alarm` shows
what server-side applies do to the time of a secret. *Secrets to
watch:* `nothing_watched` shows that there is no message without. *`Prompt`* says that
the clock waits for the controllers, without which nothing is in time.
The theorems about `Reconciler` are about `Spec`, which starts from a new ssw; the
other starts of `MCReconciler` are left to its runs. Those of `MCHashLedger` are reached
from `Init` of `HashLedger`, by users and by a run that nothing disturbs.

### Claims (`ReconcilerProofs`)

`NoticePerClaim` is not inductive: a worker between claim and message might hold a
copy that was announced already, or the same as another worker's. `ClaimsUnsent`
excludes both: a copy held there is the version the claim's own update stored. And a
claim is a day after the last only because an accepted update was made from a copy
that tells the last claim: `CopiesKnown` says that every cached, undelivered or held
copy is not newer than the store, and one of the stored version has the stored
annotation. The argument of a step has four parts, the conjuncts of `Summary`: the
store grows by one version at most (`Grows`), the claim is old, none or a day later
(`Claimed`), copies come from where copies may come from (`CopiesFollow`), and claims
change hands in one of three ways (`ClaimStep`). One lemma per action shows
`TypeOK'` and `Summary`; `KnownKept` and `ClaimsKept` derive the rest of the invariant.

### Caches and refinement (`ReconcilerCaches`, `ReconcilerRefinement`)

`CopiesKnown` says too little of a copy of the stored number: only its annotation is
the store's. `CachesTrail` says that it *is* the stored version, for which it needs
that caches get all versions in order, and that a ssw in deletion has its finalizer
still. What the steps may store is collected in the lemmas `...Stored`: nothing, a
revision, a claim made now, a removed or replaced object. With them each step of the
loop is mapped to `DailyClaim`: a claim opens when `ClaimDay` stores its copy, is
announced by a delivered message, and lapses at any other step out of the two labels;
all else is a stutter or a change of the object. `WakeupIsLeft` goes over the ends of
a run.

### Finalizer (`ReconcilerFinalizer`)

`Reconcile` ignores the errors of `addFinalizer`, so a run may go on without
a finalizer; and `removeFinalizer` strips what it refetches, not what it saw. Four
facts of a worker (`FinalizerKnown`) show that neither does harm: up to the first
condition a copy of the stored number is the cached one; past the finalizer a copy
that can still be written has got it, if the ssw exists; once the stored ssw has its
finalizer, or the worker a current copy, a version being deleted is known only if the
stored one is being deleted; and a worker that is about to strip a ssw that has
its finalizer strips one being deleted.

### Undisturbed managers (`ReconcilerUndisturbed`)

The budget is never raised, so what is undisturbed has been so from the start:
invariants have the form `budget = Budget => ...`. `Undisturbed` says that the ledger's
number tells its content (none, created, filled), that it is filled once the ssw says
`ReconcileComplete`, and that a worker at the daily check is not `Blind`: it either
has the filled ledger in its cache or a copy that will be refused. The second holds of
the run that first fills the ledger, since its own last condition is a new one and
outdates its copy: this is the accident named in section 4, and the reason for the
clause about conditions. `Serving` adds why the days are claimed,
for any window of the day. Before the first claim somebody has a cause to look
(`Waiting`), or the ledger is filled and the resync is still to come (`Pending`); the
second is left by a refused store (`ctl` 175), which can only happen before the clock
first moves, because by then every cache has the filled ledger (`Filled`). After a
claim some manager with the filled ledger either has such a cause or a timer that ends
before the next day is late by a poll (`Serves`): every end of a run but the failed
store leaves one, also those of a claim that is refused or made outside the window. A
claim made in the window has its message or a worker that is about to send it
(`Announced`), which then finds data in the ledger, by `Undisturbed`.

### Ledger (`ConfigDataProofs`, `HashLedgerProofs`)

`HashesOf` is a set of byte sequences, one for each ascending order of the keys.
That there is one order is an argument by cardinality, since induction over data is
not available: the position of a key is the number of keys not above it.
`Recorded` is taken apart by where the entry is found: in a list, not in a list,
or without a list of its namespace.

`LedgerWellFormed` is about the stored version and is not inductive, as any version a
manager has or makes may be stored later. `LedgerInductive` is about all of them
(`Versions`). That a history is no longer than its secret has had contents is not
inductive either, since an old content may be recorded late, from a cache: the
invariant says instead that each hash is of a content there was (`Genuine`), as is what
the caches of secrets tell (`Past`), and the bound follows by counting, since a content
has one hash (`HashIsFunction`) and a history none twice. It also says that the newest version on its way to a cache is the stored
one (`StoredIsLast`), so that what is accepted was made on top of it, and that a run
whose first read was current has lost nothing (`FreshExtends`), from which
`SameReadKeepsHistory` follows.

### Reports (`ReportsProofs`)

`TypeOK` of `Reports` includes that stored specs pass the webhook again, which needs
that the defaulter's result does (`DefaultedSpec`), and bounds on uids, for which
the invariant names a set that they all come from. `WatchListIsDocumented` is about
operators only: `PrepareWatchList` of an admitted spec is `Monitored`. For
`ReportIsExact`, the batch is a fold over the listed secrets. What a fold computes is
shown without induction: the function it is a choice of is unique and exists, as a
smallest subset on which it did not would have a smaller one (`MinimalSubset`,
which rests on the finiteness of `Secrets`). `KInv` adds that a secret's fields tell
the time of its last write (`SecretsKnown`), the ledger is well formed (`LedgerKnown`),
and between the batch and the report the listed secrets are in the ledger, if it is
still there, with the times they had when they were read (`ReadKnown`).
`StaleIsOlder` is the arithmetic: the rule is the comparison of whole days as long as
the threshold does not overflow.

### Model-checked only

Liveness: `DeletionCompletes`, `Quiesces`, `Converges`, `EventuallyRecorded` and
`LedgerCollected`, since fairness and ENABLED are beyond the proof system used here.
The properties of section 5, which are false. The starts of `MCReconciler` other
than a new ssw.

## 7. Not modelled

- The layout of the Slack message, events, logging, metrics, pprof and probes:
  output only. The cluster name is read from a file for the message.
- The lease protocol of leader election is external; the runs with two managers
  are the code without `--leader-elect`, and a superset of a slow hand-over.
- Malformed JSON in the ledger and an unparsable annotation: nothing in the program
  writes either.
- Generated deep copies and manifests have no behaviour of their own.
- A threshold of more than 106751 days: `Threshold` computes with the overflow, but
  nothing in the repository says what the result should be. Ages are never negative
  here; `Magnitude` is what the code makes of one that is.
- The size of the ledger, which the API server limits, and of a message, which Slack
  does; neither has a limit in the code.
- Lagging caches and faults together with several ssws: each half is modelled, their
  product is beyond what TLC can explore.

## 8. Plan

Done: the reconcile loop, the ledger, the abstract daily claim and its refinement,
watch list, staleness rule, admission, several ssws, and proofs of all safety
properties that passing runs check. Left:

1. The safety half of the liveness properties: that the ledger without an owner is
   not made twice, that a removed finalizer is not put back.
2. Lemmas on `Admission`: what the defaulter leaves the webhook admits, for updates
   and creations, stated as theorems of their own.
3. The theorems of `ReconcilerUndisturbed` from the settled start as well.
