------------------------------ MODULE Reports -------------------------------
(***************************************************************************)
(* Several StaleSecretWatches ("ssws") in one cluster: what users submit   *)
(* passes the admission, the worker of the manager takes one ssw after     *)
(* the other, prepares its watch list, records it in the one ledger that   *)
(* all of them share, and reports from the whole ledger what is stale.     *)
(* The ledger belongs to the ssw that created it and goes away with it.    *)
(*                                                                         *)
(* Caches are current here, a deletion waits for no finalizer, and a step  *)
(* may end a run where the hour, a conflict or Slack would: Reconciler is  *)
(* about those.  A batch of secrets is read and stored in one step:        *)
(* HashLedger takes it apart.                                              *)
(***************************************************************************)
EXTENDS ConfigData, StaleRule, Admission

CONSTANTS
  Ssws,          \* the names of the StaleSecretWatches
  Submissions,   \* the specs that users submit
  Types,         \* the types that secrets are created with
  Ops,           \* the operations by which users write secrets
  MaxTime,       \* bound: the clock stops here
  Budget         \* bound: what users do

ASSUME BoundAssumption == MaxTime \in Nat /\ Budget \in Nat
ASSUME SubmissionsAssumption == Submissions \subseteq StaleSecretWatchSpecs
ASSUME SecretsAssumption == IsFiniteSet(Secrets)
ASSUME OpsAssumption == Ops # {} /\ Ops \subseteq {"Apply", "Update"}

VARIABLES
  now,      \* the clock
  budget,   \* what is left of Budget
  secrets,  \* the secrets in the API server
  ssws,     \* ssws[w]: the ssw of name w in the API server
  ledger,   \* the ledger in the API server
  pc,       \* what the worker does next
  cur,      \* the ssw of the worker's run
  copy,     \* the worker's copy of it (staleSecretWatch)
  listed,   \* its watch list (secretsToWatch)
  read      \* history: the times of the listed secrets when they were hashed

objects == <<secrets, ssws, ledger>>
run == <<cur, copy, listed, read>>
vars == <<now, budget, objects, pc, run>>

Epoch == 0 - Day   \* a ssw without annotation is always due

(***************************************************************************)
(* "changed" is the time of the last change of a secret's data, "written"  *)
(* that of its last change at all; the code sees "fields" and "created".   *)
(***************************************************************************)
NoSecret == [exists |-> FALSE, type |-> "", created |-> 0, changed |-> 0,
             written |-> 0, fields |-> {}]

Secret(type, time, fields) ==
  [exists |-> TRUE, type |-> type, created |-> time, changed |-> time,
   written |-> time, fields |-> fields]

Written(op) == [op |-> op, time |-> now]

\* A writer gets an entry of its own; others may lose theirs with their fields.
Touched(secret, changed, kept, op) ==
  [secret EXCEPT !.changed = changed, !.written = now, !.fields = kept \cup {Written(op)}]

\* "report" stands for status.secretStatus.
NoSsw == [exists |-> FALSE, uid |-> 0, spec |-> <<>>, last |-> Epoch, report |-> {}]

NewSsw(uid, spec) ==
  [NoSsw EXCEPT !.exists = TRUE, !.uid = uid, !.spec = Defaulted(spec)]

NoLedger == [exists |-> FALSE, owner |-> 0, data |-> <<>>]

-----------------------------------------------------------------------------
(* The worker.                                                             *)

Goto(label) == pc' = label

\* The run is over, by an error, an early return or at its end.
Finish ==
  /\ pc' = "idle"
  /\ cur' = "" /\ copy' = NoSsw /\ listed' = {} /\ read' = <<>>

Fetch(w) ==
  /\ pc = "idle" /\ ssws[w].exists
  /\ Goto("ensure")
  /\ cur' = w /\ copy' = ssws[w]
  /\ UNCHANGED <<now, budget, objects, listed, read>>

\* Variant: the ledger has no owner.
OwnerNone(ssw) == 0

OwnerOf(ssw) == ssw.uid

\* A run that has to create the ledger does nothing else.
CreateLedger ==
  /\ pc = "ensure" /\ ~ledger.exists
  /\ ledger' = [NoLedger EXCEPT !.exists = TRUE, !.owner = OwnerOf(copy)]
  /\ Finish
  /\ UNCHANGED <<now, budget, secrets, ssws>>

ListSecrets ==
  /\ pc = "ensure" /\ ledger.exists /\ ssws[cur].exists
  /\ listed' = PrepareWatchList(copy.spec, Namespaces, secrets)
  /\ Goto("record")
  /\ UNCHANGED <<now, budget, objects, cur, copy, read>>

\* The condition that tells of the list has no ssw to go to.
ListFails ==
  /\ pc = "ensure" /\ ledger.exists /\ ~ssws[cur].exists
  /\ Finish
  /\ UNCHANGED <<now, budget, objects>>

RecordedOne(s, config) ==
  Recorded(config, s, secrets[s].changed, secrets[s].created,
           RetrieveModifiedTime(secrets[s].fields, secrets[s].created))

\* calculateAndStoreHashedSecrets: nothing is stored for an empty list.
RecordSecrets ==
  /\ pc = "record" /\ ledger.exists
  /\ \A s \in listed : secrets[s].exists
  /\ ledger' = [ledger EXCEPT !.data = FoldSet(RecordedOne, @, listed)]
  /\ read' = [s \in listed |-> [changed |-> secrets[s].changed,
                                written |-> secrets[s].written]]
  /\ Goto("check")
  /\ UNCHANGED <<now, budget, secrets, ssws, cur, copy, listed>>

\* One listed secret that is gone, or the ledger, fails the batch.
RecordFails ==
  /\ pc = "record"
  /\ ~ledger.exists \/ \E s \in listed : ~secrets[s].exists
  /\ Finish
  /\ UNCHANGED <<now, budget, objects>>

Due == now - copy.last >= Day

\* The annotation is written with the copy, and by way of the webhook.
ClaimDay ==
  /\ pc = "check"
  /\ Due /\ ssws[cur] = copy /\ Updatable(copy.spec)
  /\ ssws' = [ssws EXCEPT ![cur].last = now]
  /\ copy' = ssws'[cur]
  /\ Goto("report")
  /\ UNCHANGED <<now, budget, secrets, ledger, cur, listed, read>>

\* The day is claimed already, or the ssw has been written since it was
\* fetched: by a user, or by the run itself, with a status condition.
NoClaim ==
  /\ pc = "check"
  /\ Finish
  /\ UNCHANGED <<now, budget, objects>>

\* updateSecretStatuses: every entry of the ledger is looked at.
StaleSecrets ==
  {s \in RecordedSecrets(ledger.data) :
     IsStale(now - EntryOf(ledger.data, s).modified, copy.spec.staleThresholdInDays)}

\* A ledger that is empty cannot be decoded.
PublishReport ==
  /\ pc = "report"
  /\ ledger.exists /\ ledger.data # <<>> /\ ssws[cur].exists
  /\ ssws' = [ssws EXCEPT ![cur].report = StaleSecrets]
  /\ Finish
  /\ UNCHANGED <<now, budget, secrets, ledger>>

\* One of these is missing, Slack is, or it is not the time of the day.
NoReport ==
  /\ pc = "report"
  /\ Finish
  /\ UNCHANGED <<now, budget, objects>>

-----------------------------------------------------------------------------
(* Users, the garbage collector and the clock.                             *)

Disturb == budget > 0 /\ budget' = budget - 1

FreshUid == 1 + Max({ledger.owner, copy.uid} \cup {ssws[w].uid : w \in Ssws})

CreateSsw(w) ==
  /\ ~ssws[w].exists /\ Disturb
  /\ \E spec \in Submissions :
       /\ Creatable(spec)
       /\ ssws' = [ssws EXCEPT ![w] = NewSsw(FreshUid, spec)]
  /\ UNCHANGED <<now, secrets, ledger, pc, run>>

EditSsw(w) ==
  /\ ssws[w].exists /\ Disturb
  /\ \E spec \in Submissions :
       /\ Updatable(spec)
       /\ ssws' = [ssws EXCEPT ![w].spec = Defaulted(spec)]
  /\ UNCHANGED <<now, secrets, ledger, pc, run>>

DeleteSsw(w) ==
  /\ ssws[w].exists /\ Disturb
  /\ ssws' = [ssws EXCEPT ![w] = NoSsw]
  /\ UNCHANGED <<now, secrets, ledger, pc, run>>

\* A user creates, changes, labels or deletes a secret.
ChangeSecret(s) ==
  /\ Disturb
  /\ \/ /\ ~secrets[s].exists
        /\ \E type \in Types : \E op \in Ops :
             secrets' = [secrets EXCEPT ![s] = Secret(type, now, {Written(op)})]
     \/ /\ secrets[s].exists
        /\ \E changed \in {secrets[s].changed, now} :
             \E kept \in SUBSET secrets[s].fields : \E op \in Ops :
               secrets' = [secrets EXCEPT ![s] = Touched(@, changed, kept, op)]
     \/ /\ secrets[s].exists
        /\ secrets' = [secrets EXCEPT ![s] = NoSecret]
  /\ UNCHANGED <<now, ssws, ledger, pc, run>>

OwnerLives == \E w \in Ssws : ssws[w].exists /\ ssws[w].uid = ledger.owner

\* The garbage collector takes what names an owner that is gone.
CollectLedger ==
  /\ ledger.exists /\ ledger.owner # 0 /\ ~OwnerLives
  /\ ledger' = NoLedger
  /\ UNCHANGED <<now, budget, secrets, ssws, pc, run>>

DeleteLedger ==
  /\ ledger.exists /\ Disturb
  /\ ledger' = NoLedger
  /\ UNCHANGED <<now, secrets, ssws, pc, run>>

Tick ==
  /\ now < MaxTime /\ now' = now + 1
  /\ UNCHANGED <<budget, objects, pc, run>>

FirstUids == CHOOSE uid \in [Ssws -> 1..Cardinality(Ssws)] : IsInjective(uid)

\* Some ssws are there already, none of them reconciled; secrets from before
\* the API server kept managedFields have none.
Init ==
  /\ now = 0 /\ budget = Budget
  /\ secrets \in [Secrets -> {NoSecret} \cup {Secret(type, 0, {}) : type \in Types}]
  /\ \E specs \in [Ssws -> {<<>>} \cup {spec \in Submissions : Creatable(spec)}] :
       ssws = [w \in Ssws |-> IF specs[w] = <<>> THEN NoSsw
                                                ELSE NewSsw(FirstUids[w], specs[w])]
  /\ ledger = NoLedger
  /\ pc = "idle" /\ cur = "" /\ copy = NoSsw /\ listed = {} /\ read = <<>>

Work ==
  \/ CreateLedger \/ ListSecrets \/ ListFails \/ RecordSecrets \/ RecordFails
  \/ ClaimDay \/ NoClaim \/ PublishReport \/ NoReport

Users ==
  \/ \E w \in Ssws : CreateSsw(w) \/ EditSsw(w) \/ DeleteSsw(w)
  \/ \E s \in Secrets : ChangeSecret(s)
  \/ DeleteLedger

Next ==
  \/ \E w \in Ssws : Fetch(w)
  \/ Work \/ Users \/ CollectLedger \/ Tick

Spec == Init /\ [][Next]_vars

\* A run that has begun goes on.  However a run ends, the resync of the
\* informers enqueues every ssw again, and the work queue is first in, first
\* out: the turn of a ssw comes although the worker is mostly busy.
Fairness ==
  /\ WF_vars(Work) /\ WF_vars(CollectLedger)
  /\ \A w \in Ssws : SF_vars(Fetch(w))

FairSpec == Spec /\ Fairness

-----------------------------------------------------------------------------
(* Properties.                                                             *)

\* A stored spec is one that the controller can work with and that its own
\* updates, of the finalizer and the annotation, get past the webhook with:
\* else its claims would be refused for ever, and its deletion (lines 84 to 133
\* of the webhook; Update at lines 213, 242 and 725 of the controller).
TypeOK ==
  /\ now \in 0..MaxTime /\ budget \in 0..Budget
  /\ pc \in {"idle", "ensure", "record", "check", "report"}
  /\ cur \in Ssws \cup {""} /\ listed \subseteq Secrets
  /\ pc # "idle" => copy.exists
  /\ \A w \in Ssws :
       /\ ssws[w].report \subseteq Secrets /\ ssws[w].last <= now
       /\ ssws[w].exists => Updatable(ssws[w].spec)

\* The watch list is the set of secrets that the comments of the API types
\* describe, for every spec that gets past the admission (lines 557 to 620).
WatchedAsDocumented ==
  [][ListSecrets => listed' = Monitored(copy.spec, secrets)]_vars

\* Of what a run has watched it reports exactly the secrets that, when it read
\* them, had not been written for more than the threshold.  For secrets that
\* are written by updates, and thresholds that a Duration can hold.
ReportExact ==
  [][PublishReport /\ copy.spec.staleThresholdInDays * Day <= MaxDuration =>
       \A s \in listed :
         s \in ssws'[cur].report <=>
           now - read[s].written > copy.spec.staleThresholdInDays * Day]_vars

\* Once users leave the cluster alone, every secret that a ssw monitors comes to
\* be in the ledger with the time of its last modification, although the ssws
\* share one ledger and the deletion of one may take it from the others (line 395).
LedgerServesAll ==
  \A w \in Ssws : ssws[w].exists =>
    \A s \in Monitored(ssws[w].spec, secrets) :
      /\ s \in RecordedSecrets(ledger.data)
      /\ EntryOf(ledger.data, s).modified =
           RetrieveModifiedTime(secrets[s].fields, secrets[s].created)

EventuallyRecorded == <>[]LedgerServesAll

\* With its last ssw the ledger goes too (lines 384 to 395), even if a run of a
\* deleted ssw has created it in the meantime.
LedgerCollected ==
  (\A w \in Ssws : ~ssws[w].exists)
    ~> (~ledger.exists \/ \E w \in Ssws : ssws[w].exists)

-----------------------------------------------------------------------------
(* Properties that comments of the code promise and the code does not keep. *)

\* "secret data has not been modified for StaleThresholdInDays" (slack, line
\* 93): nothing is reported whose data was changed within the threshold.
NoFalseAlarm ==
  [][PublishReport =>
       \A s \in ssws'[cur].report \cap listed :
         now - read[s].changed > copy.spec.staleThresholdInDays * Day]_vars

\* "Namespace of the secret being monitored" (types, line 44): the status of a
\* ssw is about the secrets it monitors.
ReportsItsOwn == [][PublishReport => ssws'[cur].report \subseteq listed]_vars

=============================================================================
