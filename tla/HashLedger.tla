----------------------------- MODULE HashLedger -----------------------------
(***************************************************************************)
(* calculateAndStoreHashedSecrets: a worker lists the secrets, reads the   *)
(* ledger, then the watched secrets one by one, then reads the ledger      *)
(* again and overwrites its data.  All reads are of the manager's caches,  *)
(* which trail the API server, that of the secrets independently of that   *)
(* of ConfigMaps; the write is refused unless the second read was of the   *)
(* stored version.  When runs start and end is Reconciler's business: here *)
(* a run may start at any time, and the ledger exists.  The excludeList is *)
(* read as it is stored: that of an older spec is an edit that came later. *)
(***************************************************************************)
EXTENDS ConfigData

CONSTANTS
  Managers,   \* the manager processes
  Data,       \* what secrets may hold: functions from keys to byte sequences
  Budget,     \* bound: changes users make to secrets and to the exclude list
  MaxLag      \* bound: versions of the ledger a cache trails by

\* A secret's map is finite; numbers stand for the keys in their order.
ASSUME DataAssumption ==
  \A data \in Data : DOMAIN data \subseteq Int /\ IsFiniteSet(DOMAIN data)
ASSUME BudgetAssumption == Budget \in Nat
ASSUME MaxLagAssumption == MaxLag \in Nat \ {0}

VARIABLES
  budget,     \* what is left of Budget
  secrets,    \* the secrets in the API server
  had,        \* had[s]: all that s has ever held; nothing reads it
  known,      \* known[m]: the secrets as m's informer knows them
  news,       \* news[m]: what the secrets were since, not yet delivered to m
  excluded,   \* the secrets the spec's excludeList names
  stored,     \* the data of the ledger in the API server
  cache,      \* cache[m]: the data as m's informer knows it
  pend,       \* pend[m]: the versions not yet delivered to m, oldest first
  pc,         \* pc[m]: "idle", "listed" or "hashing"
  todo,       \* todo[m]: listed secrets m has yet to read
  config,     \* config[m]: the ConfigData m works on
  fresh       \* fresh[m]: config[m] was decoded from the version stored now

users == <<budget, secrets, had, excluded>>

informers == <<known, news, cache, pend>>

vars == <<users, informers, stored, pc, todo, config, fresh>>

\* "modified" is what RetrieveModifiedTime says of the secret.
Absent == [exists |-> FALSE, data |-> <<>>, created |-> 0, modified |-> 0]

Created(data, time) ==
  [exists |-> TRUE, data |-> data, created |-> time, modified |-> time]

Written(secret, data) ==
  [secret EXCEPT !.data = data, !.modified = secret.modified + 1]

Init ==
  /\ budget = Budget
  /\ \E data \in Data :
       /\ secrets = [s \in Secrets |-> Created(data, 1)]
       /\ had = [s \in Secrets |-> {data}]
  /\ known = [m \in Managers |-> secrets]
  /\ news = [m \in Managers |-> <<>>]
  /\ excluded = {}
  /\ stored = <<>>
  /\ cache = [m \in Managers |-> <<>>]
  /\ pend = [m \in Managers |-> <<>>]
  /\ pc = [m \in Managers |-> "idle"]
  /\ todo = [m \in Managers |-> {}]
  /\ config = [m \in Managers |-> <<>>]
  /\ fresh = [m \in Managers |-> FALSE]

\* prepareWatchList, for the secrets as they are or as a manager knows them.
Watched(all) == {s \in Secrets : all[s].exists} \ excluded

\* The cache knows the stored version, so a write made from it is accepted.
UpToDate(m) == pend[m] = <<>>

Finish(m) ==
  /\ pc' = [pc EXCEPT ![m] = "idle"]
  /\ todo' = [todo EXCEPT ![m] = {}]
  /\ config' = [config EXCEPT ![m] = <<>>]

\* The watch list.  With nothing to watch the run leaves the ledger alone.
Start(m) ==
  /\ pc[m] = "idle" /\ Watched(known[m]) # {}
  /\ pc' = [pc EXCEPT ![m] = "listed"]
  /\ todo' = [todo EXCEPT ![m] = Watched(known[m])]
  /\ UNCHANGED <<users, informers, stored, config, fresh>>

\* The first read of the ledger.
ReadLedger(m) ==
  /\ pc[m] = "listed"
  /\ pc' = [pc EXCEPT ![m] = "hashing"]
  /\ config' = [config EXCEPT ![m] = cache[m]]
  /\ fresh' = [fresh EXCEPT ![m] = UpToDate(m)]
  /\ UNCHANGED <<users, informers, stored, todo>>

\* The map of the watch list is gone over in any order.
HashSecret(m) ==
  /\ pc[m] = "hashing"
  /\ \E s \in todo[m] :
       LET secret == known[m][s]
       IN \E hash \in HashesOf(secret.data) :
            /\ secret.exists
            /\ todo' = [todo EXCEPT ![m] = @ \ {s}]
            /\ config' = [config EXCEPT ![m] =
                 Recorded(@, s, hash, secret.created, secret.modified)]
  /\ UNCHANGED <<users, informers, stored, pc, fresh>>

\* One listed secret that is gone fails the whole run.
SecretGone(m) ==
  /\ pc[m] = "hashing" /\ \E s \in todo[m] : ~known[m][s].exists
  /\ Finish(m)
  /\ fresh' = [fresh EXCEPT ![m] = FALSE]
  /\ UNCHANGED <<users, informers, stored>>

\* createOrUpdateConfigMap: the second read, and the write of the data that
\* was made from the first.
StoreConfig(m) ==
  /\ pc[m] = "hashing" /\ todo[m] = {}
  /\ \/ /\ UpToDate(m) /\ config[m] # stored
        /\ \A n \in Managers : Len(pend[n]) < MaxLag
        /\ stored' = config[m]
        /\ pend' = [n \in Managers |-> Append(pend[n], config[m])]
        /\ fresh' = [n \in Managers |-> FALSE]
     \/ /\ ~UpToDate(m) \/ config[m] = stored
        /\ fresh' = [fresh EXCEPT ![m] = FALSE]
        /\ UNCHANGED <<stored, pend>>
  /\ Finish(m)
  /\ UNCHANGED <<users, known, news, cache>>

Deliver(m) ==
  /\ pend[m] # <<>>
  /\ cache' = [cache EXCEPT ![m] = Head(pend[m])]
  /\ pend' = [pend EXCEPT ![m] = Tail(@)]
  /\ UNCHANGED <<users, known, news, stored, pc, todo, config, fresh>>

DeliverSecrets(m) ==
  /\ news[m] # <<>>
  /\ known' = [known EXCEPT ![m] = Head(news[m])]
  /\ news' = [news EXCEPT ![m] = Tail(@)]
  /\ UNCHANGED <<users, cache, pend, stored, pc, todo, config, fresh>>

\* A user creates, writes or deletes a secret; writing the same data, or only
\* the metadata, counts as a modification too.
ChangeSecret ==
  /\ budget > 0 /\ budget' = budget - 1
  /\ \E s \in Secrets :
       \/ \E data \in Data :
            /\ secrets' = [secrets EXCEPT ![s] =
                 IF @.exists THEN Written(@, data) ELSE Created(data, @.modified + 1)]
            /\ had' = [had EXCEPT ![s] = @ \cup {data}]
       \/ /\ secrets[s].exists
          /\ secrets' = [secrets EXCEPT ![s] = [Absent EXCEPT !.modified = secrets[s].modified]]
          /\ UNCHANGED had
  /\ news' = [m \in Managers |-> Append(news[m], secrets')]
  /\ UNCHANGED <<excluded, known, stored, cache, pend, pc, todo, config, fresh>>

\* A user adds a secret to the excludeList of the spec or removes it.
Exclude ==
  /\ budget > 0 /\ budget' = budget - 1
  /\ \E s \in Secrets :
       excluded' = IF s \in excluded THEN excluded \ {s} ELSE excluded \cup {s}
  /\ UNCHANGED <<secrets, had, informers, stored, pc, todo, config, fresh>>

Work(m) == Start(m) \/ ReadLedger(m) \/ HashSecret(m) \/ SecretGone(m) \/ StoreConfig(m)

Next ==
  \/ \E m \in Managers : Work(m) \/ Deliver(m) \/ DeliverSecrets(m)
  \/ ChangeSecret \/ Exclude

Spec == Init /\ [][Next]_vars

\* Runs are started again and again: by the regular requeue and the informers.
Fairness ==
  \A m \in Managers :
    WF_vars(Work(m)) /\ WF_vars(Deliver(m)) /\ WF_vars(DeliverSecrets(m))

-----------------------------------------------------------------------------
(* Properties.                                                             *)

\* Every ledger there ever is, stored, cached or being made, has one list per
\* namespace, one entry per secret and no hash twice in a history, however
\* runs, changes and deliveries interleave (lines 468 to 518).
LedgerWellFormed ==
  /\ WellFormed(stored)
  /\ \A m \in Managers : WellFormed(cache[m]) /\ WellFormed(config[m])

\* A history has no more hashes than its secret has had contents: to read a
\* secret again, later or earlier than others do and in whatever order its keys
\* come, is no change (utils, line 61).
HistoryBounded ==
  \A s \in RecordedSecrets(stored) :
    Len(EntryOf(stored, s).history) <= Cardinality(had[s])

\* A run whose two reads of the ledger were of the same version loses nothing
\* of it: the entries of secrets that are gone or excluded by now stay, and
\* histories only grow.
SameReadKeepsHistory ==
  [][\A m \in Managers :
       stored' # stored /\ fresh[m] /\ pc'[m] # pc[m]
         => Extends(stored, stored')]_vars

\* The inductive invariant of the three before (lines 402 to 463).
\* Histories have hashes of what the secret has held, and informers tell of such
\* contents; the last version to be delivered is the stored one; and a run that
\* read the stored version has all of it.
Genuine(c) ==
  \A s \in RecordedSecrets(c) :
    LET h == EntryOf(c, s).history
    IN \A i \in DOMAIN h : \E data \in had[s] : h[i] \in HashesOf(data)

Past(all) == \A s \in Secrets : all[s].exists => all[s].data \in had[s]

Versions ==
  {stored} \cup {cache[m] : m \in Managers} \cup {config[m] : m \in Managers}
    \cup UNION {{pend[m][i] : i \in DOMAIN pend[m]} : m \in Managers}

StoredIsLast(m) == stored = IF UpToDate(m) THEN cache[m] ELSE Last(pend[m])

FreshExtends(m) == pc[m] = "hashing" /\ fresh[m] => Extends(stored, config[m])

LedgerInductive ==
  /\ \A c \in Versions : WellFormed(c) /\ Genuine(c)
  /\ \A m \in Managers :
       /\ Past(known[m]) /\ \A i \in DOMAIN news[m] : Past(news[m][i])
       /\ StoredIsLast(m) /\ FreshExtends(m)

\* Once the secrets are left alone, the ledger comes to tell the present hash
\* and modification time of every watched secret, whatever stale reads,
\* refused writes and failed runs there were before (lines 420 to 463).
LedgerCurrent ==
  \A s \in Watched(secrets) :
    /\ s \in RecordedSecrets(stored)
    /\ LET e == EntryOf(stored, s)
       IN /\ \A hash \in HashesOf(secrets[s].data) : Contains(e.history, hash)
          /\ e.modified = secrets[s].modified

Converges == <>[]LedgerCurrent

-----------------------------------------------------------------------------
(* Properties that comments of the code promise and the code does not keep. *)

\* "updateOrAppendSecretData will append new data hash to history" (line 467):
\* what was stored in a history stays in it.
HistoryKept == [][Extends(stored, stored')]_vars

=============================================================================
