----------------------------- MODULE ConfigData -----------------------------
(***************************************************************************)
(* The ledger's contents: a list of namespaces, each with a list of        *)
(* secrets, each with the history of its hashes.  Nothing but the code     *)
(* that looks an entry up before it adds one keeps the lists free of       *)
(* duplicates, so they are sequences here, as they are in the ConfigMap.   *)
(***************************************************************************)
EXTENDS Integers, Sequences, SequencesExt, FiniteSetsExt

CONSTANTS Namespaces, Names

\* A secret is known by its namespace and its name.
Secrets == Namespaces \X Names

-----------------------------------------------------------------------------
(* CalculateHash.  The digest tells any two byte sequences apart, so it is  *)
(* the sequence of the bytes written to it: the values, without their keys. *)

\* Variant: the keys are taken in the order of Go's map, which is any order.
MapOrders(data) == SetToSeqs(DOMAIN data)

KeyOrders(data) ==
  {keys \in SetToSeqs(DOMAIN data) :
     \A i, j \in DOMAIN keys : i < j => keys[i] < keys[j]}

\* The hashes that a computation may give; one, if the order does not matter.
HashesOf(data) ==
  {FlattenSeq([i \in DOMAIN keys |-> data[keys[i]]]) : keys \in KeyOrders(data)}

-----------------------------------------------------------------------------
(* The lists.                                                              *)

Entry(name, created, modified, hash) ==
  [name |-> name, created |-> created, modified |-> modified, history |-> <<hash>>]

\* Where the entries of a secret are: of a namespace, and in it.
Positions(config, s) ==
  UNION {{<<i, j>> : j \in {k \in DOMAIN config[i].secrets :
                              config[i].secrets[k].name = s[2]}}
         : i \in {k \in DOMAIN config : config[k].name = s[1]}}

\* secretDataExists: the first entry of the secret.
FirstPosition(config, s) ==
  CHOOSE p \in Positions(config, s) :
    \A q \in Positions(config, s) : p[1] < q[1] \/ (p[1] = q[1] /\ p[2] <= q[2])

EntryOf(config, s) ==
  LET p == FirstPosition(config, s) IN config[p[1]].secrets[p[2]]

\* Variant: the hash is appended to the history whether it is there or not.
AppendedHash(entry, hash, modified) ==
  [entry EXCEPT !.history = Append(@, hash), !.modified = modified]

\* Variant: the time is written with a new hash only.
UpdatedOnNewHash(entry, hash, modified) ==
  IF Contains(entry.history, hash)
    THEN entry
    ELSE AppendedHash(entry, hash, modified)

\* Variant: the history keeps the newest hash only.
ReplacedHash(entry, hash, modified) ==
  [entry EXCEPT !.history = <<hash>>, !.modified = modified]

\* updateOrAppendSecretData: a hash that was there before is not new again.
UpdatedEntry(entry, hash, modified) ==
  [entry EXCEPT !.history = IF Contains(@, hash) THEN @ ELSE Append(@, hash),
                !.modified = modified]

\* addSecretData: to the first namespace of that name, or to a new one.
WithNewEntry(config, s, entry) ==
  LET same == {i \in DOMAIN config : config[i].name = s[1]}
  IN IF same = {}
       THEN Append(config, [name |-> s[1], secrets |-> <<entry>>])
       ELSE [config EXCEPT ![Min(same)].secrets = Append(@, entry)]

\* What calculateAndStoreHashedSecrets makes of one secret.
Recorded(config, s, hash, created, modified) ==
  IF Positions(config, s) = {}
    THEN WithNewEntry(config, s, Entry(s[2], created, modified, hash))
    ELSE LET p == FirstPosition(config, s)
         IN [config EXCEPT ![p[1]].secrets[p[2]] = UpdatedEntry(@, hash, modified)]

\* The secrets with an entry: updateSecretStatuses goes over all of them.
RecordedSecrets(config) == {s \in Secrets : Positions(config, s) # {}}

-----------------------------------------------------------------------------
(* What the properties say of ledgers.                                     *)

\* One list per namespace, one entry per secret, no hash twice in a history.
WellFormed(c) ==
  /\ \A i, j \in DOMAIN c : c[i].name = c[j].name => i = j
  /\ \A s \in Secrets : \A p, q \in Positions(c, s) : p = q
  /\ \A i \in DOMAIN c : \A j \in DOMAIN c[i].secrets :
       IsInjective(c[i].secrets[j].history)

\* No secret and no hash of the old ledger is missing in the new one.
Extends(old, new) ==
  \A s \in RecordedSecrets(old) :
    /\ s \in RecordedSecrets(new)
    /\ IsPrefix(EntryOf(old, s).history, EntryOf(new, s).history)

=============================================================================
