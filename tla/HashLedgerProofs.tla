-------------------------- MODULE HashLedgerProofs --------------------------
(***************************************************************************)
(* Proofs about HashLedger, for any managers, secrets and contents: every  *)
(* ledger there is, stored, cached or being made, is well formed; no       *)
(* history has more hashes than its secret has had contents; and a run     *)
(* that read the stored version loses nothing of it.                       *)
(***************************************************************************)
EXTENDS HashLedger, ConfigDataProofs

-----------------------------------------------------------------------------
(* Histories that extend each other.                                       *)

\* A prefix, element by element.
LEMMA PrefixElements ==
  ASSUME NEW H, NEW a \in Seq(H), NEW b \in Seq(H)
  PROVE  IsPrefix(a, b) <=> Len(a) <= Len(b) /\ \A i \in 1..Len(a) : a[i] = b[i]
<1>1. SubSeq(a, 1, Len(a)) = a
  OBVIOUS
<1>2. ASSUME Len(a) <= Len(b)
      PROVE  SubSeq(b, 1, Len(a)) = a <=> \A i \in 1..Len(a) : a[i] = b[i]
  <2>1. /\ SubSeq(b, 1, Len(a)) \in Seq(H) /\ Len(SubSeq(b, 1, Len(a))) = Len(a)
        /\ \A i \in 1..Len(a) : SubSeq(b, 1, Len(a))[i] = b[i]
    BY <1>2
  <2>. QED  BY <2>1
<1>. QED  BY <1>1, <1>2 DEF IsPrefix

\* Extending is transitive.
LEMMA ExtendsTransitive ==
  ASSUME NEW H, NEW a \in Configs(H), NEW b \in Configs(H), NEW c \in Configs(H),
         WellFormed(a), WellFormed(b), WellFormed(c), Extends(a, b), Extends(b, c)
  PROVE  Extends(a, c)
<1>. SUFFICES ASSUME NEW s \in RecordedSecrets(a)
              PROVE  /\ s \in RecordedSecrets(c)
                     /\ IsPrefix(EntryOf(a, s).history, EntryOf(c, s).history)
  BY DEF Extends
<1>1. /\ s \in RecordedSecrets(b) /\ s \in RecordedSecrets(c)
      /\ IsPrefix(EntryOf(a, s).history, EntryOf(b, s).history)
      /\ IsPrefix(EntryOf(b, s).history, EntryOf(c, s).history)
  BY DEF Extends
<1>2. EntryOf(a, s) \in Entries(H) /\ EntryOf(b, s) \in Entries(H) /\ EntryOf(c, s) \in Entries(H)
  BY <1>1, RecordedAt
<1>3. /\ EntryOf(a, s).history \in Seq(H) /\ EntryOf(b, s).history \in Seq(H)
      /\ EntryOf(c, s).history \in Seq(H)
  BY <1>2 DEF Entries
<1>. HIDE DEF Entries
<1>4. ASSUME NEW x \in Seq(H), NEW y \in Seq(H), NEW z \in Seq(H),
             IsPrefix(x, y), IsPrefix(y, z)
      PROVE  IsPrefix(x, z)
  <2>1. /\ Len(x) <= Len(y) /\ \A i \in 1..Len(x) : x[i] = y[i]
        /\ Len(y) <= Len(z) /\ \A i \in 1..Len(y) : y[i] = z[i]
    BY <1>4, PrefixElements
  <2>. QED  BY <2>1, PrefixElements
<1>. QED  BY <1>1, <1>3, <1>4

\* Every ledger extends itself.
LEMMA ExtendsItself ==
  ASSUME NEW H, NEW c \in Configs(H), WellFormed(c)
  PROVE  Extends(c, c)
<1>1. ASSUME NEW s \in RecordedSecrets(c)
      PROVE  IsPrefix(EntryOf(c, s).history, EntryOf(c, s).history)
  <2>1. EntryOf(c, s).history \in Seq(H)
    BY RecordedAt DEF Entries
  <2>. QED  BY <2>1, PrefixElements
<1>. QED  BY <1>1 DEF Extends

\* Recording a secret extends the ledger.
LEMMA RecordedExtends ==
  ASSUME NEW H, NEW c \in Configs(H), WellFormed(c), NEW s \in Secrets,
         NEW hash \in H, NEW created \in Nat, NEW modified \in Nat
  PROVE  Extends(c, Recorded(c, s, hash, created, modified))
<1>. DEFINE d == Recorded(c, s, hash, created, modified)
            e == EntryMade(c, s, hash, created, modified)
<1>1. RecordedWell(H, c, s, d, e)
  BY RecordedIsWell
<1>. HIDE DEF d
<1>0. ASSUME NEW h \in Seq(H)
      PROVE  IsPrefix(h, h) /\ IsPrefix(h, Append(h, hash))
  <2>1. Append(h, hash) \in Seq(H) /\ \A i \in 1..Len(h) : Append(h, hash)[i] = h[i]
    OBVIOUS
  <2>2. Len(Append(h, hash)) = Len(h) + 1 /\ Len(h) \in Nat
    OBVIOUS
  <2>3. IsPrefix(h, h)
    BY <2>2, PrefixElements
  <2>4. PICK g \in Seq(H) : g = Append(h, hash)
    BY <2>1
  <2>5. Len(h) <= Len(g) /\ \A i \in 1..Len(h) : h[i] = g[i]
    BY <2>1, <2>2, <2>4
  <2>6. IsPrefix(h, g)
    BY <2>5, PrefixElements
  <2>. QED  BY <2>3, <2>4, <2>6
<1>2. ASSUME NEW t \in RecordedSecrets(c)
      PROVE  IsPrefix(EntryOf(c, t).history, EntryOf(d, t).history)
  <2>1. EntryOf(c, t) \in Entries(H) /\ EntryOf(c, t).history \in Seq(H)
    BY RecordedAt DEF Entries
  <2>2. CASE t # s
    <3>1. EntryOf(d, t) = EntryOf(c, t)
      BY <1>1, <2>2 DEF RecordedWell
    <3>. QED  BY <2>1, <3>1, PrefixElements
  <2>3. CASE t = s
    <3>. DEFINE h == EntryOf(c, s).history
    <3>1. IsInjective(h)
      <4>1. PICK i, j : At(c, s, i, j) /\ EntryOf(c, s) = c[i].secrets[j]
        BY <2>3, RecordedAt
      <4>. QED  BY <4>1 DEF At, WellFormed
    <3>2. EntryOf(d, s) = UpdatedEntry(EntryOf(c, s), hash, modified)
      BY <1>1, <2>3 DEF RecordedWell, EntryMade
    <3>3. EntryOf(d, s).history = IF Contains(h, hash) THEN h ELSE Append(h, hash)
      BY <2>1, <2>3, <3>1, <3>2, UpdatedWell
    <3>. HIDE DEF h
    <3>4. EntryOf(d, s).history = h \/ EntryOf(d, s).history = Append(h, hash)
      BY <3>3
    <3>5. h \in Seq(H) /\ EntryOf(c, t).history = h
      BY <2>1, <2>3 DEF h
    <3>. QED  BY <1>0, <2>3, <3>4, <3>5
  <2>. QED  BY <2>2, <2>3
<1>. QED  BY <1>1, <1>2 DEF Extends, RecordedWell, d

-----------------------------------------------------------------------------
(* The inductive invariant, with types.                                    *)

Hashes == UNION {HashesOf(data) : data \in Data}

\* A version that the ledger may have, with the contents there were.
Sound == {c \in Configs(Hashes) : WellFormed(c) /\ Genuine(c)}

SecretTypes ==
  [exists : BOOLEAN, data : Data \cup {<<>>}, created : Nat, modified : Nat]

\* What an informer may tell of the secrets.
Views == {all \in [Secrets -> SecretTypes] : Past(all)}

SecretsTyped ==
  /\ had \in [Secrets -> SUBSET Data] /\ \A s \in Secrets : IsFiniteSet(had[s])
  /\ secrets \in Views
  /\ known \in [Managers -> Views] /\ news \in [Managers -> Seq(Views)]

WorkersTyped ==
  /\ pc \in [Managers -> {"idle", "listed", "hashing"}]
  /\ todo \in [Managers -> SUBSET Secrets]
  /\ fresh \in [Managers -> BOOLEAN]

VersionsSound ==
  /\ stored \in Sound
  /\ cache \in [Managers -> Sound] /\ config \in [Managers -> Sound]
  /\ pend \in [Managers -> Seq(Sound)]

IInv ==
  /\ SecretsTyped /\ WorkersTyped /\ VersionsSound
  /\ \A m \in Managers : StoredIsLast(m) /\ FreshExtends(m)

\* Nothing is recorded in an empty ledger.
LEMMA EmptySound == <<>> \in Sound /\ Extends(<<>>, <<>>)
BY EmptyWell DEF Sound, Genuine, Extends

\* Recording a hash of what a secret has held keeps a version sound.
LEMMA RecordedSound ==
  ASSUME SecretsTyped, NEW c \in Sound, NEW s \in Secrets, NEW data \in had[s],
         NEW hash \in HashesOf(data), NEW created \in Nat, NEW modified \in Nat
  PROVE  LET d == Recorded(c, s, hash, created, modified)
         IN  d \in Sound /\ Extends(c, d)
<1>. DEFINE d == Recorded(c, s, hash, created, modified)
            e == EntryMade(c, s, hash, created, modified)
            Held(t, x) == \E content \in had[t] : x \in HashesOf(content)
<1>1. data \in Data /\ hash \in Hashes
  BY DEF SecretsTyped, Hashes
<1>2. c \in Configs(Hashes) /\ WellFormed(c) /\ Genuine(c)
  BY DEF Sound
<1>3. RecordedWell(Hashes, c, s, d, e) /\ Extends(c, d)
  BY <1>1, <1>2, RecordedIsWell, RecordedExtends
<1>. HIDE DEF d
<1>5. \A i \in DOMAIN e.history : Held(s, e.history[i])
  <2>1. CASE s \in RecordedSecrets(c)
    <3>. DEFINE h == EntryOf(c, s).history
    <3>1. EntryOf(c, s) \in Entries(Hashes) /\ h \in Seq(Hashes)
      BY <1>2, <2>1, RecordedAt DEF Entries
    <3>2. IsInjective(h)
      <4>1. PICK i, j : At(c, s, i, j) /\ EntryOf(c, s) = c[i].secrets[j]
        BY <1>2, <2>1, RecordedAt
      <4>. QED  BY <1>2, <4>1 DEF At, WellFormed
    <3>3. \A i \in DOMAIN h : Held(s, h[i])
      BY <1>2, <2>1 DEF Genuine
    <3>4. e = UpdatedEntry(EntryOf(c, s), hash, modified)
      BY <2>1 DEF EntryMade
    <3>5. e.history = IF Contains(h, hash) THEN h ELSE Append(h, hash)
      BY <1>1, <3>1, <3>2, <3>4, UpdatedWell
    <3>. HIDE DEF h, e, Held
    <3>6. Held(s, hash)
      BY DEF Held
    <3>7. ASSUME NEW i \in DOMAIN Append(h, hash) PROVE Held(s, Append(h, hash)[i])
      <4>1. i \in DOMAIN h \/ i = Len(h) + 1
        BY <3>1, <3>7
      <4>2. (i \in DOMAIN h => Append(h, hash)[i] = h[i]) /\ Append(h, hash)[Len(h) + 1] = hash
        BY <3>1
      <4>. QED  BY <3>3, <3>6, <4>1, <4>2
    <3>. QED  BY <3>3, <3>5, <3>7
  <2>2. CASE s \notin RecordedSecrets(c)
    <3>1. e.history = <<hash>>
      BY <2>2 DEF EntryMade, Entry
    <3>. HIDE DEF e
    <3>. QED  BY <3>1
  <2>. QED  BY <2>1, <2>2
<1>. HIDE DEF Held
<1>6. Genuine(d)
  <2>1. ASSUME NEW t \in RecordedSecrets(d)
        PROVE  \A i \in DOMAIN EntryOf(d, t).history : Held(t, EntryOf(d, t).history[i])
    <3>1. CASE t = s
      BY <1>3, <1>5, <3>1 DEF RecordedWell
    <3>2. CASE t # s
      BY <1>2, <1>3, <3>2 DEF RecordedWell, Genuine, Held
    <3>. QED  BY <3>1, <3>2
  <2>. QED  BY <2>1 DEF Genuine, Held
<1>. QED  BY <1>3, <1>6 DEF Sound, RecordedWell, d

-----------------------------------------------------------------------------
(* The steps.                                                              *)

\* What is sound depends on what there was only.
LEMMA SoundStays == ASSUME UNCHANGED had PROVE Sound' = Sound /\ Views' = Views
BY DEF Sound, Genuine, Views, Past

\* The end of a run.
LEMMA FinishTyped ==
  ASSUME IInv, NEW m \in Managers, Finish(m)
  PROVE  /\ pc' \in [Managers -> {"idle", "listed", "hashing"}] /\ pc'[m] = "idle"
         /\ \A n \in Managers \ {m} : pc'[n] = pc[n] /\ config'[n] = config[n]
         /\ todo' \in [Managers -> SUBSET Secrets]
         /\ config' \in [Managers -> Sound]
BY EmptySound DEF Finish, IInv, WorkersTyped, VersionsSound

\* The watch list is made of what the manager knows (line 150).
LEMMA StartKeeps ==
  ASSUME IInv, NEW m \in Managers, Start(m)
  PROVE  IInv'
<1>1. /\ pc' = [pc EXCEPT ![m] = "listed"]
      /\ todo' = [todo EXCEPT ![m] = Watched(known[m])]
      /\ UNCHANGED <<secrets, had, known, news, stored, cache, pend, config, fresh>>
  BY DEF Start, users, informers
<1>2. Watched(known[m]) \in SUBSET Secrets
  BY DEF Watched
<1>3. WorkersTyped'
  BY <1>1, <1>2 DEF IInv, WorkersTyped
<1>4. SecretsTyped' /\ VersionsSound'
  BY <1>1, SoundStays DEF IInv, SecretsTyped, VersionsSound
<1>5. \A n \in Managers : StoredIsLast(n)' /\ FreshExtends(n)'
  BY <1>1 DEF IInv, StoredIsLast, UpToDate, FreshExtends, WorkersTyped
<1>. QED  BY <1>3, <1>4, <1>5 DEF IInv

\* A run works on a version that is sound, and the stored one if the cache is
\* up to date (line 406).
LEMMA ReadLedgerKeeps ==
  ASSUME IInv, NEW m \in Managers, ReadLedger(m)
  PROVE  IInv'
<1>1. /\ pc' = [pc EXCEPT ![m] = "hashing"]
      /\ config' = [config EXCEPT ![m] = cache[m]]
      /\ fresh' = [fresh EXCEPT ![m] = UpToDate(m)]
      /\ UNCHANGED <<secrets, had, known, news, stored, cache, pend, todo>>
  BY DEF ReadLedger, users, informers
<1>2. UpToDate(m) \in BOOLEAN
  BY DEF UpToDate
<1>3. SecretsTyped' /\ WorkersTyped' /\ Sound' = Sound
  BY <1>1, <1>2, SoundStays DEF IInv, SecretsTyped, WorkersTyped
<1>4. VersionsSound'
  BY <1>1, <1>3 DEF IInv, VersionsSound
<1>5. \A n \in Managers : StoredIsLast(n)'
  BY <1>1 DEF IInv, StoredIsLast, UpToDate
<1>6. ASSUME NEW n \in Managers PROVE FreshExtends(n)'
  <2>1. CASE n = m
    <3>1. fresh'[m] => stored = cache[m]
      BY <1>1 DEF IInv, WorkersTyped, StoredIsLast, UpToDate
    <3>2. config'[m] = cache[m] /\ stored' = stored
      BY <1>1 DEF IInv, VersionsSound
    <3>3. Extends(stored, stored)
      BY ExtendsItself DEF IInv, VersionsSound, Sound
    <3>. QED  BY <2>1, <3>1, <3>2, <3>3 DEF FreshExtends
  <2>2. CASE n # m
    BY <1>1, <2>2 DEF IInv, FreshExtends, WorkersTyped, VersionsSound
  <2>. QED  BY <2>1, <2>2
<1>. QED  BY <1>3, <1>4, <1>5, <1>6 DEF IInv

\* One secret is read and recorded (lines 424 to 440).
LEMMA HashSecretKeeps ==
  ASSUME IInv, NEW m \in Managers, HashSecret(m)
  PROVE  IInv'
<1>0. PICK s \in todo[m] : \E hash \in HashesOf(known[m][s].data) :
        /\ known[m][s].exists
        /\ todo' = [todo EXCEPT ![m] = @ \ {s}]
        /\ config' = [config EXCEPT ![m] =
             Recorded(@, s, hash, known[m][s].created, known[m][s].modified)]
  BY DEF HashSecret
<1>1. PICK hash \in HashesOf(known[m][s].data) :
        /\ known[m][s].exists
        /\ todo' = [todo EXCEPT ![m] = @ \ {s}]
        /\ config' = [config EXCEPT ![m] =
             Recorded(@, s, hash, known[m][s].created, known[m][s].modified)]
  BY <1>0
<1>. DEFINE d == Recorded(config[m], s, hash, known[m][s].created, known[m][s].modified)
<1>9. UNCHANGED <<secrets, had, known, news, stored, cache, pend, pc, fresh>>
  BY DEF HashSecret, users, informers
<1>2. /\ s \in Secrets /\ config[m] \in Sound
      /\ known[m] \in [Secrets -> SecretTypes] /\ Past(known[m])
  BY DEF IInv, WorkersTyped, VersionsSound, SecretsTyped, Views
<1>10. /\ known[m][s].data \in had[s]
       /\ known[m][s].created \in Nat /\ known[m][s].modified \in Nat
  BY <1>1, <1>2 DEF Past, SecretTypes
<1>3. d \in Sound /\ Extends(config[m], d)
  BY <1>1, <1>2, <1>10, RecordedSound DEF IInv
<1>. HIDE DEF d
<1>4. config' = [config EXCEPT ![m] = d]
  BY <1>1 DEF d, IInv, VersionsSound
<1>5. SecretsTyped' /\ WorkersTyped' /\ Sound' = Sound
  BY <1>1, <1>9, SoundStays DEF IInv, SecretsTyped, WorkersTyped
<1>6. VersionsSound'
  BY <1>3, <1>4, <1>5, <1>9 DEF IInv, VersionsSound
<1>7. \A n \in Managers : StoredIsLast(n)'
  BY <1>9 DEF IInv, StoredIsLast, UpToDate
<1>8. ASSUME NEW n \in Managers PROVE FreshExtends(n)'
  <2>1. CASE n = m
    <3>1. Extends(stored, config[m]) => Extends(stored, d)
      BY <1>2, <1>3, ExtendsTransitive DEF IInv, VersionsSound, Sound
    <3>2. config'[m] = d
      BY <1>4 DEF IInv, VersionsSound
    <3>. QED  BY <1>9, <2>1, <3>1, <3>2 DEF FreshExtends, IInv
  <2>2. CASE n # m
    BY <1>4, <1>9, <2>2 DEF IInv, FreshExtends, VersionsSound
  <2>. QED  BY <2>1, <2>2
<1>. QED  BY <1>5, <1>6, <1>7, <1>8 DEF IInv

\* A failed batch leaves nothing behind.
LEMMA SecretGoneKeeps ==
  ASSUME IInv, NEW m \in Managers, SecretGone(m)
  PROVE  IInv'
<1>1. /\ Finish(m) /\ fresh' = [fresh EXCEPT ![m] = FALSE]
      /\ UNCHANGED <<secrets, had, known, news, stored, cache, pend>>
  BY DEF SecretGone, users, informers
<1>2. SecretsTyped' /\ WorkersTyped' /\ Sound' = Sound
  BY <1>1, SoundStays, FinishTyped DEF IInv, SecretsTyped, WorkersTyped
<1>3. VersionsSound'
  BY <1>1, <1>2, FinishTyped DEF IInv, VersionsSound
<1>4. \A n \in Managers : StoredIsLast(n)'
  BY <1>1 DEF IInv, StoredIsLast, UpToDate
<1>5. \A n \in Managers : FreshExtends(n)'
  BY <1>1, FinishTyped DEF IInv, FreshExtends, WorkersTyped
<1>. QED  BY <1>2, <1>3, <1>4, <1>5 DEF IInv

\* A store makes the version the last to be delivered, and no other run's copy is
\* that of the stored version any more (lines 531 to 554).
LEMMA StoreConfigKeeps ==
  ASSUME IInv, NEW m \in Managers, StoreConfig(m)
  PROVE  IInv'
<1>1. Finish(m) /\ UNCHANGED <<secrets, had, known, news, cache>>
  BY DEF StoreConfig, users
<1>2. SecretsTyped' /\ Sound' = Sound
  BY <1>1, SoundStays DEF IInv, SecretsTyped
<1>3. CASE fresh' = [fresh EXCEPT ![m] = FALSE] /\ UNCHANGED <<stored, pend>>
  <2>1. WorkersTyped'
    BY <1>1, <1>3, FinishTyped DEF IInv, WorkersTyped
  <2>2. VersionsSound'
    BY <1>1, <1>2, <1>3, FinishTyped DEF IInv, VersionsSound
  <2>3. \A n \in Managers : StoredIsLast(n)'
    BY <1>1, <1>3 DEF IInv, StoredIsLast, UpToDate
  <2>4. \A n \in Managers : FreshExtends(n)'
    BY <1>1, <1>3, FinishTyped DEF IInv, FreshExtends, WorkersTyped
  <2>. QED  BY <1>2, <2>1, <2>2, <2>3, <2>4 DEF IInv
<1>4. CASE /\ stored' = config[m]
           /\ pend' = [n \in Managers |-> Append(pend[n], config[m])]
           /\ fresh' = [n \in Managers |-> FALSE]
  <2>1. WorkersTyped'
    BY <1>1, <1>4, FinishTyped DEF IInv, WorkersTyped
  <2>2. config[m] \in Sound /\ \A n \in Managers : pend[n] \in Seq(Sound)
    BY DEF IInv, VersionsSound
  <2>3. VersionsSound'
    BY <1>1, <1>2, <1>4, <2>2, FinishTyped DEF IInv, VersionsSound
  <2>4. ASSUME NEW n \in Managers PROVE StoredIsLast(n)'
    <3>1. pend'[n] = Append(pend[n], config[m])
      BY <1>4
    <3>2. pend'[n] # <<>> /\ Last(pend'[n]) = config[m]
      BY <2>2, <3>1 DEF Last
    <3>. QED  BY <1>4, <3>2 DEF StoredIsLast, UpToDate
  <2>5. \A n \in Managers : FreshExtends(n)'
    BY <1>4 DEF FreshExtends
  <2>. QED  BY <1>2, <2>1, <2>3, <2>4, <2>5 DEF IInv
<1>. QED  BY <1>3, <1>4 DEF StoreConfig

\* Versions are delivered in order.
LEMMA DeliverKeeps ==
  ASSUME IInv, NEW m \in Managers, Deliver(m)
  PROVE  IInv'
<1>1. /\ pend[m] # <<>> /\ cache' = [cache EXCEPT ![m] = Head(pend[m])]
      /\ pend' = [pend EXCEPT ![m] = Tail(@)]
      /\ UNCHANGED <<secrets, had, known, news, stored, pc, todo, config, fresh>>
  BY DEF Deliver, users
<1>2. pend[m] \in Seq(Sound) /\ Head(pend[m]) \in Sound /\ Tail(pend[m]) \in Seq(Sound)
  BY <1>1 DEF IInv, VersionsSound
<1>3. SecretsTyped' /\ WorkersTyped' /\ Sound' = Sound
  BY <1>1, SoundStays DEF IInv, SecretsTyped, WorkersTyped
<1>4. VersionsSound'
  BY <1>1, <1>2, <1>3 DEF IInv, VersionsSound
<1>5. ASSUME NEW n \in Managers PROVE StoredIsLast(n)'
  <2>1. CASE n = m
    <3>1. /\ pend'[m] = Tail(pend[m]) /\ cache'[m] = Head(pend[m])
          /\ stored' = pend[m][Len(pend[m])]
      BY <1>1 DEF IInv, VersionsSound, StoredIsLast, UpToDate, Last
    <3>2. Tail(pend[m]) = <<>> => Head(pend[m]) = pend[m][Len(pend[m])]
      <4>1. ASSUME NEW S, NEW q \in Seq(S), q # <<>>, Tail(q) = <<>>
            PROVE  Head(q) = q[Len(q)]
        <5>1. Len(q) \in Nat /\ (Len(q) = 0 => q = <<>>)
          OBVIOUS
        <5>2. Len(q) # 0 => Len(Tail(q)) = Len(q) - 1
          BY <5>1
        <5>3. Len(Tail(q)) = 0
          BY <4>1, Len(<<>>) = 0, Zenon
        <5>4. Len(q) = 1
          BY <4>1, <5>1, <5>2, <5>3
        <5>. QED  BY <4>1, <5>4
      <4>. QED  BY <1>1, <1>2, <4>1
    <3>3. Tail(pend[m]) # <<>> =>
            Tail(pend[m])[Len(Tail(pend[m]))] = pend[m][Len(pend[m])]
      BY <1>1, <1>2
    <3>. QED  BY <2>1, <3>1, <3>2, <3>3 DEF StoredIsLast, UpToDate, Last
  <2>2. CASE n # m
    BY <1>1, <2>2 DEF IInv, VersionsSound, StoredIsLast, UpToDate
  <2>. QED  BY <2>1, <2>2
<1>6. \A n \in Managers : FreshExtends(n)'
  BY <1>1 DEF IInv, FreshExtends
<1>. QED  BY <1>3, <1>4, <1>5, <1>6 DEF IInv

\* An informer of secrets tells what there was.
LEMMA DeliverSecretsKeeps ==
  ASSUME IInv, NEW m \in Managers, DeliverSecrets(m)
  PROVE  IInv'
<1>1. /\ news[m] # <<>> /\ known' = [known EXCEPT ![m] = Head(news[m])]
      /\ news' = [news EXCEPT ![m] = Tail(@)]
      /\ UNCHANGED <<secrets, had, stored, cache, pend, pc, todo, config, fresh>>
  BY DEF DeliverSecrets, users
<1>2. news[m] \in Seq(Views) /\ Head(news[m]) \in Views /\ Tail(news[m]) \in Seq(Views)
  BY <1>1 DEF IInv, SecretsTyped
<1>3. SecretsTyped'
  BY <1>1, <1>2, SoundStays DEF IInv, SecretsTyped
<1>4. VersionsSound'
  BY <1>1, SoundStays DEF IInv, VersionsSound
<1>. QED  BY <1>1, <1>3, <1>4 DEF IInv, WorkersTyped, StoredIsLast, UpToDate, FreshExtends

\* What there was stays what there was, and a write adds the new content to it.
LEMMA ChangeSecretKeeps ==
  ASSUME IInv, ChangeSecret
  PROVE  IInv'
<1>1. PICK s \in Secrets, new \in SecretTypes :
        /\ secrets' = [secrets EXCEPT ![s] = new]
        /\ \/ /\ new.data \in Data /\ had' = [had EXCEPT ![s] = @ \cup {new.data}]
           \/ ~new.exists /\ had' = had
  <2>1. PICK s \in Secrets :
          \/ \E data \in Data :
               /\ secrets' = [secrets EXCEPT ![s] =
                    IF @.exists THEN Written(@, data) ELSE Created(data, @.modified + 1)]
               /\ had' = [had EXCEPT ![s] = @ \cup {data}]
          \/ /\ secrets' = [secrets EXCEPT ![s] = [Absent EXCEPT !.modified = secrets[s].modified]]
             /\ had' = had
    BY DEF ChangeSecret
  <2>2. PICK old \in SecretTypes : old = secrets[s]
    BY DEF IInv, SecretsTyped, Views
  <2>5. secrets \in [Secrets -> SecretTypes] /\ old.modified \in Nat
    BY <2>2 DEF IInv, SecretsTyped, Views, SecretTypes
  <2>3. ASSUME NEW data \in Data,
               secrets' = [secrets EXCEPT ![s] =
                 IF @.exists THEN Written(@, data) ELSE Created(data, @.modified + 1)]
        PROVE  \E new \in SecretTypes : secrets' = [secrets EXCEPT ![s] = new] /\ new.data = data
    <3>1. Written(old, data) \in SecretTypes /\ Written(old, data).data = data
      <4>1. ASSUME NEW D, NEW x \in D, NEW n \in Nat,
                   NEW rec \in [exists : BOOLEAN, data : D, created : Nat, modified : Nat]
            PROVE  LET new == [rec EXCEPT !.data = x, !.modified = n]
                   IN  /\ new \in [exists : BOOLEAN, data : D, created : Nat, modified : Nat]
                       /\ new.data = x
        OBVIOUS
      <4>2. PICK D : D = Data \cup {<<>>}
        OBVIOUS
      <4>3. /\ data \in D /\ old.modified + 1 \in Nat
            /\ old \in [exists : BOOLEAN, data : D, created : Nat, modified : Nat]
        BY <2>5, <4>2 DEF SecretTypes
      <4>4. /\ Written(old, data) \in [exists : BOOLEAN, data : D, created : Nat, modified : Nat]
            /\ Written(old, data).data = data
        BY <4>1, <4>3 DEF Written
      <4>. QED  BY <4>2, <4>4 DEF SecretTypes
    <3>2. /\ Created(data, old.modified + 1) \in SecretTypes
          /\ Created(data, old.modified + 1).data = data
      BY <2>5 DEF Created, SecretTypes
    <3>3. \/ secrets' = [secrets EXCEPT ![s] = Written(old, data)]
          \/ secrets' = [secrets EXCEPT ![s] = Created(data, old.modified + 1)]
      BY <2>2, <2>3, <2>5
    <3>. QED  BY <3>1, <3>2, <3>3
  <2>4. CASE /\ secrets' = [secrets EXCEPT ![s] = [Absent EXCEPT !.modified = secrets[s].modified]]
             /\ had' = had
    <3>. DEFINE new == [Absent EXCEPT !.modified = old.modified]
    <3>1. new \in SecretTypes /\ ~new.exists
      BY <2>5 DEF Absent, SecretTypes
    <3>. QED  BY <2>2, <2>4, <3>1
  <2>6. CASE \E data \in Data :
               /\ secrets' = [secrets EXCEPT ![s] =
                    IF @.exists THEN Written(@, data) ELSE Created(data, @.modified + 1)]
               /\ had' = [had EXCEPT ![s] = @ \cup {data}]
    <3>1. PICK data \in Data :
            /\ secrets' = [secrets EXCEPT ![s] =
                 IF @.exists THEN Written(@, data) ELSE Created(data, @.modified + 1)]
            /\ had' = [had EXCEPT ![s] = @ \cup {data}]
      BY <2>6
    <3>2. PICK new \in SecretTypes : secrets' = [secrets EXCEPT ![s] = new] /\ new.data = data
      BY <2>3, <3>1
    <3>3. new.data \in Data /\ had' = [had EXCEPT ![s] = @ \cup {new.data}]
      BY <3>1, <3>2
    <3>. QED  BY <3>2, <3>3
  <2>. QED  BY <2>1, <2>4, <2>6
<1>2. /\ UNCHANGED <<known, stored, cache, pend, pc, todo, config, fresh>>
      /\ news' = [m \in Managers |-> Append(news[m], secrets')]
  BY DEF ChangeSecret
<1>3. /\ had' \in [Secrets -> SUBSET Data] /\ \A t \in Secrets : had[t] \subseteq had'[t]
      /\ ~new.exists \/ new.data \in had'[s]
  BY <1>1 DEF IInv, SecretsTyped
<1>4. ASSUME NEW t \in Secrets PROVE IsFiniteSet(had'[t])
  <2>1. IsFiniteSet(had[t]) /\ IsFiniteSet(had[s] \cup {new.data})
    BY FS_AddElement DEF IInv, SecretsTyped
  <2>2. had'[t] = had[t] \/ had'[t] = had[s] \cup {new.data}
    BY <1>1 DEF IInv, SecretsTyped
  <2>. QED  BY <2>1, <2>2
<1>5. ASSUME NEW all \in Views PROVE all \in Views'
  BY <1>3 DEF Views, Past
<1>6. secrets' \in Views'
  <2>1. secrets \in [Secrets -> SecretTypes] /\ Past(secrets)
    BY DEF IInv, SecretsTyped, Views
  <2>2. secrets' \in [Secrets -> SecretTypes]
    BY <1>1, <2>1
  <2>3. ASSUME NEW t \in Secrets, secrets'[t].exists PROVE secrets'[t].data \in had'[t]
    BY <1>1, <1>3, <2>1, <2>3 DEF Past
  <2>. QED  BY <2>2, <2>3 DEF Views, Past
<1>7. ASSUME NEW m \in Managers PROVE known[m] \in Views' /\ news'[m] \in Seq(Views')
  <2>1. known[m] \in Views /\ news[m] \in Seq(Views)
    BY DEF IInv, SecretsTyped
  <2>2. news[m] \in Seq(Views')
    BY <1>5, <2>1
  <2>3. Append(news[m], secrets') \in Seq(Views')
    BY <1>6, <2>2
  <2>. QED  BY <1>2, <1>5, <2>1, <2>3
<1>8. SecretsTyped'
  <2>1. known \in [Managers -> Views'] /\ news' \in [Managers -> Seq(Views')]
    BY <1>2, <1>7 DEF IInv, SecretsTyped
  <2>. QED  BY <1>2, <1>3, <1>4, <1>6, <2>1 DEF SecretsTyped
<1>9. ASSUME NEW c \in Sound PROVE c \in Sound'
  BY <1>3, RecordedAt DEF Sound, Genuine
<1>10. Seq(Sound) \subseteq Seq(Sound')
  BY <1>9
<1>11. VersionsSound'
  BY <1>2, <1>9, <1>10 DEF IInv, VersionsSound
<1>. QED  BY <1>2, <1>8, <1>11 DEF IInv, WorkersTyped, StoredIsLast, UpToDate, FreshExtends

\* What no part of the invariant is about.
LEMMA ExcludeKeeps ==
  ASSUME IInv, UNCHANGED <<secrets, had, informers, stored, pc, todo, config, fresh>>
  PROVE  IInv'
<1>1. Sound' = Sound /\ Views' = Views
  BY SoundStays
<1>. QED  BY <1>1 DEF IInv, SecretsTyped, WorkersTyped, VersionsSound, StoredIsLast,
                      UpToDate, FreshExtends, informers

-----------------------------------------------------------------------------
(* The theorems.                                                           *)

\* The first ledger is empty, everywhere.
LEMMA InitIInv == Init => IInv
<1>. SUFFICES ASSUME Init PROVE IInv
  OBVIOUS
<1>1. SecretsTyped
  <2>1. PICK data \in Data : /\ secrets = [s \in Secrets |-> Created(data, 1)]
                             /\ had = [s \in Secrets |-> {data}]
    BY DEF Init
  <2>2. Created(data, 1) \in SecretTypes /\ Created(data, 1).data = data
    BY DEF Created, SecretTypes
  <2>3. secrets \in Views
    BY <2>1, <2>2 DEF Views, Past
  <2>4. had \in [Secrets -> SUBSET Data] /\ \A s \in Secrets : IsFiniteSet(had[s])
    BY <2>1, FS_Singleton
  <2>5. \A m \in Managers : <<>> \in Seq(Views)
    OBVIOUS
  <2>6. known \in [Managers -> Views] /\ news \in [Managers -> Seq(Views)]
    BY <2>3, <2>5 DEF Init
  <2>. QED  BY <2>3, <2>4, <2>6 DEF SecretsTyped
<1>2. WorkersTyped /\ VersionsSound
  BY EmptySound DEF Init, WorkersTyped, VersionsSound
<1>3. \A m \in Managers : StoredIsLast(m) /\ FreshExtends(m)
  BY DEF Init, StoredIsLast, UpToDate, FreshExtends
<1>. QED  BY <1>1, <1>2, <1>3 DEF IInv

\* Every step of a worker, an informer or a user keeps the invariant.
LEMMA NextIInv == IInv /\ [Next]_vars => IInv'
<1>. SUFFICES ASSUME IInv, [Next]_vars PROVE IInv'
  OBVIOUS
<1>1. ASSUME NEW m \in Managers, Work(m) PROVE IInv'
  BY <1>1, StartKeeps, ReadLedgerKeeps, HashSecretKeeps, SecretGoneKeeps, StoreConfigKeeps DEF Work
<1>2. ASSUME NEW m \in Managers, Deliver(m) PROVE IInv'
  BY <1>2, DeliverKeeps
<1>6. ASSUME NEW m \in Managers, DeliverSecrets(m) PROVE IInv'
  BY <1>6, DeliverSecretsKeeps
<1>3. CASE ChangeSecret
  BY <1>3, ChangeSecretKeeps
<1>4. CASE Exclude
  BY <1>4, ExcludeKeeps DEF Exclude
<1>5. CASE UNCHANGED vars
  BY <1>5, ExcludeKeeps DEF vars, users
<1>. QED  BY <1>1, <1>2, <1>3, <1>4, <1>5, <1>6 DEF Next

\* It holds in every state.
LEMMA IInvHolds == Spec => []IInv
BY InitIInv, NextIInv, PTL DEF Spec

\* Every version there is, is sound.
LEMMA VersionsAreSound == ASSUME IInv PROVE Versions \subseteq Sound
<1>. SUFFICES ASSUME NEW c \in Versions PROVE c \in Sound
  OBVIOUS
<1>1. ASSUME NEW m \in Managers, NEW i \in DOMAIN pend[m] PROVE pend[m][i] \in Sound
  <2>1. pend[m] \in Seq(Sound)
    BY DEF IInv, VersionsSound
  <2>. QED  BY <2>1
<1>2. \/ c = stored \/ \E m \in Managers : c = cache[m] \/ c = config[m]
      \/ \E m \in Managers : \E i \in DOMAIN pend[m] : c = pend[m][i]
  BY DEF Versions
<1>. QED  BY <1>1, <1>2 DEF IInv, VersionsSound

\* A history of a sound version is no longer than there were contents: its hashes
\* are of different contents, as a content has one hash.
LEMMA SoundIsBounded ==
  ASSUME SecretsTyped, NEW c \in Sound, NEW s \in RecordedSecrets(c)
  PROVE  Len(EntryOf(c, s).history) <= Cardinality(had[s])
<1>1. c \in Configs(Hashes) /\ WellFormed(c) /\ Genuine(c)
  BY DEF Sound
<1>2. PICK h \in Seq(Hashes) : h = EntryOf(c, s).history
  BY <1>1, RecordedAt DEF Entries
<1>3. IsInjective(h)
  <2>1. PICK i, j : At(c, s, i, j) /\ EntryOf(c, s) = c[i].secrets[j]
    BY <1>1, RecordedAt
  <2>. QED  BY <1>1, <1>2, <2>1 DEF At, WellFormed
<1>4. \A i \in 1..Len(h) : \E data \in had[s] : h[i] \in HashesOf(data)
  BY <1>1, <1>2 DEF Genuine
<1>5. s \in Secrets /\ had[s] \subseteq Data /\ IsFiniteSet(had[s])
  BY <1>1, RecordedAt DEF SecretsTyped
<1>6. PICK f \in [1..Len(h) -> had[s]] : \A i \in 1..Len(h) : h[i] \in HashesOf(f[i])
  <2>. DEFINE of(i) == CHOOSE data \in had[s] : h[i] \in HashesOf(data)
  <2>1. \A i \in 1..Len(h) : of(i) \in had[s] /\ h[i] \in HashesOf(of(i))
    BY <1>4
  <2>. HIDE DEF of
  <2>2. PICK f \in [1..Len(h) -> had[s]] : f = [i \in 1..Len(h) |-> of(i)]
    BY <2>1
  <2>. QED  BY <2>1, <2>2
<1>7. ASSUME NEW i \in 1..Len(h), NEW j \in 1..Len(h), f[i] = f[j] PROVE i = j
  <2>1. f[i] \in Data /\ h[i] \in HashesOf(f[i]) /\ h[j] \in HashesOf(f[i])
    BY <1>5, <1>6, <1>7
  <2>2. h[i] = h[j]
    BY <2>1, HashIsFunction, DataAssumption
  <2>. QED  BY <1>2, <1>3, <2>2 DEF IsInjective
<1>8. f \in Injection(1..Len(h), had[s])
  BY <1>7 DEF Injection, IsInjective
<1>9. Cardinality(1..Len(h)) <= Cardinality(had[s])
  BY <1>5, <1>8, FS_Injection
<1>10. Cardinality(1..Len(h)) = Len(h)
  BY <1>2, FS_Interval
<1>. QED  BY <1>2, <1>9, <1>10

\* The inductive invariant that a run checks holds for any number of managers
\* and secrets: whatever version of the ledger is stored, cached, on its way or
\* being made is well formed, and has no hash of what a secret never held.
THEOREM LedgerInductiveHolds == Spec => []LedgerInductive
<1>1. IInv => LedgerInductive
  <2>. SUFFICES ASSUME IInv PROVE LedgerInductive
    OBVIOUS
  <2>1. ASSUME NEW m \in Managers
        PROVE  Past(known[m]) /\ \A i \in DOMAIN news[m] : Past(news[m][i])
    <3>1. known[m] \in Views /\ news[m] \in Seq(Views)
      BY DEF IInv, SecretsTyped
    <3>. QED  BY <3>1 DEF Views
  <2>. QED  BY <2>1, VersionsAreSound DEF LedgerInductive, Sound, IInv
<1>. QED  BY <1>1, IInvHolds, PTL

\* One list per namespace, one entry per secret, no hash twice in a history:
\* however many managers overwrite the ledger from stale reads (lines 468 to 518).
THEOREM LedgerStaysWellFormed == Spec => []LedgerWellFormed
<1>1. IInv => LedgerWellFormed
  BY DEF LedgerWellFormed, Sound, IInv, VersionsSound
<1>. QED  BY <1>1, IInvHolds, PTL

\* A history never has more hashes than its secret has had contents, so to read
\* a secret again, from whatever cache, adds nothing to it (utils, line 61).
THEOREM HistoryStaysBounded == Spec => []HistoryBounded
<1>1. IInv => HistoryBounded
  BY SoundIsBounded DEF HistoryBounded, IInv, VersionsSound
<1>. QED  BY <1>1, IInvHolds, PTL

\* Whoever stores what was made from the stored version loses nothing of it
\* (lines 531 to 554).
THEOREM SameReadKeeps == Spec => SameReadKeepsHistory
<1>. DEFINE A == \A m \in Managers :
                   stored' # stored /\ fresh[m] /\ pc'[m] # pc[m]
                     => Extends(stored, stored')
<1>1. ASSUME IInv, [Next]_vars PROVE [A]_vars
  <2>. SUFFICES ASSUME NEW m \in Managers, stored' # stored, fresh[m], pc'[m] # pc[m]
                PROVE  Extends(stored, stored')
    OBVIOUS
  <2>1. PICK n \in Managers : StoreConfig(n)
    BY <1>1 DEF Next, Work, Start, ReadLedger, HashSecret, SecretGone, Deliver,
                DeliverSecrets, ChangeSecret, Exclude, vars
  <2>2. pc[n] = "hashing" /\ stored' = config[n] /\ Finish(n)
    BY <2>1 DEF StoreConfig
  <2>3. m = n
    BY <1>1, <2>2, FinishTyped
  <2>. QED  BY <1>1, <2>2, <2>3 DEF IInv, FreshExtends
<1>2. IInv /\ [Next]_vars => [A]_vars
  BY <1>1
<1>. QED  BY <1>2, IInvHolds, PTL DEF Spec, SameReadKeepsHistory

=============================================================================
