-------------------------- MODULE ConfigDataProofs --------------------------
(***************************************************************************)
(* What ConfigData's operators return: the hash of a secret does not       *)
(* depend on the order of its map, and recording a hash changes one entry. *)
(***************************************************************************)
EXTENDS ConfigData, FiniteSetTheorems, TLAPS

-----------------------------------------------------------------------------
(* CalculateHash.                                                          *)

\* In an ascending sequence of a set's elements, as many are smaller than the
\* i-th as precede it.
LEMMA RankIsPosition ==
  ASSUME NEW S \in SUBSET Int, IsFiniteSet(S),
         NEW n \in Nat, n = Cardinality(S), NEW f \in [1..n -> S],
         \A i, j \in 1..n : i < j => f[i] < f[j],
         NEW i \in 1..n
  PROVE  LET below == {x \in S : x < f[i]}
         IN  IsFiniteSet(below) /\ Cardinality(below) = i - 1
<1>. DEFINE below == {x \in S : x < f[i]}
            g == [j \in 1..(i - 1) |-> f[j]]
<1>0. \A j \in 1..n : f[j] \in Int
  OBVIOUS
<1>1. IsInjective(f)
  BY <1>0 DEF IsInjective
<1>2. f \in Injection(1..n, S)
  BY <1>1 DEF Injection
<1>3. IsFiniteSet(1..n) /\ Cardinality(1..n) = n
  BY FS_Interval
<1>4. \A x \in S : \E j \in 1..n : f[j] = x
  BY <1>2, <1>3, FS_Injection DEF Surjection
<1>5. g \in Bijection(1..(i - 1), below)
  <2>1. g \in [1..(i - 1) -> below]
    OBVIOUS
  <2>2. IsInjective(g)
    BY <1>1 DEF IsInjective
  <2>3. \A x \in below : \E j \in 1..(i - 1) : g[j] = x
    <3>. SUFFICES ASSUME NEW x \in below PROVE \E j \in 1..(i - 1) : g[j] = x
      OBVIOUS
    <3>1. PICK j \in 1..n : f[j] = x
      BY <1>4
    <3>2. f[j] < f[i] /\ ~(f[i] < f[j])
      BY <1>0, <3>1
    <3>3. j < i
      BY <3>2
    <3>. QED  BY <3>1, <3>3
  <2>. QED  BY <2>1, <2>2, <2>3 DEF Bijection, Injection, Surjection
<1>6. IsFiniteSet(1..(i - 1)) /\ Cardinality(1..(i - 1)) = i - 1
  <2>1. i - 1 \in Int /\ (1 > i - 1 => i - 1 = 0)
    OBVIOUS
  <2>2. Cardinality(1..(i - 1)) = IF 1 > i - 1 THEN 0 ELSE (i - 1) - 1 + 1
    BY <2>1, FS_Interval
  <2>. QED  BY <2>1, <2>2, FS_Interval
<1>. QED  BY <1>5, <1>6, FS_Bijection DEF ExistsBijection

\* So two such sequences cannot differ anywhere.
LEMMA AscendingBelow ==
  ASSUME NEW S \in SUBSET Int, IsFiniteSet(S),
         NEW n \in Nat, n = Cardinality(S),
         NEW f \in [1..n -> S], NEW g \in [1..n -> S],
         \A i, j \in 1..n : i < j => f[i] < f[j],
         \A i, j \in 1..n : i < j => g[i] < g[j],
         NEW i \in 1..n
  PROVE  ~(f[i] < g[i])
<1>. DEFINE low == {x \in S : x < f[i]}
            high == {x \in S : x < g[i]}
<1>1. IsFiniteSet(high) /\ Cardinality(high) = i - 1
  BY RankIsPosition
<1>2. Cardinality(low) = i - 1
  BY RankIsPosition
<1>3. f[i] \in S /\ f[i] \in Int /\ g[i] \in Int /\ \A x \in S : x \in Int
  OBVIOUS
<1>4. ASSUME f[i] < g[i] PROVE low \subseteq high /\ f[i] \in high
  <2>1. ASSUME NEW x \in low PROVE x \in high
    <3>1. x \in S /\ x < f[i] /\ x \in Int
      BY <2>1, <1>3
    <3>2. x < g[i]
      BY <3>1, <1>3, <1>4
    <3>. QED  BY <3>1, <3>2
  <2>. QED  BY <2>1, <1>3, <1>4
<1>5. f[i] \notin low
  BY <1>3
<1>. HIDE DEF low, high
<1>6. f[i] < g[i] => low = high
  BY <1>1, <1>2, <1>4, FS_Subset
<1>. QED  BY <1>4, <1>5, <1>6

\* There is one ascending order of the keys of a secret.
LEMMA KeyOrderUnique ==
  ASSUME NEW data, DOMAIN data \subseteq Int, IsFiniteSet(DOMAIN data),
         NEW f \in KeyOrders(data), NEW g \in KeyOrders(data)
  PROVE  f = g
<1>1. PICK n \in Nat : n = Cardinality(DOMAIN data)
  BY FS_CardinalityType
<1>2. /\ f \in [1..n -> DOMAIN data] /\ g \in [1..n -> DOMAIN data]
      /\ \A i, j \in DOMAIN f : i < j => f[i] < f[j]
      /\ \A i, j \in DOMAIN g : i < j => g[i] < g[j]
  BY <1>1 DEF KeyOrders, SetToSeqs
<1>3. /\ \A i, j \in 1..n : i < j => f[i] < f[j]
      /\ \A i, j \in 1..n : i < j => g[i] < g[j]
  BY <1>2
<1>4. ASSUME NEW i \in 1..n PROVE f[i] = g[i]
  <2>1. f[i] \in Int /\ g[i] \in Int
    BY <1>2
  <2>2. ~(f[i] < g[i]) /\ ~(g[i] < f[i])
    BY <1>1, <1>2, <1>3, AscendingBelow
  <2>. QED  BY <2>1, <2>2
<1>. QED  BY <1>2, <1>4

\* CalculateHash is a function of the secret's map, whatever order Go's map
\* gives its keys in (utils, lines 58 to 76).
THEOREM HashIsFunction ==
  ASSUME NEW data, DOMAIN data \subseteq Int, IsFiniteSet(DOMAIN data),
         NEW h \in HashesOf(data), NEW k \in HashesOf(data)
  PROVE  h = k
BY KeyOrderUnique DEF HashesOf

-----------------------------------------------------------------------------
(* The lists.  H is the set of hashes.                                     *)

Entries(H) == [name : Names, created : Nat, modified : Nat, history : Seq(H)]

Lists(H) == [name : Namespaces, secrets : Seq(Entries(H))]

Configs(H) == Seq(Lists(H))

At(config, s, i, j) ==
  /\ i \in DOMAIN config /\ config[i].name = s[1]
  /\ j \in DOMAIN config[i].secrets /\ config[i].secrets[j].name = s[2]

\* Positions are the places where the entries are.
LEMMA PositionsAt ==
  ASSUME NEW c, NEW s
  PROVE  /\ \A p \in Positions(c, s) : p = <<p[1], p[2]>> /\ At(c, s, p[1], p[2])
         /\ \A i, j : At(c, s, i, j) => <<i, j>> \in Positions(c, s)
BY DEF Positions, At

\* In a well-formed ledger secretDataExists finds the one entry there is (lines
\* 483 to 494).
LEMMA OneEntry ==
  ASSUME NEW H, NEW c \in Configs(H), WellFormed(c), NEW s \in Secrets,
         NEW i, NEW j, At(c, s, i, j)
  PROVE  /\ FirstPosition(c, s) = <<i, j>>
         /\ EntryOf(c, s) = c[i].secrets[j]
         /\ c[i].secrets[j] \in Entries(H)
         /\ s \in RecordedSecrets(c)
<1>1. /\ i \in 1..Len(c) /\ c[i] \in Lists(H) /\ c[i].secrets \in Seq(Entries(H))
      /\ j \in 1..Len(c[i].secrets)
  <2>1. i \in 1..Len(c) /\ c[i] \in Lists(H)
    BY DEF At, Configs
  <2>2. c[i].secrets \in Seq(Entries(H))
    BY <2>1 DEF Lists
  <2>. QED  BY <2>1, <2>2 DEF At
<1>2. Positions(c, s) = {<<i, j>>}
  <2>1. <<i, j>> \in Positions(c, s)
    BY PositionsAt
  <2>2. \A p, q \in Positions(c, s) : p = q
    BY DEF WellFormed
  <2>. QED  BY <2>1, <2>2
<1>3. FirstPosition(c, s) = <<i, j>>
  <2>1. \E p \in Positions(c, s) :
          \A q \in Positions(c, s) : p[1] < q[1] \/ (p[1] = q[1] /\ p[2] <= q[2])
    BY <1>1, <1>2
  <2>. QED  BY <1>2, <2>1 DEF FirstPosition
<1>. QED  BY <1>1, <1>2, <1>3 DEF EntryOf, RecordedSecrets

\* A recorded secret has an entry.
LEMMA RecordedAt ==
  ASSUME NEW H, NEW c \in Configs(H), WellFormed(c), NEW s \in RecordedSecrets(c)
  PROVE  /\ s \in Secrets
         /\ \E i, j : At(c, s, i, j) /\ EntryOf(c, s) = c[i].secrets[j]
         /\ EntryOf(c, s) \in Entries(H)
<1>1. s \in Secrets /\ Positions(c, s) # {}
  BY DEF RecordedSecrets
<1>2. PICK p \in Positions(c, s) : At(c, s, p[1], p[2])
  BY <1>1, PositionsAt
<1>. QED  BY <1>1, <1>2, OneEntry

\* The one entry of a secret is at one place.
LEMMA AtUnique ==
  ASSUME NEW c, WellFormed(c), NEW s \in Secrets,
         NEW i, NEW j, At(c, s, i, j), NEW k, NEW l, At(c, s, k, l)
  PROVE  i = k /\ j = l
<1>1. <<i, j>> \in Positions(c, s) /\ <<k, l>> \in Positions(c, s)
  BY PositionsAt
<1>. QED  BY <1>1 DEF WellFormed

\* Every entry is that of a secret.
LEMMA EntryAt ==
  ASSUME NEW H, NEW c \in Configs(H), NEW i \in DOMAIN c, NEW j \in DOMAIN c[i].secrets
  PROVE  \E s \in Secrets : At(c, s, i, j)
<1>1. c[i] \in Lists(H)
  BY DEF Configs
<1>2. c[i].name \in Namespaces /\ c[i].secrets \in Seq(Entries(H))
  BY <1>1 DEF Lists
<1>3. c[i].secrets[j] \in Entries(H)
  BY <1>2
<1>4. c[i].secrets[j].name \in Names
  BY <1>3 DEF Entries
<1>5. At(c, <<c[i].name, c[i].secrets[j].name>>, i, j)
  BY DEF At
<1>. QED  BY <1>2, <1>4, <1>5 DEF Secrets

\* A ledger in which the entry of one secret was added or changed, and no other,
\* is well formed, and looking entries up tells so.
LEMMA GrownConfig ==
  ASSUME NEW H, NEW c \in Configs(H), WellFormed(c), NEW s \in Secrets,
         NEW d \in Configs(H), NEW a, NEW b, NEW e,
         \A i, j \in DOMAIN d : d[i].name = d[j].name => i = j,
         \A t \in Secrets : \A k, l :
           At(d, t, k, l) <=> At(c, t, k, l) \/ (t = s /\ k = a /\ l = b),
         \A t \in Secrets : \A k, l :
           At(c, t, k, l) /\ t # s => d[k].secrets[l] = c[k].secrets[l],
         s \in RecordedSecrets(c) => At(c, s, a, b),
         d[a].secrets[b] = e, IsInjective(e.history)
  PROVE  /\ WellFormed(d)
         /\ RecordedSecrets(d) = RecordedSecrets(c) \cup {s}
         /\ EntryOf(d, s) = e
         /\ \A t \in RecordedSecrets(c) \ {s} : EntryOf(d, t) = EntryOf(c, t)
<1>1. \A k, l : At(c, s, k, l) => k = a /\ l = b
  BY OneEntry, AtUnique
<1>2. ASSUME NEW t \in Secrets, NEW k, NEW l, NEW m, NEW n, At(d, t, k, l), At(d, t, m, n)
      PROVE  k = m /\ l = n
  <2>1. CASE t = s
    BY <1>1, <1>2, <2>1
  <2>2. CASE t # s
    <3>1. At(c, t, k, l) /\ At(c, t, m, n)
      BY <1>2, <2>2
    <3>. QED  BY <3>1, AtUnique
  <2>. QED  BY <2>1, <2>2
<1>3. \A t \in Secrets : \A p, q \in Positions(d, t) : p = q
  BY <1>2, PositionsAt
<1>4. ASSUME NEW k \in DOMAIN d, NEW l \in DOMAIN d[k].secrets
      PROVE  IsInjective(d[k].secrets[l].history)
  <2>1. PICK t \in Secrets : At(d, t, k, l)
    BY EntryAt
  <2>2. CASE t = s
    BY <1>1, <2>1, <2>2
  <2>3. CASE t # s
    <3>1. At(c, t, k, l) /\ d[k].secrets[l] = c[k].secrets[l]
      BY <2>1, <2>3
    <3>2. k \in DOMAIN c /\ l \in DOMAIN c[k].secrets
      BY <3>1 DEF At
    <3>. QED  BY <3>1, <3>2 DEF WellFormed
  <2>. QED  BY <2>2, <2>3
<1>5. WellFormed(d)
  BY <1>3, <1>4 DEF WellFormed
<1>6. EntryOf(d, s) = e
  <2>1. At(d, s, a, b)
    OBVIOUS
  <2>. QED  BY <1>5, <2>1, OneEntry
<1>7. ASSUME NEW t \in RecordedSecrets(c) \ {s}
      PROVE  EntryOf(d, t) = EntryOf(c, t) /\ t \in RecordedSecrets(d)
  <2>1. t \in Secrets /\ \E k, l : At(c, t, k, l) /\ EntryOf(c, t) = c[k].secrets[l]
    BY RecordedAt
  <2>2. PICK k, l : At(c, t, k, l) /\ EntryOf(c, t) = c[k].secrets[l]
    BY <2>1
  <2>3. At(d, t, k, l) /\ d[k].secrets[l] = c[k].secrets[l]
    BY <2>1, <2>2
  <2>. QED  BY <1>5, <2>1, <2>2, <2>3, OneEntry
<1>8. s \in RecordedSecrets(d)
  <2>1. At(d, s, a, b)
    OBVIOUS
  <2>. QED  BY <1>5, <2>1, OneEntry
<1>9. ASSUME NEW t \in RecordedSecrets(d), t # s PROVE t \in RecordedSecrets(c)
  <2>1. t \in Secrets /\ \E k, l : At(d, t, k, l)
    BY <1>5, RecordedAt
  <2>2. \E k, l : At(c, t, k, l)
    BY <1>9, <2>1
  <2>. QED  BY <2>1, <2>2, OneEntry
<1>. QED  BY <1>5, <1>6, <1>7, <1>8, <1>9

\* What recording one secret promises.
RecordedWell(H, c, s, d, e) ==
  /\ d \in Configs(H) /\ WellFormed(d)
  /\ RecordedSecrets(d) = RecordedSecrets(c) \cup {s}
  /\ EntryOf(d, s) = e
  /\ \A t \in RecordedSecrets(c) \ {s} : EntryOf(d, t) = EntryOf(c, t)

\* A hash that is appended only when it is new keeps the history free of
\* duplicates (lines 468 to 480).
LEMMA UpdatedWell ==
  ASSUME NEW H, NEW entry \in Entries(H), IsInjective(entry.history),
         NEW hash \in H, NEW modified \in Nat
  PROVE  LET new == UpdatedEntry(entry, hash, modified)
         IN  /\ new \in Entries(H) /\ IsInjective(new.history)
             /\ new.name = entry.name /\ new.modified = modified
             /\ new.history = IF Contains(entry.history, hash)
                                THEN entry.history
                                ELSE Append(entry.history, hash)
<1>. DEFINE new == UpdatedEntry(entry, hash, modified)
            h == entry.history
            grown == IF Contains(h, hash) THEN h ELSE Append(h, hash)
<1>1. h \in Seq(H) /\ grown \in Seq(H)
  BY DEF Entries
<1>2. /\ new.name = entry.name /\ new.modified = modified /\ new.history = grown
      /\ new \in Entries(H)
  <2>1. new = [entry EXCEPT !.history = grown, !.modified = modified]
    BY DEF UpdatedEntry
  <2>. HIDE DEF grown, new
  <2>. QED  BY <1>1, <2>1 DEF Entries
<1>3. ASSUME ~Contains(h, hash) PROVE IsInjective(Append(h, hash))
  <2>1. \A i \in 1..Len(h) : h[i] # hash
    BY <1>3 DEF Contains
  <2>2. \A i, j \in 1..Len(h) : h[i] = h[j] => i = j
    BY <1>1 DEF IsInjective
  <2>. QED  BY <1>1, <2>1, <2>2 DEF IsInjective
<1>. QED  BY <1>2, <1>3

\* The entry of a secret that has one (lines 468 to 493).
LEMMA UpdatePlaced ==
  ASSUME NEW H, NEW c \in Configs(H), WellFormed(c), NEW s \in Secrets,
         NEW i, NEW j, At(c, s, i, j),
         NEW e \in Entries(H), e.name = s[2], IsInjective(e.history)
  PROVE  RecordedWell(H, c, s, [c EXCEPT ![i].secrets[j] = e], e)
<1>. DEFINE d == [c EXCEPT ![i].secrets[j] = e]
<1>1. i \in 1..Len(c) /\ c[i] \in Lists(H)
  BY DEF At, Configs
<1>2. /\ c[i].secrets \in Seq(Entries(H)) /\ c[i].name \in Namespaces
      /\ j \in 1..Len(c[i].secrets)
  BY <1>1 DEF At, Lists
<1>. DEFINE list == [c[i].secrets EXCEPT ![j] = e]
            new == [c[i] EXCEPT !.secrets = list]
<1>3. d = [c EXCEPT ![i] = new]
  BY <1>1, <1>2
<1>4. /\ list \in Seq(Entries(H)) /\ DOMAIN list = DOMAIN c[i].secrets /\ list[j] = e
      /\ \A l \in DOMAIN list \ {j} : list[l] = c[i].secrets[l]
  BY <1>2
<1>5. new \in Lists(H) /\ new.name = c[i].name /\ new.secrets = list
  BY <1>1, <1>4 DEF Lists
<1>. HIDE DEF d, list, new
<1>6. d \in Configs(H) /\ DOMAIN d = DOMAIN c /\ d[i] = new
  BY <1>1, <1>3, <1>5 DEF Configs
<1>7. \A k \in DOMAIN d \ {i} : d[k] = c[k]
  BY <1>1, <1>3, <1>6 DEF Configs
<1>8. \A k, l \in DOMAIN d : d[k].name = d[l].name => k = l
  BY <1>5, <1>6, <1>7 DEF WellFormed
<1>9. ASSUME NEW t \in Secrets, NEW k, NEW l
      PROVE  At(d, t, k, l) <=> At(c, t, k, l) \/ (t = s /\ k = i /\ l = j)
  <2>1. CASE k # i
    BY <1>6, <1>7, <2>1 DEF At
  <2>2. CASE k = i
    <3>1. l \in DOMAIN list => list[l].name = c[i].secrets[l].name
      BY <1>4 DEF At
    <3>. QED  BY <1>4, <1>5, <1>6, <2>2, <3>1 DEF At
  <2>. QED  BY <2>1, <2>2
<1>10. ASSUME NEW t \in Secrets, NEW k, NEW l, At(c, t, k, l), t # s
       PROVE  d[k].secrets[l] = c[k].secrets[l]
  <2>1. k = i => l # j
    BY <1>10 DEF At, Secrets
  <2>. QED  BY <1>4, <1>5, <1>6, <1>7, <1>10, <2>1 DEF At
<1>11. d[i].secrets[j] = e
  BY <1>4, <1>5, <1>6
<1>12. RecordedWell(H, c, s, d, e)
  BY <1>6, <1>8, <1>9, <1>10, <1>11, GrownConfig DEF RecordedWell
<1>. QED  BY <1>12 DEF d

\* A new entry of a namespace that has a list (lines 497 to 512).
LEMMA AppendPlaced ==
  ASSUME NEW H, NEW c \in Configs(H), WellFormed(c), NEW s \in Secrets,
         s \notin RecordedSecrets(c), NEW i \in DOMAIN c, c[i].name = s[1],
         NEW e \in Entries(H), e.name = s[2], IsInjective(e.history)
  PROVE  RecordedWell(H, c, s, [c EXCEPT ![i].secrets = Append(@, e)], e)
<1>. DEFINE d == [c EXCEPT ![i].secrets = Append(@, e)]
            j == Len(c[i].secrets) + 1
            list == Append(c[i].secrets, e)
            new == [c[i] EXCEPT !.secrets = list]
<1>1. i \in 1..Len(c) /\ c[i] \in Lists(H)
  BY DEF Configs
<1>2. c[i].secrets \in Seq(Entries(H))
  BY <1>1 DEF Lists
<1>3. d = [c EXCEPT ![i] = new]
  BY <1>1, <1>2
<1>4. /\ list \in Seq(Entries(H)) /\ DOMAIN list = DOMAIN c[i].secrets \cup {j}
      /\ list[j] = e /\ j \notin DOMAIN c[i].secrets
      /\ \A l \in DOMAIN c[i].secrets : list[l] = c[i].secrets[l]
  BY <1>2
<1>. HIDE DEF list, j
<1>5. new \in Lists(H) /\ new.name = c[i].name /\ new.secrets = list
  BY <1>1, <1>4 DEF Lists
<1>. HIDE DEF d, new
<1>6. d \in Configs(H) /\ DOMAIN d = DOMAIN c /\ d[i] = new
  BY <1>1, <1>3, <1>5 DEF Configs
<1>7. \A k \in DOMAIN d \ {i} : d[k] = c[k]
  BY <1>1, <1>3, <1>6 DEF Configs
<1>8. \A k, l \in DOMAIN d : d[k].name = d[l].name => k = l
  BY <1>5, <1>6, <1>7 DEF WellFormed
<1>9. ASSUME NEW t \in Secrets, NEW k, NEW l
      PROVE  At(d, t, k, l) <=> At(c, t, k, l) \/ (t = s /\ k = i /\ l = j)
  <2>1. CASE k # i
    BY <1>6, <1>7, <2>1 DEF At
  <2>2. CASE k = i /\ l # j
    BY <1>4, <1>5, <1>6, <2>2 DEF At
  <2>3. CASE k = i /\ l = j
    <3>1. At(d, t, k, l) <=> t[1] = s[1] /\ t[2] = s[2]
      BY <1>4, <1>5, <1>6, <2>3 DEF At
    <3>2. ~At(c, t, k, l)
      BY <1>4, <2>3 DEF At
    <3>. QED  BY <2>3, <3>1, <3>2 DEF Secrets
  <2>. QED  BY <2>1, <2>2, <2>3
<1>10. ASSUME NEW t \in Secrets, NEW k, NEW l, At(c, t, k, l)
       PROVE  d[k].secrets[l] = c[k].secrets[l]
  BY <1>4, <1>5, <1>6, <1>7, <1>10 DEF At
<1>11. d[i].secrets[j] = e
  BY <1>4, <1>5, <1>6
<1>12. RecordedWell(H, c, s, d, e)
  BY <1>6, <1>8, <1>9, <1>10, <1>11, GrownConfig DEF RecordedWell
<1>. QED  BY <1>12 DEF d

\* A first entry of a namespace.
LEMMA ListPlaced ==
  ASSUME NEW H, NEW c \in Configs(H), WellFormed(c), NEW s \in Secrets,
         \A i \in DOMAIN c : c[i].name # s[1],
         NEW e \in Entries(H), e.name = s[2], IsInjective(e.history)
  PROVE  RecordedWell(H, c, s, Append(c, [name |-> s[1], secrets |-> <<e>>]), e)
<1>. DEFINE new == [name |-> s[1], secrets |-> <<e>>]
            d == Append(c, new)
            i == Len(c) + 1
<1>1. new \in Lists(H) /\ new.name = s[1] /\ DOMAIN new.secrets = {1} /\ new.secrets[1] = e
  BY DEF Lists, Secrets
<1>. HIDE DEF new
<1>2. /\ d \in Configs(H) /\ DOMAIN d = DOMAIN c \cup {i} /\ d[i] = new
      /\ i \notin DOMAIN c /\ \A k \in DOMAIN c : d[k] = c[k]
  BY <1>1 DEF Configs
<1>3. \A k, l \in DOMAIN d : d[k].name = d[l].name => k = l
  BY <1>1, <1>2 DEF WellFormed
<1>. HIDE DEF d, i
<1>4. ASSUME NEW t \in Secrets, NEW k, NEW l
      PROVE  At(d, t, k, l) <=> At(c, t, k, l) \/ (t = s /\ k = i /\ l = 1)
  <2>1. CASE k # i
    BY <1>2, <2>1 DEF At
  <2>2. CASE k = i
    <3>1. At(d, t, k, l) <=> l = 1 /\ t[1] = s[1] /\ t[2] = s[2]
      BY <1>1, <1>2, <2>2 DEF At
    <3>2. ~At(c, t, k, l)
      BY <1>2, <2>2 DEF At
    <3>. QED  BY <2>2, <3>1, <3>2 DEF Secrets
  <2>. QED  BY <2>1, <2>2
<1>5. ASSUME NEW t \in Secrets, NEW k, NEW l, At(c, t, k, l)
      PROVE  d[k].secrets[l] = c[k].secrets[l]
  BY <1>2, <1>5 DEF At
<1>6. s \notin RecordedSecrets(c)
  BY RecordedAt DEF At
<1>7. RecordedWell(H, c, s, d, e)
  BY <1>1, <1>2, <1>3, <1>4, <1>5, <1>6, GrownConfig DEF RecordedWell
<1>. QED  BY <1>7 DEF d, new

\* What recording makes of the entry of a secret.
EntryMade(c, s, hash, created, modified) ==
  IF s \in RecordedSecrets(c)
    THEN UpdatedEntry(EntryOf(c, s), hash, modified)
    ELSE Entry(s[2], created, modified, hash)

\* Recording the hash of a secret in a well-formed ledger makes a well-formed one,
\* in which the entry of the secret, and no other, is new or updated.
THEOREM RecordedIsWell ==
  ASSUME NEW H, NEW c \in Configs(H), WellFormed(c), NEW s \in Secrets,
         NEW hash \in H, NEW created \in Nat, NEW modified \in Nat
  PROVE  RecordedWell(H, c, s, Recorded(c, s, hash, created, modified),
                      EntryMade(c, s, hash, created, modified))
<1>1. CASE s \in RecordedSecrets(c)
  <2>1. PICK i, j : At(c, s, i, j)
    BY <1>1, RecordedAt
  <2>2. /\ FirstPosition(c, s) = <<i, j>> /\ EntryOf(c, s) = c[i].secrets[j]
        /\ EntryOf(c, s) \in Entries(H)
    BY <2>1, OneEntry
  <2>. DEFINE e == UpdatedEntry(EntryOf(c, s), hash, modified)
  <2>3. IsInjective(EntryOf(c, s).history) /\ EntryOf(c, s).name = s[2]
    BY <2>1, <2>2 DEF At, WellFormed
  <2>4. e \in Entries(H) /\ e.name = s[2] /\ IsInjective(e.history)
    BY <2>2, <2>3, UpdatedWell
  <2>5. Recorded(c, s, hash, created, modified) = [c EXCEPT ![i].secrets[j] = e]
    <3>1. Positions(c, s) # {}
      BY <1>1 DEF RecordedSecrets
    <3>. QED  BY <2>2, <3>1 DEF Recorded
  <2>. HIDE DEF e
  <2>6. RecordedWell(H, c, s, [c EXCEPT ![i].secrets[j] = e], e)
    BY <2>1, <2>4, UpdatePlaced
  <2>. QED  BY <1>1, <2>5, <2>6 DEF EntryMade, e
<1>2. CASE s \notin RecordedSecrets(c)
  <2>. DEFINE e == Entry(s[2], created, modified, hash)
              same == {i \in DOMAIN c : c[i].name = s[1]}
  <2>1. e \in Entries(H) /\ e.name = s[2] /\ IsInjective(e.history)
    BY DEF Entry, Entries, Secrets, IsInjective
  <2>2. Recorded(c, s, hash, created, modified) = WithNewEntry(c, s, e)
    BY <1>2 DEF Recorded, RecordedSecrets
  <2>. HIDE DEF e
  <2>3. CASE same = {}
    <3>1. WithNewEntry(c, s, e) = Append(c, [name |-> s[1], secrets |-> <<e>>])
      BY <2>3 DEF WithNewEntry
    <3>2. RecordedWell(H, c, s, WithNewEntry(c, s, e), e)
      BY <2>1, <2>3, <3>1, ListPlaced
    <3>. QED  BY <1>2, <2>2, <3>2 DEF EntryMade, e
  <2>4. CASE same # {}
    <3>1. PICK i \in DOMAIN c : c[i].name = s[1]
      BY <2>4
    <3>2. same = {i} /\ i \in Int
      BY <3>1 DEF WellFormed, Configs
    <3>3. Min(same) = i
      BY <3>2 DEF Min
    <3>4. WithNewEntry(c, s, e) = [c EXCEPT ![i].secrets = Append(@, e)]
      BY <2>4, <3>3 DEF WithNewEntry
    <3>5. RecordedWell(H, c, s, [c EXCEPT ![i].secrets = Append(@, e)], e)
      BY <1>2, <2>1, <3>1, AppendPlaced
    <3>. QED  BY <1>2, <2>2, <3>4, <3>5 DEF EntryMade, e
  <2>. QED  BY <2>3, <2>4
<1>. QED  BY <1>1, <1>2

\* Nothing is recorded in an empty ledger.
LEMMA EmptyWell ==
  ASSUME NEW H
  PROVE  <<>> \in Configs(H) /\ WellFormed(<<>>) /\ RecordedSecrets(<<>>) = {}
<1>1. <<>> \in Configs(H) /\ \A s : Positions(<<>>, s) = {}
  BY DEF Configs, Positions
<1>. QED  BY <1>1 DEF WellFormed, RecordedSecrets

=============================================================================
