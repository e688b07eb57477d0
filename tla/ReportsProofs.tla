---------------------------- MODULE ReportsProofs ----------------------------
(***************************************************************************)
(* Proofs about Reports, for any names, submissions and operations: stored *)
(* specs are ones that the controller can work with, the watch list is the *)
(* documented one, and a report tells the stale ones of the secrets that   *)
(* the run has read.                                                       *)
(***************************************************************************)
EXTENDS Reports, ConfigDataProofs

-----------------------------------------------------------------------------
(* The admission and the watch list.                                       *)

\* A text that matches the pattern of a single name.
LEMMA OneNameText ==
  ASSUME NEW text \in Texts, OneName(text)
  PROVE  \E name \in STRING : text = Text(name) /\ Named(text) = {name}
<1>1. PICK I : I = [name : STRING, padded : BOOLEAN]
  OBVIOUS
<1>2. text \in Seq(I) /\ Len(text) = 1 /\ ~text[1].padded
  BY <1>1 DEF Texts, OneName
<1>3. PICK item \in I : item = text[1]
  BY <1>2
<1>4. item.name \in STRING /\ item = Item(item.name)
  BY <1>1, <1>2, <1>3 DEF Item
<1>5. text = <<item>>
  BY <1>2, <1>3
<1>6. Named(text) = {item.name}
  BY <1>5 DEF Named, ToSet
<1>. QED  BY <1>4, <1>5, <1>6 DEF Text

\* The schema's default fills in one field (types, line 79).
LEMMA DefaultedTyped ==
  ASSUME NEW spec \in StaleSecretWatchSpecs
  PROVE  LET new == Defaulted(spec)
         IN  /\ new \in StaleSecretWatchSpecs /\ new.namespace = spec.namespace
             /\ new.excludeList = spec.excludeList
             /\ new.refreshInterval # <<>>
<1>1. PICK E : E = Seq([namespace : Texts, secretName : Texts])
  OBVIOUS
<1>. DEFINE S == [namespace : Texts, excludeList : E,
                  staleThresholdInDays : Int, refreshInterval : Seq(Int)]
<1>2. StaleSecretWatchSpecs = S /\ spec \in S
  BY <1>1 DEF StaleSecretWatchSpecs
<1>3. CASE spec.refreshInterval = <<>>
  <2>1. PICK r \in Seq(Int) : r = <<Hour>> /\ r # <<>>
    <3>1. Hour \in Int
      BY HourAssumption
    <3>2. <<Hour>> \in Seq(Int) /\ Len(<<Hour>>) = 1
      BY <3>1
    <3>3. <<Hour>> # <<>>
      OBVIOUS
    <3>. QED  BY <3>2, <3>3
  <2>2. LET d == [spec EXCEPT !.refreshInterval = r]
        IN  /\ d \in S /\ d.namespace = spec.namespace
            /\ d.excludeList = spec.excludeList /\ d.refreshInterval = r
    BY <1>2
  <2>. QED  BY <1>2, <1>3, <2>1, <2>2 DEF Defaulted
<1>4. CASE spec.refreshInterval # <<>>
  BY <1>4 DEF Defaulted
<1>. QED  BY <1>3, <1>4

\* The default is one that the webhook accepts, in a create and in every update
\* that the controller makes later.
LEMMA DefaultedSpec ==
  ASSUME NEW spec \in StaleSecretWatchSpecs, Updatable(spec) \/ Creatable(spec)
  PROVE  Defaulted(spec) \in StaleSecretWatchSpecs /\ Updatable(Defaulted(spec))
<1>. DEFINE new == Defaulted(spec)
<1>1. /\ new \in StaleSecretWatchSpecs /\ new.namespace = spec.namespace
      /\ new.excludeList = spec.excludeList
      /\ new.refreshInterval # <<>>
  BY DefaultedTyped
<1>2. Defaulted(new) = new
  BY <1>1 DEF Defaulted
<1>3. SchemaAccepts(new) /\ ValidateStaleSecretWatch(new)
  BY <1>1 DEF Updatable, Creatable, ValidateUpdate, ValidateCreate, SchemaAccepts
<1>. QED  BY <1>1, <1>2, <1>3 DEF Updatable, ValidateUpdate

\* For a spec that gets past the admission prepareWatchList computes what the
\* comments of the API types describe (lines 557 to 620).
LEMMA WatchListIsDocumented ==
  ASSUME NEW spec \in StaleSecretWatchSpecs, Updatable(spec),
         NEW objs, DOMAIN objs = Secrets
  PROVE  PrepareWatchList(spec, Namespaces, objs) = Monitored(spec, objs)
<1>1. PICK namespace \in STRING :
        spec.namespace = Text(namespace) /\ Named(spec.namespace) = {namespace}
  BY OneNameText DEF StaleSecretWatchSpecs, Updatable, SchemaAccepts
<1>2. ASSUME NEW s \in Secrets
      PROVE  s[1] \in NamespacesToWatch(spec, Namespaces)
               <=> Named(spec.namespace) \cap {s[1], "all"} # {}
  <2>1. s[1] \in Namespaces
    BY DEF Secrets
  <2>2. CASE namespace = "all"
    BY <1>1, <2>1, <2>2 DEF NamespacesToWatch
  <2>3. CASE namespace # "all"
    <3>1. Text(namespace) # Text("all")
      BY <2>3 DEF Text, Item
    <3>2. {Trimmed(spec.namespace[i]) : i \in DOMAIN spec.namespace} = {namespace}
      BY <1>1 DEF Text, Item, Trimmed
    <3>. QED  BY <1>1, <2>3, <3>1, <3>2 DEF NamespacesToWatch
  <2>. QED  BY <2>2, <2>3
<1>3. ASSUME NEW s \in Secrets
      PROVE  ExcludedBy(spec, s)
               <=> s \in UNION {Named(e.namespace) \X Named(e.secretName) :
                                  e \in ToSet(spec.excludeList)}
  <2>1. spec.excludeList \in Seq([namespace : Texts, secretName : Texts])
    BY DEF StaleSecretWatchSpecs
  <2>2. ASSUME NEW i \in DOMAIN spec.excludeList
        PROVE  LET e == spec.excludeList[i]
               IN  e.namespace = Text(s[1]) /\ ListContains(e.secretName, s[2])
                     <=> s \in Named(e.namespace) \X Named(e.secretName)
    <3>. DEFINE e == spec.excludeList[i]
    <3>1. e.namespace \in Texts /\ e.secretName \in Texts /\ OneName(e.namespace)
      <4>1. e \in [namespace : Texts, secretName : Texts]
        <5>1. PICK R : R = [namespace : Texts, secretName : Texts]
          OBVIOUS
        <5>2. PICK list \in Seq(R) : list = spec.excludeList
          BY <2>1, <5>1
        <5>3. list[i] \in R
          BY <5>2
        <5>. QED  BY <5>1, <5>2, <5>3
      <4>2. OneName(e.namespace)
        BY DEF Updatable, SchemaAccepts
      <4>. QED  BY <4>1, <4>2
    <3>2. PICK name \in STRING : e.namespace = Text(name) /\ Named(e.namespace) = {name}
      BY <3>1, OneNameText
    <3>3. Text(name) = Text(s[1]) <=> name = s[1]
      BY DEF Text, Item
    <3>4. ListContains(e.secretName, s[2]) <=> s[2] \in Named(e.secretName)
      BY DEF ListContains, Trimmed, Named, ToSet
    <3>5. s = <<s[1], s[2]>>
      BY DEF Secrets
    <3>. HIDE DEF e
    <3>6. s \in Named(e.namespace) \X Named(e.secretName)
            <=> s[1] \in Named(e.namespace) /\ s[2] \in Named(e.secretName)
      BY <3>5
    <3>. QED  BY <3>2, <3>3, <3>4, <3>6 DEF e
  <2>3. s \in UNION {Named(e.namespace) \X Named(e.secretName) :
                       e \in ToSet(spec.excludeList)}
          <=> \E i \in DOMAIN spec.excludeList :
                s \in Named(spec.excludeList[i].namespace)
                        \X Named(spec.excludeList[i].secretName)
    BY DEF ToSet
  <2>. QED  BY <2>2, <2>3 DEF ExcludedBy
<1>. QED  BY <1>2, <1>3 DEF PrepareWatchList, Monitored

-----------------------------------------------------------------------------
(* The StaleSecretWatches and the worker's copy.  U is the set of uids.    *)

Specs == StaleSecretWatchSpecs

Shapes(U) ==
  [exists : BOOLEAN, uid : U, spec : Specs \cup {<<>>}, last : Int,
   report : SUBSET Secrets]

\* What is stored is admitted, and its annotation is not from the future.
Stored(o) ==
  /\ o.exists => o.spec \in Specs /\ Updatable(o.spec)
  /\ o.last <= now

Labels == {"idle", "ensure", "record", "check", "report"}

SswsTyped ==
  \E U : /\ 0 \in U
         /\ ssws \in [Ssws -> Shapes(U)] /\ copy \in Shapes(U)
         /\ \A w \in Ssws : Stored(ssws[w])

RunTyped ==
  /\ pc \in Labels /\ cur \in Ssws \cup {""} /\ listed \subseteq Secrets
  /\ pc # "idle" => copy.exists /\ Stored(copy) /\ cur \in Ssws

\* With it, the secrets are those of the cluster.
IInv ==
  /\ now \in 0..MaxTime /\ budget \in 0..Budget /\ DOMAIN secrets = Secrets
  /\ SswsTyped /\ RunTyped

\* The writes of a stored object change one field.
LEMMA Rewritten ==
  ASSUME NEW U, NEW o \in Shapes(U), Stored(o), now \in Int
  PROVE  /\ \A time \in Int : time <= now =>
              LET new == [o EXCEPT !.last = time]
              IN  new \in Shapes(U) /\ Stored(new) /\ new.exists = o.exists
         /\ \A report \in SUBSET Secrets :
              LET new == [o EXCEPT !.report = report]
              IN  new \in Shapes(U) /\ Stored(new) /\ new.exists = o.exists
         /\ \A spec \in Specs : Updatable(spec) =>
              LET new == [o EXCEPT !.spec = spec]
              IN  new \in Shapes(U) /\ Stored(new)
<1>. PICK S : S = Specs \cup {<<>>}
  OBVIOUS
<1>1. o \in [exists : BOOLEAN, uid : U, spec : S, last : Int, report : SUBSET Secrets]
  BY DEF Shapes
<1>2. ASSUME NEW time \in Int, time <= now
      PROVE  LET new == [o EXCEPT !.last = time]
             IN  new \in Shapes(U) /\ Stored(new) /\ new.exists = o.exists
  BY <1>1, <1>2 DEF Shapes, Stored
<1>3. ASSUME NEW report \in SUBSET Secrets
      PROVE  LET new == [o EXCEPT !.report = report]
             IN  new \in Shapes(U) /\ Stored(new) /\ new.exists = o.exists
  BY <1>1 DEF Shapes, Stored
<1>4. ASSUME NEW spec \in Specs, Updatable(spec)
      PROVE  LET new == [o EXCEPT !.spec = spec]
             IN  new \in Shapes(U) /\ Stored(new)
  BY <1>1, <1>4 DEF Shapes, Stored
<1>. QED  BY <1>2, <1>3, <1>4

\* There is none, and there is a new one.
LEMMA NewShapes ==
  ASSUME NEW U, now \in Nat, 0 \in U
  PROVE  /\ NoSsw \in Shapes(U) /\ Stored(NoSsw) /\ ~NoSsw.exists
         /\ \A spec : \A uid \in U :
              Defaulted(spec) \in Specs /\ Updatable(Defaulted(spec)) =>
                NewSsw(uid, spec) \in Shapes(U) /\ Stored(NewSsw(uid, spec))
<1>1. Day \in Nat
  BY StaleDayAssumption
<1>2. NoSsw \in Shapes(U) /\ Stored(NoSsw) /\ ~NoSsw.exists
  BY <1>1 DEF NoSsw, Shapes, Stored, Epoch
<1>3. ASSUME NEW spec, Defaulted(spec) \in Specs, Updatable(Defaulted(spec)), NEW uid \in U
      PROVE  NewSsw(uid, spec) \in Shapes(U) /\ Stored(NewSsw(uid, spec))
  <2>1. PICK S : S = Specs \cup {<<>>}
    OBVIOUS
  <2>2. /\ NoSsw \in [exists : BOOLEAN, uid : U, spec : S, last : Int, report : SUBSET Secrets]
        /\ NoSsw.last <= now /\ Defaulted(spec) \in S
    BY <1>2, <1>3, <2>1 DEF Shapes, Stored
  <2>3. LET new == NewSsw(uid, spec)
        IN  /\ new \in [exists : BOOLEAN, uid : U, spec : S, last : Int,
                        report : SUBSET Secrets]
            /\ new.spec = Defaulted(spec) /\ new.last = NoSsw.last
    BY <2>2 DEF NewSsw
  <2>. QED  BY <1>3, <2>1, <2>2, <2>3 DEF Shapes, Stored
<1>. QED  BY <1>2, <1>3

\* More uids, and a later time, are no harm.
LEMMA ShapesGrow ==
  ASSUME NEW U, NEW V, U \subseteq V
  PROVE  Shapes(U) \subseteq Shapes(V)
BY DEF Shapes

\* What is stored stays it as time goes by.
LEMMA StoredStays ==
  ASSUME NEW o, o.last \in Int, Stored(o), now \in Int, now' \in Int, now <= now'
  PROVE  Stored(o)'
BY DEF Stored

-----------------------------------------------------------------------------
(* The steps of the worker.                                                *)

\* The end of a run.
LEMMA FinishTyped ==
  ASSUME IInv, Finish, UNCHANGED <<now, budget, secrets>>,
         \E U : /\ ssws' \in [Ssws -> Shapes(U)] /\ 0 \in U
                /\ \A w \in Ssws : Stored(ssws'[w])
  PROVE  IInv'
<1>1. PICK U : /\ ssws' \in [Ssws -> Shapes(U)] /\ 0 \in U
               /\ \A w \in Ssws : Stored(ssws'[w])
  OBVIOUS
<1>2. now \in Nat /\ now' = now
  BY BoundAssumption DEF IInv
<1>3. copy' \in Shapes(U)
  BY <1>1, <1>2, NewShapes DEF Finish
<1>4. \A w \in Ssws : Stored(ssws[w])'
  BY <1>1, <1>2 DEF Stored
<1>5. SswsTyped'
  BY <1>1, <1>3, <1>4 DEF SswsTyped
<1>6. RunTyped'
  BY DEF Finish, RunTyped, Labels
<1>. QED  BY <1>5, <1>6 DEF IInv

\* The steps that leave the objects of users alone and go on.
LEMMA GoesOn ==
  ASSUME IInv, UNCHANGED <<now, budget, secrets, ssws, cur, copy>>,
         pc # "idle", pc' \in Labels, listed' \subseteq Secrets
  PROVE  IInv'
BY DEF IInv, SswsTyped, RunTyped, Stored

\* The runs that end and change nothing that the invariant is about.
LEMMA EndTyped ==
  ASSUME IInv, Finish, UNCHANGED <<now, budget, secrets, ssws>>
  PROVE  IInv'
<1>1. \E U : /\ ssws' \in [Ssws -> Shapes(U)] /\ 0 \in U
             /\ \A w \in Ssws : Stored(ssws'[w])
  BY DEF IInv, SswsTyped
<1>. QED  BY <1>1, FinishTyped

\* A run starts with a copy of a stored object.
LEMMA FetchTyped ==
  ASSUME IInv, NEW w \in Ssws, Fetch(w)
  PROVE  IInv'
<1>1. /\ ssws[w].exists /\ pc' = "ensure" /\ cur' = w /\ copy' = ssws[w]
      /\ UNCHANGED <<now, budget, secrets, ssws, listed>>
  BY DEF Fetch, Goto, objects
<1>2. PICK U : /\ 0 \in U /\ ssws \in [Ssws -> Shapes(U)]
               /\ \A v \in Ssws : Stored(ssws[v])
  BY DEF IInv, SswsTyped
<1>3. copy' \in Shapes(U) /\ Stored(copy)'
  BY <1>1, <1>2 DEF Stored
<1>4. \A v \in Ssws : Stored(ssws[v])'
  BY <1>1, <1>2 DEF Stored
<1>5. SswsTyped'
  BY <1>1, <1>2, <1>3, <1>4 DEF SswsTyped
<1>6. RunTyped'
  BY <1>1, <1>3 DEF IInv, RunTyped, Labels
<1>. QED  BY <1>1, <1>5, <1>6 DEF IInv

\* A claim writes the annotation of a stored object; its webhook lets it pass.
LEMMA ClaimTyped ==
  ASSUME IInv, ClaimDay
  PROVE  IInv'
<1>1. /\ pc = "check" /\ pc' = "report" /\ ssws[cur] = copy
      /\ ssws' = [ssws EXCEPT ![cur].last = now] /\ copy' = ssws'[cur]
      /\ UNCHANGED <<now, budget, secrets, cur, listed>>
  BY DEF ClaimDay, Goto
<1>2. PICK U : /\ 0 \in U /\ ssws \in [Ssws -> Shapes(U)]
               /\ \A v \in Ssws : Stored(ssws[v])
  BY DEF IInv, SswsTyped
<1>3. cur \in Ssws /\ now \in Int /\ ssws[cur] \in Shapes(U) /\ ssws[cur].exists
  <2>1. cur \in Ssws /\ copy.exists
    BY <1>1 DEF IInv, RunTyped
  <2>2. now \in Int
    BY BoundAssumption DEF IInv
  <2>. QED  BY <1>1, <1>2, <2>1, <2>2
<1>. DEFINE new == [ssws[cur] EXCEPT !.last = now]
<1>4. new \in Shapes(U) /\ Stored(new) /\ new.exists
  BY <1>2, <1>3, Rewritten
<1>. HIDE DEF new
<1>5. ssws' = [ssws EXCEPT ![cur] = new]
  BY <1>1 DEF new
<1>6. /\ ssws' \in [Ssws -> Shapes(U)] /\ copy' = new
      /\ \A v \in Ssws : ssws'[v] = new \/ ssws'[v] = ssws[v]
  BY <1>1, <1>2, <1>3, <1>4, <1>5
<1>7. SswsTyped' /\ Stored(copy)'
  BY <1>1, <1>2, <1>4, <1>6 DEF SswsTyped, Stored
<1>8. RunTyped'
  BY <1>1, <1>3, <1>4, <1>6, <1>7 DEF IInv, RunTyped, Labels
<1>. QED  BY <1>1, <1>7, <1>8 DEF IInv

\* The report is about secrets.
LEMMA ReportTyped ==
  ASSUME IInv, PublishReport
  PROVE  IInv'
<1>1. /\ pc = "report" /\ ssws' = [ssws EXCEPT ![cur].report = StaleSecrets] /\ Finish
      /\ UNCHANGED <<now, budget, secrets>>
  BY DEF PublishReport
<1>2. PICK U : /\ 0 \in U /\ ssws \in [Ssws -> Shapes(U)]
               /\ \A v \in Ssws : Stored(ssws[v])
  BY DEF IInv, SswsTyped
<1>3. cur \in Ssws /\ now \in Int /\ ssws[cur] \in Shapes(U)
  <2>1. cur \in Ssws
    BY <1>1 DEF IInv, RunTyped
  <2>2. now \in Int
    BY BoundAssumption DEF IInv
  <2>. QED  BY <1>2, <2>1, <2>2
<1>4. StaleSecrets \in SUBSET Secrets
  BY DEF StaleSecrets, RecordedSecrets
<1>. DEFINE new == [ssws[cur] EXCEPT !.report = StaleSecrets]
<1>5. new \in Shapes(U) /\ Stored(new)
  BY <1>2, <1>3, <1>4, Rewritten
<1>. HIDE DEF new
<1>6. ssws' = [ssws EXCEPT ![cur] = new]
  BY <1>1 DEF new
<1>7. ssws' \in [Ssws -> Shapes(U)] /\ \A v \in Ssws : Stored(ssws'[v])
  BY <1>2, <1>3, <1>5, <1>6
<1>. QED  BY <1>1, <1>2, <1>7, FinishTyped

\* Every step of the worker.
LEMMA WorkTyped ==
  ASSUME IInv, Work
  PROVE  IInv'
<1>1. CASE CreateLedger \/ ListFails \/ RecordFails \/ NoClaim \/ NoReport
  BY <1>1, EndTyped DEF CreateLedger, ListFails, RecordFails, NoClaim, NoReport, objects
<1>2. CASE ListSecrets
  <2>1. PrepareWatchList(copy.spec, Namespaces, secrets) \subseteq Secrets
    BY DEF PrepareWatchList, IInv
  <2>. QED  BY <1>2, <2>1, GoesOn DEF ListSecrets, Goto, objects, Labels
<1>3. CASE RecordSecrets
  BY <1>3, GoesOn DEF RecordSecrets, Goto, Labels, IInv, RunTyped
<1>4. CASE ClaimDay
  BY <1>4, ClaimTyped
<1>5. CASE PublishReport
  BY <1>5, ReportTyped
<1>. QED  BY <1>1, <1>2, <1>3, <1>4, <1>5 DEF Work

-----------------------------------------------------------------------------
(* The steps of users, the garbage collector and the clock.                *)

\* What happens to the stored objects while the worker's run goes on.
LEMMA UsersTyped ==
  ASSUME IInv, NEW U, 0 \in U, copy \in Shapes(U),
         ssws' \in [Ssws -> Shapes(U)], \A w \in Ssws : Stored(ssws'[w]),
         UNCHANGED <<now, secrets, pc, run>>, budget' \in 0..Budget
  PROVE  IInv'
<1>1. UNCHANGED <<cur, copy, listed>>
  BY DEF run
<1>2. \A w \in Ssws : Stored(ssws[w])'
  BY DEF Stored
<1>3. SswsTyped'
  BY <1>1, <1>2 DEF SswsTyped
<1>4. RunTyped'
  BY <1>1 DEF IInv, RunTyped, Stored
<1>. QED  BY <1>3, <1>4 DEF IInv

\* What leaves the stored objects alone.
LEMMA OthersTyped ==
  ASSUME IInv, UNCHANGED <<ssws, pc, run>>, DOMAIN secrets' = Secrets,
         budget' \in 0..Budget, now' \in 0..MaxTime, now <= now'
  PROVE  IInv'
<1>1. UNCHANGED <<cur, copy, listed>>
  BY DEF run
<1>2. now \in Int /\ now' \in Int
  BY BoundAssumption DEF IInv
<1>3. PICK U : /\ 0 \in U /\ ssws \in [Ssws -> Shapes(U)] /\ copy \in Shapes(U)
               /\ \A w \in Ssws : Stored(ssws[w])
  BY DEF IInv, SswsTyped
<1>4. \A o \in Shapes(U) : o.last \in Int
  BY DEF Shapes
<1>5. \A o \in Shapes(U) : Stored(o) => o.last <= now'
  BY <1>2, <1>4 DEF Stored
<1>6. (\A w \in Ssws : Stored(ssws[w])') /\ (Stored(copy) => Stored(copy)')
  BY <1>1, <1>3, <1>5 DEF Stored
<1>7. SswsTyped'
  BY <1>1, <1>3, <1>6 DEF SswsTyped
<1>8. RunTyped'
  BY <1>1, <1>6 DEF IInv, RunTyped
<1>. QED  BY <1>7, <1>8 DEF IInv

\* A user has done something.
LEMMA DisturbTyped == ASSUME IInv, Disturb PROVE budget' \in 0..Budget
BY BoundAssumption DEF IInv, Disturb

\* One stored object is replaced.
LEMMA SswTyped ==
  ASSUME IInv, NEW w \in Ssws, NEW U, 0 \in U, copy \in Shapes(U),
         ssws \in [Ssws -> Shapes(U)], \A v \in Ssws : Stored(ssws[v]),
         NEW new \in Shapes(U), Stored(new), ssws' = [ssws EXCEPT ![w] = new],
         Disturb, UNCHANGED <<now, secrets, pc, run>>
  PROVE  IInv'
<1>1. ssws' \in [Ssws -> Shapes(U)] /\ \A v \in Ssws : Stored(ssws'[v])
  OBVIOUS
<1>. QED  BY <1>1, DisturbTyped, UsersTyped

\* What users submit is admitted before it is stored.
LEMMA CreateSswTyped ==
  ASSUME IInv, NEW w \in Ssws, CreateSsw(w)
  PROVE  IInv'
<1>1. PICK V : /\ 0 \in V /\ ssws \in [Ssws -> Shapes(V)] /\ copy \in Shapes(V)
               /\ \A v \in Ssws : Stored(ssws[v])
  BY DEF IInv, SswsTyped
<1>. DEFINE U == V \cup {FreshUid}
<1>2. /\ 0 \in U /\ ssws \in [Ssws -> Shapes(U)] /\ copy \in Shapes(U) /\ FreshUid \in U
  <2>1. Shapes(V) \subseteq Shapes(U)
    BY ShapesGrow
  <2>. QED  BY <1>1, <2>1
<1>. HIDE DEF U
<1>3. PICK spec \in Submissions :
        Creatable(spec) /\ ssws' = [ssws EXCEPT ![w] = NewSsw(FreshUid, spec)]
  BY DEF CreateSsw
<1>4. Defaulted(spec) \in Specs /\ Updatable(Defaulted(spec))
  BY <1>3, SubmissionsAssumption, DefaultedSpec DEF Specs
<1>5. now \in Nat
  BY BoundAssumption DEF IInv
<1>6. NewSsw(FreshUid, spec) \in Shapes(U) /\ Stored(NewSsw(FreshUid, spec))
  BY <1>2, <1>4, <1>5, NewShapes
<1>7. Disturb /\ UNCHANGED <<now, secrets, pc, run>>
  BY DEF CreateSsw
<1>. QED  BY <1>1, <1>2, <1>3, <1>6, <1>7, SswTyped

\* The same holds of an edit.
LEMMA EditSswTyped ==
  ASSUME IInv, NEW w \in Ssws, EditSsw(w)
  PROVE  IInv'
<1>1. PICK U : /\ 0 \in U /\ ssws \in [Ssws -> Shapes(U)] /\ copy \in Shapes(U)
               /\ \A v \in Ssws : Stored(ssws[v])
  BY DEF IInv, SswsTyped
<1>2. PICK spec \in Submissions :
        Updatable(spec) /\ ssws' = [ssws EXCEPT ![w].spec = Defaulted(spec)]
  BY DEF EditSsw
<1>3. Defaulted(spec) \in Specs /\ Updatable(Defaulted(spec))
  BY <1>2, SubmissionsAssumption, DefaultedSpec DEF Specs
<1>4. now \in Int
  BY BoundAssumption DEF IInv
<1>. DEFINE new == [ssws[w] EXCEPT !.spec = Defaulted(spec)]
<1>5. new \in Shapes(U) /\ Stored(new)
  BY <1>1, <1>3, <1>4, Rewritten
<1>6. ssws' = [ssws EXCEPT ![w] = new]
  BY <1>2
<1>. HIDE DEF new
<1>7. Disturb /\ UNCHANGED <<now, secrets, pc, run>>
  BY DEF EditSsw
<1>. QED  BY <1>1, <1>5, <1>6, <1>7, SswTyped

\* A deleted object leaves nothing behind.
LEMMA DeleteSswTyped ==
  ASSUME IInv, NEW w \in Ssws, DeleteSsw(w)
  PROVE  IInv'
<1>1. PICK U : /\ 0 \in U /\ ssws \in [Ssws -> Shapes(U)] /\ copy \in Shapes(U)
               /\ \A v \in Ssws : Stored(ssws[v])
  BY DEF IInv, SswsTyped
<1>2. now \in Nat
  BY BoundAssumption DEF IInv
<1>3. NoSsw \in Shapes(U) /\ Stored(NoSsw)
  BY <1>1, <1>2, NewShapes
<1>4. /\ ssws' = [ssws EXCEPT ![w] = NoSsw]
      /\ Disturb /\ UNCHANGED <<now, secrets, pc, run>>
  BY DEF DeleteSsw
<1>. QED  BY <1>1, <1>3, <1>4, SswTyped

\* Every step keeps the invariant.
LEMMA NextTyped == IInv /\ [Next]_vars => IInv'
<1>. SUFFICES ASSUME IInv, [Next]_vars PROVE IInv'
  OBVIOUS
<1>0. /\ now \in 0..MaxTime /\ now <= now /\ budget \in 0..Budget
      /\ DOMAIN secrets = Secrets
  BY BoundAssumption DEF IInv
<1>1. ASSUME NEW w \in Ssws, Fetch(w) \/ CreateSsw(w) \/ EditSsw(w) \/ DeleteSsw(w)
      PROVE  IInv'
  BY <1>1, FetchTyped, CreateSswTyped, EditSswTyped, DeleteSswTyped
<1>2. CASE Work
  BY <1>2, WorkTyped
<1>3. ASSUME NEW s \in Secrets, ChangeSecret(s) PROVE IInv'
  <2>1. Disturb /\ UNCHANGED <<now, ssws, pc, run>>
    BY <1>3 DEF ChangeSecret
  <2>2. DOMAIN secrets' = Secrets
    <3>1. \E secret : secrets' = [secrets EXCEPT ![s] = secret]
      BY <1>3 DEF ChangeSecret
    <3>. QED  BY <1>0, <3>1
  <2>. QED  BY <1>0, <2>1, <2>2, DisturbTyped, OthersTyped
<1>4. CASE DeleteLedger \/ CollectLedger
  <2>1. UNCHANGED <<now, secrets, ssws, pc, run>> /\ (Disturb \/ UNCHANGED budget)
    BY <1>4 DEF DeleteLedger, CollectLedger
  <2>. QED  BY <1>0, <2>1, DisturbTyped, OthersTyped
<1>5. CASE Tick
  <2>1. /\ now < MaxTime /\ now' = now + 1
        /\ UNCHANGED <<budget, secrets, ssws, pc, run>>
    BY <1>5 DEF Tick, objects
  <2>2. now' \in 0..MaxTime /\ now <= now'
    BY <1>0, <2>1, BoundAssumption
  <2>. QED  BY <1>0, <2>1, <2>2, OthersTyped
<1>6. CASE UNCHANGED vars
  <2>1. UNCHANGED <<now, budget, secrets, ssws, pc, run>>
    BY <1>6 DEF vars, objects
  <2>. QED  BY <1>0, <2>1, OthersTyped
<1>. QED  BY <1>1, <1>2, <1>3, <1>4, <1>5, <1>6 DEF Next, Users

\* What the controller finds at its start has been admitted.
LEMMA InitTyped == Init => IInv
<1>. SUFFICES ASSUME Init PROVE IInv
  OBVIOUS
<1>. DEFINE U == {0} \cup {FirstUids[w] : w \in Ssws}
<1>1. now = 0 /\ now \in Nat /\ copy = NoSsw
  BY DEF Init
<1>2. NoSsw \in Shapes(U) /\ Stored(NoSsw) /\ ~NoSsw.exists
  BY <1>1, NewShapes
<1>3. PICK specs \in [Ssws -> {<<>>} \cup {spec \in Submissions : Creatable(spec)}] :
        ssws = [w \in Ssws |-> IF specs[w] = <<>> THEN NoSsw
                                                 ELSE NewSsw(FirstUids[w], specs[w])]
  BY DEF Init
<1>4. ASSUME NEW w \in Ssws PROVE ssws[w] \in Shapes(U) /\ Stored(ssws[w])
  <2>1. CASE specs[w] = <<>>
    BY <1>2, <1>3, <2>1
  <2>2. CASE specs[w] # <<>>
    <3>1. specs[w] \in Specs /\ Creatable(specs[w])
      BY <2>2, SubmissionsAssumption DEF Specs
    <3>2. NewSsw(FirstUids[w], specs[w]) \in Shapes(U)
            /\ Stored(NewSsw(FirstUids[w], specs[w]))
      BY <1>1, <3>1, DefaultedSpec, NewShapes DEF Specs
    <3>. QED  BY <1>3, <2>2, <3>2
  <2>. QED  BY <2>1, <2>2
<1>5. ssws \in [Ssws -> Shapes(U)] /\ 0 \in U
  BY <1>3, <1>4
<1>. HIDE DEF U
<1>7. SswsTyped
  BY <1>1, <1>2, <1>4, <1>5 DEF SswsTyped
<1>8. RunTyped
  BY DEF Init, RunTyped, Labels
<1>9. now \in 0..MaxTime /\ budget \in 0..Budget /\ DOMAIN secrets = Secrets
  <2>1. DOMAIN secrets = Secrets
    BY DEF Init
  <2>2. now = 0 /\ budget = Budget
    BY DEF Init
  <2>. QED  BY <2>1, <2>2, BoundAssumption
<1>. QED  BY <1>7, <1>8, <1>9 DEF IInv

\* It holds in every state.
LEMMA IInvHolds == Spec => []IInv
BY InitTyped, NextTyped, PTL DEF Spec

\* Stored specs are admitted ones, so the controller's own updates get past the
\* webhook; no annotation is from the future; a run has an object to work on.
THEOREM TypeCorrect == Spec => []TypeOK
<1>1. IInv => TypeOK
  <2>. SUFFICES ASSUME IInv PROVE TypeOK
    OBVIOUS
  <2>1. PICK U : ssws \in [Ssws -> Shapes(U)] /\ \A w \in Ssws : Stored(ssws[w])
    BY DEF IInv, SswsTyped
  <2>2. \A w \in Ssws : ssws[w].report \subseteq Secrets
    BY <2>1 DEF Shapes
  <2>3. \A w \in Ssws : /\ ssws[w].last <= now
                        /\ ssws[w].exists => Updatable(ssws[w].spec)
    BY <2>1 DEF Stored
  <2>. QED  BY <2>2, <2>3 DEF IInv, RunTyped, Labels, TypeOK
<1>. QED  BY <1>1, IInvHolds, PTL

\* The watch list is the documented one in every run (lines 557 to 620).
THEOREM ListIsDocumented == Spec => WatchedAsDocumented
<1>1. IInv /\ [Next]_vars =>
        [ListSecrets => listed' = Monitored(copy.spec, secrets)]_vars
  <2>. SUFFICES ASSUME IInv, ListSecrets PROVE listed' = Monitored(copy.spec, secrets)
    OBVIOUS
  <2>1. pc # "idle" /\ listed' = PrepareWatchList(copy.spec, Namespaces, secrets)
    BY DEF ListSecrets
  <2>2. copy.spec \in Specs /\ Updatable(copy.spec) /\ DOMAIN secrets = Secrets
    BY <2>1 DEF IInv, RunTyped, Stored
  <2>. QED  BY <2>1, <2>2, WatchListIsDocumented DEF Specs
<1>. QED  BY <1>1, IInvHolds, PTL DEF Spec, WatchedAsDocumented

-----------------------------------------------------------------------------
(* A batch: the secrets of the list are recorded one after the other.      *)

\* A family of subsets of a finite set has a smallest member: what induction on
\* finite sets comes to, without an operator for the induction hypothesis.
LEMMA MinimalSubset ==
  ASSUME NEW S, IsFiniteSet(S), NEW F \in SUBSET (SUBSET S), F # {}
  PROVE  \E u \in F : \A v \in F : ~(v \subseteq u /\ v # u)
<1>1. IsWellFoundedOn(StrictSubsetOrdering(S), SUBSET S)
  BY FS_StrictSubsetOrderingWellFounded, FS_FiniteSubsetsOfFinite
<1>2. PICK u \in F : \A v \in F : <<v, u>> \notin StrictSubsetOrdering(S)
  BY <1>1, WFMin
<1>. QED  BY <1>2 DEF StrictSubsetOrdering

AnyOf(set) == CHOOSE s \in set : TRUE

\* The recursive function that FoldSet applies to the list.
Step(c, f, set) ==
  IF set = {} THEN c ELSE RecordedOne(AnyOf(set), f[set \ {AnyOf(set)}])

Folding(c, f, S) == f = [set \in SUBSET S |-> Step(c, f, set)]

\* Two such functions agree.
LEMMA FoldUnique ==
  ASSUME NEW c, NEW S, IsFiniteSet(S), NEW f, NEW g, NEW T,
         Folding(c, f, S), Folding(c, g, T),
         NEW u, u \subseteq S, u \subseteq T
  PROVE  f[u] = g[u]
<1>. DEFINE Bad == {v \in SUBSET (S \cap T) : f[v] # g[v]}
<1>. SUFFICES ASSUME Bad # {} PROVE FALSE
  OBVIOUS
<1>1. IsFiniteSet(S \cap T)
  BY FS_Subset
<1>2. PICK v \in Bad : \A w \in Bad : ~(w \subseteq v /\ w # v)
  <2>1. PICK F \in SUBSET (SUBSET (S \cap T)) : F = Bad
    OBVIOUS
  <2>. HIDE DEF Bad
  <2>. QED  BY <1>1, <2>1, MinimalSubset
<1>3. v \in SUBSET S /\ v \in SUBSET T /\ f[v] # g[v]
  OBVIOUS
<1>4. f[v] = Step(c, f, v) /\ g[v] = Step(c, g, v)
  BY <1>3 DEF Folding
<1>5. v # {}
  BY <1>3, <1>4 DEF Step
<1>6. AnyOf(v) \in v
  BY <1>5 DEF AnyOf
<1>7. f[v \ {AnyOf(v)}] = g[v \ {AnyOf(v)}]
  BY <1>2, <1>3, <1>6
<1>. QED  BY <1>3, <1>4, <1>5, <1>7 DEF Step

\* So one for a set is part of one for a larger set.
LEMMA FoldPart ==
  ASSUME NEW c, NEW u, NEW v, NEW f, NEW g, IsFiniteSet(u), u \subseteq v,
         Folding(c, f, u), Folding(c, g, v)
  PROVE  f[u] = g[u]
<1>1. u \subseteq u
  OBVIOUS
<1>. QED  BY <1>1, FoldUnique

\* And there is one.
LEMMA FoldExists ==
  ASSUME NEW c, NEW S, IsFiniteSet(S)
  PROVE  \E f : Folding(c, f, S)
<1>. DEFINE Bad == {u \in SUBSET S : ~ \E f : Folding(c, f, u)}
<1>. SUFFICES ASSUME Bad # {} PROVE FALSE
  OBVIOUS
<1>1. PICK u \in Bad : \A v \in Bad : ~(v \subseteq u /\ v # u)
  <2>1. PICK F \in SUBSET (SUBSET S) : F = Bad
    OBVIOUS
  <2>. HIDE DEF Bad
  <2>. QED  BY <2>1, MinimalSubset
<1>2. u \in SUBSET S /\ ~ \E f : Folding(c, f, u)
  OBVIOUS
<1>. DEFINE below == [v \in SUBSET u |-> CHOOSE f : Folding(c, f, v)]
            part == [v \in SUBSET u |-> below[v][v]]
            all == [v \in SUBSET u |-> Step(c, part, v)]
<1>3. ASSUME NEW v \in SUBSET u, v # u PROVE Folding(c, below[v], v) /\ IsFiniteSet(v)
  <2>1. v \in SUBSET S /\ v \notin Bad
    BY <1>1, <1>2, <1>3
  <2>2. \E f : Folding(c, f, v)
    BY <2>1
  <2>3. below[v] = CHOOSE f : Folding(c, f, v)
    OBVIOUS
  <2>. QED  BY <2>1, <2>2, <2>3, FS_Subset
<1>. HIDE DEF below
<1>4. ASSUME NEW v \in SUBSET u, v # u PROVE part[v] = Step(c, part, v)
  <2>1. part[v] = below[v][v] /\ Folding(c, below[v], v)
    BY <1>3, <1>4
  <2>2. part[v] = Step(c, below[v], v)
    BY <2>1 DEF Folding
  <2>3. CASE v = {}
    BY <2>2, <2>3 DEF Step
  <2>4. CASE v # {}
    <3>. DEFINE w == v \ {AnyOf(v)}
    <3>1. AnyOf(v) \in v
      BY <2>4 DEF AnyOf
    <3>2. w \in SUBSET u /\ w \in SUBSET v /\ w # u
      BY <3>1
    <3>3. part[w] = below[w][w]
      BY <3>2
    <3>4. Folding(c, below[w], w) /\ IsFiniteSet(w)
      BY <1>3, <3>2
    <3>5. below[w][w] = below[v][w]
      <4>1. PICK x : x = w
        OBVIOUS
      <4>2. PICK g, h : g = below[w] /\ h = below[v]
        OBVIOUS
      <4>3. Folding(c, g, x) /\ Folding(c, h, v) /\ IsFiniteSet(x) /\ x \subseteq v
        BY <2>1, <3>2, <3>4, <4>1, <4>2
      <4>4. g[x] = h[x]
        BY <4>3, FoldPart
      <4>. QED  BY <4>1, <4>2, <4>4
    <3>. QED  BY <2>2, <2>4, <3>3, <3>5 DEF Step
  <2>. QED  BY <2>3, <2>4
<1>5. ASSUME NEW v \in SUBSET u PROVE all[v] = Step(c, all, v)
  <2>1. all[v] = Step(c, part, v)
    OBVIOUS
  <2>2. CASE v = {}
    BY <2>1, <2>2 DEF Step
  <2>3. CASE v # {}
    <3>. DEFINE w == v \ {AnyOf(v)}
    <3>1. AnyOf(v) \in v
      BY <2>3 DEF AnyOf
    <3>2. w \in SUBSET u /\ w # u
      BY <3>1
    <3>3. all[w] = part[w]
      BY <1>4, <3>2
    <3>. QED  BY <2>1, <2>3, <3>3 DEF Step
  <2>. QED  BY <2>2, <2>3
<1>6. Folding(c, all, u)
  BY <1>5 DEF Folding
<1>. QED  BY <1>2, <1>6

\* FoldSet is that function's value.
LEMMA BatchIsFold ==
  ASSUME NEW c, NEW S, IsFiniteSet(S)
  PROVE  \E f : Folding(c, f, S) /\ FoldSet(RecordedOne, c, S) = f[S]
<1>1. FoldSet(RecordedOne, c, S)
        = (CHOOSE f : f = [set \in SUBSET S |->
             IF set = {} THEN c
             ELSE LET s == CHOOSE y \in set : TRUE
                  IN  RecordedOne(s, f[set \ {s}])])[S]
  BY DEF FoldSet, MapThenFoldSet
<1>2. FoldSet(RecordedOne, c, S) = (CHOOSE f : Folding(c, f, S))[S]
  BY <1>1 DEF Folding, Step, AnyOf
<1>. QED  BY <1>2, FoldExists

-----------------------------------------------------------------------------
(* What is known of secrets.                                               *)

SecretShapes ==
  [exists : BOOLEAN, type : Types \cup {""}, created : Nat, changed : Nat, written : Nat,
   fields : SUBSET [op : Ops, time : Nat]]

\* The time of the last write is that of the newest entry of managedFields, or of
\* the creation if there is none.
Dated(secret) ==
  /\ secret.written <= now
  /\ IF secret.fields = {}
       THEN secret.created = secret.written
       ELSE /\ \E f \in secret.fields : f.time = secret.written
            /\ \A f \in secret.fields : f.time <= secret.written

SecretsKnown ==
  secrets \in [Secrets -> SecretShapes] /\ \A s \in Secrets : Dated(secrets[s])

\* RetrieveModifiedTime finds the time of the last write, if secrets are written
\* by updates only (utils, lines 31 to 37).
LEMMA ModifiedIsWritten ==
  ASSUME Ops = {"Update"}, NEW secret \in SecretShapes, Dated(secret)
  PROVE  RetrieveModifiedTime(secret.fields, secret.created) = secret.written
<1>1. CASE secret.fields = {}
  BY <1>1 DEF Dated, RetrieveModifiedTime
<1>2. CASE secret.fields # {}
  <2>1. FieldEntries(secret.fields, "Update") = secret.fields
    BY DEF SecretShapes, FieldEntries
  <2>. DEFINE times == {f.time : f \in secret.fields}
  <2>2. PICK F : F = secret.fields
    OBVIOUS
  <2>3. F \subseteq [op : Ops, time : Nat] /\ times = {f.time : f \in F}
    BY <2>2 DEF SecretShapes
  <2>4. /\ \E f \in F : f.time = secret.written
        /\ \A f \in F : f.time <= secret.written
    BY <1>2, <2>2 DEF Dated
  <2>5. secret.written \in times /\ secret.written \in Nat
    <3>1. PICK f \in F : f.time = secret.written
      BY <2>4
    <3>. QED  BY <2>3, <3>1
  <2>6. times \subseteq Nat /\ \A time \in times : time <= secret.written
    BY <2>3, <2>4
  <2>. HIDE DEF times
  <2>7. PICK w : w = secret.written
    OBVIOUS
  <2>8. \A x \in times : (\A y \in times : x >= y) => x = w
    BY <2>5, <2>6, <2>7
  <2>9. w \in times /\ \A y \in times : w >= y
    BY <2>5, <2>6, <2>7
  <2>10. Max(times) = w
    BY <2>8, <2>9 DEF Max
  <2>. QED  BY <1>2, <2>1, <2>7, <2>10 DEF RetrieveModifiedTime, LastEntryTime, LatestOf, times
<1>. QED  BY <1>1, <1>2

\* Recording one secret of the list.
LEMMA OneRecorded ==
  ASSUME Ops = {"Update"}, SecretsKnown, NEW c \in Configs(Nat), WellFormed(c),
         NEW s \in Secrets
  PROVE  LET d == RecordedOne(s, c)
         IN  /\ d \in Configs(Nat) /\ WellFormed(d)
             /\ RecordedSecrets(d) = RecordedSecrets(c) \cup {s}
             /\ EntryOf(d, s).modified = secrets[s].written
             /\ \A t \in RecordedSecrets(c) \ {s} : EntryOf(d, t) = EntryOf(c, t)
<1>. DEFINE hash == secrets[s].changed
            created == secrets[s].created
            modified == RetrieveModifiedTime(secrets[s].fields, created)
            d == Recorded(c, s, hash, created, modified)
            e == EntryMade(c, s, hash, created, modified)
<1>1. secrets[s] \in SecretShapes /\ modified = secrets[s].written
  BY ModifiedIsWritten DEF SecretsKnown
<1>2. hash \in Nat /\ created \in Nat /\ modified \in Nat
  BY <1>1 DEF SecretShapes
<1>. HIDE DEF modified, hash, created
<1>3. RecordedWell(Nat, c, s, d, e)
  BY <1>2, RecordedIsWell
<1>4. e.modified = modified
  <2>1. CASE s \in RecordedSecrets(c)
    <3>1. EntryOf(c, s) \in Entries(Nat) /\ IsInjective(EntryOf(c, s).history)
      <4>1. PICK i, j : At(c, s, i, j) /\ EntryOf(c, s) = c[i].secrets[j]
        BY <2>1, RecordedAt
      <4>. QED  BY <2>1, <4>1, RecordedAt DEF At, WellFormed
    <3>. QED  BY <1>2, <2>1, <3>1, UpdatedWell DEF EntryMade
  <2>2. CASE s \notin RecordedSecrets(c)
    BY <2>2 DEF EntryMade, Entry
  <2>. QED  BY <2>1, <2>2
<1>5. RecordedOne(s, c) = d
  BY DEF RecordedOne, d, hash, created, modified
<1>. QED  BY <1>1, <1>3, <1>4, <1>5 DEF RecordedWell

\* What a batch promises of the ledger.
BatchWell(d, set) ==
  /\ d \in Configs(Nat) /\ WellFormed(d)
  /\ \A s \in set : s \in RecordedSecrets(d) /\ EntryOf(d, s).modified = secrets[s].written

\* After calculateAndStoreHashedSecrets every secret of the list is in the ledger
\* with the time of its last write, in whatever order the list was gone over and
\* whatever the ledger held before (lines 420 to 441).
THEOREM BatchRecorded ==
  ASSUME Ops = {"Update"}, SecretsKnown, NEW c \in Configs(Nat), WellFormed(c),
         NEW S, S \subseteq Secrets
  PROVE  BatchWell(FoldSet(RecordedOne, c, S), S)
<1>1. IsFiniteSet(S)
  BY SecretsAssumption, FS_Subset
<1>2. PICK f : Folding(c, f, S) /\ FoldSet(RecordedOne, c, S) = f[S]
  BY <1>1, BatchIsFold
<1>. DEFINE Bad == {u \in SUBSET S : ~BatchWell(f[u], u)}
<1>. SUFFICES ASSUME Bad # {} PROVE FALSE
  BY <1>2
<1>3. PICK u \in Bad : \A v \in Bad : ~(v \subseteq u /\ v # u)
  <2>1. PICK F \in SUBSET (SUBSET S) : F = Bad
    OBVIOUS
  <2>. HIDE DEF Bad
  <2>. QED  BY <1>1, <2>1, MinimalSubset
<1>4. u \subseteq S /\ ~BatchWell(f[u], u) /\ f[u] = Step(c, f, u)
  BY <1>2 DEF Folding
<1>5. CASE u = {}
  BY <1>4, <1>5 DEF Step, BatchWell
<1>6. CASE u # {}
  <2>. DEFINE s == AnyOf(u)
              v == u \ {s}
  <2>1. s \in u /\ s \in Secrets
    BY <1>4, <1>6 DEF AnyOf
  <2>2. v \subseteq u /\ v # u /\ v \subseteq S
    BY <1>4, <2>1
  <2>3. BatchWell(f[v], v)
    BY <1>3, <2>2
  <2>4. f[u] = RecordedOne(s, f[v])
    BY <1>4, <1>6 DEF Step
  <2>. HIDE DEF s
  <2>5. f[v] \in Configs(Nat) /\ WellFormed(f[v])
    BY <2>3 DEF BatchWell
  <2>6. /\ f[u] \in Configs(Nat) /\ WellFormed(f[u])
        /\ RecordedSecrets(f[u]) = RecordedSecrets(f[v]) \cup {s}
        /\ EntryOf(f[u], s).modified = secrets[s].written
        /\ \A t \in RecordedSecrets(f[v]) \ {s} : EntryOf(f[u], t) = EntryOf(f[v], t)
    <3>1. PICK c0 : c0 = f[v]
      OBVIOUS
    <3>2. c0 \in Configs(Nat) /\ WellFormed(c0)
      BY <2>5, <3>1
    <3>3. PICK d0 : d0 = RecordedOne(s, c0)
      OBVIOUS
    <3>4. /\ d0 \in Configs(Nat) /\ WellFormed(d0)
          /\ RecordedSecrets(d0) = RecordedSecrets(c0) \cup {s}
          /\ EntryOf(d0, s).modified = secrets[s].written
          /\ \A t \in RecordedSecrets(c0) \ {s} : EntryOf(d0, t) = EntryOf(c0, t)
      BY <2>1, <3>2, <3>3, OneRecorded
    <3>5. d0 = f[u]
      BY <2>4, <3>1, <3>3
    <3>. QED  BY <3>1, <3>4, <3>5
  <2>7. BatchWell(f[u], u)
    BY <2>3, <2>6 DEF BatchWell
  <2>. QED  BY <1>4, <2>7
<1>. QED  BY <1>5, <1>6

-----------------------------------------------------------------------------
(* The rule.                                                               *)

\* A number that is less than the modulus is its own remainder.
LEMMA OwnRemainder ==
  ASSUME NEW n \in Nat, NEW a \in 0..n - 1
  PROVE  a % n = a
OBVIOUS

\* An age of no sign is its own magnitude (utils.go, line 90).
LEMMA OwnMagnitude == ASSUME NEW d \in Nat PROVE Magnitude(d) = d
<1>1. d >= 0 /\ ~(d < 0)
  OBVIOUS
<1>. QED  BY <1>1, MaxDurationAssumption DEF Magnitude

\* Where a Duration holds the threshold, stale is what is older (line 327).
LEMMA StaleIsOlder ==
  ASSUME NEW age \in Nat, NEW days \in Nat, days * Day <= MaxDuration
  PROVE  IsStale(age, days) <=> age > days * Day
<1>1. PICK x \in Nat : x = days * Day
  BY StaleDayAssumption
<1>2. PICK n \in Nat : n = 2 * (MaxDuration + 1)
  BY MaxDurationAssumption
<1>3. x + MaxDuration + 1 \in 0..n - 1
  BY <1>1, <1>2, MaxDurationAssumption
<1>4. Threshold(days) = x
  BY <1>1, <1>2, <1>3, OwnRemainder, MaxDurationAssumption DEF Threshold, Wrap
<1>5. Magnitude(age) = age /\ Magnitude(x) = x
  BY <1>1, OwnMagnitude
<1>. QED  BY <1>1, <1>4, <1>5 DEF IsStale

-----------------------------------------------------------------------------
(* What a run knows.                                                       *)

LedgerKnown ==
  /\ \E V : ledger \in [exists : BOOLEAN, owner : V, data : Configs(Nat)]
  /\ WellFormed(ledger.data)

\* Until the run ends the ledger says of the listed secrets what the run read.
ReadKnown ==
  pc \in {"check", "report"} =>
    \A s \in listed :
      /\ read[s].written \in 0..now
      /\ ledger.exists => /\ s \in RecordedSecrets(ledger.data)
                         /\ EntryOf(ledger.data, s).modified = read[s].written

KInv == IInv /\ SecretsKnown /\ LedgerKnown /\ ReadKnown

\* There is no ledger, or an empty one.
LEMMA EmptyKnown ==
  ASSUME NEW l, l = NoLedger \/ \E owner : l = [NoLedger EXCEPT !.exists = TRUE, !.owner = owner]
  PROVE  /\ \E V : l \in [exists : BOOLEAN, owner : V, data : Configs(Nat)]
         /\ WellFormed(l.data)
<1>1. <<>> \in Configs(Nat) /\ WellFormed(<<>>)
  BY EmptyWell
<1>2. CASE l = NoLedger
  <2>1. NoLedger \in [exists : BOOLEAN, owner : {0}, data : Configs(Nat)]
    BY <1>1 DEF NoLedger
  <2>. QED  BY <1>1, <1>2, <2>1 DEF NoLedger
<1>3. ASSUME NEW owner, l = [NoLedger EXCEPT !.exists = TRUE, !.owner = owner]
      PROVE  /\ l \in [exists : BOOLEAN, owner : {owner}, data : Configs(Nat)]
             /\ l.data = <<>>
  <2>1. NoLedger = [exists |-> FALSE, owner |-> 0, data |-> <<>>]
    BY DEF NoLedger
  <2>2. l = [exists |-> TRUE, owner |-> owner, data |-> <<>>]
    BY <1>3, <2>1
  <2>. QED  BY <1>1, <2>2
<1>. QED  BY <1>1, <1>2, <1>3

\* What users make of secrets.
LEMMA SecretsMade ==
  ASSUME now \in Nat, NEW type \in Types, NEW op \in Ops,
         NEW fields \in {{}, {Written(op)}}
  PROVE  LET new == Secret(type, now, fields)
         IN  new \in SecretShapes /\ Dated(new)
<1>. DEFINE new == Secret(type, now, fields)
<1>1. \A f \in fields : f \in [op : Ops, time : Nat] /\ f.time = now
  BY DEF Written
<1>2. new \in SecretShapes
  <2>1. PICK T : T = Types \cup {""}
    OBVIOUS
  <2>2. PICK F : F = [op : Ops, time : Nat]
    OBVIOUS
  <2>3. fields \in SUBSET F /\ type \in T
    BY <1>1, <2>1, <2>2
  <2>4. new \in [exists : BOOLEAN, type : T, created : Nat, changed : Nat, written : Nat,
                 fields : SUBSET F]
    BY <2>3 DEF Secret
  <2>. QED  BY <2>1, <2>2, <2>4 DEF SecretShapes
<1>3. new.written = now /\ new.created = now /\ new.fields = fields
  BY DEF Secret
<1>. HIDE DEF new
<1>4. Dated(new)
  BY <1>1, <1>3 DEF Dated
<1>. QED  BY <1>2, <1>4 DEF new

\* An absent secret is one of the model's values.
LEMMA NoSecretKnown == ASSUME now \in Nat PROVE NoSecret \in SecretShapes /\ Dated(NoSecret)
BY DEF NoSecret, SecretShapes, Dated

\* A write leaves a secret dated, whichever of its fields it drops (utils.go, line 33).
LEMMA SecretTouched ==
  ASSUME now \in Nat, NEW secret \in SecretShapes, Dated(secret),
         NEW changed \in Nat, NEW kept \in SUBSET secret.fields, NEW op \in Ops
  PROVE  LET new == Touched(secret, changed, kept, op)
         IN  new \in SecretShapes /\ Dated(new)
<1>1. PICK T : T = Types \cup {""}
  OBVIOUS
<1>2. PICK F : F = [op : Ops, time : Nat]
  OBVIOUS
<1>3. PICK e \in F : e = Written(op) /\ e.time = now
  <2>1. Written(op) \in [op : Ops, time : Nat] /\ Written(op).time = now
    BY DEF Written
  <2>. QED  BY <1>2, <2>1
<1>4. secret \in [exists : BOOLEAN, type : T, created : Nat, changed : Nat, written : Nat,
                  fields : SUBSET F]
  BY <1>1, <1>2 DEF SecretShapes
<1>. DEFINE new == Touched(secret, changed, kept, op)
<1>5. new = [secret EXCEPT !.changed = changed, !.written = now, !.fields = kept \cup {e}]
  BY <1>3 DEF Touched
<1>6. kept \cup {e} \in SUBSET F
  BY <1>3, <1>4
<1>. HIDE DEF new
<1>7. /\ new \in [exists : BOOLEAN, type : T, created : Nat, changed : Nat, written : Nat,
                   fields : SUBSET F]
      /\ new.written = now /\ new.fields = kept \cup {e}
  BY <1>4, <1>5, <1>6
<1>8. new \in SecretShapes
  BY <1>1, <1>2, <1>7 DEF SecretShapes
<1>9. ASSUME NEW f \in kept PROVE f.time <= now
  <2>1. secret.written \in Nat /\ secret.fields # {} /\ f \in secret.fields
    BY <1>4
  <2>2. f.time <= secret.written /\ secret.written <= now
    BY <2>1 DEF Dated
  <2>3. f.time \in Nat
    BY <1>2, <1>4
  <2>. QED  BY <2>1, <2>2, <2>3
<1>10. Dated(new)
  <2>1. \A f \in new.fields : f.time <= now
    BY <1>3, <1>7, <1>9
  <2>2. \E f \in new.fields : f.time = now
    BY <1>3, <1>7
  <2>. QED  BY <1>7, <2>1, <2>2 DEF Dated
<1>. QED  BY <1>8, <1>10 DEF new

\* Secrets are as known after whatever users do to one.
LEMMA ChangeKnown ==
  ASSUME IInv, SecretsKnown, NEW s \in Secrets, ChangeSecret(s)
  PROVE  SecretsKnown'
<1>1. now \in Nat /\ now' = now
  BY BoundAssumption DEF IInv, ChangeSecret
<1>2. secrets[s] \in SecretShapes /\ Dated(secrets[s])
  BY DEF SecretsKnown
<1>3. PICK new \in SecretShapes : Dated(new) /\ secrets' = [secrets EXCEPT ![s] = new]
  <2>1. CASE \E type \in Types : \E op \in Ops :
               secrets' = [secrets EXCEPT ![s] = Secret(type, now, {Written(op)})]
    BY <1>1, <2>1, SecretsMade
  <2>2. CASE \E changed \in {secrets[s].changed, now} :
               \E kept \in SUBSET secrets[s].fields : \E op \in Ops :
                 secrets' = [secrets EXCEPT ![s] = Touched(@, changed, kept, op)]
    <3>1. PICK secret : secret = secrets[s]
      OBVIOUS
    <3>2. PICK changed \in {secret.changed, now}, kept \in SUBSET secret.fields, op \in Ops :
            secrets' = [secrets EXCEPT ![s] = Touched(secret, changed, kept, op)]
      BY <2>2, <3>1
    <3>3. secret \in SecretShapes /\ Dated(secret) /\ changed \in Nat
      BY <1>1, <1>2, <3>1, <3>2 DEF SecretShapes
    <3>. QED  BY <1>1, <3>2, <3>3, SecretTouched
  <2>3. CASE secrets' = [secrets EXCEPT ![s] = NoSecret]
    BY <1>1, <2>3, NoSecretKnown
  <2>. QED  BY <2>1, <2>2, <2>3 DEF ChangeSecret
<1>4. /\ secrets' \in [Secrets -> SecretShapes]
      /\ \A t \in Secrets : secrets'[t] = new \/ secrets'[t] = secrets[t]
  BY <1>3 DEF SecretsKnown
<1>5. \A t \in Secrets : Dated(secrets'[t])
  BY <1>3, <1>4 DEF SecretsKnown
<1>. QED  BY <1>1, <1>4, <1>5 DEF SecretsKnown, Dated

-----------------------------------------------------------------------------
(* The steps keep what is known.                                           *)

\* A step that leaves the ledger alone keeps what is known of it.
LEMMA LedgerStays == ASSUME LedgerKnown, UNCHANGED ledger PROVE LedgerKnown'
BY DEF LedgerKnown

\* Outside of the two last labels of a run nothing need be known of the reads.
LEMMA NothingRead == ASSUME pc' \notin {"check", "report"} PROVE ReadKnown'
BY DEF ReadKnown

\* Between the two last labels a run keeps what it has read.
LEMMA ReadStays ==
  ASSUME IInv, ReadKnown, pc \in {"check", "report"}, UNCHANGED <<listed, read>>,
         now' \in Nat, now <= now', ledger' = ledger \/ ~ledger'.exists
  PROVE  ReadKnown'
<1>1. ASSUME NEW s \in listed PROVE read[s].written \in 0..now'
  <2>1. PICK w : w = read[s].written
    OBVIOUS
  <2>2. w \in 0..now /\ now \in Nat
    BY <1>1, <2>1, BoundAssumption DEF ReadKnown, IInv
  <2>. QED  BY <2>1, <2>2
<1>2. ASSUME NEW s \in listed, ledger'.exists
      PROVE  s \in RecordedSecrets(ledger'.data)
             /\ EntryOf(ledger'.data, s).modified = read[s].written
  BY <1>2 DEF ReadKnown
<1>. QED  BY <1>1, <1>2 DEF ReadKnown

\* The steps that leave the secrets and the ledger alone.
LEMMA QuietKnown ==
  ASSUME IInv, SecretsKnown, LedgerKnown, UNCHANGED <<now, secrets, ledger>>
  PROVE  SecretsKnown' /\ LedgerKnown'
BY LedgerStays DEF SecretsKnown, Dated

\* A batch records what it reads.
LEMMA RecordKnown ==
  ASSUME Ops = {"Update"}, KInv, RecordSecrets
  PROVE  SecretsKnown' /\ LedgerKnown' /\ ReadKnown'
<1>. PICK c : c = ledger.data
  OBVIOUS
<1>. PICK d : d = FoldSet(RecordedOne, c, listed)
  OBVIOUS
<1>1. /\ UNCHANGED <<now, secrets, listed>> /\ ledger' = [ledger EXCEPT !.data = d]
      /\ \A s \in listed : read'[s].written = secrets[s].written
  BY DEF RecordSecrets
<1>2. PICK V : ledger \in [exists : BOOLEAN, owner : V, data : Configs(Nat)]
  BY DEF KInv, LedgerKnown
<1>3. c \in Configs(Nat) /\ WellFormed(c) /\ listed \subseteq Secrets
  BY <1>2 DEF KInv, LedgerKnown, IInv, RunTyped
<1>4. BatchWell(d, listed)
  BY <1>3, BatchRecorded DEF KInv
<1>5. d \in Configs(Nat) /\ WellFormed(d)
  BY <1>4 DEF BatchWell
<1>6. ledger' \in [exists : BOOLEAN, owner : V, data : Configs(Nat)] /\ ledger'.data = d
  <2>. PICK C : C = Configs(Nat)
    OBVIOUS
  <2>1. ledger \in [exists : BOOLEAN, owner : V, data : C] /\ d \in C
    BY <1>2, <1>5
  <2>2. ledger' \in [exists : BOOLEAN, owner : V, data : C] /\ ledger'.data = d
    BY <1>1, <2>1
  <2>. QED  BY <2>2
<1>7. LedgerKnown'
  BY <1>5, <1>6 DEF LedgerKnown
<1>8. SecretsKnown'
  BY <1>1 DEF KInv, SecretsKnown, Dated
<1>9. ASSUME NEW s \in listed
      PROVE  /\ read'[s].written \in 0..now'
             /\ s \in RecordedSecrets(d) /\ EntryOf(d, s).modified = read'[s].written
  <2>1. secrets[s] \in SecretShapes /\ Dated(secrets[s])
    BY <1>3, <1>9 DEF KInv, SecretsKnown
  <2>2. now \in Nat
    BY BoundAssumption DEF KInv, IInv
  <2>3. PICK w : w = secrets[s].written
    OBVIOUS
  <2>4. w \in Nat /\ w <= now
    BY <2>1, <2>3 DEF SecretShapes, Dated
  <2>. QED  BY <1>1, <1>4, <1>9, <2>2, <2>3, <2>4 DEF BatchWell
<1>10. ReadKnown'
  BY <1>1, <1>6, <1>9 DEF ReadKnown
<1>. QED  BY <1>7, <1>8, <1>10

\* Every step of the worker.
LEMMA WorkKnown ==
  ASSUME Ops = {"Update"}, KInv, Work
  PROVE  SecretsKnown' /\ LedgerKnown' /\ ReadKnown'
<1>1. CASE CreateLedger
  <2>1. /\ UNCHANGED <<now, secrets>> /\ pc' = "idle"
        /\ ledger' = [NoLedger EXCEPT !.exists = TRUE, !.owner = OwnerOf(copy)]
    BY <1>1 DEF CreateLedger, Finish
  <2>2. LedgerKnown'
    BY <2>1, EmptyKnown DEF LedgerKnown
  <2>3. SecretsKnown'
    BY <2>1 DEF KInv, SecretsKnown, Dated
  <2>. QED  BY <2>1, <2>2, <2>3, NothingRead
<1>2. CASE RecordSecrets
  BY <1>2, RecordKnown
<1>3. CASE ListSecrets \/ ListFails \/ RecordFails \/ NoClaim \/ PublishReport \/ NoReport
  <2>1. UNCHANGED <<now, secrets, ledger>> /\ pc' \in {"idle", "record"}
    BY <1>3 DEF ListSecrets, ListFails, RecordFails, NoClaim, PublishReport, NoReport,
                Finish, Goto, objects
  <2>. QED  BY <2>1, QuietKnown, NothingRead DEF KInv
<1>4. CASE ClaimDay
  <2>1. UNCHANGED <<now, secrets, ledger, listed, read>> /\ pc = "check"
    BY <1>4 DEF ClaimDay
  <2>2. now \in Nat /\ now <= now
    BY BoundAssumption DEF KInv, IInv
  <2>. QED  BY <2>1, <2>2, QuietKnown, ReadStays DEF KInv
<1>. QED  BY <1>1, <1>2, <1>3, <1>4 DEF Work

\* The steps of all others: runs are interrupted by them at any label.
LEMMA OthersKnown ==
  ASSUME KInv, UNCHANGED <<pc, listed, read>>, now' \in Nat, now <= now',
         SecretsKnown', ledger' = ledger \/ ledger' = NoLedger
  PROVE  SecretsKnown' /\ LedgerKnown' /\ ReadKnown'
<1>1. LedgerKnown'
  <2>1. CASE ledger' = ledger
    BY <2>1, LedgerStays DEF KInv
  <2>2. CASE ledger' = NoLedger
    BY <2>2, EmptyKnown DEF LedgerKnown
  <2>. QED  BY <2>1, <2>2
<1>2. ledger' = ledger \/ ~ledger'.exists
  BY DEF NoLedger
<1>. QED  BY <1>1, <1>2, NothingRead, ReadStays DEF KInv

\* Every step keeps the invariant.
LEMMA NextKnown == ASSUME Ops = {"Update"} PROVE KInv /\ [Next]_vars => KInv'
<1>. SUFFICES ASSUME KInv, [Next]_vars PROVE SecretsKnown' /\ LedgerKnown' /\ ReadKnown'
  BY NextTyped DEF KInv
<1>0. now \in Nat /\ now <= now
  BY BoundAssumption DEF KInv, IInv
<1>1. ASSUME NEW w \in Ssws, Fetch(w) PROVE SecretsKnown' /\ LedgerKnown' /\ ReadKnown'
  <2>1. UNCHANGED <<now, secrets, ledger>> /\ pc' = "ensure"
    BY <1>1 DEF Fetch, Goto, objects
  <2>. QED  BY <2>1, QuietKnown, NothingRead DEF KInv
<1>2. CASE Work
  BY <1>2, WorkKnown
<1>3. ASSUME NEW w \in Ssws, CreateSsw(w) \/ EditSsw(w) \/ DeleteSsw(w)
      PROVE  SecretsKnown' /\ LedgerKnown' /\ ReadKnown'
  <2>1. UNCHANGED <<now, secrets, ledger, pc, listed, read>>
    BY <1>3 DEF CreateSsw, EditSsw, DeleteSsw, run
  <2>. QED  BY <1>0, <2>1, QuietKnown, OthersKnown DEF KInv
<1>4. ASSUME NEW s \in Secrets, ChangeSecret(s)
      PROVE  SecretsKnown' /\ LedgerKnown' /\ ReadKnown'
  <2>1. UNCHANGED <<now, ledger, pc, listed, read>>
    BY <1>4 DEF ChangeSecret, run
  <2>. QED  BY <1>0, <1>4, <2>1, ChangeKnown, OthersKnown DEF KInv
<1>5. CASE DeleteLedger \/ CollectLedger
  <2>1. UNCHANGED <<now, secrets, pc, listed, read>> /\ ledger' = NoLedger
    BY <1>5 DEF DeleteLedger, CollectLedger, run
  <2>2. SecretsKnown'
    BY <2>1 DEF KInv, SecretsKnown, Dated
  <2>. QED  BY <1>0, <2>1, <2>2, OthersKnown
<1>6. CASE Tick
  <2>1. UNCHANGED <<secrets, ledger, pc, listed, read>> /\ now' \in Nat /\ now <= now'
    BY <1>0, <1>6 DEF Tick, objects, run
  <2>2. SecretsKnown'
    <3>1. \A s \in Secrets : secrets[s].written \in Nat
      BY DEF KInv, SecretsKnown, SecretShapes
    <3>2. ASSUME NEW s \in Secrets PROVE secrets[s].written <= now'
      BY <1>0, <2>1, <3>1, <3>2 DEF KInv, SecretsKnown, Dated
    <3>. QED  BY <2>1, <3>2 DEF KInv, SecretsKnown, Dated
  <2>. QED  BY <2>1, <2>2, OthersKnown
<1>7. CASE UNCHANGED vars
  <2>1. UNCHANGED <<now, secrets, ledger, pc, listed, read>>
    BY <1>7 DEF vars, objects, run
  <2>. QED  BY <1>0, <2>1, QuietKnown, OthersKnown DEF KInv
<1>. QED  BY <1>1, <1>2, <1>3, <1>4, <1>5, <1>6, <1>7 DEF Next, Users

\* At first no run has read anything, and secrets have no managedFields.
LEMMA InitKnown == Init => KInv
<1>. SUFFICES ASSUME Init PROVE SecretsKnown /\ LedgerKnown /\ ReadKnown
  BY InitTyped DEF KInv
<1>1. ReadKnown
  BY DEF Init, ReadKnown
<1>2. LedgerKnown
  BY EmptyKnown DEF Init, LedgerKnown
<1>3. \A secret \in {NoSecret} \cup {Secret(type, 0, {}) : type \in Types} :
        secret \in SecretShapes /\ Dated(secret)
  <2>1. now = 0
    BY DEF Init
  <2>2. NoSecret \in SecretShapes /\ Dated(NoSecret)
    BY <2>1, NoSecretKnown
  <2>3. ASSUME NEW type \in Types
        PROVE  Secret(type, 0, {}) \in SecretShapes /\ Dated(Secret(type, 0, {}))
    <3>1. PICK op \in Ops : TRUE
      BY OpsAssumption
    <3>2. now \in Nat
      BY <2>1
    <3>. QED  BY <2>1, <3>1, <3>2, SecretsMade
  <2>. QED  BY <2>2, <2>3
<1>4. SecretsKnown
  BY <1>3 DEF Init, SecretsKnown
<1>. QED  BY <1>1, <1>2, <1>4

\* Of what a run has watched it reports exactly what, when it was read, had not
\* been written for more than the threshold, although the ledger is shared, may
\* be deleted and made anew meanwhile, and secrets change (lines 300 to 334).
THEOREM ReportIsExact == ASSUME Ops = {"Update"} PROVE Spec => ReportExact
<1>1. ASSUME KInv, PublishReport, copy.spec.staleThresholdInDays * Day <= MaxDuration,
             NEW s \in listed
      PROVE  s \in ssws'[cur].report <=>
               now - read[s].written > copy.spec.staleThresholdInDays * Day
  <2>. DEFINE days == copy.spec.staleThresholdInDays
  <2>1. /\ pc = "report" /\ ledger.exists
        /\ ssws' = [ssws EXCEPT ![cur].report = StaleSecrets]
    BY <1>1 DEF PublishReport
  <2>2. ssws'[cur].report = StaleSecrets
    <3>1. PICK U : ssws \in [Ssws -> Shapes(U)]
      BY <1>1 DEF KInv, IInv, SswsTyped
    <3>2. cur \in Ssws
      BY <1>1, <2>1 DEF KInv, IInv, RunTyped
    <3>3. ssws'[cur] = [ssws[cur] EXCEPT !.report = StaleSecrets]
      BY <2>1, <3>1, <3>2
    <3>4. ssws[cur] \in Shapes(U)
      BY <3>1, <3>2
    <3>. QED  BY <3>3, <3>4 DEF Shapes
  <2>3. days \in Nat
    <3>1. copy.spec \in Specs /\ Updatable(copy.spec)
      BY <1>1, <2>1 DEF KInv, IInv, RunTyped, Stored
    <3>2. days \in Int
      BY <3>1 DEF Specs, StaleSecretWatchSpecs
    <3>3. Defaulted(copy.spec).staleThresholdInDays > 0
      BY <3>1 DEF Updatable, ValidateUpdate, ValidateStaleSecretWatch
    <3>4. Defaulted(copy.spec).staleThresholdInDays = days
      BY <3>1 DEF Defaulted, Specs, StaleSecretWatchSpecs
    <3>. QED  BY <3>2, <3>3, <3>4
  <2>4. PICK w : w = read[s].written
    OBVIOUS
  <2>5. /\ w \in 0..now /\ s \in RecordedSecrets(ledger.data)
        /\ EntryOf(ledger.data, s).modified = w
    BY <1>1, <2>1, <2>4 DEF KInv, ReadKnown
  <2>6. now \in Nat
    BY <1>1, BoundAssumption DEF KInv, IInv
  <2>7. s \in StaleSecrets <=> IsStale(now - w, days)
    BY <2>5 DEF StaleSecrets
  <2>. HIDE DEF days
  <2>8. PICK age \in Nat : age = now - w
    BY <2>5, <2>6
  <2>9. IsStale(age, days) <=> age > days * Day
    BY <1>1, <2>3, StaleIsOlder DEF days
  <2>. QED  BY <2>2, <2>4, <2>7, <2>8, <2>9 DEF days
<1>2. KInv /\ [Next]_vars =>
        [PublishReport /\ copy.spec.staleThresholdInDays * Day <= MaxDuration =>
           \A s \in listed :
             s \in ssws'[cur].report <=>
               now - read[s].written > copy.spec.staleThresholdInDays * Day]_vars
  BY <1>1
<1>3. Spec => []KInv
  <2>1. KInv /\ [Next]_vars => KInv'
    BY NextKnown
  <2>. QED  BY <2>1, InitKnown, PTL DEF Spec
<1>. QED  BY <1>2, <1>3, PTL DEF Spec, ReportExact

=============================================================================
