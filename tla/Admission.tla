----------------------------- MODULE Admission ------------------------------
(***************************************************************************)
(* What stands between a user's YAML and the store: the schema of the CRD  *)
(* with its patterns and its default, and the validating webhook, which    *)
(* is called for every update too, those of the controller included.  What *)
(* the webhook assigns to the object is not stored.                        *)
(***************************************************************************)
EXTENDS Integers, WatchList

CONSTANT Hour   \* the default of refreshInterval, in ticks

ASSUME HourAssumption == Hour \in Nat \ {0}

\* refreshInterval is a sequence of no or one duration.
StaleSecretWatchSpecs ==
  [namespace : Texts, excludeList : Seq([namespace : Texts, secretName : Texts]),
   staleThresholdInDays : Int, refreshInterval : Seq(Int)]

EmptyText == Text("")

\* ^[a-zA-Z0-9-_]+$
OneName(text) == Len(text) = 1 /\ ~text[1].padded /\ text # EmptyText

\* ^[a-zA-Z0-9._-]+(?:,\s*[a-zA-Z0-9._-]+)*$
NameList(text) == ~text[1].padded /\ \A i \in DOMAIN text : text[i].name # ""

SchemaAccepts(spec) ==
  /\ OneName(spec.namespace)
  /\ \A i \in DOMAIN spec.excludeList :
       /\ OneName(spec.excludeList[i].namespace)
       /\ NameList(spec.excludeList[i].secretName)

Defaulted(spec) ==
  IF spec.refreshInterval = <<>> THEN [spec EXCEPT !.refreshInterval = <<Hour>>] ELSE spec

ValidateStaleSecretWatch(spec) ==
  /\ spec.namespace # EmptyText
  /\ \A i \in DOMAIN spec.excludeList :
       /\ spec.excludeList[i].secretName # EmptyText
       /\ spec.excludeList[i].namespace # EmptyText
       /\ Len(spec.excludeList[i].namespace) = 1
       /\ ~spec.excludeList[i].namespace[1].padded
  /\ spec.staleThresholdInDays > 0
  /\ spec.refreshInterval # <<>> => spec.refreshInterval[1] > 0

\* Variant: the threshold is looked at in updates only.
ValidateCreateLoosely(spec) ==
  ValidateStaleSecretWatch([spec EXCEPT !.staleThresholdInDays = 1])

ValidateCreate(spec) == ValidateStaleSecretWatch(spec)

ValidateUpdate(spec) == ValidateStaleSecretWatch(spec)

\* What the API server stores of a submission, if anything.
Creatable(spec) == SchemaAccepts(spec) /\ ValidateCreate(Defaulted(spec))

Updatable(spec) == SchemaAccepts(spec) /\ ValidateUpdate(Defaulted(spec))

=============================================================================
