----------------------------- MODULE WatchList ------------------------------
(***************************************************************************)
(* prepareWatchList: from the spec of a StaleSecretWatch and the secrets   *)
(* of the cluster to the secrets to watch.  The text of a field that may   *)
(* hold a list is the sequence of the items between its commas; an item    *)
(* is padded if white space precedes it.                                   *)
(***************************************************************************)
EXTENDS Sequences, SequencesExt

\* Splitting a text at its commas gives at least one item.
Texts == Seq([name : STRING, padded : BOOLEAN]) \ {<<>>}

Item(name) == [name |-> name, padded |-> FALSE]

PaddedItem(name) == [name |-> name, padded |-> TRUE]

\* The text that is just a name.
Text(name) == <<Item(name)>>

\* Variant: a padded item is no name.
Untrimmed(item) == IF item.padded THEN "" ELSE item.name

Trimmed(item) == item.name

\* The function Contains of the code.
ListContains(text, name) == \E i \in DOMAIN text : Trimmed(text[i]) = name

\* Types whose secrets change seldom "as per business logic".
SkippedTypes == {"service-account-token", "bootstrap-token"}

NamespacesToWatch(spec, namespaces) ==
  IF spec.namespace = Text("all")
    THEN namespaces
    ELSE {Trimmed(spec.namespace[i]) : i \in DOMAIN spec.namespace}

ExcludedBy(spec, s) ==
  \E i \in DOMAIN spec.excludeList :
    /\ spec.excludeList[i].namespace = Text(s[1])
    /\ ListContains(spec.excludeList[i].secretName, s[2])

\* A secret is known by its namespace and name.  A namespace that is not there
\* has no secrets to list.
PrepareWatchList(spec, namespaces, secrets) ==
  {s \in DOMAIN secrets :
     /\ secrets[s].exists
     /\ s[1] \in NamespacesToWatch(spec, namespaces)
     /\ secrets[s].type \notin SkippedTypes
     /\ ~ExcludedBy(spec, s)}

-----------------------------------------------------------------------------
(* What the comments of the API types say is watched (lines 25, 28 and 37).*)

Named(text) == {item.name : item \in ToSet(text)}

Monitored(spec, secrets) ==
  LET candidates == {s \in DOMAIN secrets : secrets[s].exists
                       /\ secrets[s].type \notin SkippedTypes}
      wanted     == {s \in candidates :
                       Named(spec.namespace) \cap {s[1], "all"} # {}}
      excluded   == UNION {Named(e.namespace) \X Named(e.secretName) :
                             e \in ToSet(spec.excludeList)}
  IN wanted \ excluded

=============================================================================
