----------------------------- MODULE MCReports ------------------------------
(***************************************************************************)
(* Reports for TLC: the specs that users submit, of which most are refused.*)
(***************************************************************************)
EXTENDS Reports

Submission(namespace, exclude, days) ==
  [namespace |-> namespace, excludeList |-> exclude,
   staleThresholdInDays |-> days, refreshInterval |-> <<>>]

Exclude(namespace, names) == [namespace |-> Text(namespace), secretName |-> names]

Everything == Submission(Text("all"), <<>>, 1)

OneNamespace == Submission(Text("ns1"), <<>>, 1)

\* "other, a"
ExcludingA ==
  Submission(Text("all"), <<Exclude("ns1", <<Item("other"), PaddedItem("a")>>)>>, 1)

Refused == {
  Submission(<<Item("ns1"), Item("ns2")>>, <<>>, 1),
  Submission(EmptyText, <<>>, 1),
  Submission(Text("all"), <<Exclude("ns1", <<PaddedItem("a")>>)>>, 1),
  Submission(Text("all"), <<>>, 0),
  [Everything EXCEPT !.refreshInterval = <<0>>]}

AllSubmissions == {OneNamespace, ExcludingA} \cup Refused

TwoSubmissions == {Everything, OneNamespace}

=============================================================================
