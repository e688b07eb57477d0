---------------------------- MODULE MCHashLedger ----------------------------
(***************************************************************************)
(* HashLedger for TLC: secrets of two keys, with two contents.             *)
(***************************************************************************)
EXTENDS HashLedger, TLC

TwoContents == {(1 :> <<"x">> @@ 2 :> <<"y">>), (1 :> <<"y">> @@ 2 :> <<"y">>)}

\* The ledger of a run from the first list on, one secret after the other.
Complete ==
  FoldLeft(LAMBDA made, s :
             Recorded(made, s, CHOOSE hash \in HashesOf(secrets[s].data) : TRUE,
                      secrets[s].created, secrets[s].modified),
           <<>>, SetToSeq(Secrets))

\* A new ledger, with all secrets but one excluded; or one that a run has made,
\* known to every manager.
MCInit ==
  /\ budget = Budget
  /\ \E data \in Data :
       /\ secrets = [s \in Secrets |-> Created(data, 1)]
       /\ had = [s \in Secrets |-> {data}]
  /\ known = [m \in Managers |-> secrets]
  /\ \/ excluded \in {Secrets \ {s} : s \in Secrets} /\ stored = <<>>
     \/ excluded = {} /\ stored = Complete
  /\ cache = [m \in Managers |-> stored]
  /\ news = [m \in Managers |-> <<>>] /\ pend = [m \in Managers |-> <<>>]
  /\ pc = [m \in Managers |-> "idle"]
  /\ todo = [m \in Managers |-> {}]
  /\ config = [m \in Managers |-> <<>>]
  /\ fresh = [m \in Managers |-> FALSE]

MCSpec == MCInit /\ [][Next]_vars /\ Fairness

=============================================================================
