---------------------------- MODULE MCReconciler ----------------------------
(***************************************************************************)
(* Reconciler for TLC: identical managers are interchangeable, and a start *)
(* in a cluster where the ssw has been reconciled before, for the runs     *)
(* whose interest is in what comes after the setup.                        *)
(***************************************************************************)
EXTENDS Reconciler, TLC

ManagerSymmetry == Permutations(Managers)

\* The ssw a first reconcile without its daily check leaves behind.
SettledSsw ==
  [NewSsw(1) EXCEPT !.rv = 2, !.fin = TRUE, !.conds = Conditions]

SettledLedger ==
  [exists |-> TRUE, rv |-> 1, owner |-> 1, data |-> InitSecrets]

\* The managers have just started: their informers have listed, their queues
\* hold the ssw; a later version of it may be on its way.
StartedWith(stored, coming) ==
  /\ now = 0 /\ budget = Budget /\ secrets = InitSecrets
  /\ ssw = stored /\ cm = SettledLedger
  /\ cache = [m \in Managers |-> SettledSsw]
  /\ pend = [m \in Managers |-> coming]
  /\ cmCache = [m \in Managers |-> SettledLedger]
  /\ cmPend = [m \in Managers |-> {}]
  /\ cmNote = [m \in Managers |-> FALSE]
  /\ queued = [m \in Managers |-> TRUE]
  /\ timer = [m \in Managers |-> Never]
  /\ pc = [m \in Managers |-> "idle"]
  /\ obj = [m \in Managers |-> NoSsw(0)]
  /\ base = [m \in Managers |-> 0]
  /\ notices = <<>>

SettledInit == StartedWith(SettledSsw, {})

\* A user has just deleted the ssw.
DeletedSsw == [SettledSsw EXCEPT !.rv = 3, !.deleting = TRUE]

DeletingInit == StartedWith(DeletedSsw, {DeletedSsw})

SettledSpec == SettledInit /\ [][Next]_vars

\* The ssw is new, was reconciled before, or is being deleted.
AnySpec == (Init \/ SettledInit \/ DeletingInit) /\ [][Next]_vars

AnyFairSpec == AnySpec /\ Fairness

=============================================================================
