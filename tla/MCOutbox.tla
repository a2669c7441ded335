------------------------------ MODULE MCOutbox ------------------------------
(***************************************************************************)
(* Small instances of Outbox for TLC.                                      *)
(***************************************************************************)
EXTENDS Outbox, TLC

CONSTANTS w1, w2

TwoRows == 1 .. 2
OneWorker == {w1}
TwoWorkers == {w1, w2}

\* The younger row is the more urgent one.
UrgentLast == [r \in Rows |-> 5 - r]

\* Every fault once.
OneOfEach == [crash |-> 1, netloss |-> 1, dberr |-> 1, slow |-> 1]

NoFaults == [k \in BudgetKinds |-> 0]

WorkerSymmetry == Permutations(TwoWorkers)
=============================================================================
