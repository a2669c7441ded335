---------------------------- MODULE MCGroupSend ----------------------------
(***************************************************************************)
(* Small instances of GroupSend for TLC.                                   *)
(***************************************************************************)
EXTENDS GroupSend, TLC

CONSTANTS r1, r2, r3, h1, h2

ThreeTo == <<r1, r2, r3>>
TwoTo == <<r1, r2>>
OneHandler == {h1}
TwoHandlers == {h1, h2}

\* A first delivery and one redelivery, with every fault once.
RedeliveryBudget == [deliver |-> 2, crash |-> 1, shutdown |-> 1, dberr |-> 1,
                     template |-> 1, retry |-> 1]

\* One delivery and no fault.
QuietBudget == [deliver |-> 1, crash |-> 0, shutdown |-> 0, dberr |-> 0,
                template |-> 0, retry |-> 0]

HandlerSymmetry == Permutations(TwoHandlers)
=============================================================================
