----------------------------- MODULE MCDelivery -----------------------------
(***************************************************************************)
(* Small instances of Delivery for TLC.                                    *)
(***************************************************************************)
EXTENDS Delivery, TLC

CONSTANTS e1, r1, r2, h1, h2

OneEvent == {e1}
OneRecipient == {r1}
TwoRecipients == {r1, r2}
TwoHandlers == {h1, h2}
OnlyR2 == {r2}

\* The default retry policy, and a message that asks for no retry.
ToOne == {[event |-> e1, to |-> {r1}, noRetry |-> FALSE]}
ToBoth == {[event |-> e1, to |-> {r1, r2}, noRetry |-> TRUE]}

\* Everything but a shutdown may go wrong once.
FaultBudget == [publish |-> 1, crash |-> 1, netloss |-> 1, shutdown |-> 0,
                dberr |-> 1, template |-> 1, retry |-> 1, panic |-> 0]

\* A graceful shutdown during a delivery and its replay.
ShutdownBudget == [publish |-> 1, crash |-> 0, netloss |-> 0, shutdown |-> 1,
                   dberr |-> 1, template |-> 0, retry |-> 1, panic |-> 1]

\* One clean delivery whose send fails.
QuietBudget == [publish |-> 1, crash |-> 0, netloss |-> 0, shutdown |-> 0,
                dberr |-> 0, template |-> 0, retry |-> 0, panic |-> 0]

HandlerSymmetry == Permutations(TwoHandlers)
=============================================================================
