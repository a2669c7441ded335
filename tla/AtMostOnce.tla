---------------------------- MODULE AtMostOnce ----------------------------
(***************************************************************************)
(* What the idempotency key promises, without queues, tasks or tables:     *)
(* for every (event, recipient) the right to mail it is taken once and     *)
(* never given back, and a mail is handed to the sender only under that    *)
(* right, once.                                                            *)
(***************************************************************************)
EXTENDS Naturals

CONSTANT Keys

VARIABLES
    claimed, \* the keys whose right was taken
    mails    \* mails handed to the sender for each key

Init ==
    /\ claimed = {}
    /\ mails = [k \in Keys |-> 0]

Claim(k) ==
    /\ k \notin claimed
    /\ claimed' = claimed \cup {k}
    /\ UNCHANGED mails

\* The one call of the sender.
HandOff(k) ==
    /\ k \in claimed
    /\ mails[k] = 0
    /\ mails' = [mails EXCEPT ![k] = 1]
    /\ UNCHANGED claimed

Next == \E k \in Keys : Claim(k) \/ HandOff(k)

Spec == Init /\ [][Next]_<<claimed, mails>>
=============================================================================
