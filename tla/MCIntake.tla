------------------------------ MODULE MCIntake ------------------------------
(***************************************************************************)
(* Small instances of Intake for TLC.                                      *)
(***************************************************************************)
EXTENDS Intake

CONSTANTS m1, m2, h1, h2

TwoMsgs == {m1, m2}
OneMsg == {m1}

\* One recipient, which is also the ceiling, and nothing special.
Plain == [garbled |-> FALSE, recipients |-> 1, addresses |-> TRUE, from |-> TRUE,
          typed |-> TRUE, refs |-> <<>>, sendAt |-> FALSE]

Later == [Plain EXCEPT !.sendAt = TRUE]

\* Two attachments.
Files == [Plain EXCEPT !.refs = <<TRUE, TRUE>>]

\* The events handle_delivery refuses or has nothing to do for, one with an
\* attachment reference that does not pass its checks, and one that only the
\* MCP server lets through.
Odd == {[Plain EXCEPT !.garbled = TRUE],
        [Plain EXCEPT !.recipients = 0],
        [Plain EXCEPT !.recipients = 2],
        [Plain EXCEPT !.addresses = FALSE, !.refs = <<TRUE, FALSE>>],
        [Plain EXCEPT !.from = FALSE, !.typed = FALSE]}

\* Two scheduled events, one with attachments; or an event with attachments
\* next to an odd one.
FilesAndAny ==
    {[m \in TwoMsgs |-> IF m = m1 THEN [Later EXCEPT !.refs = Files.refs] ELSE Later]}
    \cup {[m \in TwoMsgs |-> IF m = m1 THEN Files ELSE b] : b \in Odd}
OneLater == {[m \in OneMsg |-> Later]}

OneHandler == {h1}
TwoHandlers == {h1, h2}

OneOfEach == [k \in BudgetKinds |-> 1]
NoFaults == [k \in BudgetKinds |-> 0]
=============================================================================
