---------------------------- MODULE MCBlockList ----------------------------
(***************************************************************************)
(* Small instances of BlockList for TLC.                                   *)
(***************************************************************************)
EXTENDS BlockList

CONSTANTS a1, a2, d1, c1, c2

TwoAddresses == {a1, a2}
OneDomain == {d1}
InD1 == [a \in TwoAddresses |-> d1]

\* The rows the MCP server changes.
BlockedRows == {[kind |-> "blocked_email", value |-> a1]}
=============================================================================
