---------------------------- MODULE MCTemplates ----------------------------
(***************************************************************************)
(* Small instances of Templates for TLC.                                   *)
(***************************************************************************)
EXTENDS Templates, TLC

CONSTANTS y1, y2, x1, x2, c1, c2

TwoTypes == {y1, y2}
TwoContents == {x1, x2}
TwoClients == {c1, c2}

ClientSymmetry == Permutations(TwoClients)
=============================================================================
