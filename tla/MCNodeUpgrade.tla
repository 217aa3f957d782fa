--------------------------- MODULE MCNodeUpgrade ---------------------------
(***************************************************************************)
(* Instances of NodeUpgrade for TLC.                                       *)
(***************************************************************************)
EXTENDS NodeUpgrade

CONSTANTS n1, n2, n3

TwoNames == <<n1, n1, n2>>
=============================================================================
