-------------------------- MODULE MCSourceControlPanel --------------------------
(***************************************************************************)
(* Two trunks that share a checkout, and a second one, not yet a            *)
(* repository, that one of them may move to.                                *)
(***************************************************************************)
EXTENDS SourceControlPanel, TLC

CONSTANTS t1, t2, c1, c2
=============================================================================
