---------------------------- MODULE MCExplorerPanel ----------------------------
(***************************************************************************)
(* A project of two trunks, one of them in a worktree.  The project's       *)
(* folder holds a folder with a folder, and one named build, which a search *)
(* skips; the worktree is empty.                                           *)
(***************************************************************************)
EXTENDS ExplorerPanel, TLC

CONSTANTS t1, t2, main, worktree, d, build, f

FolderOf   == [t \in {t1, t2} |-> main]
CheckoutOf == (t1 :> main) @@ (t2 :> worktree)
Disk       == {<<main, d>>, <<main, d, d>>, <<main, build>>}
=============================================================================
