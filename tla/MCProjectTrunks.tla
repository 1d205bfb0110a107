----------------------------- MODULE MCProjectTrunks -----------------------------
(***************************************************************************)
(* Two folders, up to two projects and two trunks.                        *)
(***************************************************************************)
EXTENDS ProjectTrunks, TLC

CONSTANTS f1, f2

\* Folders are interchangeable; trunks and projects are numbered.
FolderSymmetry == Permutations({f1, f2})
=============================================================================
