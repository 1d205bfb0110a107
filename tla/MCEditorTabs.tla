------------------------------ MODULE MCEditorTabs ------------------------------
(***************************************************************************)
(* One file, one untitled tab and two projects: the file is outside one of  *)
(* them.                                                                    *)
(***************************************************************************)
EXTENDS EditorTabs, TLC

CONSTANTS p1, r1, r2

\* Every file is in the folder of the first project.
FolderOf == [p \in Paths |-> r1]
=============================================================================
