------------------------- MODULE MCOperationCoordinator -------------------------
(***************************************************************************)
(* Small instances of the operation coordinator for TLC.                    *)
(***************************************************************************)
EXTENDS OperationCoordinatorProps

CONSTANTS a, b, c

InRepository(name) ==
  [command |-> name, repository |-> "repository:R",
   checkout |-> "checkout:R", folder |-> "/R"]

OutsideRepository(name) ==
  [command |-> name, repository |-> NoRepository,
   checkout |-> "checkout:S", folder |-> "/S"]

\* Processes: a commit that creates a branch first and an unstage that probes
\* HEAD first, on one repository, and a clone into a folder outside of it.
MixedOps == {a, b, c}
MixedRequest ==
  [o \in MixedOps |-> IF o = c THEN OutsideRepository("clone")
                      ELSE InRepository(IF o = a THEN "commit" ELSE "stage")]
MixedCommandCount == [o \in MixedOps |-> IF o = c THEN 1 ELSE 2]
MixedDetached == [o \in MixedOps |-> IF o = b THEN {1} ELSE {}]
MixedCancellable == {a, b}

\* Waiters: three operations of one queue, so that two wait at once.
WaiterRequest == [o \in MixedOps |-> InRepository("stage")]
WaiterCommandCount == [o \in MixedOps |-> 1]
WaiterDetached == [o \in MixedOps |-> {}]
WaiterCancellable == {a}

\* A commit and a worktree creation in the same repository.
WorktreeOps == {a, b}
WorktreeRequest ==
  [o \in WorktreeOps |-> InRepository(IF o = a THEN "commit" ELSE "worktree-create")]
WorktreeCommandCount == [o \in WorktreeOps |-> 1]
WorktreeDetached == [o \in WorktreeOps |-> {}]
=============================================================================
