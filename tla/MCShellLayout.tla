---------------------------- MODULE MCShellLayout ----------------------------
(* Small values for the constants of ShellLayout. *)
EXTENDS ShellLayout

CONSTANTS mouse, touch

TheAreas == {512, 960, 1600}
TheScales == {50, 75, 100, 150, 200}
TheWidths == {400, 640, 999, 1279, 1600}
ThePositions == {0, 137, 600}
=============================================================================
