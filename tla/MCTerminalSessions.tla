--------------------------- MODULE MCTerminalSessions ---------------------------
(***************************************************************************)
(* Two trunks and two spawns: a second spawn, of the same trunk or of       *)
(* another one, meets what the first one left behind.                       *)
(***************************************************************************)
EXTENDS TerminalSessions
=============================================================================
