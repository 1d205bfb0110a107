---------------------------- MODULE MCSessionBoot ----------------------------
(* Small values for the constants of SessionBoot. *)
EXTENDS SessionBoot
=============================================================================
