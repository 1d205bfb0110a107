--------------------------- MODULE SerialOperations ---------------------------
(***************************************************************************)
(* What the operation coordinator promises its callers: the operations of   *)
(* one queue run one at a time; each announces itself once, reports its     *)
(* result once, and only then lets the next one of its queue begin.         *)
(***************************************************************************)
EXTENDS Sequences

CONSTANTS Ops, Keys, KeyOf(_)

VARIABLES
  phase,  (* phase[o]: "idle", "queued", "running" or "ended"             *)
  log     (* log[o]: the events the caller's window has been sent for o   *)

serialVars == <<phase, log>>

Results == {"Completed", "Failed", "Cancelled"}

Init ==
  /\ phase = [o \in Ops |-> "idle"]
  /\ log = [o \in Ops |-> <<>>]

Queue(o) ==
  /\ phase[o] = "idle"
  /\ phase' = [phase EXCEPT ![o] = "queued"]
  /\ UNCHANGED log

Start(o) ==
  /\ phase[o] = "queued"
  /\ \A p \in Ops : KeyOf(p) = KeyOf(o) => phase[p] # "running"
  /\ phase' = [phase EXCEPT ![o] = "running"]
  /\ UNCHANGED log

Announce(o) ==
  /\ phase[o] = "running"
  /\ log[o] = <<>>
  /\ log' = [log EXCEPT ![o] = <<"Started">>]
  /\ UNCHANGED phase

Report(o, r) ==
  /\ phase[o] = "running"
  /\ log[o] = <<"Started">>
  /\ log' = [log EXCEPT ![o] = <<"Started", r>>]
  /\ UNCHANGED phase

End(o) ==
  /\ phase[o] = "running"
  /\ \E r \in Results : log[o] = <<"Started", r>>
  /\ phase' = [phase EXCEPT ![o] = "ended"]
  /\ UNCHANGED log

Next ==
  \E o \in Ops :
    \/ Queue(o) \/ Start(o) \/ Announce(o) \/ End(o)
    \/ \E r \in Results : Report(o, r)

Spec == Init /\ [][Next]_serialVars
=============================================================================
