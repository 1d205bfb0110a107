---------------------------- MODULE TerminalSessions ----------------------------
(***************************************************************************)
(* Terminal sessions: the card's effect that mounts an xterm and spawns a   *)
(* shell, the store's entry per trunk, the channel that carries output and  *)
(* exit messages, and the native registry of live shells.                   *)
(*                                                                         *)
(* Everything in the window runs on one thread; its steps are the effect, a *)
(* delivered message, the answer of a spawn and a click.  A session stands  *)
(* for one call of spawn: its shell, its channel and its answer.            *)
(***************************************************************************)
EXTENDS Integers, FiniteSets, SequencesExt

CONSTANTS
  Trunks,      (* the trunks the user switches between                    *)
  MaxSpawns,   (* Bound: the spawns of one run of the application         *)
  NoTrunk,     (* no trunk is active                                      *)
  MaxPending,  (* MAX_PENDING_CHUNKS                                      *)
  MaxChannel   (* Bound: output messages on their way at once             *)

ASSUME NoTrunkAssumption == NoTrunk \notin Trunks
ASSUME BoundsAssumption ==
  MaxSpawns \in Nat /\ MaxPending \in Nat \ {0} /\ MaxChannel \in Nat

\* Sessions are numbered as they are spawned.
Sessions  == 1..MaxSpawns
NoSession == 0

VARIABLES
  active,    (* activeTrunkId                                             *)
  ready,     (* the active trunk's checkout runtime is ready              *)
  deps,      (* the dependencies the effect last ran with                 *)
  restart,   (* resetSignal has changed since the effect last ran         *)
  card,      (* the session the mounted xterm was opened for              *)
  entry,     (* sessionsByTrunkId                                         *)
  owner,     (* the trunk a spawn was issued for, fixed in its closures   *)
  shell,     (* the native side of a session                              *)
  registry,  (* TerminalSessionState.sessions                             *)
  answer,    (* the answer of spawn on its way to the window              *)
  channel,   (* messages of the session's channel on their way            *)
  killing,   (* terminal_kill calls on their way                          *)
  quit       (* RunEvent::Exit has been handled                           *)

windowVars == <<deps, restart, card, entry, owner>>
nativeVars == <<registry, answer, channel, killing>>
vars == <<active, ready, windowVars, shell, nativeVars, quit>>

Statuses == {"absent", "idle", "spawning", "ready", "error", "exited"}
Kinds    == {"Output", "Exit"}
Message  == [kind : Kinds, session : Sessions]

Absent == [status |-> "absent", info |-> NoSession, pending |-> <<>>]

Depends == <<active, ready>>

Init ==
  /\ active = NoTrunk
  /\ ready = FALSE
  /\ deps = <<NoTrunk, FALSE>>
  /\ restart = FALSE
  /\ card = NoSession
  /\ entry = [t \in Trunks |-> Absent]
  /\ owner = [s \in Sessions |-> NoTrunk]
  /\ shell = [s \in Sessions |-> "unused"]
  /\ registry = {}
  /\ answer = [s \in Sessions |-> "none"]
  /\ channel = [s \in Sessions |-> <<>>]
  /\ killing = {}
  /\ quit = FALSE

-----------------------------------------------------------------------------
(* Activation, as far as the card sees it.                                  *)

Activate(t) ==
  /\ active' = t
  /\ ready' = FALSE
  /\ UNCHANGED <<windowVars, shell, nativeVars, quit>>

RuntimeReady ==
  /\ active # NoTrunk
  /\ ~ready
  /\ ready' = TRUE
  /\ UNCHANGED <<active, windowVars, shell, nativeVars, quit>>

Deactivate ==
  /\ active # NoTrunk
  /\ active' = NoTrunk
  /\ ready' = FALSE
  /\ UNCHANGED <<windowVars, shell, nativeVars, quit>>

-----------------------------------------------------------------------------
(* The setters of the store, as functions of sessionsByTrunkId: each keeps   *)
(* the rest of an entry and makes one where there is none.                  *)

ensureSession(sessions, t) ==
  [sessions EXCEPT ![t].status = IF @ = "absent" THEN "idle" ELSE @]

setSpawning(sessions, t)    == [sessions EXCEPT ![t].status = "spawning"]
setReady(sessions, t, info) == [sessions EXCEPT ![t].info = info, ![t].status = "ready"]
setError(sessions, t)       == [sessions EXCEPT ![t].status = "error"]
setExited(sessions, t)      == [sessions EXCEPT ![t].status = "exited"]
killSession(sessions, t)    == [sessions EXCEPT ![t] = Absent]

-----------------------------------------------------------------------------
(* Messages.  An exit is honoured when the entry's session is not known yet *)
(* or is the one that exited.                                               *)

\* Mutant: an exit honoured without a look at its session.
HonouredAlways(e, m) == m.kind = "Exit"

Honoured(e, m) == m.kind = "Exit" /\ (e.info = NoSession \/ e.info = m.session)

handleMessage(sessions, t, m) ==
  IF Honoured(sessions[t], m) THEN setExited(sessions, t) ELSE sessions

\* drainPendingMessages: handling a message leaves the entry's session alone, so
\* the entry has exited once one of the messages is an exit it honours.
Drained(sessions, t) ==
  LET kept == [sessions EXCEPT ![t].pending = <<>>]
  IN  IF \E m \in ToSet(sessions[t].pending) : Honoured(sessions[t], m)
      THEN setExited(kept, t) ELSE kept

appendPendingMessage(sessions, t, m) ==
  [ensureSession(sessions, t) EXCEPT
     ![t].pending = Append(IF Len(@) >= MaxPending THEN Tail(@) ELSE @, m)]

-----------------------------------------------------------------------------
(* The effect: the cleanup of the previous run (dispose, kill, forget), then *)
(* a new xterm and a new spawn if the trunk is ready and has no session.     *)

Forgotten == IF card = NoSession THEN entry ELSE killSession(entry, owner[card])

Killed ==
  IF card = NoSession THEN {} ELSE {entry[owner[card]].info} \ {NoSession}

Mountable == ready /\ ensureSession(Forgotten, active)[active].status = "idle"

Mount(s) ==
  /\ shell[s] = "unused"
  /\ \A earlier \in 1..(s - 1) : shell[earlier] # "unused"
  /\ entry' = Drained(setSpawning(ensureSession(Forgotten, active), active), active)
  /\ card' = s
  /\ owner' = [owner EXCEPT ![s] = active]
  /\ shell' = [shell EXCEPT ![s] = "requested"]

RunEffect ==
  /\ deps # Depends \/ restart
  /\ deps' = Depends
  /\ restart' = FALSE
  /\ killing' = killing \cup Killed
  /\ \/ Mountable /\ \E s \in Sessions : Mount(s)
     \/ /\ ~Mountable
        /\ entry' = Forgotten
        /\ card' = NoSession
        /\ UNCHANGED <<owner, shell>>
  /\ UNCHANGED <<active, ready, registry, answer, channel, quit>>

\* The banner's button.
Restart ==
  /\ active # NoTrunk
  /\ entry[active].status \in {"error", "exited"}
  /\ entry' = killSession(entry, active)
  /\ restart' = TRUE
  /\ UNCHANGED <<active, ready, deps, card, owner, shell, nativeVars, quit>>

-----------------------------------------------------------------------------
(* What comes back: the channel's messages go to whatever xterm is mounted, *)
(* or wait in the entry of their trunk; the answer goes to the entry.       *)

DeliverMessage(s) ==
  /\ channel[s] # <<>>
  /\ channel' = [channel EXCEPT ![s] = Tail(@)]
  /\ LET m == [kind |-> Head(channel[s]), session |-> s]
     IN entry' = IF card = NoSession THEN appendPendingMessage(entry, owner[s], m)
                 ELSE handleMessage(entry, owner[s], m)
  /\ UNCHANGED <<active, ready, deps, restart, card, owner, shell, registry,
                 answer, killing, quit>>

\* Mutant: the answer recorded for the trunk that is active when it arrives.
SpawnResolvesForActive(s) ==
  /\ answer[s] = "ok"
  /\ active # NoTrunk
  /\ answer' = [answer EXCEPT ![s] = "none"]
  /\ entry' = setReady(entry, active, s)
  /\ UNCHANGED <<active, ready, deps, restart, card, owner, shell, registry,
                 channel, killing, quit>>

SpawnResolves(s) ==
  /\ answer[s] = "ok"
  /\ answer' = [answer EXCEPT ![s] = "none"]
  /\ entry' = setReady(entry, owner[s], s)
  /\ UNCHANGED <<active, ready, deps, restart, card, owner, shell, registry,
                 channel, killing, quit>>

\* Mutant: a failed spawn swallowed like the failures of write and kill.
SpawnRejectsSilently(s) ==
  /\ answer[s] = "error"
  /\ answer' = [answer EXCEPT ![s] = "none"]
  /\ UNCHANGED <<active, ready, windowVars, shell, registry, channel, killing, quit>>

SpawnRejects(s) ==
  /\ answer[s] = "error"
  /\ answer' = [answer EXCEPT ![s] = "none"]
  /\ entry' = setError(entry, owner[s])
  /\ UNCHANGED <<active, ready, deps, restart, card, owner, shell, registry,
                 channel, killing, quit>>

-----------------------------------------------------------------------------
(* The native side.                                                         *)

\* Mutant: the session is answered but never entered in the registry.
terminal_spawnUnregistered(s) ==
  /\ shell[s] = "requested"
  /\ \/ /\ shell' = [shell EXCEPT ![s] = "alive"]
        /\ answer' = [answer EXCEPT ![s] = "ok"]
     \/ /\ shell' = [shell EXCEPT ![s] = "dead"]
        /\ answer' = [answer EXCEPT ![s] = "error"]
  /\ UNCHANGED <<active, ready, windowVars, registry, channel, killing, quit>>

terminal_spawn(s) ==
  /\ shell[s] = "requested"
  /\ \/ /\ shell' = [shell EXCEPT ![s] = "alive"]
        /\ registry' = registry \cup {s}
        /\ answer' = [answer EXCEPT ![s] = "ok"]
     \/ /\ shell' = [shell EXCEPT ![s] = "dead"]
        /\ answer' = [answer EXCEPT ![s] = "error"]
        /\ UNCHANGED registry
  /\ UNCHANGED <<active, ready, windowVars, channel, killing, quit>>

ShellPrints(s) ==
  /\ shell[s] = "alive"
  /\ Len(channel[s]) < MaxChannel
  /\ channel' = [channel EXCEPT ![s] = Append(@, "Output")]
  /\ UNCHANGED <<active, ready, windowVars, shell, registry, answer, killing, quit>>

\* The reader thread sees the end of the output, reaps the shell and reports.
ShellExits(s) ==
  /\ shell[s] = "alive"
  /\ shell' = [shell EXCEPT ![s] = "dead"]
  /\ channel' = [channel EXCEPT ![s] = Append(@, "Exit")]
  /\ UNCHANGED <<active, ready, windowVars, registry, answer, killing, quit>>

\* The kill joins the reader thread, which reports the exit.
terminal_kill(s) ==
  /\ s \in killing
  /\ killing' = killing \ {s}
  /\ registry' = registry \ {s}
  /\ IF s \in registry /\ shell[s] = "alive"
     THEN /\ shell' = [shell EXCEPT ![s] = "dead"]
          /\ channel' = [channel EXCEPT ![s] = Append(@, "Exit")]
     ELSE UNCHANGED <<shell, channel>>
  /\ UNCHANGED <<active, ready, windowVars, answer, quit>>

\* kill_all on RunEvent::Exit; the window, its store and its calls are gone.
kill_all ==
  /\ quit' = TRUE
  /\ registry' = {}
  /\ shell' = [s \in Sessions |-> IF s \in registry THEN "dead" ELSE shell[s]]
  /\ active' = NoTrunk /\ ready' = FALSE
  /\ deps' = <<NoTrunk, FALSE>> /\ restart' = FALSE /\ card' = NoSession
  /\ entry' = [t \in Trunks |-> Absent]
  /\ owner' = [s \in Sessions |-> NoTrunk]
  /\ answer' = [s \in Sessions |-> "none"]
  /\ channel' = [s \in Sessions |-> <<>>]
  /\ killing' = {}

-----------------------------------------------------------------------------
Window(s) == DeliverMessage(s) \/ SpawnResolves(s) \/ SpawnRejects(s)

Native(s) == terminal_spawn(s) \/ terminal_kill(s) \/ ShellPrints(s) \/ ShellExits(s)

User == (\E t \in Trunks : Activate(t)) \/ RuntimeReady \/ Deactivate \/ Restart

Next ==
  \/ /\ ~quit
     /\ \/ User \/ RunEffect \/ kill_all
        \/ \E s \in Sessions : Window(s) \/ Native(s)
  \/ quit /\ UNCHANGED vars

Spec == Init /\ [][Next]_vars

(* The window's event loop reaches every task it has been given, and the    *)
(* native main thread every call.  Nothing obliges a shell to print or exit. *)
FairSpec ==
  /\ Spec
  /\ \A s \in Sessions :
       /\ WF_vars(~quit /\ (SpawnResolves(s) \/ SpawnRejects(s)))
       /\ WF_vars(~quit /\ DeliverMessage(s))
       /\ WF_vars(~quit /\ terminal_spawn(s))
       /\ WF_vars(~quit /\ terminal_kill(s))

-----------------------------------------------------------------------------
(* The shape of the state (terminalStore.ts, registry.rs); the buffer of a  *)
(* trunk stays within its bound (appendPendingMessage).                     *)
TypeOK ==
  /\ active \in Trunks \cup {NoTrunk}
  /\ ready \in BOOLEAN
  /\ deps \in (Trunks \cup {NoTrunk}) \X BOOLEAN
  /\ restart \in BOOLEAN
  /\ card \in Sessions \cup {NoSession}
  /\ entry \in [Trunks -> [status : Statuses, info : Sessions \cup {NoSession},
                           pending : Seq(Message)]]
  /\ \A t \in Trunks : Len(entry[t].pending) <= MaxPending
  /\ owner \in [Sessions -> Trunks \cup {NoTrunk}]
  /\ shell \in [Sessions -> {"unused", "requested", "alive", "dead"}]
  /\ registry \in SUBSET Sessions
  /\ answer \in [Sessions -> {"none", "ok", "error"}]
  /\ channel \in [Sessions -> Seq(Kinds)]
  /\ killing \in SUBSET Sessions
  /\ quit \in BOOLEAN

(* No shell outlives the application: a shell that runs is one kill_all     *)
(* finds (terminal_spawn, terminal_kill, kill_all); in states of that shape.*)
LiveShellsRegistered ==
  /\ TypeOK
  /\ \A s \in Sessions : shell[s] = "alive" => s \in registry

(* What is typed into a trunk's terminal reaches a shell started for that   *)
(* trunk, however late a spawn is answered (onData, setReady).              *)
InputReachesOwnTrunk ==
  \A t \in Trunks : entry[t].info # NoSession => owner[entry[t].info] = t

(* Once the spawn of the mounted terminal has been answered, the terminal   *)
(* is shown as exited only if that very shell has exited: exits of the      *)
(* shells it replaced are ignored (handleMessage).                          *)
AnsweredExitIsOwn ==
  card # NoSession =>
    LET e == entry[owner[card]]
    IN e.info = card /\ e.status = "exited" => shell[card] = "dead"

(* A terminal does not stay in "spawning": its spawn is answered, or its    *)
(* shell's exit is honoured, or its entry is dropped (TerminalCard).        *)
SpawningSettles ==
  \A t \in Trunks :
    (entry[t].status = "spawning") ~> (entry[t].status # "spawning")
=============================================================================
