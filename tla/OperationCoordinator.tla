------------------------- MODULE OperationCoordinator -------------------------
(***************************************************************************)
(* The native Git operation coordinator: per-repository queues (a Boolean   *)
(* behind a mutex and a condition variable), the operation map that makes   *)
(* cancellation possible, the quit guard's counter, the process runner's    *)
(* polling loop, and the RAII guard that reports the outcome.               *)
(*                                                                         *)
(* Every member of Ops is one coordinated command on a thread of its own;   *)
(* pc[o] is where that thread is.  A step of a thread is one critical       *)
(* section or one access to shared state.                                  *)
(***************************************************************************)
EXTENDS Integers, Sequences, FiniteSets

CONSTANTS
  Ops,           (* the invocations of coordinated commands               *)
  Request,       (* Request[o]: the command and the scope it resolved     *)
  NoRepository,  (* a scope whose folder is not (yet) a Git repository    *)
  CommandCount,  (* CommandCount[o]: git processes a successful o runs    *)
  Detached,      (* Detached[o]: which of them run without the operation  *)
  Cancellable,   (* Bound: the operations somebody tries to cancel        *)
  NoOp           (* nobody: not a member of Ops                           *)

RequestType ==
  [command : STRING, repository : STRING \cup {NoRepository},
   checkout : STRING, folder : STRING]

ASSUME OpsAssumption ==
  /\ IsFiniteSet(Ops)
  /\ NoOp \notin Ops

ASSUME RequestAssumption ==
  /\ Request \in [Ops -> RequestType]
  /\ CommandCount \in [Ops -> Nat \ {0}]
  /\ Detached \in [Ops -> SUBSET Nat]

VARIABLES
  pc,          (* control state of the thread that runs o                 *)
  running,     (* RepositoryQueue.running, per queue key                  *)
  pending,     (* pending_counts, per queue key                           *)
  active,      (* QuitGuard.active_operations                             *)
  registered,  (* keys of the coordinator's operations map                *)
  flag,        (* ActiveOperation.cancellation                            *)
  slot,        (* child_slot holds the child of o's current command       *)
  child,       (* the git process of o's current command                  *)
  expired,     (* the command's timeout has elapsed                       *)
  cmd,         (* how many commands of o have succeeded                   *)
  outcome,     (* what the closure given to run_coordinated returned      *)
  events,      (* sourceControl://operation events emitted for o          *)
  canceller,   (* the o whose cancel call holds the operations lock       *)
  reply        (* what git_operation_cancel returned for o                *)

queueVars   == <<running, pending, active>>
processVars == <<slot, child, expired, cmd>>
cancelVars  == <<flag, canceller, reply>>
vars == <<pc, running, pending, active, registered, flag, slot, child,
          expired, cmd, outcome, events, canceller, reply>>

-----------------------------------------------------------------------------
(* The queue a command waits in.  Commands on a scope use the repository    *)
(* identity, or the checkout identity outside a repository; worktree        *)
(* creation and attachment pass the project folder's path as the identity.  *)

FolderKeyed == {"worktree-create", "worktree-attach"}

QueueKey(o) ==
  IF Request[o].command \in FolderKeyed THEN Request[o].folder
  ELSE IF Request[o].repository # NoRepository THEN Request[o].repository
  ELSE Request[o].checkout

Keys == {QueueKey(o) : o \in Ops}

InQueue   == {"contend", "waiting"}
InCommand == {"command", "spawned", "polling", "polled", "draining"}
Guarded   == {"guarded", "registered"} \cup InCommand \cup {"returning", "emitted"}
Mapped    == {"registered"} \cup InCommand
               \cup {"returning", "emitted", "unguarded"}
Counted   == {"counted", "guarded", "unregistered"} \cup Mapped
Holding   == {"permitted", "uncounted"} \cup Counted
Stages    == {"idle", "done"} \cup InQueue \cup Holding

Outcomes   == {"none", "ok", "cancelled", "failed", "unwound"}
EventKinds == {"Started", "Completed", "Failed", "Cancelled"}

Attached(o) == cmd[o] + 1 \notin Detached[o]

Goto(o, from, to) ==
  /\ pc[o] = from
  /\ pc' = [pc EXCEPT ![o] = to]

-----------------------------------------------------------------------------
Init ==
  /\ pc = [o \in Ops |-> "idle"]
  /\ running = [k \in Keys |-> FALSE]
  /\ pending = [k \in Keys |-> 0]
  /\ active = 0
  /\ registered = {}
  /\ flag = [o \in Ops |-> FALSE]
  /\ slot = [o \in Ops |-> FALSE]
  /\ child = [o \in Ops |-> "none"]
  /\ expired = [o \in Ops |-> FALSE]
  /\ cmd = [o \in Ops |-> 0]
  /\ outcome = [o \in Ops |-> "none"]
  /\ events = [o \in Ops |-> <<>>]
  /\ canceller = NoOp
  /\ reply = [o \in Ops |-> "none"]

-----------------------------------------------------------------------------
(* begin: take the repository's permit, then count, guard and announce.     *)

Invoke(o) ==
  /\ Goto(o, "idle", "contend")
  /\ UNCHANGED <<queueVars, registered, processVars, outcome, events, cancelVars>>

\* Mutant: acquire that does not look at the flag.
AcquireUnchecked(o) ==
  /\ Goto(o, "contend", "permitted")
  /\ running' = [running EXCEPT ![QueueKey(o)] = TRUE]
  /\ UNCHANGED <<pending, active, registered, processVars, outcome, events, cancelVars>>

\* The loop of acquire: take the permit, or wait on the condition variable.
Acquire(o) ==
  /\ \/ /\ ~running[QueueKey(o)]
        /\ Goto(o, "contend", "permitted")
        /\ running' = [running EXCEPT ![QueueKey(o)] = TRUE]
     \/ /\ running[QueueKey(o)]
        /\ Goto(o, "contend", "waiting")
        /\ UNCHANGED running
  /\ UNCHANGED <<pending, active, registered, processVars, outcome, events, cancelVars>>

\* Condvar::wait may return without a notification.
SpuriousWakeup(o) ==
  /\ Goto(o, "waiting", "contend")
  /\ UNCHANGED <<queueVars, registered, processVars, outcome, events, cancelVars>>

CountPending(o) ==
  /\ Goto(o, "permitted", "counted")
  /\ pending' = [pending EXCEPT ![QueueKey(o)] = @ + 1]
  /\ UNCHANGED <<running, active, registered, processVars, outcome, events, cancelVars>>

BeginOperation(o) ==
  /\ Goto(o, "counted", "guarded")
  /\ active' = active + 1
  /\ UNCHANGED <<running, pending, registered, processVars, outcome, events, cancelVars>>

Register(o) ==
  /\ canceller = NoOp
  /\ Goto(o, "guarded", "registered")
  /\ registered' = registered \cup {o}
  /\ UNCHANGED <<queueVars, processVars, outcome, events, cancelVars>>

EmitStarted(o) ==
  /\ Goto(o, "registered", "command")
  /\ events' = [events EXCEPT ![o] = Append(@, "Started")]
  /\ UNCHANGED <<queueVars, registered, processVars, outcome, cancelVars>>

-----------------------------------------------------------------------------
(* The closure: one git process after another through SystemGitProcess.     *)

Return(o, from, result) ==
  /\ Goto(o, from, "returning")
  /\ outcome' = [outcome EXCEPT ![o] = result]

\* A failed command ends the closure, except the detached probe, whose plain
\* failure is an answer and lets the closure go on.
CommandFails(o, from) ==
  \/ /\ Return(o, from, "failed")
     /\ UNCHANGED cmd
  \/ /\ ~Attached(o)
     /\ cmd[o] + 1 < CommandCount[o]
     /\ Goto(o, from, "command")
     /\ cmd' = [cmd EXCEPT ![o] = @ + 1]
     /\ UNCHANGED outcome

\* run_mutation looks the operation's slot up, then run spawns the process.
Spawn(o) ==
  /\ canceller = NoOp
  /\ Goto(o, "command", "spawned")
  /\ child' = [child EXCEPT ![o] = "running"]
  /\ expired' = [expired EXCEPT ![o] = FALSE]
  /\ UNCHANGED <<queueVars, registered, slot, cmd, outcome, events, cancelVars>>

\* The closure returns where no process is needed (empty path lists), or a path
\* is refused, or git cannot be spawned.
ReturnsWithoutProcess(o) ==
  /\ \/ Return(o, "command", "failed")
     \/ cmd[o] = 0 /\ Return(o, "command", "ok")
  /\ UNCHANGED <<queueVars, registered, processVars, events, cancelVars>>

\* The closure panics between two commands; the guard is dropped unreported.
Unwind(o) ==
  /\ Return(o, "command", "unwound")
  /\ UNCHANGED <<queueVars, registered, processVars, events, cancelVars>>

PlaceChild(o) ==
  /\ Goto(o, "spawned", "polling")
  /\ slot' = [slot EXCEPT ![o] = TRUE]
  /\ UNCHANGED <<queueVars, registered, child, expired, cmd, outcome, events, cancelVars>>

\* Mutant: the child is taken out of the slot and only dropped, which leaves
\* the process running.
KillChildDrops(o) ==
  /\ slot' = [slot EXCEPT ![o] = FALSE]
  /\ UNCHANGED child

\* kill_child: take whatever is in the slot, kill it and reap it.
KillChild(o) ==
  /\ slot' = [slot EXCEPT ![o] = FALSE]
  /\ child' = [child EXCEPT ![o] = IF slot[o] THEN "reaped" ELSE @]

SeesCancellation(o) ==
  /\ Attached(o)
  /\ flag[o]
  /\ Return(o, "polling", "cancelled")
  /\ KillChild(o)
  /\ UNCHANGED <<queueVars, registered, expired, cmd, events, cancelVars>>
\* Mutant: a timeout reported as a cancellation.
SeesTimeoutCancelled(o) ==
  /\ ~(Attached(o) /\ flag[o])
  /\ expired[o]
  /\ Return(o, "polling", "cancelled")
  /\ KillChild(o)
  /\ UNCHANGED <<queueVars, registered, expired, cmd, events, cancelVars>>

SeesTimeout(o) ==
  /\ ~(Attached(o) /\ flag[o])
  /\ expired[o]
  /\ Return(o, "polling", "failed")
  /\ KillChild(o)
  /\ UNCHANGED <<queueVars, registered, expired, cmd, events, cancelVars>>

ChecksPass(o) ==
  /\ ~(Attached(o) /\ flag[o])
  /\ ~expired[o]
  /\ Goto(o, "polling", "polled")
  /\ UNCHANGED <<queueVars, registered, processVars, outcome, events, cancelVars>>

\* The slot was emptied between the check of the flag and taking its lock.
FindsSlotEmpty(o) ==
  /\ ~slot[o]
  /\ Return(o, "polled", "failed")
  /\ UNCHANGED <<queueVars, registered, processVars, events, cancelVars>>

\* try_wait under the slot's lock: still running, exited, or an error.
StillRunning(o) ==
  /\ slot[o]
  /\ child[o] = "running"
  /\ Goto(o, "polled", "polling")
  /\ UNCHANGED <<queueVars, registered, processVars, outcome, events, cancelVars>>

ReapChild(o) ==
  /\ slot[o]
  /\ child[o] = "exited"
  /\ Goto(o, "polled", "draining")
  /\ slot' = [slot EXCEPT ![o] = FALSE]
  /\ child' = [child EXCEPT ![o] = "reaped"]
  /\ UNCHANGED <<queueVars, registered, expired, cmd, outcome, events, cancelVars>>

\* waitpid finds no such child: somebody else has reaped it.  The operation's
\* slot keeps the handle; the slot of a detached command is gone.
TryWaitFails(o) ==
  /\ slot[o]
  /\ child[o] = "exited"
  /\ CommandFails(o, "polled")
  /\ child' = [child EXCEPT ![o] = "reaped"]
  /\ slot' = [slot EXCEPT ![o] = Attached(o)]
  /\ UNCHANGED <<queueVars, registered, expired, events, cancelVars>>

\* Mutant: the operation leaves the map when its last command succeeds, before
\* the result is reported.
CommandSucceedsFinishes(o) ==
  /\ cmd' = [cmd EXCEPT ![o] = @ + 1]
  /\ \/ /\ cmd[o] + 1 < CommandCount[o]
        /\ Goto(o, "draining", "command")
        /\ UNCHANGED <<outcome, registered>>
     \/ /\ cmd[o] + 1 >= CommandCount[o]
        /\ Return(o, "draining", "ok")
        /\ registered' = registered \ {o}
  /\ UNCHANGED <<queueVars, slot, child, expired, events, cancelVars>>

\* Both streams arrived and the status is success: next command, or done.
CommandSucceeds(o) ==
  /\ cmd' = [cmd EXCEPT ![o] = @ + 1]
  /\ \/ /\ cmd[o] + 1 < CommandCount[o]
        /\ Goto(o, "draining", "command")
        /\ UNCHANGED outcome
     \/ /\ cmd[o] + 1 >= CommandCount[o]
        /\ Return(o, "draining", "ok")
  /\ UNCHANGED <<queueVars, registered, slot, child, expired, events, cancelVars>>

\* A reader timed out, failed or passed its limit, or the status is a failure.
DrainFails(o) ==
  /\ CommandFails(o, "draining")
  /\ UNCHANGED <<queueVars, registered, slot, child, expired, events, cancelVars>>

-----------------------------------------------------------------------------
\* Mutant: no translation of an outcome nobody returned.
TerminalEventRaw(o) ==
  CASE outcome[o] = "ok"        -> "Completed"
    [] outcome[o] = "cancelled" -> "Cancelled"
    [] outcome[o] = "failed"    -> "Failed"
    [] OTHER                    -> outcome[o]

(* Reporting, and the guard's Drop: quit guard, map, count, then the permit *)
(* (a field of the guard, dropped after its Drop has run).                  *)
TerminalEvent(o) ==
  CASE outcome[o] = "ok"        -> "Completed"
    [] outcome[o] = "cancelled" -> "Cancelled"
    [] outcome[o] = "failed"    -> "Failed"
    [] OTHER                    -> IF flag[o] THEN "Cancelled" ELSE "Failed"

EmitTerminal(o) ==
  /\ Goto(o, "returning", "emitted")
  /\ events' = [events EXCEPT ![o] = Append(@, TerminalEvent(o))]
  /\ UNCHANGED <<queueVars, registered, processVars, outcome, cancelVars>>
\* Mutants: the counter is reset by the first operation that ends; the guard
\* never counts down.
EndOperationResets(o) ==
  /\ Goto(o, "emitted", "unguarded")
  /\ active' = 0
  /\ UNCHANGED <<running, pending, registered, processVars, outcome, events, cancelVars>>

EndOperationLeaks(o) ==
  /\ Goto(o, "emitted", "unguarded")
  /\ UNCHANGED <<queueVars, registered, processVars, outcome, events, cancelVars>>

EndOperation(o) ==
  /\ Goto(o, "emitted", "unguarded")
  /\ active' = IF active = 0 THEN 0 ELSE active - 1
  /\ UNCHANGED <<running, pending, registered, processVars, outcome, events, cancelVars>>

\* Mutant: the entry is removed and the pending count forgotten.
FinishOperationKeepsCount(o) ==
  /\ canceller = NoOp
  /\ Goto(o, "unguarded", "uncounted")
  /\ registered' = registered \ {o}
  /\ UNCHANGED <<queueVars, processVars, outcome, events, cancelVars>>

\* The map's entry is dropped, and with it the last owner of the slot.
FinishOperation(o) ==
  /\ canceller = NoOp
  /\ Goto(o, "unguarded", IF o \in registered THEN "unregistered" ELSE "uncounted")
  /\ registered' = registered \ {o}
  /\ UNCHANGED <<queueVars, processVars, outcome, events, cancelVars>>

DecrementPending(o) ==
  /\ Goto(o, "unregistered", "uncounted")
  /\ pending' = [pending EXCEPT ![QueueKey(o)] = IF @ = 0 THEN 0 ELSE @ - 1]
  /\ UNCHANGED <<running, active, registered, processVars, outcome, events, cancelVars>>

Waiting(k) == {o \in Ops : pc[o] = "waiting" /\ QueueKey(o) = k}

\* Mutant: the permit is released and nobody is notified.
ReleasePermitSilently(o) ==
  /\ Goto(o, "uncounted", "done")
  /\ running' = [running EXCEPT ![QueueKey(o)] = FALSE]
  /\ UNCHANGED <<pending, active, registered, processVars, outcome, events, cancelVars>>

\* RepositoryQueuePermit::drop clears the flag and notifies one waiter.
ReleasePermit(o) ==
  /\ pc[o] = "uncounted"
  /\ running' = [running EXCEPT ![QueueKey(o)] = FALSE]
  /\ \/ /\ Waiting(QueueKey(o)) = {}
        /\ pc' = [pc EXCEPT ![o] = "done"]
     \/ \E w \in Waiting(QueueKey(o)) :
          pc' = [pc EXCEPT ![o] = "done", ![w] = "contend"]
  /\ UNCHANGED <<pending, active, registered, processVars, outcome, events, cancelVars>>

-----------------------------------------------------------------------------
(* cancel: under the operations lock, set the flag, then kill the child.    *)
(* The frontend learns the operation's id from Started; Bound: it asks to   *)
(* cancel an operation at most once.                                        *)

CancelLooksUp(o) ==
  /\ o \in Cancellable
  /\ events[o] # <<>>
  /\ reply[o] = "none"
  /\ canceller = NoOp
  /\ \/ /\ o \in registered
        /\ canceller' = o
        /\ UNCHANGED reply
     \/ /\ o \notin registered
        /\ reply' = [reply EXCEPT ![o] = "notFound"]
        /\ UNCHANGED canceller
  /\ UNCHANGED <<pc, queueVars, registered, flag, processVars, outcome, events>>

CancelSetsFlag(o) ==
  /\ canceller = o
  /\ ~flag[o]
  /\ flag' = [flag EXCEPT ![o] = TRUE]
  /\ UNCHANGED <<pc, queueVars, registered, processVars, outcome, events, canceller, reply>>

\* Mutant: cancel sets the flag and leaves the process to the polling loop.
CancelOnlyFlags(o) ==
  /\ canceller = o
  /\ flag[o]
  /\ canceller' = NoOp
  /\ reply' = [reply EXCEPT ![o] = "ok"]
  /\ UNCHANGED <<pc, queueVars, registered, flag, processVars, outcome, events>>

\* The operation's slot is empty while a detached command runs in its own.
CancelKills(o) ==
  /\ canceller = o
  /\ flag[o]
  /\ IF Attached(o) THEN KillChild(o) ELSE UNCHANGED <<slot, child>>
  /\ canceller' = NoOp
  /\ reply' = [reply EXCEPT ![o] = "ok"]
  /\ UNCHANGED <<pc, queueVars, registered, flag, expired, cmd, outcome, events>>

-----------------------------------------------------------------------------
(* The environment: git exits on its own, and time passes.                  *)

ChildExits(o) ==
  /\ child[o] = "running"
  /\ child' = [child EXCEPT ![o] = "exited"]
  /\ UNCHANGED <<pc, queueVars, registered, slot, expired, cmd, outcome, events, cancelVars>>

TimeoutElapses(o) ==
  /\ pc[o] \in {"polling", "polled"}
  /\ ~expired[o]
  /\ expired' = [expired EXCEPT ![o] = TRUE]
  /\ UNCHANGED <<pc, queueVars, registered, slot, child, cmd, outcome, events, cancelVars>>

-----------------------------------------------------------------------------
Begin(o) ==
  \/ Acquire(o) \/ CountPending(o) \/ BeginOperation(o) \/ Register(o) \/ EmitStarted(o)

RunCommands(o) ==
  \/ Spawn(o) \/ ReturnsWithoutProcess(o) \/ Unwind(o) \/ PlaceChild(o)
  \/ SeesCancellation(o) \/ SeesTimeout(o) \/ ChecksPass(o)
  \/ FindsSlotEmpty(o) \/ StillRunning(o) \/ ReapChild(o) \/ TryWaitFails(o)
  \/ CommandSucceeds(o) \/ DrainFails(o)

Finish(o) ==
  \/ EmitTerminal(o) \/ EndOperation(o) \/ FinishOperation(o)
  \/ DecrementPending(o) \/ ReleasePermit(o)

Thread(o) == Begin(o) \/ RunCommands(o) \/ Finish(o)

Cancel(o) == CancelSetsFlag(o) \/ CancelKills(o)

Terminated ==
  /\ \A o \in Ops : pc[o] = "done"
  /\ UNCHANGED vars

Next ==
  \/ \E o \in Ops : \/ Invoke(o) \/ Thread(o) \/ SpuriousWakeup(o)
                    \/ CancelLooksUp(o) \/ Cancel(o)
                    \/ ChildExits(o) \/ TimeoutElapses(o)
  \/ Terminated

Spec == Init /\ [][Next]_vars

(* The scheduler runs every thread that can run, a cancel call that has     *)
(* begun goes on, and time passes.  Nobody promises that git ever exits or  *)
(* that a wakeup is spurious.                                               *)
FairSpec ==
  /\ Spec
  /\ \A o \in Ops : WF_vars(Thread(o)) /\ WF_vars(Cancel(o)) /\ WF_vars(TimeoutElapses(o))
=============================================================================
