----------------------- MODULE OperationCoordinatorProps -----------------------
(***************************************************************************)
(* The correctness properties of the operation coordinator.                 *)
(***************************************************************************)
EXTENDS OperationCoordinator

(* The shape of every variable (coordinator.rs, quit.rs, process.rs).       *)
TypeOK ==
  /\ pc \in [Ops -> Stages]
  /\ running \in [Keys -> BOOLEAN]
  /\ pending \in [Keys -> Nat]
  /\ active \in Nat
  /\ registered \in SUBSET Ops
  /\ flag \in [Ops -> BOOLEAN]
  /\ slot \in [Ops -> BOOLEAN]
  /\ child \in [Ops -> {"none", "running", "exited", "reaped"}]
  /\ expired \in [Ops -> BOOLEAN]
  /\ cmd \in [Ops -> Nat]
  /\ outcome \in [Ops -> Outcomes]
  /\ events \in [Ops -> Seq(EventKinds)]
  /\ canceller \in Ops \cup {NoOp}
  /\ reply \in [Ops -> {"none", "ok", "notFound"}]

BeforeStarted ==
  {"idle", "permitted", "counted", "guarded", "registered"} \cup InQueue
AfterTerminal == {"emitted", "unguarded", "unregistered", "uncounted", "done"}

Live(o) == child[o] \in {"running", "exited"}

(* The strengthening the proofs rest on.  The permit: a thread past acquire *)
(* and before the permit's drop has its queue marked running, and is the    *)
(* only such thread of that queue (RepositoryQueue).                        *)
PermitInv ==
  /\ \A o \in Ops : pc[o] \in Holding => running[QueueKey(o)]
  /\ \A o, p \in Ops :
       (pc[o] \in Holding /\ pc[p] \in Holding /\ QueueKey(o) = QueueKey(p)) => o = p

(* The process: it lives only between spawn and the end of the polling      *)
(* loop, and once placed it is in the slot as long as it lives, where the   *)
(* loop and a cancel call find it.                                          *)
ProcessInv ==
  \A o \in Ops :
    Live(o) => /\ pc[o] \in {"spawned", "polling", "polled"}
               /\ pc[o] # "spawned" => slot[o]

(* The report: the operations map holds exactly the threads between         *)
(* Register and FinishOperation, and the events sent follow the thread.     *)
ReportInv ==
  /\ registered = {o \in Ops : pc[o] \in Mapped}
  /\ \A o \in Ops :
       /\ pc[o] \in BeforeStarted => events[o] = <<>>
       /\ pc[o] \in InCommand \cup {"returning"} => events[o] = <<"Started">>
       /\ pc[o] \in AfterTerminal =>
            \E r \in {"Completed", "Failed", "Cancelled"} : events[o] = <<"Started", r>>

(* The answers: an outcome or an event of "cancelled" has its flag behind   *)
(* it, and a cancel answered "not found" came after FinishOperation.        *)
AnswerInv ==
  \A o \in Ops :
    /\ outcome[o] = "cancelled" => flag[o]
    /\ events[o] = <<"Started", "Cancelled">> => flag[o]
    /\ reply[o] = "notFound" => pc[o] \in {"unregistered", "uncounted", "done"}

(* Two git processes of one queue never exist together, whatever the        *)
(* polling loops, cancellations and timeouts do: the next operation's first *)
(* process starts after the last one of the previous operation is reaped    *)
(* (RepositoryQueue, the permit's drop, kill_child).                        *)
CommandsSerialPerQueue ==
  \A o, p \in Ops :
    o # p /\ QueueKey(o) = QueueKey(p) => ~(Live(o) /\ Live(p))

(* The quit guard never says it is safe to quit while a git process of a    *)
(* coordinated operation exists (QuitGuard::is_safe_to_quit).               *)
SafeToQuitMeansNoProcess ==
  active = 0 => \A o \in Ops : ~Live(o)

(* The quit guard's counter is the number of operations between their       *)
(* begin_operation and their end_operation: the saturating subtraction      *)
(* never hides a double decrement.                                          *)
QuitCountExact ==
  active = Cardinality({o \in Ops : pc[o] \in Guarded})

(* pending_counts is 1 exactly while an operation of the queue is between   *)
(* its increment and its decrement, so it never reports a waiting one.      *)
PendingCountExact ==
  \A k \in Keys :
    pending[k] = IF \E o \in Ops : QueueKey(o) = k /\ pc[o] \in Counted THEN 1 ELSE 0

(* A cancel is answered "not found" only after the operation's terminal     *)
(* event: while the window shows an operation as running, it can be         *)
(* cancelled (git_operation_cancel, finish_operation after emit_terminal).  *)
NotFoundOnlyAfterTerminal ==
  \A o \in Ops : reply[o] = "notFound" => Len(events[o]) = 2

(* An operation is reported cancelled only when a cancel call asked for it. *)
CancelledOnlyOnRequest ==
  \A o \in Ops :
    (Len(events[o]) = 2 /\ events[o][2] = "Cancelled") => flag[o]

(* Once a cancel of an attached command has been answered, no process of    *)
(* that operation is alive past the poll that follows: a live process is    *)
(* one the polling loop has yet to look at with the flag set.               *)
CancelLeavesNoPlacedChild ==
  \A o \in Ops :
    (reply[o] = "ok" /\ Live(o) /\ Attached(o))
      => pc[o] \in {"spawned", "polling"}

(* A caller may count on the queues: the coordinator implements             *)
(* SerialOperations, one operation at a time per queue, announced once and  *)
(* reported once before the queue moves on.                                 *)
StagePhase(stage) ==
  IF stage = "idle" THEN "idle"
  ELSE IF stage \in InQueue THEN "queued"
  ELSE IF stage \in Holding THEN "running" ELSE "ended"

Phase(o) == StagePhase(pc[o])

Serial == INSTANCE SerialOperations
            WITH Keys <- Keys, KeyOf <- QueueKey,
                 phase <- [o \in Ops |-> Phase(o)], log <- events

ImplementsSerialOperations == Serial!Spec

(* Every invoked operation ends and hands its permit on: no wakeup is lost, *)
(* a hung git process is cut off by the timeout, and a cancel call that     *)
(* holds the operations lock never blocks the queue for good.               *)
EveryOperationEnds ==
  \A o \in Ops : (pc[o] = "contend") ~> (pc[o] = "done")

(* Mutations of one repository serialize, the name of the test at           *)
(* coordinator.rs:398: no two operations on one repository have a live git  *)
(* process at once.                                                         *)
CommandsSerialPerRepository ==
  \A o, p \in Ops :
    o # p /\ Request[o].repository = Request[p].repository
      => ~(Live(o) /\ Live(p))
=============================================================================
