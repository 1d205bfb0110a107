----------------------- MODULE OperationCoordinatorProofs -----------------------
(***************************************************************************)
(* Proofs about the operation coordinator, for any finite set of            *)
(* operations, any assignment of them to queues and any number of git       *)
(* processes per operation.                                                 *)
(***************************************************************************)
EXTENDS OperationCoordinatorProps, TLAPS, FiniteSetTheorems, SequenceTheorems

USE DEF queueVars, processVars, cancelVars, Goto, Return

-----------------------------------------------------------------------------
(* Every operation has a queue.                                             *)
LEMMA QueueKeyInKeys == \A o \in Ops : QueueKey(o) \in Keys
  BY DEF Keys

(* The steps of Next, named: what the step proofs below split on.           *)
LEMMA NextCases ==
  ASSUME Next
  PROVE  \/ UNCHANGED vars
         \/ \E o \in Ops :
              \/ Invoke(o) \/ SpuriousWakeup(o) \/ Begin(o) \/ RunCommands(o)
              \/ Finish(o) \/ CancelLooksUp(o) \/ Cancel(o)
              \/ ChildExits(o) \/ TimeoutElapses(o)
  BY DEF Next, Thread, Terminated

(* A failing command leaves the three variables it may change well typed.   *)
LEMMA CommandFailsTypes ==
  ASSUME TypeOK, NEW o \in Ops, NEW from, CommandFails(o, from)
  PROVE  /\ pc' \in [Ops -> Stages]
         /\ outcome' \in [Ops -> Outcomes]
         /\ cmd' \in [Ops -> Nat]
<1> USE DEF TypeOK, Stages, InQueue, Holding, Counted, Mapped, Guarded, InCommand, Outcomes
<1>1. CASE Return(o, from, "failed") /\ UNCHANGED cmd
  BY <1>1
<1>2. CASE /\ Goto(o, from, "command")
           /\ cmd' = [cmd EXCEPT ![o] = @ + 1]
           /\ UNCHANGED outcome
  BY <1>2
<1>3. QED
  BY <1>1, <1>2 DEF CommandFails

(* Every variable keeps its type (coordinator.rs, process.rs, quit.rs).     *)
THEOREM TypeCorrect == Spec => []TypeOK
<1>1. Init => TypeOK
  BY OpsAssumption
     DEF Init, TypeOK, Stages, Outcomes, InQueue, Holding, Counted, Mapped, Guarded, InCommand
<1>2. TypeOK /\ [Next]_vars => TypeOK'
  <2> SUFFICES ASSUME TypeOK, [Next]_vars PROVE TypeOK'
    OBVIOUS
  <2> USE QueueKeyInKeys DEF TypeOK, Stages, Outcomes, EventKinds, InQueue, Holding,
             Counted, Mapped, Guarded, InCommand
  <2>1. ASSUME NEW o \in Ops, Invoke(o) PROVE TypeOK'
    BY <2>1 DEF Invoke
  <2>2. ASSUME NEW o \in Ops, SpuriousWakeup(o) PROVE TypeOK'
    BY <2>2 DEF SpuriousWakeup
  <2>3. ASSUME NEW o \in Ops, Begin(o) PROVE TypeOK'
    <3>1. CASE Acquire(o)
      BY <3>1 DEF Acquire
    <3>2. CASE CountPending(o)
      BY <3>2 DEF CountPending
    <3>3. CASE BeginOperation(o)
      BY <3>3 DEF BeginOperation
    <3>4. CASE Register(o)
      BY <3>4 DEF Register
    <3>5. CASE EmitStarted(o)
      BY <3>5 DEF EmitStarted
    <3>6. QED
      BY <2>3, <3>1, <3>2, <3>3, <3>4, <3>5 DEF Begin
  <2>4. ASSUME NEW o \in Ops, RunCommands(o) PROVE TypeOK'
    <3>1. CASE Spawn(o) \/ ReturnsWithoutProcess(o) \/ Unwind(o) \/ PlaceChild(o)
      BY <3>1 DEF Spawn, ReturnsWithoutProcess, Unwind, PlaceChild
    <3>2. CASE SeesCancellation(o) \/ SeesTimeout(o) \/ ChecksPass(o)
      <4>1. slot' \in [Ops -> BOOLEAN]
        BY <3>2, Zenon DEF SeesCancellation, SeesTimeout, ChecksPass, KillChild
      <4>2. child' \in [Ops -> {"none", "running", "exited", "reaped"}]
        BY <3>2 DEF SeesCancellation, SeesTimeout, ChecksPass, KillChild
      <4>3. pc' \in [Ops -> Stages] /\ outcome' \in [Ops -> Outcomes]
        BY <3>2 DEF SeesCancellation, SeesTimeout, ChecksPass
      <4>4. QED
        BY <3>2, <4>1, <4>2, <4>3 DEF SeesCancellation, SeesTimeout, ChecksPass
    <3>3. CASE FindsSlotEmpty(o) \/ StillRunning(o) \/ ReapChild(o)
      <4>1. slot' \in [Ops -> BOOLEAN]
        BY <3>3, Zenon DEF FindsSlotEmpty, StillRunning, ReapChild
      <4>2. child' \in [Ops -> {"none", "running", "exited", "reaped"}]
        BY <3>3 DEF FindsSlotEmpty, StillRunning, ReapChild
      <4>3. pc' \in [Ops -> Stages] /\ outcome' \in [Ops -> Outcomes]
        BY <3>3 DEF FindsSlotEmpty, StillRunning, ReapChild
      <4>4. QED
        BY <3>3, <4>1, <4>2, <4>3 DEF FindsSlotEmpty, StillRunning, ReapChild
    <3>4. CASE TryWaitFails(o)
      <4>1. slot' \in [Ops -> BOOLEAN]
        BY <3>4, Zenon DEF TryWaitFails, Attached
      <4>2. child' \in [Ops -> {"none", "running", "exited", "reaped"}]
        BY <3>4 DEF TryWaitFails
      <4>3. QED
        BY <3>4, <4>1, <4>2, CommandFailsTypes DEF TryWaitFails
    <3>5. CASE CommandSucceeds(o)
      <4>1. pc' \in [Ops -> Stages] /\ outcome' \in [Ops -> Outcomes]
        BY <3>5, Zenon DEF CommandSucceeds
      <4>2. cmd' \in [Ops -> Nat]
        BY <3>5 DEF CommandSucceeds
      <4>3. UNCHANGED <<queueVars, registered, slot, child, expired, events, cancelVars>>
        BY <3>5, Zenon DEF CommandSucceeds
      <4>4. QED
        BY <4>1, <4>2, <4>3
    <3>6. CASE DrainFails(o)
      BY <3>6, CommandFailsTypes DEF DrainFails
    <3>7. QED
      BY <2>4, <3>1, <3>2, <3>3, <3>4, <3>5, <3>6 DEF RunCommands
  <2>5. ASSUME NEW o \in Ops, Finish(o) PROVE TypeOK'
    <3>1. CASE EmitTerminal(o)
      <4>1. TerminalEvent(o) \in EventKinds
        BY DEF TerminalEvent
      <4>2. QED
        BY <3>1, <4>1 DEF EmitTerminal
    <3>2. CASE EndOperation(o)
      BY <3>2 DEF EndOperation
    <3>3. CASE FinishOperation(o)
      BY <3>3 DEF FinishOperation
    <3>4. CASE DecrementPending(o)
      BY <3>4 DEF DecrementPending
    <3>5. CASE ReleasePermit(o)
      BY <3>5 DEF ReleasePermit, Waiting
    <3>6. QED
      BY <2>5, <3>1, <3>2, <3>3, <3>4, <3>5 DEF Finish
  <2>6. ASSUME NEW o \in Ops, CancelLooksUp(o) PROVE TypeOK'
    BY <2>6 DEF CancelLooksUp
  <2>7. ASSUME NEW o \in Ops, Cancel(o) PROVE TypeOK'
    <3>1. CASE CancelSetsFlag(o)
      BY <3>1 DEF CancelSetsFlag
    <3>2. CASE CancelKills(o)
      <4>1. slot' \in [Ops -> BOOLEAN] /\ child' \in [Ops -> {"none", "running", "exited", "reaped"}]
        BY <3>2 DEF CancelKills, KillChild
      <4>2. canceller' = NoOp /\ reply' = [reply EXCEPT ![o] = "ok"]
            /\ UNCHANGED <<pc, queueVars, registered, flag, expired, cmd, outcome, events>>
        BY <3>2 DEF CancelKills
      <4>3. QED
        BY <4>1, <4>2
    <3>3. QED
      BY <2>7, <3>1, <3>2 DEF Cancel
  <2>8. ASSUME NEW o \in Ops, ChildExits(o) \/ TimeoutElapses(o) PROVE TypeOK'
    BY <2>8 DEF ChildExits, TimeoutElapses
  <2>9. CASE UNCHANGED vars
    BY <2>9 DEF vars
  <2>10. QED
    BY <2>1, <2>2, <2>3, <2>4, <2>5, <2>6, <2>7, <2>8, <2>9, NextCases
<1>3. QED
  BY <1>1, <1>2, PTL DEF Spec

-----------------------------------------------------------------------------
(* A step of the closure moves the thread inside the closure or to its      *)
(* return, and touches neither the queues, nor the map, nor the events.     *)
LEMMA RunMoves ==
  ASSUME NEW o \in Ops, RunCommands(o)
  PROVE  /\ \E from \in InCommand, to \in InCommand \cup {"returning"} : Goto(o, from, to)
         /\ UNCHANGED <<queueVars, registered, events, cancelVars>>
<1>1. \E from \in InCommand, to \in InCommand \cup {"returning"} : Goto(o, from, to)
  BY DEF InCommand, RunCommands, Spawn, ReturnsWithoutProcess, Unwind, PlaceChild, SeesCancellation,
         SeesTimeout, ChecksPass, FindsSlotEmpty, StillRunning, ReapChild,
         TryWaitFails, CommandFails, CommandSucceeds, DrainFails
<1>2. UNCHANGED <<queueVars, registered, events, cancelVars>>
  BY DEF RunCommands, Spawn, ReturnsWithoutProcess, Unwind, PlaceChild, SeesCancellation,
         SeesTimeout, ChecksPass, FindsSlotEmpty, StillRunning, ReapChild,
         TryWaitFails, CommandSucceeds, DrainFails
<1>3. QED
  BY <1>1, <1>2

(* A thread that moves without touching its queue's flag, and does not move *)
(* into the section that holds the permit, keeps the permits as they were.  *)
LEMMA PermitMove ==
  ASSUME TypeOK, PermitInv, NEW o \in Ops, NEW from, NEW to,
         Goto(o, from, to), to \in Holding => from \in Holding,
         UNCHANGED running
  PROVE  PermitInv'
  BY DEF TypeOK, PermitInv, QueueKey

(* At most one thread is between taking a queue's permit and dropping it    *)
(* (RepositoryQueue::acquire and RepositoryQueuePermit::drop).              *)
THEOREM PermitExclusive == Spec => []PermitInv
<1>1. Init => PermitInv
  BY DEF Init, PermitInv, Holding, Counted, Mapped, Guarded, InCommand
<1>2. TypeOK /\ PermitInv /\ [Next]_vars => PermitInv'
  <2> SUFFICES ASSUME TypeOK, PermitInv, [Next]_vars PROVE PermitInv'
    OBVIOUS
  <2> USE DEF Holding, Counted, Mapped, Guarded, InCommand
  <2>1. ASSUME NEW o \in Ops, Invoke(o) \/ SpuriousWakeup(o) PROVE PermitInv'
    BY <2>1, PermitMove DEF Invoke, SpuriousWakeup
  <2>2. ASSUME NEW o \in Ops, Begin(o) PROVE PermitInv'
    <3>1. CASE Acquire(o)
      <4>1. CASE running[QueueKey(o)]
        BY <3>1, <4>1, PermitMove DEF Acquire
      <4>2. CASE ~running[QueueKey(o)]
        <5>1. \A p \in Ops : pc[p] \in Holding => QueueKey(p) # QueueKey(o)
          BY <4>2 DEF PermitInv
        <5>2. /\ pc' = [pc EXCEPT ![o] = "permitted"]
              /\ running' = [running EXCEPT ![QueueKey(o)] = TRUE]
          BY <3>1, <4>2 DEF Acquire
        <5>3. QED
          BY <5>1, <5>2, QueueKeyInKeys DEF PermitInv, TypeOK, QueueKey
      <4>3. QED
        BY <4>1, <4>2
    <3>2. CASE CountPending(o) \/ BeginOperation(o) \/ Register(o) \/ EmitStarted(o)
      BY <3>2, PermitMove DEF CountPending, BeginOperation, Register, EmitStarted
    <3>3. QED
      BY <2>2, <3>1, <3>2 DEF Begin
  <2>3. ASSUME NEW o \in Ops, RunCommands(o) PROVE PermitInv'
    BY <2>3, RunMoves, PermitMove
  <2>4. ASSUME NEW o \in Ops, Finish(o) PROVE PermitInv'
    <3>1. CASE EmitTerminal(o) \/ EndOperation(o) \/ FinishOperation(o) \/ DecrementPending(o)
      BY <3>1, PermitMove DEF EmitTerminal, EndOperation, FinishOperation, DecrementPending
    <3>2. CASE ReleasePermit(o)
      <4>1. \A p \in Ops : pc'[p] \in Holding => pc[p] \in Holding /\ p # o
        BY <3>2 DEF ReleasePermit, Waiting, TypeOK
      <4>2. \A p \in Ops : pc'[p] \in Holding => QueueKey(p) # QueueKey(o)
        BY <3>2, <4>1 DEF ReleasePermit, PermitInv
      <4>3. running' = [running EXCEPT ![QueueKey(o)] = FALSE]
        BY <3>2 DEF ReleasePermit
      <4>4. QED
        BY <4>1, <4>2, <4>3, QueueKeyInKeys DEF PermitInv, TypeOK, QueueKey
    <3>3. QED
      BY <2>4, <3>1, <3>2 DEF Finish
  <2>5. ASSUME NEW o \in Ops,
               \/ CancelLooksUp(o) \/ Cancel(o) \/ ChildExits(o) \/ TimeoutElapses(o)
               \/ UNCHANGED vars
        PROVE  PermitInv'
    BY <2>5 DEF CancelLooksUp, Cancel, CancelSetsFlag, CancelKills, ChildExits,
                TimeoutElapses, PermitInv, QueueKey, vars
  <2>6. CASE UNCHANGED vars
    BY <2>6 DEF PermitInv, QueueKey, vars
  <2>7. QED
    BY <2>1, <2>2, <2>3, <2>4, <2>5, <2>6, NextCases
<1>3. QED
  BY <1>1, <1>2, TypeCorrect, PTL DEF Spec

-----------------------------------------------------------------------------
(* A live git process is in the polling section of its operation and, once  *)
(* placed, reachable through the slot (process.rs run, kill_child, cancel). *)
THEOREM ProcessPlaced == Spec => []ProcessInv
<1>1. Init => ProcessInv
  BY DEF Init, ProcessInv, Live
<1>2. TypeOK /\ ProcessInv /\ [Next]_vars => ProcessInv'
  <2> SUFFICES ASSUME TypeOK, ProcessInv, [Next]_vars PROVE ProcessInv'
    OBVIOUS
  <2> USE DEF ProcessInv, Live, TypeOK
  <2>1. ASSUME NEW o \in Ops, Invoke(o) \/ SpuriousWakeup(o) PROVE ProcessInv'
    BY <2>1 DEF Invoke, SpuriousWakeup
  <2>2. ASSUME NEW o \in Ops, Begin(o) PROVE ProcessInv'
    BY <2>2 DEF Begin, Acquire, CountPending, BeginOperation, Register, EmitStarted
  <2>3. ASSUME NEW o \in Ops, RunCommands(o) PROVE ProcessInv'
    <3>1. CASE Spawn(o)
      BY <3>1 DEF Spawn
    <3>2. CASE ReturnsWithoutProcess(o) \/ Unwind(o)
      BY <3>2 DEF ReturnsWithoutProcess, Unwind
    <3>3. CASE PlaceChild(o)
      BY <3>3 DEF PlaceChild
    <3>4. CASE SeesCancellation(o) \/ SeesTimeout(o)
      BY <3>4 DEF SeesCancellation, SeesTimeout, KillChild
    <3>5. CASE ChecksPass(o) \/ FindsSlotEmpty(o) \/ StillRunning(o)
      BY <3>5 DEF ChecksPass, FindsSlotEmpty, StillRunning
    <3>6. CASE ReapChild(o)
      BY <3>6 DEF ReapChild
    <3>7. CASE TryWaitFails(o)
      BY <3>7 DEF TryWaitFails, CommandFails
    <3>8. CASE CommandSucceeds(o)
      BY <3>8 DEF CommandSucceeds
    <3>9. CASE DrainFails(o)
      BY <3>9 DEF DrainFails, CommandFails
    <3>10. QED
      BY <2>3, <3>1, <3>2, <3>3, <3>4, <3>5, <3>6, <3>7, <3>8, <3>9 DEF RunCommands
  <2>4. ASSUME NEW o \in Ops, Finish(o) PROVE ProcessInv'
    <3>1. CASE EmitTerminal(o) \/ EndOperation(o) \/ FinishOperation(o) \/ DecrementPending(o)
      BY <3>1 DEF EmitTerminal, EndOperation, FinishOperation, DecrementPending
    <3>2. CASE ReleasePermit(o)
      BY <3>2 DEF ReleasePermit, Waiting
    <3>3. QED
      BY <2>4, <3>1, <3>2 DEF Finish
  <2>5. ASSUME NEW o \in Ops, CancelLooksUp(o) \/ CancelSetsFlag(o) PROVE ProcessInv'
    BY <2>5 DEF CancelLooksUp, CancelSetsFlag
  <2>6. ASSUME NEW o \in Ops, CancelKills(o) PROVE ProcessInv'
    BY <2>6 DEF CancelKills, KillChild
  <2>7. ASSUME NEW o \in Ops, ChildExits(o) \/ TimeoutElapses(o) PROVE ProcessInv'
    BY <2>7 DEF ChildExits, TimeoutElapses
  <2>8. CASE UNCHANGED vars
    BY <2>8 DEF vars
  <2>9. QED
    BY <2>1, <2>2, <2>3, <2>4, <2>5, <2>6, <2>7, <2>8, NextCases DEF Cancel
<1>3. QED
  BY <1>1, <1>2, TypeCorrect, PTL DEF Spec

(* Two git processes of one queue never exist together: the next operation  *)
(* of a queue spawns its first process after the last process of the        *)
(* previous one is reaped, cancelled or not.                                *)
THEOREM SerialCommands == Spec => []CommandsSerialPerQueue
<1>1. PermitInv /\ ProcessInv => CommandsSerialPerQueue
  BY DEF PermitInv, ProcessInv, CommandsSerialPerQueue, Holding, Counted, Mapped, InCommand
<1>2. QED
  BY <1>1, PermitExclusive, ProcessPlaced, PTL

-----------------------------------------------------------------------------
(* Appending to a sequence of one element.                                  *)
LEMMA AppendToOne ==
  ASSUME NEW x \in EventKinds, NEW y \in EventKinds
  PROVE  Append(<<x>>, y) = <<x, y>>
<1> DEFINE s == Append(<<x>>, y)
           t == <<x, y>>
<1>1. s \in Seq(EventKinds) /\ t \in Seq(EventKinds)
  OBVIOUS
<1>2. Len(s) = 2 /\ Len(t) = 2
  OBVIOUS
<1>3. s[1] = t[1] /\ s[2] = t[2]
  OBVIOUS
<1>4. \A i \in 1..Len(s) : s[i] = t[i]
  BY <1>2, <1>3
<1> HIDE DEF s, t
<1>5. s = t
  BY <1>1, <1>2, <1>4, SeqEqual
<1>6. QED
  BY <1>5 DEF s, t

(* A thread that stays on its side of the map's and the events' boundaries, *)
(* with the map and the events unchanged, keeps ReportInv.                  *)
LEMMA ReportMove ==
  ASSUME TypeOK, ReportInv, NEW o \in Ops, NEW from, NEW to, Goto(o, from, to),
         UNCHANGED <<registered, events>>,
         from \in Mapped <=> to \in Mapped,
         to \in BeforeStarted => from \in BeforeStarted,
         to \in InCommand \cup {"returning"} => from \in InCommand \cup {"returning"},
         to \in AfterTerminal => from \in AfterTerminal
  PROVE  ReportInv'
  BY DEF TypeOK, ReportInv

(* The operations map and the events sent follow the operation's thread     *)
(* (begin, emit_terminal, finish_operation).                                *)
THEOREM ReportFollowsThread == Spec => []ReportInv
<1>1. Init => ReportInv
  BY DEF Init, ReportInv, BeforeStarted, AfterTerminal, Mapped, InCommand
<1>2. TypeOK /\ ReportInv /\ [Next]_vars => ReportInv'
  <2> SUFFICES ASSUME TypeOK, ReportInv, [Next]_vars PROVE ReportInv'
    OBVIOUS
  <2>1. ASSUME NEW o \in Ops, Invoke(o) \/ SpuriousWakeup(o) PROVE ReportInv'
    BY <2>1, ReportMove
       DEF Invoke, SpuriousWakeup, Mapped, BeforeStarted, AfterTerminal, InCommand, InQueue
  <2>2. ASSUME NEW o \in Ops, Begin(o) PROVE ReportInv'
    <3>1. CASE Acquire(o) \/ CountPending(o) \/ BeginOperation(o)
      BY <3>1, ReportMove DEF Acquire, CountPending, BeginOperation, Mapped,
                              BeforeStarted, AfterTerminal, InCommand, InQueue
    <3>2. CASE Register(o)
      BY <3>2 DEF Register, ReportInv, TypeOK, Mapped, BeforeStarted, AfterTerminal, InCommand
    <3>3. CASE EmitStarted(o)
      <4>1. events[o] = <<>> /\ o \in registered
        BY <3>3 DEF EmitStarted, ReportInv, BeforeStarted, Mapped
      <4>2. Append(events[o], "Started") = <<"Started">>
        BY <4>1
      <4>3. QED
        BY <3>3, <4>1, <4>2
           DEF EmitStarted, ReportInv, TypeOK, Mapped, BeforeStarted, AfterTerminal, InCommand, InQueue
    <3>4. QED
      BY <2>2, <3>1, <3>2, <3>3 DEF Begin
  <2>3. ASSUME NEW o \in Ops, RunCommands(o) PROVE ReportInv'
    <3>1. PICK from \in InCommand, to \in InCommand \cup {"returning"} : Goto(o, from, to)
      BY <2>3, RunMoves
    <3>2. UNCHANGED <<registered, events>>
      BY <2>3, RunMoves
    <3>3. /\ from \in Mapped /\ to \in Mapped
          /\ to \notin BeforeStarted /\ to \notin AfterTerminal
      BY DEF Mapped, InCommand, BeforeStarted, AfterTerminal, InQueue
    <3>4. QED
      BY <3>1, <3>2, <3>3, ReportMove
  <2>4. ASSUME NEW o \in Ops, Finish(o) PROVE ReportInv'
    <3>1. CASE EmitTerminal(o)
      <4>1. TerminalEvent(o) \in {"Completed", "Failed", "Cancelled"}
        BY DEF TerminalEvent
      <4>2. events[o] = <<"Started">> /\ o \in registered
        BY <3>1 DEF EmitTerminal, ReportInv, Mapped
      <4>3. Append(events[o], TerminalEvent(o)) = <<"Started", TerminalEvent(o)>>
        <5>1. Append(<<"Started">>, TerminalEvent(o)) = <<"Started", TerminalEvent(o)>>
          BY <4>1, AppendToOne DEF EventKinds
        <5>2. QED
          BY <4>2, <5>1
      <4>4. /\ pc' = [pc EXCEPT ![o] = "emitted"]
            /\ events' = [events EXCEPT ![o] = <<"Started", TerminalEvent(o)>>]
            /\ registered' = registered
        BY <3>1, <4>3 DEF EmitTerminal
      <4>5. registered' = {p \in Ops : pc'[p] \in Mapped}
        BY <4>2, <4>4 DEF ReportInv, TypeOK, Mapped
      <4>6. ASSUME NEW p \in Ops, p # o PROVE pc'[p] = pc[p] /\ events'[p] = events[p]
        BY <4>4, <4>6 DEF TypeOK
      <4>7. pc'[o] = "emitted" /\ events'[o] = <<"Started", TerminalEvent(o)>>
        BY <4>4 DEF TypeOK
      <4>8. /\ "emitted" \in AfterTerminal /\ "emitted" \notin BeforeStarted
            /\ "emitted" \notin InCommand \cup {"returning"}
        BY DEF AfterTerminal, BeforeStarted, InCommand, InQueue
      <4>9. QED
        BY <4>1, <4>5, <4>6, <4>7, <4>8, Zenon DEF ReportInv
    <3>2. CASE EndOperation(o) \/ DecrementPending(o)
      BY <3>2, ReportMove DEF EndOperation, DecrementPending, Mapped,
                              BeforeStarted, AfterTerminal, InCommand, InQueue
    <3>3. CASE FinishOperation(o)
      BY <3>3 DEF FinishOperation, ReportInv, TypeOK, Mapped, BeforeStarted,
                  AfterTerminal, InCommand, InQueue
    <3>4. CASE ReleasePermit(o)
      <4>1. pc[o] = "uncounted" /\ UNCHANGED <<registered, events>>
        BY <3>4 DEF ReleasePermit
      <4>2. ASSUME NEW p \in Ops
            PROVE  \/ pc'[p] = pc[p]
                   \/ p = o /\ pc'[p] = "done"
                   \/ pc[p] = "waiting" /\ pc'[p] = "contend"
        BY <3>4 DEF ReleasePermit, Waiting, TypeOK
      <4>3. ASSUME NEW p \in Ops PROVE pc'[p] \in Mapped <=> pc[p] \in Mapped
        BY <4>1, <4>2 DEF Mapped, InCommand
      <4>4. ASSUME NEW p \in Ops
            PROVE  /\ pc'[p] \in BeforeStarted => pc[p] \in BeforeStarted
                   /\ pc'[p] \in InCommand \cup {"returning"}
                        => pc[p] \in InCommand \cup {"returning"}
                   /\ pc'[p] \in AfterTerminal => pc[p] \in AfterTerminal
        BY <4>1, <4>2 DEF BeforeStarted, InCommand, AfterTerminal, InQueue
      <4>5. QED
        BY <4>1, <4>3, <4>4 DEF ReportInv
    <3>5. QED
      BY <2>4, <3>1, <3>2, <3>3, <3>4 DEF Finish
  <2>5. ASSUME NEW o \in Ops,
               CancelLooksUp(o) \/ Cancel(o) \/ ChildExits(o) \/ TimeoutElapses(o)
        PROVE  ReportInv'
    BY <2>5 DEF CancelLooksUp, Cancel, CancelSetsFlag, CancelKills, ChildExits,
                TimeoutElapses, ReportInv
  <2>6. CASE UNCHANGED vars
    BY <2>6 DEF ReportInv, vars
  <2>7. QED
    BY <2>1, <2>2, <2>3, <2>4, <2>5, <2>6, NextCases
<1>3. QED
  BY <1>1, <1>2, TypeCorrect, PTL DEF Spec

-----------------------------------------------------------------------------
(* A step that moves no thread across the quit guard's window leaves the    *)
(* set of guarded operations alone.                                         *)
GuardedOps == {o \in Ops : pc[o] \in Guarded}

LEMMA GuardedMove ==
  ASSUME TypeOK, NEW o \in Ops, NEW from, NEW to, Goto(o, from, to),
         from \in Guarded <=> to \in Guarded
  PROVE  GuardedOps' = GuardedOps
  BY DEF TypeOK, GuardedOps

(* The quit guard counts the operations between begin_operation and         *)
(* end_operation, and its saturating subtraction never saturates (quit.rs). *)
THEOREM QuitCounts == Spec => []QuitCountExact
<1> USE DEF QuitCountExact
<1>1. Init => QuitCountExact
  <2>1. Init => GuardedOps = {}
    BY DEF Init, GuardedOps, Guarded, InCommand
  <2>2. QED
    BY <2>1, FS_EmptySet DEF Init, GuardedOps
<1>2. TypeOK /\ QuitCountExact /\ [Next]_vars => QuitCountExact'
  <2> SUFFICES ASSUME TypeOK, QuitCountExact, [Next]_vars PROVE QuitCountExact'
    OBVIOUS
  <2>1. active = Cardinality(GuardedOps) /\ IsFiniteSet(GuardedOps)
    BY OpsAssumption, FS_Subset DEF GuardedOps
  <2>2. SUFFICES active' = Cardinality(GuardedOps')
    BY DEF GuardedOps
  <2>3. ASSUME NEW o \in Ops, BeginOperation(o) PROVE active' = Cardinality(GuardedOps')
    <3>1. GuardedOps' = GuardedOps \cup {o} /\ o \notin GuardedOps /\ active' = active + 1
      BY <2>3 DEF BeginOperation, TypeOK, GuardedOps, Guarded, InCommand
    <3>2. QED
      BY <2>1, <3>1, FS_AddElement
  <2>4. ASSUME NEW o \in Ops, EndOperation(o) PROVE active' = Cardinality(GuardedOps')
    <3>1. GuardedOps' = GuardedOps \ {o} /\ o \in GuardedOps
      BY <2>4 DEF EndOperation, TypeOK, GuardedOps, Guarded, InCommand
    <3>2. Cardinality(GuardedOps \ {o}) = Cardinality(GuardedOps) - 1
      BY <2>1, <3>1, FS_RemoveElement
    <3>3. active # 0
      BY <2>1, <3>1, FS_EmptySet
    <3>4. QED
      BY <2>1, <2>4, <3>1, <3>2, <3>3 DEF EndOperation
  <2>5. ASSUME NEW o \in Ops,
               \/ Invoke(o) \/ SpuriousWakeup(o) \/ Acquire(o) \/ CountPending(o)
               \/ Register(o) \/ EmitStarted(o) \/ RunCommands(o) \/ EmitTerminal(o)
               \/ FinishOperation(o) \/ DecrementPending(o)
        PROVE  GuardedOps' = GuardedOps /\ active' = active
    <3>1. CASE Invoke(o) \/ SpuriousWakeup(o) \/ Acquire(o) \/ CountPending(o)
      BY <3>1, GuardedMove DEF Invoke, SpuriousWakeup, Acquire, CountPending, Guarded, InCommand
    <3>2. CASE Register(o) \/ EmitStarted(o) \/ EmitTerminal(o)
      BY <3>2, GuardedMove DEF Register, EmitStarted, EmitTerminal, Guarded, InCommand
    <3>3. CASE FinishOperation(o) \/ DecrementPending(o)
      BY <3>3, GuardedMove DEF FinishOperation, DecrementPending, Guarded, InCommand
    <3>4. CASE RunCommands(o)
      BY <3>4, RunMoves, GuardedMove DEF Guarded
    <3>5. QED
      BY <2>5, <3>1, <3>2, <3>3, <3>4
  <2>6. ASSUME NEW o \in Ops, ReleasePermit(o) PROVE GuardedOps' = GuardedOps /\ active' = active
    BY <2>6 DEF ReleasePermit, Waiting, TypeOK, GuardedOps, Guarded, InCommand
  <2>7. ASSUME NEW o \in Ops,
               CancelLooksUp(o) \/ Cancel(o) \/ ChildExits(o) \/ TimeoutElapses(o)
        PROVE  GuardedOps' = GuardedOps /\ active' = active
    BY <2>7 DEF CancelLooksUp, Cancel, CancelSetsFlag, CancelKills, ChildExits,
                TimeoutElapses, GuardedOps
  <2>8. CASE UNCHANGED vars
    BY <2>1, <2>8 DEF vars, GuardedOps
  <2>9. QED
    BY <2>1, <2>3, <2>4, <2>5, <2>6, <2>7, <2>8, NextCases DEF Begin, Finish
<1>3. QED
  BY <1>1, <1>2, TypeCorrect, PTL DEF Spec

(* While a git process of a coordinated operation exists the quit guard     *)
(* does not call it safe to quit (QuitGuard::is_safe_to_quit).              *)
THEOREM SafeToQuit == Spec => []SafeToQuitMeansNoProcess
<1>1. TypeOK /\ ProcessInv /\ QuitCountExact => SafeToQuitMeansNoProcess
  <2> SUFFICES ASSUME ProcessInv, QuitCountExact, active = 0, NEW o \in Ops
               PROVE  ~Live(o)
    BY DEF SafeToQuitMeansNoProcess
  <2>1. GuardedOps = {}
    BY OpsAssumption, FS_Subset, FS_EmptySet DEF QuitCountExact, GuardedOps
  <2>2. QED
    BY <2>1 DEF GuardedOps, ProcessInv, Guarded, InCommand
<1>2. QED
  BY <1>1, TypeCorrect, ProcessPlaced, QuitCounts, PTL

-----------------------------------------------------------------------------
(* Cancelled outcomes and events have a cancel request behind them, and no  *)
(* cancel is refused before the operation has left the map.                 *)
THEOREM AnswersJustified == Spec => []AnswerInv
<1>1. Init => AnswerInv
  BY DEF Init, AnswerInv
<1>2. TypeOK /\ ReportInv /\ AnswerInv /\ [Next]_vars => AnswerInv'
  <2> SUFFICES ASSUME TypeOK, ReportInv, AnswerInv, [Next]_vars PROVE AnswerInv'
    OBVIOUS
  <2> USE DEF AnswerInv, TypeOK
  <2>1. ASSUME NEW o \in Ops, Invoke(o) \/ SpuriousWakeup(o) PROVE AnswerInv'
    BY <2>1 DEF Invoke, SpuriousWakeup
  <2>2. ASSUME NEW o \in Ops, Acquire(o) \/ CountPending(o) \/ BeginOperation(o) \/ Register(o)
        PROVE  AnswerInv'
    BY <2>2 DEF Acquire, CountPending, BeginOperation, Register
  <2>3. ASSUME NEW o \in Ops, EmitStarted(o) PROVE AnswerInv'
    <3>1. events[o] = <<>>
      BY <2>3 DEF EmitStarted, ReportInv, BeforeStarted
    <3>2. events' = [events EXCEPT ![o] = <<"Started">>]
      BY <2>3, <3>1 DEF EmitStarted
    <3>3. events'[o] # <<"Started", "Cancelled">>
      <4>1. Len(<<"Started">>) # Len(<<"Started", "Cancelled">>)
        OBVIOUS
      <4>2. QED
        BY <3>2, <4>1
    <3>4. \A p \in Ops : p # o => events'[p] = events[p]
      BY <3>2
    <3>5. pc[o] = "registered" /\ pc' = [pc EXCEPT ![o] = "command"]
          /\ UNCHANGED <<outcome, flag, reply>>
      BY <2>3 DEF EmitStarted
    <3>6. QED
      BY <3>3, <3>4, <3>5
  <2>4. ASSUME NEW o \in Ops, RunCommands(o) PROVE AnswerInv'
    <3>1. \A p \in Ops : outcome'[p] = "cancelled" => flag[p]
      BY <2>4 DEF RunCommands, Spawn, ReturnsWithoutProcess, Unwind, PlaceChild, SeesCancellation,
                  SeesTimeout, ChecksPass, FindsSlotEmpty, StillRunning, ReapChild,
                  TryWaitFails, CommandFails, CommandSucceeds, DrainFails
    <3>2. PICK from \in InCommand, to \in InCommand \cup {"returning"} : Goto(o, from, to)
      BY <2>4, RunMoves
    <3>3. UNCHANGED <<events, flag, reply>> /\ from \notin {"unregistered", "uncounted", "done"}
      BY <2>4, RunMoves DEF InCommand
    <3>4. QED
      BY <3>1, <3>2, <3>3
  <2>5. ASSUME NEW o \in Ops, EmitTerminal(o) PROVE AnswerInv'
    <3>1. TerminalEvent(o) = "Cancelled" => flag[o]
      BY DEF TerminalEvent
    <3>2. events[o] = <<"Started">> /\ TerminalEvent(o) \in EventKinds
      BY <2>5 DEF EmitTerminal, ReportInv, TerminalEvent, EventKinds
    <3>3. events' = [events EXCEPT ![o] = <<"Started", TerminalEvent(o)>>]
      BY <2>5, <3>2, AppendToOne DEF EmitTerminal, EventKinds
    <3>4. /\ pc[o] = "returning" /\ pc' = [pc EXCEPT ![o] = "emitted"]
          /\ UNCHANGED <<outcome, flag, reply>>
      BY <2>5 DEF EmitTerminal
    <3>5. QED
      BY <3>1, <3>3, <3>4
  <2>6. ASSUME NEW o \in Ops, EndOperation(o) \/ FinishOperation(o) \/ DecrementPending(o)
        PROVE  AnswerInv'
    BY <2>6 DEF EndOperation, FinishOperation, DecrementPending
  <2>7. ASSUME NEW o \in Ops, ReleasePermit(o) PROVE AnswerInv'
    BY <2>7 DEF ReleasePermit, Waiting
  <2>8. ASSUME NEW o \in Ops, CancelLooksUp(o) PROVE AnswerInv'
    <3>1. CASE reply' = reply
      BY <2>8, <3>1 DEF CancelLooksUp
    <3>2. CASE o \notin registered /\ reply' = [reply EXCEPT ![o] = "notFound"]
      <4>1. pc[o] \notin Mapped \cup BeforeStarted
        BY <2>8, <3>2 DEF CancelLooksUp, ReportInv
      <4>2. pc[o] \in {"unregistered", "uncounted", "done"}
        BY <4>1 DEF Stages, Holding, Counted, Mapped, Guarded, InCommand, InQueue, BeforeStarted
      <4>3. QED
        BY <2>8, <3>2, <4>2 DEF CancelLooksUp
    <3>3. QED
      BY <2>8, <3>1, <3>2 DEF CancelLooksUp
  <2>9. ASSUME NEW o \in Ops, Cancel(o) PROVE AnswerInv'
    BY <2>9 DEF Cancel, CancelSetsFlag, CancelKills
  <2>10. ASSUME NEW o \in Ops, ChildExits(o) \/ TimeoutElapses(o) PROVE AnswerInv'
    BY <2>10 DEF ChildExits, TimeoutElapses
  <2>11. CASE UNCHANGED vars
    BY <2>11 DEF vars
  <2>12. QED
    BY <2>1, <2>2, <2>3, <2>4, <2>5, <2>6, <2>7, <2>8, <2>9, <2>10, <2>11, NextCases
       DEF Begin, Finish
<1>3. QED
  BY <1>1, <1>2, TypeCorrect, ReportFollowsThread, PTL DEF Spec

(* While the window shows an operation as running, its cancel button works. *)
THEOREM CancelAccepted == Spec => []NotFoundOnlyAfterTerminal
<1>1. ReportInv /\ AnswerInv => NotFoundOnlyAfterTerminal
  <2> SUFFICES ASSUME ReportInv, AnswerInv, NEW o \in Ops, reply[o] = "notFound"
               PROVE  Len(events[o]) = 2
    BY DEF NotFoundOnlyAfterTerminal
  <2>1. pc[o] \in AfterTerminal
    BY DEF AnswerInv, AfterTerminal
  <2>2. PICK r \in {"Completed", "Failed", "Cancelled"} : events[o] = <<"Started", r>>
    BY <2>1 DEF ReportInv
  <2>3. QED
    BY <2>2
<1>2. QED
  BY <1>1, ReportFollowsThread, AnswersJustified, PTL

(* An operation is reported cancelled only when somebody cancelled it.      *)
THEOREM CancelledRequested == Spec => []CancelledOnlyOnRequest
<1>1. TypeOK /\ ReportInv /\ AnswerInv => CancelledOnlyOnRequest
  <2> SUFFICES ASSUME TypeOK, ReportInv, AnswerInv, NEW o \in Ops,
                      Len(events[o]) = 2, events[o][2] = "Cancelled"
               PROVE  flag[o]
    BY DEF CancelledOnlyOnRequest
  <2>1. pc[o] \in AfterTerminal
    <3>1. events[o] # <<>> /\ events[o] # <<"Started">>
      OBVIOUS
    <3>2. pc[o] \notin BeforeStarted /\ pc[o] \notin InCommand \cup {"returning"}
      BY <3>1 DEF ReportInv
    <3>3. QED
      BY <3>2 DEF TypeOK, Stages, Holding, Counted, Mapped, Guarded, InCommand, InQueue,
                  BeforeStarted, AfterTerminal
  <2>2. PICK r \in {"Completed", "Failed", "Cancelled"} : events[o] = <<"Started", r>>
    BY <2>1 DEF ReportInv
  <2>3. QED
    BY <2>2 DEF AnswerInv
<1>2. QED
  BY <1>1, TypeCorrect, ReportFollowsThread, AnswersJustified, PTL

-----------------------------------------------------------------------------
(* pending_counts is 1 while an operation of the queue is counted, else 0:  *)
(* the permit is taken before the increment and dropped after the decrement.*)
CountedIn(k) == \E o \in Ops : QueueKey(o) = k /\ pc[o] \in Counted

LEMMA CountedMove ==
  ASSUME TypeOK, NEW o \in Ops, NEW from, NEW to, Goto(o, from, to),
         from \in Counted <=> to \in Counted
  PROVE  \A k \in Keys : CountedIn(k)' <=> CountedIn(k)
<1>1. \A p \in Ops : pc'[p] \in Counted <=> pc[p] \in Counted
  BY DEF TypeOK
<1>2. QED
  BY <1>1 DEF CountedIn, QueueKey

THEOREM PendingCounts == Spec => []PendingCountExact
<1> USE DEF PendingCountExact
<1>1. Init => PendingCountExact
  BY DEF Init, Counted, Mapped, InCommand
<1>2. TypeOK /\ PermitInv /\ ReportInv /\ PendingCountExact /\ [Next]_vars => PendingCountExact'
  <2> SUFFICES ASSUME TypeOK, PermitInv, ReportInv, PendingCountExact, [Next]_vars
               PROVE  PendingCountExact'
    OBVIOUS
  <2>1. \A k \in Keys : pending[k] = IF CountedIn(k) THEN 1 ELSE 0
    BY DEF CountedIn
  <2>2. SUFFICES \A k \in Keys : pending'[k] = IF CountedIn(k)' THEN 1 ELSE 0
    BY DEF CountedIn
  <2> HIDE DEF PendingCountExact
  <2>3. SUFFICES ASSUME Next PROVE \A k \in Keys : pending'[k] = IF CountedIn(k)' THEN 1 ELSE 0
    <3>1. CASE UNCHANGED vars
      BY <2>1, <3>1 DEF vars, CountedIn, QueueKey
    <3>2. QED
      BY <2>3, <3>1
  <2>4. ASSUME NEW o \in Ops, CountPending(o)
        PROVE  \A k \in Keys : pending'[k] = IF CountedIn(k)' THEN 1 ELSE 0
    <3>1. ~CountedIn(QueueKey(o))
      BY <2>4 DEF CountPending, CountedIn, PermitInv, Holding, Counted, Mapped, InCommand
    <3>2. pending' = [pending EXCEPT ![QueueKey(o)] = 1]
      <4>1. pending[QueueKey(o)] = 0
        BY <2>1, <3>1, QueueKeyInKeys
      <4>2. pending' = [pending EXCEPT ![QueueKey(o)] = pending[QueueKey(o)] + 1]
        BY <2>4 DEF CountPending
      <4>3. QED
        BY <4>1, <4>2
    <3>3. pc' = [pc EXCEPT ![o] = "counted"]
      BY <2>4 DEF CountPending
    <3>4. CountedIn(QueueKey(o))'
      BY <3>3 DEF CountedIn, Counted, TypeOK, QueueKey
    <3>5. \A k \in Keys : k # QueueKey(o) => (CountedIn(k)' <=> CountedIn(k))
      BY <3>3 DEF CountedIn, TypeOK, QueueKey
    <3>6. QED
      BY <2>1, <3>2, <3>4, <3>5 DEF TypeOK
  <2>5. ASSUME NEW o \in Ops, DecrementPending(o)
        PROVE  \A k \in Keys : pending'[k] = IF CountedIn(k)' THEN 1 ELSE 0
    <3>1. CountedIn(QueueKey(o))
      BY <2>5 DEF DecrementPending, CountedIn, Counted
    <3>2. pending' = [pending EXCEPT ![QueueKey(o)] = 0]
      <4>1. pending[QueueKey(o)] = 1
        BY <2>1, <3>1, QueueKeyInKeys
      <4>2. pending' = [pending EXCEPT ![QueueKey(o)] =
                          IF pending[QueueKey(o)] = 0 THEN 0 ELSE pending[QueueKey(o)] - 1]
        BY <2>5 DEF DecrementPending
      <4>3. QED
        BY <4>1, <4>2
    <3>3. pc[o] = "unregistered" /\ pc' = [pc EXCEPT ![o] = "uncounted"]
      BY <2>5 DEF DecrementPending
    <3>4. ~CountedIn(QueueKey(o))'
      <4>1. \A p \in Ops : QueueKey(p) = QueueKey(o) /\ pc[p] \in Holding => p = o
        BY <3>3 DEF PermitInv, Holding, Counted
      <4>2. \A p \in Ops : QueueKey(p) = QueueKey(o) => pc'[p] \notin Counted
        BY <3>3, <4>1 DEF TypeOK, Holding, Counted, Mapped, InCommand, Guarded
      <4>3. QED
        BY <4>2 DEF CountedIn, QueueKey
    <3>5. \A k \in Keys : k # QueueKey(o) => (CountedIn(k)' <=> CountedIn(k))
      BY <3>3 DEF CountedIn, TypeOK, QueueKey
    <3>6. QED
      BY <2>1, <3>2, <3>4, <3>5 DEF TypeOK
  <2>6. ASSUME NEW o \in Ops,
               \/ Invoke(o) \/ SpuriousWakeup(o) \/ Acquire(o) \/ BeginOperation(o)
               \/ Register(o) \/ EmitStarted(o) \/ RunCommands(o)
               \/ EmitTerminal(o) \/ EndOperation(o) \/ FinishOperation(o)
        PROVE  pending' = pending /\ \A k \in Keys : CountedIn(k)' <=> CountedIn(k)
    <3> USE DEF Counted, Mapped, InCommand, Guarded
    <3>1. CASE Invoke(o) \/ SpuriousWakeup(o) \/ Acquire(o) \/ BeginOperation(o)
      BY <3>1, CountedMove DEF Invoke, SpuriousWakeup, Acquire, BeginOperation
    <3>2. CASE Register(o) \/ EmitStarted(o) \/ EmitTerminal(o) \/ EndOperation(o)
      BY <3>2, CountedMove DEF Register, EmitStarted, EmitTerminal, EndOperation
    <3>3. CASE FinishOperation(o)
      <4>1. o \in registered
        BY <3>3 DEF FinishOperation, ReportInv
      <4>2. QED
        BY <3>3, <4>1, CountedMove DEF FinishOperation
    <3>4. CASE RunCommands(o)
      BY <3>4, RunMoves, CountedMove
    <3>5. QED
      BY <2>6, <3>1, <3>2, <3>3, <3>4
  <2>7. ASSUME NEW o \in Ops, ReleasePermit(o)
        PROVE  pending' = pending /\ \A k \in Keys : CountedIn(k)' <=> CountedIn(k)
    <3>1. \A p \in Ops : pc'[p] \in Counted <=> pc[p] \in Counted
      BY <2>7 DEF ReleasePermit, Waiting, TypeOK, Counted, Mapped, InCommand, Guarded
    <3>2. QED
      BY <2>7, <3>1 DEF ReleasePermit, CountedIn, QueueKey
  <2>8. ASSUME NEW o \in Ops,
               CancelLooksUp(o) \/ Cancel(o) \/ ChildExits(o) \/ TimeoutElapses(o)
        PROVE  pending' = pending /\ \A k \in Keys : CountedIn(k)' <=> CountedIn(k)
    BY <2>8 DEF CancelLooksUp, Cancel, CancelSetsFlag, CancelKills, ChildExits,
                TimeoutElapses, CountedIn, QueueKey
  <2>9. CASE UNCHANGED vars
    BY <2>1, <2>9 DEF vars, CountedIn, QueueKey
  <2>10. QED
    BY <2>1, <2>3, <2>4, <2>5, <2>6, <2>7, <2>8, <2>9, NextCases DEF Begin, Finish
<1>3. QED
  BY <1>1, <1>2, TypeCorrect, PermitExclusive, ReportFollowsThread, PTL DEF Spec

-----------------------------------------------------------------------------
(* The refinement: a thread's move is a step of SerialOperations or none.   *)
PhaseOf == [o \in Ops |-> Phase(o)]

LEMMA PhaseMoves ==
  ASSUME TypeOK, NEW o \in Ops, NEW from, NEW to, Goto(o, from, to)
  PROVE  PhaseOf' = [PhaseOf EXCEPT ![o] = StagePhase(to)]
<1>1. \A p \in Ops : pc'[p] = IF p = o THEN to ELSE pc[p]
  BY DEF TypeOK
<1>2. \A p \in Ops : Phase(p)' = IF p = o THEN StagePhase(to) ELSE Phase(p)
  BY <1>1 DEF Phase
<1>3. QED
  BY <1>2 DEF PhaseOf

LEMMA PhaseStays ==
  ASSUME TypeOK, NEW o \in Ops, NEW from, NEW to, Goto(o, from, to),
         \/ from \in InQueue /\ to \in InQueue
         \/ from \in Holding /\ to \in Holding
  PROVE  PhaseOf' = PhaseOf
<1>1. \A p \in Ops : p # o => pc'[p] = pc[p]
  BY DEF TypeOK
<1>2. pc[o] = from /\ pc'[o] = to
  BY DEF TypeOK
<1>3. StagePhase(from) = StagePhase(to)
  BY DEF StagePhase, InQueue, Holding, Counted, Mapped, Guarded, InCommand
<1>4. \A p \in Ops : Phase(p)' = Phase(p)
  BY <1>1, <1>2, <1>3 DEF Phase
<1>5. QED
  BY <1>4 DEF PhaseOf

(* The coordinator implements SerialOperations: one operation at a time per *)
(* queue, announced once and reported once before the queue moves on.       *)
THEOREM Refinement == Spec => ImplementsSerialOperations
<1>1. Init => Serial!Init
  BY DEF Init, Serial!Init, Phase, StagePhase
<1>2. TypeOK /\ PermitInv /\ ReportInv /\ [Next]_vars => [Serial!Next]_(Serial!serialVars)
  <2> SUFFICES ASSUME TypeOK, PermitInv, ReportInv, [Next]_vars
               PROVE  Serial!Next \/ (PhaseOf' = PhaseOf /\ events' = events)
    BY DEF Serial!serialVars, PhaseOf
  <2> DEFINE Stutter == PhaseOf' = PhaseOf /\ events' = events
  <2>1. ASSUME NEW o \in Ops, Invoke(o) PROVE Serial!Queue(o)
    <3>1. PhaseOf' = [PhaseOf EXCEPT ![o] = "queued"]
      BY <2>1, PhaseMoves DEF Invoke, InQueue, StagePhase
    <3>2. PhaseOf[o] = "idle" /\ events' = events
      BY <2>1 DEF Invoke, PhaseOf, Phase, StagePhase
    <3>3. QED
      BY <3>1, <3>2 DEF Serial!Queue, PhaseOf
  <2>2. ASSUME NEW o \in Ops, SpuriousWakeup(o) PROVE Stutter
    BY <2>2, PhaseStays DEF SpuriousWakeup, InQueue
  <2>3. ASSUME NEW o \in Ops, Acquire(o) PROVE Serial!Start(o) \/ Stutter
    <3>1. CASE running[QueueKey(o)]
      BY <2>3, <3>1, PhaseStays DEF Acquire, InQueue
    <3>2. CASE ~running[QueueKey(o)]
      <4>1. PhaseOf' = [PhaseOf EXCEPT ![o] = "running"]
        BY <2>3, <3>2, PhaseMoves DEF Acquire, InQueue, Holding, StagePhase
      <4>2. PhaseOf[o] = "queued" /\ events' = events
        BY <2>3 DEF Acquire, PhaseOf, Phase, StagePhase, InQueue
      <4>3. \A p \in Ops : QueueKey(p) = QueueKey(o) => pc[p] \notin Holding
        BY <3>2 DEF PermitInv
      <4>4. \A p \in Ops : QueueKey(p) = QueueKey(o) => PhaseOf[p] # "running"
        BY <4>3 DEF PhaseOf, Phase, StagePhase
      <4>5. QED
        BY <4>1, <4>2, <4>4 DEF Serial!Start, PhaseOf
    <3>3. QED
      BY <3>1, <3>2
  <2>4. ASSUME NEW o \in Ops, CountPending(o) \/ BeginOperation(o) \/ Register(o) PROVE Stutter
    BY <2>4, PhaseStays DEF CountPending, BeginOperation, Register, Holding, Counted,
                            Mapped, Guarded
  <2>5. ASSUME NEW o \in Ops, EmitStarted(o) PROVE Serial!Announce(o)
    <3>1. events[o] = <<>>
      BY <2>5 DEF EmitStarted, ReportInv, BeforeStarted
    <3>2. events' = [events EXCEPT ![o] = <<"Started">>]
      BY <2>5, <3>1 DEF EmitStarted
    <3>3. PhaseOf' = PhaseOf
      BY <2>5, PhaseStays DEF EmitStarted, Holding, Counted, Mapped, InCommand
    <3>4. PhaseOf[o] = "running"
      BY <2>5 DEF EmitStarted, PhaseOf, Phase, StagePhase, InQueue, Holding, Counted, Mapped
    <3>5. QED
      BY <3>1, <3>2, <3>3, <3>4 DEF Serial!Announce, PhaseOf
  <2>6. ASSUME NEW o \in Ops, RunCommands(o) PROVE Stutter
    BY <2>6, RunMoves, PhaseStays DEF Holding, Counted, Mapped
  <2>7. ASSUME NEW o \in Ops, EmitTerminal(o)
        PROVE  \E r \in Serial!Results : Serial!Report(o, r)
    <3>1. TerminalEvent(o) \in Serial!Results /\ TerminalEvent(o) \in EventKinds
      BY DEF TerminalEvent, Serial!Results, EventKinds
    <3>2. events[o] = <<"Started">>
      BY <2>7 DEF EmitTerminal, ReportInv
    <3>3. events' = [events EXCEPT ![o] = <<"Started", TerminalEvent(o)>>]
      BY <2>7, <3>1, <3>2, AppendToOne DEF EmitTerminal, EventKinds
    <3>4. PhaseOf' = PhaseOf
      BY <2>7, PhaseStays DEF EmitTerminal, Holding, Counted, Mapped
    <3>5. PhaseOf[o] = "running"
      BY <2>7 DEF EmitTerminal, PhaseOf, Phase, StagePhase, InQueue, Holding, Counted, Mapped
    <3>6. QED
      BY <3>1, <3>2, <3>3, <3>4, <3>5 DEF Serial!Report, PhaseOf
  <2>8. ASSUME NEW o \in Ops, EndOperation(o) \/ FinishOperation(o) \/ DecrementPending(o)
        PROVE  Stutter
    BY <2>8, PhaseStays DEF EndOperation, FinishOperation, DecrementPending, Holding,
                            Counted, Mapped
  <2>9. ASSUME NEW o \in Ops, ReleasePermit(o) PROVE Serial!End(o)
    <3>1. pc[o] = "uncounted" /\ events' = events
      BY <2>9 DEF ReleasePermit
    <3>2. \A p \in Ops : \/ p = o /\ pc'[p] = "done"
                         \/ p # o /\ pc'[p] = pc[p]
                         \/ p # o /\ pc[p] = "waiting" /\ pc'[p] = "contend"
      BY <2>9 DEF ReleasePermit, Waiting, TypeOK
    <3>3. \A p \in Ops : Phase(p)' = IF p = o THEN "ended" ELSE Phase(p)
      BY <3>1, <3>2 DEF Phase, StagePhase, InQueue, Holding, Counted, Mapped, Guarded, InCommand
    <3>4. PhaseOf' = [PhaseOf EXCEPT ![o] = "ended"]
      BY <3>3 DEF PhaseOf
    <3>5. PhaseOf[o] = "running"
      BY <3>1 DEF PhaseOf, Phase, StagePhase, InQueue, Holding
    <3>6. \E r \in Serial!Results : events[o] = <<"Started", r>>
      BY <3>1 DEF ReportInv, AfterTerminal, Serial!Results
    <3>7. QED
      BY <3>1, <3>4, <3>5, <3>6 DEF Serial!End, PhaseOf
  <2>10. ASSUME NEW o \in Ops,
                CancelLooksUp(o) \/ Cancel(o) \/ ChildExits(o) \/ TimeoutElapses(o)
         PROVE  Stutter
    BY <2>10 DEF CancelLooksUp, Cancel, CancelSetsFlag, CancelKills, ChildExits,
                 TimeoutElapses, PhaseOf, Phase
  <2>11. CASE UNCHANGED vars
    BY <2>11 DEF vars, PhaseOf, Phase
  <2>12. QED
    BY <2>1, <2>2, <2>3, <2>4, <2>5, <2>6, <2>7, <2>8, <2>9, <2>10, <2>11, NextCases
       DEF Begin, Finish, Serial!Next
<1>3. QED
  BY <1>1, <1>2, TypeCorrect, PermitExclusive, ReportFollowsThread, PTL DEF Spec, Serial!Spec, ImplementsSerialOperations

-----------------------------------------------------------------------------
(* A cancel that was answered "ok" has set its flag, and the checks of the  *)
(* polling loop do not pass an attached command with the flag set.          *)
CancelInv ==
  /\ \A o \in Ops : reply[o] = "ok" => flag[o]
  /\ CancelLeavesNoPlacedChild

(* Once a cancel is answered, a live process of an attached command is one  *)
(* that has yet to be placed or that the loop has yet to look at: no loop   *)
(* waits for a process the user has cancelled (kill_child, run).            *)
THEOREM CancelReachesProcess == Spec => []CancelLeavesNoPlacedChild
<1>1. Init => CancelInv
  BY DEF Init, CancelInv, CancelLeavesNoPlacedChild, Live
<1>2. TypeOK /\ ProcessInv /\ ProcessInv' /\ CancelInv /\ [Next]_vars => CancelInv'
  <2> SUFFICES ASSUME TypeOK, ProcessInv, ProcessInv', CancelInv, [Next]_vars PROVE CancelInv'
    OBVIOUS
  <2> USE DEF CancelInv, CancelLeavesNoPlacedChild, Live, Attached, TypeOK
  <2>1. ASSUME NEW o \in Ops, Invoke(o) \/ SpuriousWakeup(o) PROVE CancelInv'
    BY <2>1 DEF Invoke, SpuriousWakeup
  <2>2. ASSUME NEW o \in Ops, Begin(o) PROVE CancelInv'
    BY <2>2 DEF Begin, Acquire, CountPending, BeginOperation, Register, EmitStarted
  <2>3. ASSUME NEW o \in Ops, RunCommands(o) PROVE CancelInv'
    <3>1. UNCHANGED <<flag, reply>>
      BY <2>3, RunMoves
    <3>2. CASE ChecksPass(o)
      <4>1. reply[o] = "ok" => ~Attached(o)
        BY <3>2 DEF ChecksPass
      <4>2. QED
        BY <3>1, <3>2, <4>1 DEF ChecksPass
    <3>3. CASE ~ChecksPass(o)
      <4>1. pc'[o] # "polled"
        BY <2>3, <3>3 DEF RunCommands, Spawn, ReturnsWithoutProcess, Unwind, PlaceChild,
             SeesCancellation, SeesTimeout, FindsSlotEmpty, StillRunning, ReapChild,
             TryWaitFails, CommandFails, CommandSucceeds, DrainFails
      <4>2. \A p \in Ops : p # o => pc'[p] = pc[p] /\ child'[p] = child[p] /\ cmd'[p] = cmd[p]
        BY <2>3 DEF RunCommands, Spawn, ReturnsWithoutProcess, Unwind, PlaceChild, KillChild,
             SeesCancellation, SeesTimeout, ChecksPass, FindsSlotEmpty, StillRunning, ReapChild,
             TryWaitFails, CommandFails, CommandSucceeds, DrainFails
      <4>3. Live(o)' => pc'[o] \in {"spawned", "polling"}
        BY <4>1 DEF ProcessInv
      <4>4. QED
        BY <3>1, <4>2, <4>3
    <3>4. QED
      BY <3>2, <3>3
  <2>4. ASSUME NEW o \in Ops, Finish(o) PROVE CancelInv'
    <3>1. CASE EmitTerminal(o) \/ EndOperation(o) \/ FinishOperation(o) \/ DecrementPending(o)
      BY <3>1 DEF EmitTerminal, EndOperation, FinishOperation, DecrementPending
    <3>2. CASE ReleasePermit(o)
      BY <3>2 DEF ReleasePermit, Waiting
    <3>3. QED
      BY <2>4, <3>1, <3>2 DEF Finish
  <2>5. ASSUME NEW o \in Ops, CancelLooksUp(o) \/ CancelSetsFlag(o) PROVE CancelInv'
    BY <2>5 DEF CancelLooksUp, CancelSetsFlag
  <2>6. ASSUME NEW o \in Ops, CancelKills(o) PROVE CancelInv'
    <3>1. Live(o)' /\ Attached(o) => pc[o] = "spawned"
      BY <2>6 DEF CancelKills, KillChild, ProcessInv
    <3>2. \A p \in Ops : p # o => reply'[p] = reply[p] /\ child'[p] = child[p]
      BY <2>6 DEF CancelKills, KillChild
    <3>3. UNCHANGED <<pc, cmd, flag>> /\ flag[o]
      BY <2>6 DEF CancelKills
    <3>4. QED
      BY <3>1, <3>2, <3>3
  <2>7. ASSUME NEW o \in Ops, ChildExits(o) \/ TimeoutElapses(o) PROVE CancelInv'
    BY <2>7 DEF ChildExits, TimeoutElapses
  <2>8. CASE UNCHANGED vars
    BY <2>8 DEF vars
  <2>9. QED
    BY <2>1, <2>2, <2>3, <2>4, <2>5, <2>6, <2>7, <2>8, NextCases DEF Cancel
<1>3. CancelInv => CancelLeavesNoPlacedChild
  BY DEF CancelInv
<1>4. QED
  BY <1>1, <1>2, <1>3, TypeCorrect, ProcessPlaced, PTL DEF Spec
==============================================================================
