------------------------- MODULE TerminalSessionsProofs -------------------------
(***************************************************************************)
(* Proofs about terminal sessions, for any set of trunks, any number of     *)
(* spawns and any bounds of the channels and of the pending buffers.        *)
(***************************************************************************)
EXTENDS TerminalSessions, TLAPS, SequenceTheorems

-----------------------------------------------------------------------------
(* The inductive invariant, in parts.                                       *)

\* Only an active trunk's runtime is ready (Activate, Deactivate).
ReadyIsActive == ready => active \in Trunks

\* While the application runs, a spawned session knows its trunk.
SpawnedHasOwner ==
  ~quit => \A s \in Sessions : shell[s] # "unused" => owner[s] \in Trunks

\* The mounted xterm, what is on its way to the window and a recorded session
\* are of spawns that have been issued: a session about to be spawned is
\* nowhere yet.
NamesSpawned ==
  /\ card # NoSession => shell[card] # "unused" /\ owner[card] \in Trunks
  /\ \A s \in Sessions : answer[s] # "none" \/ channel[s] # << >> => shell[s] # "unused"
  /\ \A t \in Trunks : entry[t].info # NoSession => shell[entry[t].info] # "unused"

\* An entry that has not been spawned has no session.
IdleHasNoSession ==
  \A t \in Trunks : entry[t].status \in {"absent", "idle"} => entry[t].info = NoSession

\* An exit on its way is the exit of a shell that is gone.
ExitsOfTheDead ==
  \A s \in Sessions : \A i \in 1..Len(channel[s]) :
    channel[s][i] = "Exit" => shell[s] = "dead"

Invariant ==
  /\ TypeOK
  /\ ReadyIsActive
  /\ SpawnedHasOwner
  /\ NamesSpawned
  /\ IdleHasNoSession
  /\ ExitsOfTheDead
  /\ LiveShellsRegistered
  /\ InputReachesOwnTrunk
  /\ AnsweredExitIsOwn

-----------------------------------------------------------------------------
(* The store's entries, and the lemmas on its setters: each keeps the shape *)
(* of the entries and says what becomes of the sessions and the statuses.   *)

Entries ==
  [Trunks -> [status : Statuses, info : Sessions \cup {NoSession}, pending : Seq(Message)]]

WithinBound(sessions) == \A t \in Trunks : Len(sessions[t].pending) <= MaxPending

\* Dropping an entry, as the banner's button and the cleanup do.
LEMMA KillSessionEntries ==
  ASSUME NEW e \in Entries, WithinBound(e), NEW t
  PROVE  /\ killSession(e, t) \in Entries /\ WithinBound(killSession(e, t))
         /\ \A u \in Trunks : killSession(e, t)[u] = IF u = t THEN Absent ELSE e[u]
<1>1. Absent \in [status : Statuses, info : Sessions \cup {NoSession}, pending : Seq(Message)]
  BY DEF Absent, Statuses
<1>2. Len(Absent.pending) = 0
  BY DEF Absent
<1>3. \A u \in Trunks : killSession(e, t)[u] = IF u = t THEN Absent ELSE e[u]
  BY DEF killSession, Entries
<1>4. killSession(e, t) \in Entries
  BY <1>1 DEF killSession, Entries
<1>5. WithinBound(killSession(e, t))
  BY <1>2, <1>3, BoundsAssumption DEF WithinBound
<1>6. QED
  BY <1>3, <1>4, <1>5

\* The entries after forgetting the mounted terminal.
LEMMA ForgottenEntries ==
  ASSUME TypeOK
  PROVE  /\ Forgotten \in Entries /\ WithinBound(Forgotten)
         /\ \A t \in Trunks :
              Forgotten[t] = IF card # NoSession /\ owner[card] = t THEN Absent ELSE entry[t]
<1>1. entry \in Entries /\ WithinBound(entry)
  BY DEF TypeOK, Entries, WithinBound
<1>2. CASE card = NoSession
  BY <1>1, <1>2 DEF Forgotten
<1>3. CASE card # NoSession
  <2>1. Forgotten = killSession(entry, owner[card])
    BY <1>3 DEF Forgotten
  <2>2. QED
    BY <1>1, <1>3, <2>1, KillSessionEntries
<1>4. QED
  BY <1>2, <1>3

\* A message kept for later changes no session, drops the oldest message of a
\* full buffer and makes an idle entry where there was none.
LEMMA AppendPendingEntries ==
  ASSUME NEW e \in Entries, WithinBound(e), NEW t \in Trunks, NEW m \in Message
  PROVE  /\ appendPendingMessage(e, t, m) \in Entries
         /\ WithinBound(appendPendingMessage(e, t, m))
         /\ \A u \in Trunks :
              /\ appendPendingMessage(e, t, m)[u].info = e[u].info
              /\ \/ appendPendingMessage(e, t, m)[u].status = e[u].status
                 \/ /\ appendPendingMessage(e, t, m)[u].status = "idle"
                    /\ e[u].status = "absent"
<1> DEFINE kept == IF Len(e[t].pending) >= MaxPending THEN Tail(e[t].pending)
                   ELSE e[t].pending
<1>1. e[t].pending \in Seq(Message) /\ Len(e[t].pending) \in Nat /\ Len(e[t].pending) <= MaxPending
  BY DEF Entries, WithinBound
<1>2. kept \in Seq(Message) /\ Len(kept) + 1 <= MaxPending
  <2>1. CASE Len(e[t].pending) >= MaxPending
    <3>1. e[t].pending # << >>
      BY <1>1, <2>1, BoundsAssumption
    <3>2. Tail(e[t].pending) \in Seq(Message) /\ Len(Tail(e[t].pending)) = Len(e[t].pending) - 1
      BY <1>1, <3>1, HeadTailProperties
    <3>3. QED
      BY <1>1, <2>1, <3>2, BoundsAssumption
  <2>2. CASE ~(Len(e[t].pending) >= MaxPending)
    BY <1>1, <2>2, BoundsAssumption
  <2>3. QED
    BY <2>1, <2>2
<1>3. Append(kept, m) \in Seq(Message) /\ Len(Append(kept, m)) = Len(kept) + 1
  BY <1>2, AppendProperties
<1>4. Len(Append(kept, m)) <= MaxPending
  BY <1>2, <1>3
<1>5. ensureSession(e, t) \in Entries
  BY DEF ensureSession, Entries, Statuses
<1>6. ensureSession(e, t)[t].pending = e[t].pending
  BY DEF ensureSession, Entries
<1>7. appendPendingMessage(e, t, m) = [ensureSession(e, t) EXCEPT ![t].pending = Append(kept, m)]
  BY <1>5, <1>6 DEF appendPendingMessage, Entries
<1> DEFINE f == appendPendingMessage(e, t, m)
<1> HIDE DEF kept
<1>8. f \in Entries
  BY <1>3, <1>5, <1>7 DEF Entries
<1>9. \A u \in Trunks : f[u].pending = IF u = t THEN Append(kept, m) ELSE e[u].pending
  BY <1>5, <1>7 DEF ensureSession, Entries
<1>10. WithinBound(f)
  BY <1>4, <1>9 DEF WithinBound
<1>11. \A u \in Trunks : f[u].info = ensureSession(e, t)[u].info /\ f[u].status = ensureSession(e, t)[u].status
  BY <1>5, <1>7 DEF Entries
<1>12. \A u \in Trunks : f[u].info = e[u].info
  BY <1>11 DEF ensureSession, Entries
<1>13. \A u \in Trunks : f[u].status = e[u].status \/ (f[u].status = "idle" /\ e[u].status = "absent")
  BY <1>11 DEF ensureSession, Entries
<1>14. QED
  BY <1>8, <1>10, <1>12, <1>13

\* A setter of the status alone.
setStatus(sessions, t, status) == [sessions EXCEPT ![t].status = status]

LEMMA StatusEntries ==
  ASSUME NEW e \in Entries, WithinBound(e), NEW t \in Trunks, NEW status \in Statuses
  PROVE  /\ setStatus(e, t, status) \in Entries /\ WithinBound(setStatus(e, t, status))
         /\ \A u \in Trunks :
              /\ setStatus(e, t, status)[u].info = e[u].info
              /\ setStatus(e, t, status)[u].pending = e[u].pending
              /\ setStatus(e, t, status)[u].status = IF u = t THEN status ELSE e[u].status
<1> DEFINE f == setStatus(e, t, status)
<1>1. f \in Entries
  BY DEF Entries, setStatus
<1>2. \A u \in Trunks : /\ f[u].info = e[u].info
                        /\ f[u].pending = e[u].pending
                        /\ f[u].status = IF u = t THEN status ELSE e[u].status
  BY DEF Entries, setStatus
<1>3. WithinBound(f)
  BY <1>2 DEF WithinBound
<1>4. QED
  BY <1>1, <1>2, <1>3

\* A delivered message changes at most the status of its trunk's entry, and
\* marks it as exited only when the exit is honoured.
LEMMA HandleMessageEntries ==
  ASSUME NEW e \in Entries, WithinBound(e), NEW t \in Trunks, NEW m \in Message
  PROVE  /\ handleMessage(e, t, m) \in Entries /\ WithinBound(handleMessage(e, t, m))
         /\ \A u \in Trunks :
              /\ handleMessage(e, t, m)[u].info = e[u].info
              /\ handleMessage(e, t, m)[u].status =
                   IF u = t /\ Honoured(e[t], m) THEN "exited" ELSE e[u].status
<1>1. "exited" \in Statuses
  BY DEF Statuses
<1>2. CASE Honoured(e[t], m)
  <2>1. handleMessage(e, t, m) = setStatus(e, t, "exited")
    BY <1>2 DEF handleMessage, setExited, setStatus
  <2>2. QED
    BY <1>1, <1>2, <2>1, StatusEntries
<1>3. CASE ~Honoured(e[t], m)
  BY <1>3 DEF handleMessage
<1>4. QED
  BY <1>2, <1>3

\* The answer of a spawn.
LEMMA SetReadyEntries ==
  ASSUME NEW e \in Entries, WithinBound(e), NEW t \in Trunks, NEW s \in Sessions
  PROVE  /\ setReady(e, t, s) \in Entries /\ WithinBound(setReady(e, t, s))
         /\ \A u \in Trunks :
              /\ setReady(e, t, s)[u].info = IF u = t THEN s ELSE e[u].info
              /\ setReady(e, t, s)[u].status = IF u = t THEN "ready" ELSE e[u].status
<1> DEFINE f == setReady(e, t, s)
<1>1. f \in Entries
  BY DEF Entries, setReady, Statuses
<1>2. \A u \in Trunks : /\ f[u].info = IF u = t THEN s ELSE e[u].info
                        /\ f[u].status = IF u = t THEN "ready" ELSE e[u].status
                        /\ f[u].pending = e[u].pending
  BY DEF Entries, setReady
<1>3. WithinBound(f)
  BY <1>2 DEF WithinBound
<1>4. QED
  BY <1>1, <1>2, <1>3

\* Draining leaves nothing pending and every session as it was; the status of
\* the trunk's entry stays or becomes "exited".
LEMMA DrainedEntries ==
  ASSUME NEW e \in Entries, WithinBound(e), NEW t \in Trunks
  PROVE  /\ Drained(e, t) \in Entries /\ WithinBound(Drained(e, t))
         /\ \A u \in Trunks : /\ Drained(e, t)[u].info = e[u].info
                              /\ u # t => Drained(e, t)[u].status = e[u].status
         /\ Drained(e, t)[t].status \in {e[t].status, "exited"}
<1> DEFINE kept == [e EXCEPT ![t].pending = <<>>]
<1>1. << >> \in Seq(Message)
  OBVIOUS
<1>2. kept \in Entries
  BY <1>1 DEF Entries
<1>3. \A u \in Trunks : /\ kept[u].info = e[u].info /\ kept[u].status = e[u].status
                        /\ kept[u].pending = IF u = t THEN <<>> ELSE e[u].pending
  BY DEF Entries
<1>4. Len(<< >>) = 0
  OBVIOUS
<1>5. WithinBound(kept)
  BY <1>3, <1>4, BoundsAssumption DEF WithinBound
<1>6. Drained(e, t) \in {kept, setStatus(kept, t, "exited")}
  BY DEF Drained, setExited, setStatus
<1>7. "exited" \in Statuses
  BY DEF Statuses
<1> HIDE DEF kept
<1>8. CASE Drained(e, t) = kept
  BY <1>2, <1>3, <1>5, <1>8
<1>9. CASE Drained(e, t) = setStatus(kept, t, "exited")
  BY <1>2, <1>3, <1>5, <1>7, <1>9, StatusEntries
<1>10. QED
  BY <1>6, <1>8, <1>9

\* What the effect spawns into: an entry of its trunk that has no session yet.
LEMMA MountedEntries ==
  ASSUME TypeOK, IdleHasNoSession, active \in Trunks, Mountable, NEW s \in Sessions, Mount(s)
  PROVE  /\ entry' \in Entries /\ WithinBound(entry')
         /\ \A t \in Trunks : t # active => /\ entry'[t].info = Forgotten[t].info
                                           /\ entry'[t].status = Forgotten[t].status
         /\ entry'[active].info = NoSession
         /\ entry'[active].status \in {"spawning", "exited"}
<1> DEFINE ensured == ensureSession(Forgotten, active)
           spawning == setSpawning(ensured, active)
<1>1. /\ Forgotten \in Entries /\ WithinBound(Forgotten)
      /\ \A t \in Trunks :
           Forgotten[t] = IF card # NoSession /\ owner[card] = t THEN Absent ELSE entry[t]
  BY ForgottenEntries
<1>2. ensured = setStatus(Forgotten, active,
                          IF Forgotten[active].status = "absent" THEN "idle"
                          ELSE Forgotten[active].status)
  BY <1>1 DEF ensureSession, setStatus
<1>3. /\ ensured \in Entries /\ WithinBound(ensured)
      /\ \A u \in Trunks : /\ ensured[u].info = Forgotten[u].info
                           /\ u # active => ensured[u].status = Forgotten[u].status
      /\ ensured[active].status = IF Forgotten[active].status = "absent" THEN "idle"
                                  ELSE Forgotten[active].status
  <2>1. Forgotten[active].status \in Statuses /\ "idle" \in Statuses
    BY <1>1 DEF Entries, Statuses
  <2> DEFINE first == IF Forgotten[active].status = "absent" THEN "idle" ELSE Forgotten[active].status
             set == setStatus(Forgotten, active, first)
  <2>2. first \in Statuses
    BY <2>1
  <2> HIDE DEF first
  <2>3. /\ set \in Entries /\ WithinBound(set)
        /\ \A u \in Trunks : /\ set[u].info = Forgotten[u].info
                             /\ set[u].status = IF u = active THEN first ELSE Forgotten[u].status
    BY <1>1, <2>2, StatusEntries
  <2>4. ensured = set
    BY <1>2 DEF first
  <2> HIDE DEF ensured, set
  <2>5. QED
    BY <2>3, <2>4 DEF first
<1>4. /\ spawning \in Entries /\ WithinBound(spawning)
      /\ \A u \in Trunks : /\ spawning[u].info = Forgotten[u].info
                           /\ u # active => spawning[u].status = Forgotten[u].status
      /\ spawning[active].status = "spawning"
  <2>1. "spawning" \in Statuses
    BY DEF Statuses
  <2>2. spawning = setStatus(ensured, active, "spawning")
    BY DEF setSpawning, setStatus
  <2> HIDE DEF ensured, spawning
  <2>3. QED
    BY <1>3, <2>1, <2>2, StatusEntries
<1>5. entry' = Drained(spawning, active)
  BY DEF Mount
<1>6. Forgotten[active].info = NoSession
  <2>1. Forgotten[active].status \in {"absent", "idle"}
    BY <1>3 DEF Mountable
  <2>2. QED
    BY <1>1, <2>1 DEF IdleHasNoSession, Absent
<1> HIDE DEF spawning
<1>7. QED
  BY <1>4, <1>5, <1>6, DrainedEntries

-----------------------------------------------------------------------------
(* The invariant is inductive.                                              *)

LEMMA TerminalInit == Init => Invariant
<1> SUFFICES ASSUME Init PROVE Invariant
  OBVIOUS
<1>1. \A s \in Sessions : channel[s] = << >> /\ Len(channel[s]) = 0
  BY DEF Init
<1>2. Len(Absent.pending) = 0 /\ Absent \in [status : Statuses, info : Sessions \cup {NoSession},
                                             pending : Seq(Message)]
  BY DEF Absent, Statuses
<1>3. TypeOK
  <2>1. << >> \in Seq(Kinds)
    OBVIOUS
  <2>2. /\ entry \in [Trunks -> [status : Statuses, info : Sessions \cup {NoSession},
                               pending : Seq(Message)]]
        /\ \A t \in Trunks : Len(entry[t].pending) <= MaxPending
    BY <1>2, BoundsAssumption DEF Init
  <2>3. QED
    BY <2>1, <2>2 DEF Init, TypeOK
<1>4. ReadyIsActive /\ SpawnedHasOwner
  BY DEF Init, ReadyIsActive, SpawnedHasOwner
<1>5. NamesSpawned /\ IdleHasNoSession /\ InputReachesOwnTrunk /\ AnsweredExitIsOwn
  BY DEF Init, NamesSpawned, IdleHasNoSession, InputReachesOwnTrunk, AnsweredExitIsOwn,
         Absent, Statuses
<1>6. ExitsOfTheDead
  BY <1>1 DEF ExitsOfTheDead
<1>7. LiveShellsRegistered
  BY <1>3 DEF Init, LiveShellsRegistered
<1>8. QED
  BY <1>3, <1>4, <1>5, <1>6, <1>7 DEF Invariant

\* A step that leaves the sessions and their native side alone.
LEMMA TerminalActivation ==
  ASSUME Invariant, (\E t \in Trunks : Activate(t)) \/ RuntimeReady \/ Deactivate
  PROVE  Invariant'
<1> USE DEF Invariant, TypeOK, LiveShellsRegistered
<1>1. UNCHANGED <<windowVars, shell, nativeVars, quit>>
  BY DEF Activate, RuntimeReady, Deactivate
<1>2. TypeOK' /\ ReadyIsActive'
  BY <1>1 DEF Activate, RuntimeReady, Deactivate, ReadyIsActive, windowVars, nativeVars
<1>3. QED
  BY <1>1, <1>2
     DEF windowVars, nativeVars, SpawnedHasOwner, NamesSpawned, IdleHasNoSession,
         ExitsOfTheDead, InputReachesOwnTrunk, AnsweredExitIsOwn

\* The banner's button drops the entry of the active trunk.
LEMMA TerminalRestart ==
  ASSUME Invariant, Restart
  PROVE  Invariant'
<1>1. TypeOK /\ entry \in Entries /\ WithinBound(entry)
  BY DEF Invariant, TypeOK, Entries, WithinBound
<1>2. active \in Trunks
  BY <1>1 DEF TypeOK, Restart
<1>3. /\ entry' \in Entries /\ WithinBound(entry')
      /\ \A u \in Trunks : entry'[u] = IF u = active THEN Absent ELSE entry[u]
  BY <1>1, <1>2, KillSessionEntries DEF Restart
<1>4. UNCHANGED <<active, ready, deps, card, owner, shell, registry, answer, channel, killing, quit>>
  BY DEF Restart, nativeVars
<1>5. restart' = TRUE
  BY DEF Restart
<1>6. TypeOK'
  BY <1>1, <1>3, <1>4, <1>5 DEF TypeOK, Entries, WithinBound
<1>7. ReadyIsActive' /\ SpawnedHasOwner' /\ ExitsOfTheDead' /\ LiveShellsRegistered'
  BY <1>4, <1>6
     DEF Invariant, ReadyIsActive, SpawnedHasOwner, ExitsOfTheDead, LiveShellsRegistered
<1>8. Absent.info = NoSession /\ Absent.status = "absent"
  BY DEF Absent
<1>9. NamesSpawned'
  BY <1>3, <1>4, <1>8 DEF Invariant, NamesSpawned
<1>10. IdleHasNoSession' /\ InputReachesOwnTrunk'
  BY <1>3, <1>4, <1>8 DEF Invariant, IdleHasNoSession, InputReachesOwnTrunk
<1>11. AnsweredExitIsOwn'
  BY <1>3, <1>4, <1>8 DEF Invariant, AnsweredExitIsOwn, NamesSpawned
<1>12. QED
  BY <1>6, <1>7, <1>9, <1>10, <1>11 DEF Invariant

\* The effect's cleanup forgets the mounted terminal's entry and kills its shell.
LEMMA TerminalForgets ==
  ASSUME Invariant
  PROVE  /\ TypeOK /\ Forgotten \in Entries /\ WithinBound(Forgotten)
         /\ Killed \subseteq Sessions
         /\ \A t \in Trunks : /\ Forgotten[t].info \in {NoSession, entry[t].info}
                              /\ \/ Forgotten[t].status = "absent" /\ Forgotten[t].info = NoSession
                                 \/ /\ Forgotten[t].status = entry[t].status
                                    /\ Forgotten[t].info = entry[t].info
<1>1. TypeOK
  BY DEF Invariant
<1>2. Absent.info = NoSession /\ Absent.status = "absent"
  BY DEF Absent
<1>3. Killed \subseteq Sessions
  <2>1. CASE card = NoSession
    BY <2>1 DEF Killed
  <2>2. CASE card # NoSession
    <3>1. owner[card] \in Trunks
      BY <2>2 DEF Invariant, NamesSpawned
    <3>2. entry[owner[card]].info \in Sessions \cup {NoSession}
      BY <1>1, <3>1 DEF TypeOK
    <3>3. QED
      BY <2>2, <3>2 DEF Killed
  <2>3. QED
    BY <2>1, <2>2
<1>4. QED
  BY <1>1, <1>2, <1>3, ForgottenEntries

LEMMA TerminalMount ==
  ASSUME Invariant, RunEffect, ~quit, Mountable, NEW s \in Sessions, Mount(s)
  PROVE  Invariant'
<1>1. /\ TypeOK /\ Forgotten \in Entries /\ WithinBound(Forgotten) /\ Killed \subseteq Sessions
      /\ \A t \in Trunks : /\ Forgotten[t].info \in {NoSession, entry[t].info}
                           /\ \/ Forgotten[t].status = "absent" /\ Forgotten[t].info = NoSession
                              \/ /\ Forgotten[t].status = entry[t].status
                                 /\ Forgotten[t].info = entry[t].info
  BY TerminalForgets
<1>2. active \in Trunks
  BY DEF Invariant, ReadyIsActive, Mountable
<1>3. /\ entry' \in Entries /\ WithinBound(entry')
      /\ \A t \in Trunks : t # active => /\ entry'[t].info = Forgotten[t].info
                                         /\ entry'[t].status = Forgotten[t].status
      /\ entry'[active].info = NoSession
      /\ entry'[active].status \in {"spawning", "exited"}
  BY <1>2, MountedEntries DEF Invariant
<1>4. /\ UNCHANGED <<active, ready, registry, answer, channel, quit>>
      /\ card' = s /\ owner' = [owner EXCEPT ![s] = active]
      /\ shell[s] = "unused" /\ shell' = [shell EXCEPT ![s] = "requested"]
      /\ killing' = killing \cup Killed /\ restart' = FALSE /\ deps' = <<active, ready>>
  BY DEF RunEffect, Mount, Depends
<1>5. s # NoSession
  BY BoundsAssumption DEF Sessions, NoSession
<1>6. /\ \A r \in Sessions : r # s => shell'[r] = shell[r] /\ owner'[r] = owner[r]
      /\ shell'[s] = "requested" /\ owner'[s] = active
  BY <1>1, <1>4 DEF TypeOK
<1>7. TypeOK'
  BY <1>1, <1>2, <1>3, <1>4 DEF TypeOK, Entries, WithinBound
<1>8. ReadyIsActive' /\ SpawnedHasOwner' /\ LiveShellsRegistered'
  BY <1>2, <1>4, <1>6, <1>7
     DEF Invariant, ReadyIsActive, SpawnedHasOwner, LiveShellsRegistered
<1>9. \A t \in Trunks : entry'[t].info # NoSession =>
        entry'[t].info = entry[t].info /\ entry'[t].info # s /\ entry'[t].info \in Sessions
  <2> SUFFICES ASSUME NEW t \in Trunks, entry'[t].info # NoSession
               PROVE  entry'[t].info = entry[t].info /\ entry'[t].info # s
                      /\ entry'[t].info \in Sessions
    OBVIOUS
  <2>1. entry[t].info \in Sessions \cup {NoSession}
    BY <1>1 DEF TypeOK
  <2>2. entry'[t].info = entry[t].info
    BY <1>1, <1>3
  <2>3. shell[entry[t].info] # "unused"
    BY <2>2 DEF Invariant, NamesSpawned
  <2>4. QED
    BY <1>4, <2>1, <2>2, <2>3
<1>10. NamesSpawned'
  BY <1>2, <1>4, <1>6, <1>9 DEF Invariant, NamesSpawned
<1>11. IdleHasNoSession'
  BY <1>1, <1>2, <1>3 DEF Invariant, IdleHasNoSession
<1>12. ExitsOfTheDead'
  BY <1>4, <1>6 DEF Invariant, ExitsOfTheDead
<1>13. InputReachesOwnTrunk'
  BY <1>6, <1>9 DEF Invariant, InputReachesOwnTrunk
<1>14. AnsweredExitIsOwn'
  BY <1>3, <1>4, <1>5, <1>6 DEF AnsweredExitIsOwn
<1>15. QED
  BY <1>7, <1>8, <1>10, <1>11, <1>12, <1>13, <1>14 DEF Invariant

LEMMA TerminalRunEffect ==
  ASSUME Invariant, RunEffect, ~quit
  PROVE  Invariant'
<1>1. CASE Mountable /\ \E s \in Sessions : Mount(s)
  BY <1>1, TerminalMount
<1>2. CASE ~Mountable /\ entry' = Forgotten /\ card' = NoSession /\ UNCHANGED <<owner, shell>>
  <2>1. /\ TypeOK /\ Forgotten \in Entries /\ WithinBound(Forgotten) /\ Killed \subseteq Sessions
        /\ \A t \in Trunks : /\ Forgotten[t].info \in {NoSession, entry[t].info}
                             /\ \/ Forgotten[t].status = "absent" /\ Forgotten[t].info = NoSession
                                \/ /\ Forgotten[t].status = entry[t].status
                                   /\ Forgotten[t].info = entry[t].info
    BY TerminalForgets
  <2>2. /\ UNCHANGED <<active, ready, owner, shell, registry, answer, channel, quit>>
        /\ killing' = killing \cup Killed /\ restart' = FALSE /\ deps' = <<active, ready>>
    BY <1>2 DEF RunEffect, Depends
  <2>3. TypeOK'
    BY <1>2, <2>1, <2>2 DEF TypeOK, Entries, WithinBound
  <2>4. ReadyIsActive' /\ SpawnedHasOwner' /\ ExitsOfTheDead' /\ LiveShellsRegistered'
    BY <2>2, <2>3
       DEF Invariant, ReadyIsActive, SpawnedHasOwner, ExitsOfTheDead, LiveShellsRegistered
  <2>5. NamesSpawned' /\ IdleHasNoSession' /\ InputReachesOwnTrunk' /\ AnsweredExitIsOwn'
    BY <1>2, <2>1, <2>2
       DEF Invariant, NamesSpawned, IdleHasNoSession, InputReachesOwnTrunk, AnsweredExitIsOwn
  <2>6. QED
    BY <2>3, <2>4, <2>5 DEF Invariant
<1>3. QED
  BY <1>1, <1>2 DEF RunEffect

\* What comes back from the native side.
LEMMA TerminalDeliver ==
  ASSUME Invariant, ~quit, NEW s \in Sessions, DeliverMessage(s)
  PROVE  Invariant'
<1> DEFINE m == [kind |-> Head(channel[s]), session |-> s]
<1>1. TypeOK /\ entry \in Entries /\ WithinBound(entry)
  BY DEF Invariant, TypeOK, Entries, WithinBound
<1>2. channel[s] \in Seq(Kinds) /\ channel[s] # << >>
  BY <1>1 DEF TypeOK, DeliverMessage
<1>3. /\ Head(channel[s]) \in Kinds /\ Tail(channel[s]) \in Seq(Kinds)
      /\ Len(Tail(channel[s])) = Len(channel[s]) - 1 /\ Len(channel[s]) \in Nat
      /\ 1 \in 1..Len(channel[s]) /\ Head(channel[s]) = channel[s][1]
      /\ \A i \in 1..Len(Tail(channel[s])) :
           i + 1 \in 1..Len(channel[s]) /\ Tail(channel[s])[i] = channel[s][i + 1]
  BY <1>2, HeadTailProperties
<1>4. m \in Message /\ m.kind = Head(channel[s]) /\ m.session = s
  BY <1>3 DEF Message
<1>5. owner[s] \in Trunks
  BY <1>2 DEF Invariant, NamesSpawned, SpawnedHasOwner
<1>6. /\ UNCHANGED <<active, ready, deps, restart, card, owner, shell, registry,
                     answer, killing, quit>>
      /\ channel' = [channel EXCEPT ![s] = Tail(channel[s])]
      /\ entry' = IF card = NoSession THEN appendPendingMessage(entry, owner[s], m)
                  ELSE handleMessage(entry, owner[s], m)
  BY DEF DeliverMessage
<1>7. /\ \A r \in Sessions : r # s => channel'[r] = channel[r]
      /\ channel'[s] = Tail(channel[s])
  BY <1>1, <1>6 DEF TypeOK
<1> HIDE DEF m
<1>8. /\ entry' \in Entries /\ WithinBound(entry')
      /\ \A t \in Trunks : entry'[t].info = entry[t].info
      /\ \A t \in Trunks : \/ entry'[t].status = entry[t].status
                           \/ entry'[t].status = "idle" /\ entry[t].status = "absent"
                           \/ entry'[t].status = "exited"
  <2>1. CASE card = NoSession
    BY <1>1, <1>4, <1>5, <1>6, <2>1, AppendPendingEntries
  <2>2. CASE card # NoSession
    BY <1>1, <1>4, <1>5, <1>6, <2>2, HandleMessageEntries
  <2>3. QED
    BY <2>1, <2>2
<1>9. TypeOK'
  BY <1>1, <1>3, <1>6, <1>8 DEF TypeOK, Entries, WithinBound
<1>10. ReadyIsActive' /\ SpawnedHasOwner' /\ LiveShellsRegistered'
  BY <1>6, <1>9 DEF Invariant, ReadyIsActive, SpawnedHasOwner, LiveShellsRegistered
<1>11. NamesSpawned'
  BY <1>2, <1>6, <1>7, <1>8 DEF Invariant, NamesSpawned
<1>12. IdleHasNoSession' /\ InputReachesOwnTrunk'
  BY <1>6, <1>8 DEF Invariant, IdleHasNoSession, InputReachesOwnTrunk
<1>13. ExitsOfTheDead'
  BY <1>3, <1>6, <1>7 DEF Invariant, ExitsOfTheDead
<1>14. AnsweredExitIsOwn'
  <2> SUFFICES ASSUME card # NoSession, entry'[owner[card]].info = card,
                      entry'[owner[card]].status = "exited"
               PROVE  shell[card] = "dead"
    BY <1>6 DEF AnsweredExitIsOwn
  <2>1. owner[card] \in Trunks
    BY DEF Invariant, NamesSpawned
  <2>2. entry[owner[card]].info = card
    BY <1>8, <2>1
  <2>3. CASE entry[owner[card]].status = "exited"
    BY <2>2, <2>3 DEF Invariant, AnsweredExitIsOwn
  <2>4. CASE entry[owner[card]].status # "exited"
    <3>1. Honoured(entry[owner[s]], m) /\ owner[s] = owner[card]
      BY <1>1, <1>4, <1>5, <1>6, <2>1, <2>4, HandleMessageEntries
    <3>2. m.kind = "Exit" /\ card = m.session
      BY <2>2, <3>1 DEF Honoured
    <3>3. QED
      BY <1>3, <1>4, <3>2 DEF Invariant, ExitsOfTheDead
  <2>5. QED
    BY <2>3, <2>4
<1>15. QED
  BY <1>9, <1>10, <1>11, <1>12, <1>13, <1>14 DEF Invariant

LEMMA TerminalAnswer ==
  ASSUME Invariant, ~quit, NEW s \in Sessions, SpawnResolves(s) \/ SpawnRejects(s)
  PROVE  Invariant'
<1>1. TypeOK /\ entry \in Entries /\ WithinBound(entry)
  BY DEF Invariant, TypeOK, Entries, WithinBound
<1>2. shell[s] # "unused" /\ owner[s] \in Trunks
  BY DEF Invariant, NamesSpawned, SpawnedHasOwner, SpawnResolves, SpawnRejects
<1>3. /\ UNCHANGED <<active, ready, deps, restart, card, owner, shell, registry,
                     channel, killing, quit>>
      /\ answer' = [answer EXCEPT ![s] = "none"]
  BY DEF SpawnResolves, SpawnRejects
<1>4. /\ entry' \in Entries /\ WithinBound(entry')
      /\ \A t \in Trunks :
           \/ entry'[t].info = entry[t].info /\ entry'[t].status \in {entry[t].status, "error"}
           \/ t = owner[s] /\ entry'[t].info = s /\ entry'[t].status = "ready"
  <2>1. CASE SpawnResolves(s)
    <3>1. entry' = setReady(entry, owner[s], s)
      BY <2>1 DEF SpawnResolves
    <3>2. QED
      BY <1>1, <1>2, <3>1, SetReadyEntries
  <2>2. CASE SpawnRejects(s)
    <3>1. entry' = setStatus(entry, owner[s], "error") /\ "error" \in Statuses
      BY <2>2 DEF SpawnRejects, setError, setStatus, Statuses
    <3>2. QED
      BY <1>1, <1>2, <3>1, StatusEntries
  <2>3. QED
    BY <2>1, <2>2
<1>5. TypeOK'
  BY <1>1, <1>3, <1>4 DEF TypeOK, Entries, WithinBound
<1>6. ReadyIsActive' /\ SpawnedHasOwner' /\ LiveShellsRegistered' /\ ExitsOfTheDead'
  BY <1>3, <1>5
     DEF Invariant, ReadyIsActive, SpawnedHasOwner, LiveShellsRegistered, ExitsOfTheDead
<1>7. \A r \in Sessions : answer'[r] # "none" => answer[r] # "none"
  BY <1>1, <1>3 DEF TypeOK
<1>8. NamesSpawned'
  BY <1>2, <1>3, <1>4, <1>7 DEF Invariant, NamesSpawned
<1>9. IdleHasNoSession' /\ InputReachesOwnTrunk'
  BY <1>3, <1>4 DEF Invariant, IdleHasNoSession, InputReachesOwnTrunk
<1>10. AnsweredExitIsOwn'
  BY <1>3, <1>4 DEF Invariant, AnsweredExitIsOwn, NamesSpawned
<1>11. QED
  BY <1>5, <1>6, <1>8, <1>9, <1>10 DEF Invariant

\* The native side: a shell is entered in the registry before it is answered,
\* and dies before its exit is reported.
LEMMA TerminalSpawn ==
  ASSUME Invariant, ~quit, NEW s \in Sessions, terminal_spawn(s)
  PROVE  Invariant'
<1>1. TypeOK
  BY DEF Invariant
<1>2. UNCHANGED <<active, ready, deps, restart, card, entry, owner, channel, killing, quit>>
  BY DEF terminal_spawn, windowVars
<1>3. /\ shell[s] = "requested" /\ shell'[s] \in {"alive", "dead"}
      /\ shell'[s] = "alive" => registry' = registry \cup {s}
      /\ shell'[s] = "dead" => registry' = registry
      /\ \A r \in Sessions : r # s => shell'[r] = shell[r] /\ answer'[r] = answer[r]
  BY <1>1 DEF terminal_spawn, TypeOK
<1>4. TypeOK'
  BY <1>1, <1>2 DEF terminal_spawn, TypeOK
<1>5. ReadyIsActive' /\ IdleHasNoSession' /\ InputReachesOwnTrunk'
  BY <1>2 DEF Invariant, ReadyIsActive, IdleHasNoSession, InputReachesOwnTrunk
<1>6. SpawnedHasOwner' /\ NamesSpawned' /\ AnsweredExitIsOwn' /\ ExitsOfTheDead'
  BY <1>1, <1>2, <1>3
     DEF Invariant, SpawnedHasOwner, NamesSpawned, AnsweredExitIsOwn, ExitsOfTheDead, TypeOK
<1>7. LiveShellsRegistered'
  BY <1>3, <1>4 DEF Invariant, LiveShellsRegistered
<1>8. QED
  BY <1>4, <1>5, <1>6, <1>7 DEF Invariant

LEMMA TerminalPrints ==
  ASSUME Invariant, ~quit, NEW s \in Sessions, ShellPrints(s)
  PROVE  Invariant'
<1>1. TypeOK /\ channel[s] \in Seq(Kinds) /\ "Output" \in Kinds /\ shell[s] = "alive"
  BY DEF Invariant, TypeOK, Kinds, ShellPrints
<1>2. /\ UNCHANGED <<active, ready, deps, restart, card, entry, owner, shell, registry, answer,
                     killing, quit>>
      /\ channel' = [channel EXCEPT ![s] = Append(channel[s], "Output")]
  BY DEF ShellPrints, windowVars
<1>3. /\ Append(channel[s], "Output") \in Seq(Kinds)
      /\ Len(Append(channel[s], "Output")) = Len(channel[s]) + 1
      /\ \A i \in 1..Len(channel[s]) : Append(channel[s], "Output")[i] = channel[s][i]
      /\ Append(channel[s], "Output")[Len(channel[s]) + 1] = "Output"
      /\ Len(channel[s]) \in Nat
  BY <1>1, AppendProperties
<1>4. TypeOK'
  BY <1>1, <1>2, <1>3 DEF TypeOK
<1>5. /\ ReadyIsActive' /\ IdleHasNoSession' /\ InputReachesOwnTrunk' /\ SpawnedHasOwner'
      /\ AnsweredExitIsOwn' /\ LiveShellsRegistered'
  BY <1>2, <1>4
     DEF Invariant, ReadyIsActive, IdleHasNoSession, InputReachesOwnTrunk, SpawnedHasOwner,
         AnsweredExitIsOwn, LiveShellsRegistered
<1>6. /\ \A r \in Sessions : r # s => channel'[r] = channel[r]
      /\ channel'[s] = Append(channel[s], "Output")
  BY <1>1, <1>2 DEF TypeOK
<1>7. NamesSpawned'
  BY <1>1, <1>2, <1>6 DEF Invariant, NamesSpawned
<1>8. ExitsOfTheDead'
  BY <1>2, <1>3, <1>6 DEF Invariant, ExitsOfTheDead
<1>9. QED
  BY <1>4, <1>5, <1>7, <1>8 DEF Invariant

\* The shell of a session dies, by itself or killed, and its exit is reported.
LEMMA TerminalDies ==
  ASSUME Invariant, ~quit, NEW s \in Sessions, shell[s] = "alive",
         shell' = [shell EXCEPT ![s] = "dead"],
         channel' = [channel EXCEPT ![s] = Append(@, "Exit")],
         registry' \subseteq registry, registry \subseteq registry' \cup {s},
         killing' \subseteq killing,
         UNCHANGED <<active, ready, windowVars, answer, quit>>
  PROVE  Invariant'
<1>1. TypeOK /\ channel[s] \in Seq(Kinds) /\ "Exit" \in Kinds
  BY DEF Invariant, TypeOK, Kinds
<1>2. UNCHANGED <<active, ready, deps, restart, card, entry, owner, answer, quit>>
  BY DEF windowVars
<1>3. /\ Append(channel[s], "Exit") \in Seq(Kinds)
      /\ Len(Append(channel[s], "Exit")) = Len(channel[s]) + 1
  BY <1>1, AppendProperties
<1>4. /\ \A r \in Sessions : r # s => shell'[r] = shell[r] /\ channel'[r] = channel[r]
      /\ shell'[s] = "dead" /\ channel'[s] = Append(channel[s], "Exit")
  BY <1>1 DEF TypeOK
<1>5. TypeOK'
  BY <1>1, <1>2, <1>3 DEF TypeOK
<1>6. ReadyIsActive' /\ IdleHasNoSession' /\ InputReachesOwnTrunk'
  BY <1>2 DEF Invariant, ReadyIsActive, IdleHasNoSession, InputReachesOwnTrunk
<1>7. SpawnedHasOwner' /\ AnsweredExitIsOwn' /\ ExitsOfTheDead'
  BY <1>1, <1>2, <1>4
     DEF Invariant, SpawnedHasOwner, AnsweredExitIsOwn, ExitsOfTheDead, TypeOK, NamesSpawned
<1>8. NamesSpawned'
  BY <1>1, <1>2, <1>4 DEF Invariant, NamesSpawned, TypeOK
<1>9. LiveShellsRegistered'
  BY <1>4, <1>5 DEF Invariant, LiveShellsRegistered
<1>10. QED
  BY <1>5, <1>6, <1>7, <1>8, <1>9 DEF Invariant

LEMMA TerminalKill ==
  ASSUME Invariant, ~quit, NEW s \in Sessions, terminal_kill(s)
  PROVE  Invariant'
<1>1. CASE s \in registry /\ shell[s] = "alive"
  BY <1>1, TerminalDies DEF terminal_kill
<1>2. CASE ~(s \in registry /\ shell[s] = "alive")
  <2>1. shell[s] # "alive"
    BY <1>2 DEF Invariant, LiveShellsRegistered
  <2>2. /\ UNCHANGED <<active, ready, deps, restart, card, entry, owner, shell, answer,
                       channel, quit>>
        /\ registry' = registry \ {s} /\ killing' = killing \ {s}
    BY <1>2 DEF terminal_kill, windowVars
  <2>3. TypeOK'
    BY <2>2 DEF Invariant, TypeOK
  <2>4. /\ ReadyIsActive' /\ IdleHasNoSession' /\ InputReachesOwnTrunk' /\ SpawnedHasOwner'
        /\ AnsweredExitIsOwn' /\ NamesSpawned' /\ ExitsOfTheDead'
    BY <2>2
       DEF Invariant, ReadyIsActive, IdleHasNoSession, InputReachesOwnTrunk, SpawnedHasOwner,
           AnsweredExitIsOwn, NamesSpawned, ExitsOfTheDead
  <2>5. LiveShellsRegistered'
    BY <2>1, <2>2, <2>3 DEF Invariant, LiveShellsRegistered
  <2>6. QED
    BY <2>3, <2>4, <2>5 DEF Invariant
<1>3. QED
  BY <1>1, <1>2

LEMMA TerminalKillAll ==
  ASSUME Invariant, kill_all
  PROVE  Invariant'
<1>1. TypeOK /\ LiveShellsRegistered
  BY DEF Invariant
<1>2. Len(Absent.pending) = 0 /\ Absent \in [status : Statuses, info : Sessions \cup {NoSession},
                                             pending : Seq(Message)]
  BY DEF Absent, Statuses
<1>3. TypeOK'
  <2>1. << >> \in Seq(Kinds)
    OBVIOUS
  <2>2. /\ entry' \in [Trunks -> [status : Statuses, info : Sessions \cup {NoSession},
                                  pending : Seq(Message)]]
        /\ \A t \in Trunks : Len(entry'[t].pending) <= MaxPending
    BY <1>2, BoundsAssumption DEF kill_all
  <2>3. shell' \in [Sessions -> {"unused", "requested", "alive", "dead"}]
    BY <1>1 DEF kill_all, TypeOK
  <2>4. QED
    BY <2>1, <2>2, <2>3 DEF kill_all, TypeOK
<1>4. ReadyIsActive' /\ SpawnedHasOwner'
  BY DEF kill_all, ReadyIsActive, SpawnedHasOwner
<1>5. NamesSpawned' /\ IdleHasNoSession' /\ InputReachesOwnTrunk' /\ AnsweredExitIsOwn'
  BY DEF kill_all, NamesSpawned, IdleHasNoSession, InputReachesOwnTrunk, AnsweredExitIsOwn,
         Absent
<1>6. ExitsOfTheDead'
  <2>1. \A s \in Sessions : Len(channel'[s]) = 0
    BY DEF kill_all
  <2>2. QED
    BY <2>1 DEF ExitsOfTheDead
<1>7. LiveShellsRegistered'
  BY <1>1, <1>3 DEF kill_all, LiveShellsRegistered, TypeOK
<1>8. QED
  BY <1>3, <1>4, <1>5, <1>6, <1>7 DEF Invariant

LEMMA TerminalStep == Invariant /\ [Next]_vars => Invariant'
<1> SUFFICES ASSUME Invariant, [Next]_vars PROVE Invariant'
  OBVIOUS
<1>1. CASE UNCHANGED vars
  BY <1>1
     DEF vars, windowVars, nativeVars, Invariant, TypeOK, ReadyIsActive, SpawnedHasOwner,
         NamesSpawned, IdleHasNoSession, ExitsOfTheDead, LiveShellsRegistered,
         InputReachesOwnTrunk, AnsweredExitIsOwn
<1>2. CASE ~quit /\ User
  BY <1>2, TerminalActivation, TerminalRestart DEF User
<1>3. CASE ~quit /\ RunEffect
  BY <1>3, TerminalRunEffect
<1>4. CASE ~quit /\ kill_all
  BY <1>4, TerminalKillAll
<1>5. CASE ~quit /\ \E s \in Sessions : Window(s)
  BY <1>5, TerminalDeliver, TerminalAnswer DEF Window
<1>6. CASE ~quit /\ \E s \in Sessions : Native(s)
  <2> PICK s \in Sessions : Native(s)
    BY <1>6
  <2>1. CASE ShellExits(s)
    BY <1>6, <2>1, TerminalDies DEF ShellExits
  <2>2. QED
    BY <1>6, <2>1, TerminalSpawn, TerminalKill, TerminalPrints DEF Native
<1>7. QED
  BY <1>1, <1>2, <1>3, <1>4, <1>5, <1>6 DEF Next

-----------------------------------------------------------------------------
(* In every reachable state, whatever the spawns, their answers and the     *)
(* messages of their channels meet (TerminalCard.tsx, terminalStore.ts).    *)
THEOREM TerminalInvariant == Spec => []Invariant
  BY TerminalInit, TerminalStep, PTL DEF Spec

(* A shell that runs is in the registry: the kill of the application's exit *)
(* finds it (registry.rs).                                                  *)
THEOREM ShellsRegistered == Spec => []LiveShellsRegistered
<1>1. Invariant => LiveShellsRegistered
  BY DEF Invariant
<1>2. QED
  BY <1>1, TerminalInvariant, PTL

(* What is typed into a trunk's terminal reaches a shell spawned for it.    *)
THEOREM InputStaysInTrunk == Spec => []InputReachesOwnTrunk
<1>1. Invariant => InputReachesOwnTrunk
  BY DEF Invariant
<1>2. QED
  BY <1>1, TerminalInvariant, PTL

(* An answered terminal shows the exit of its own shell only.               *)
THEOREM ExitsAreOwn == Spec => []AnsweredExitIsOwn
<1>1. Invariant => AnsweredExitIsOwn
  BY DEF Invariant
<1>2. QED
  BY <1>1, TerminalInvariant, PTL
==============================================================================
