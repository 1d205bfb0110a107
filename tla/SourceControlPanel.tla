--------------------------- MODULE SourceControlPanel ---------------------------
(***************************************************************************)
(* The source-control panel: its own state, the store of snapshots behind   *)
(* it, the hook that watches the checkout in view, and what the native side *)
(* does for them.                                                           *)
(*                                                                         *)
(* The window's thread runs one handler at a time and then the effects of   *)
(* the components whose inputs changed, so a step is a handler up to its    *)
(* await together with those effects (Become).  An awaited command is a     *)
(* record in `calls`.  Commands run one at a time; they run and answer in   *)
(* any order, except that the watch commands take effect when they are      *)
(* sent.  A checkout is one file with its two sorts of changes, and a       *)
(* version that every change of it increments.                              *)
(***************************************************************************)
EXTENDS Naturals, FiniteSets, Bags, SequencesExt

CONSTANTS
  Trunks,
  Checkouts,
  FirstTrunk,      (* the trunk in view at the start                       *)
  FirstCheckout,   (* where every trunk's checkout is at the start         *)
  Plain,           (* the checkouts that are not repositories at the start *)
  FirstFiles,      (* the changes of the others at the start               *)
  Opened,          (* the kinds of diffs that are opened                   *)
  RemoteActions,   (* which of fetch, pull and push are used               *)
  NoCheckout,
  MaxScopes,       (* Bound: checkouts resolved                            *)
  MaxVersion,      (* Bound: changes of one checkout                       *)
  MaxRevision,     (* Bound: snapshots taken of one checkout               *)
  MaxCalls,        (* Bound: commands awaited at once                      *)
  MaxMounts,       (* Bound: times the panel is shown                      *)
  MaxRelinks,      (* Bound: trunks whose checkout moves                   *)
  MaxGestures      (* Bound: activations, showing the panel, acts in it    *)

ASSUME PanelNames == FirstTrunk \in Trunks /\ FirstCheckout \in Checkouts /\
                     NoCheckout \notin Checkouts /\ Plain \subseteq Checkouts /\
                     Checkouts \cap {"none", "loading", "error"} = {}  \* a patch is its checkout's
ASSUME RemoteAssumption == RemoteActions \subseteq {"fetch", "pull", "push"} /\
                           FirstFiles \cup Opened \subseteq {"working-tree", "staged"}
ASSUME FirstScope == MaxScopes > 0
ASSUME PanelBounds ==
  \A b \in {MaxScopes, MaxVersion, MaxRevision, MaxCalls, MaxMounts, MaxRelinks,
            MaxGestures} : b \in Nat

VARIABLES
  project,    (* the trunk in view and the checkout runtime of each trunk  *)
  store,      (* the source-control store                                  *)
  panel,      (* the state of the panel's component                        *)
  watch,      (* the hook's listener and timer                             *)
  native,     (* scopes, repositories, revisions, subscriptions, events    *)
  calls,      (* the commands that are awaited, a bag                      *)
  written,    (* history: per trunk, the version its last finished action left *)
  relinked,   (* history: the trunks whose checkout moved                  *)
  gestures,   (* history: how many of those there were                     *)
  hookRuns    (* history: how often the hook ran for each scope, up to two *)

vars == <<project, store, panel, watch, native, calls, written, relinked, gestures, hookRuns>>

DiffKinds == {"working-tree", "staged"}
Scopes    == 1..MaxScopes
NoScope   == 0
FileActions  == {"stage", "unstage", "discard"}
PanelActions == RemoteActions \cup {"refresh-log", "stage-all", "commit"}

Snapshot   == [checkout : Checkouts, revision : 1..MaxRevision, seen : 0..MaxVersion,
               isRepo : BOOLEAN, files : SUBSET DiffKinds]
NoSnapshot == [checkout |-> NoCheckout, revision |-> 0, seen |-> 0, isRepo |-> FALSE,
               files |-> {}]

Runtime == [status : {"none", "resolving", "ready", "invalid"}, scope : 0..MaxScopes]

Larger(m, n) == IF m > n THEN m ELSE n

\* `then` is what the panel does with the answer, `since` the mount of the
\* panel or the number of the activation that its handler remembers.
Call == [op : {"resolve", "snapshot", "log", "mutate", "diff", "initialize", "subscribe", "listen"},
         trunk : Trunks, scope : 0..MaxScopes,
         what : FileActions \cup PanelActions \cup DiffKinds \cup {"nothing"},
         then : {"file", "panel", "nothing"}, since : 0..Larger(MaxMounts, MaxGestures),
         snap : Snapshot \cup {NoSnapshot}, wrote : 0..MaxVersion]

-----------------------------------------------------------------------------
Now == [project |-> project, store |-> store, panel |-> panel, watch |-> watch,
        native |-> native, calls |-> calls, written |-> written]

Send(a, op, trunk, scope, what, then) ==
  [a EXCEPT !.calls = @ (+) SetToBag({[op |-> op, trunk |-> trunk, scope |-> scope,
     what |-> what, then |-> then, snap |-> NoSnapshot, wrote |-> 0,
     since |-> IF op = "resolve" THEN a.project.generation
               ELSE IF then # "nothing" \/ op \in {"diff", "subscribe", "listen"} THEN a.panel.mount
               ELSE 0]})]

Running(c) == [Now EXCEPT !.calls = @ (-) SetToBag({c})]
Replace(a, d) == [a EXCEPT !.calls = @ (+) SetToBag({d})]

CheckoutOf(a, s) == a.native.scopes[s].checkout

\* The scope of the panel's `checkout`, when the panel is on the screen.
ShownScope(a) ==
  LET runtime == a.project.runtime[a.project.active]
  IN  IF a.panel.mounted /\ runtime.status = "ready" THEN runtime.scope ELSE NoScope

ShownSnapshot(a) == a.store.snapshot[a.project.active]

\* The panel beyond its early returns, and the dialog that lies over it.
MainView(a) ==
  /\ a.panel.mounted
  /\ a.project.runtime[a.project.active].status \in {"none", "ready"}
  /\ IF ShownSnapshot(a) = NoSnapshot THEN ~a.store.loading[a.project.active]
     ELSE ShownSnapshot(a).isRepo

\* What DiffInline shows under the row that is open.
ShownDiff == IF panel.expanded = "none" THEN "none" ELSE panel.diffs[panel.expanded]

DiscardShown(a) == MainView(a) /\ a.panel.discardTarget # NoCheckout

-----------------------------------------------------------------------------
(***************************************************************************)
(* The store.                                                               *)
(***************************************************************************)
\* loadSnapshot up to its await, and the refresh of a mutation, which remains
\* the panel's action and knows the version the mutation left.
loadSnapshot(a, trunk, scope) ==
  Send([a EXCEPT !.store.loading[trunk] = TRUE], "snapshot", trunk, scope, "nothing", "nothing")

refresh(a, mutation) ==
  Replace([a EXCEPT !.store.loading[mutation.trunk] = TRUE], [mutation EXCEPT !.op = "snapshot"])

\* Mutant: answers are applied in the order they arrive.
applyAnySnapshot(a, trunk, result) ==
  [a EXCEPT !.store.snapshot[trunk] = result, !.store.lastRevision[trunk] = result.revision]

applySnapshot(a, trunk, result) ==
  IF result.revision < a.store.lastRevision[trunk] THEN a
  ELSE [a EXCEPT !.store.snapshot[trunk] = result,
                 !.store.lastRevision[trunk] = result.revision]

\* The message itself is layout; `invalid` tells that the error's code is
\* checkout-invalid, and then the project store is told.
setError(a, trunk, invalid) ==
  IF invalid
  THEN [a EXCEPT !.project.runtime[trunk] = [status |-> "invalid", scope |-> NoScope]]
  ELSE a

-----------------------------------------------------------------------------
(***************************************************************************)
(* The effects of the panel and of its watch hook.  They depend on the      *)
(* trunk and on its checkout, which every resolution makes anew.            *)
(***************************************************************************)
\* Mutant: the timer of the checkout that was left goes on.
KeepTimer(a, scope) ==
  IF scope = NoScope THEN a
  ELSE [a EXCEPT !.watch.listening = NoScope, !.native.subscribed = @ \ {scope}]

LeaveCheckout(a, scope) ==
  IF scope = NoScope THEN a
  ELSE [a EXCEPT !.watch = [listening |-> NoScope, timer |-> NoScope],
                 !.native.subscribed = @ \ {scope}]

EnterCheckout(a, scope) ==
  IF scope = NoScope THEN a
  ELSE LET trunk  == a.project.active
           loaded == loadSnapshot(a, trunk, scope)
           logged == IF trunk \in a.store.log THEN loaded
                     ELSE Send(loaded, "log", trunk, scope, "nothing", "nothing")
       IN  Send([logged EXCEPT !.native.subscribed = @ \cup {scope}],
                "subscribe", trunk, scope, "nothing", "nothing")

noDiffs == [k \in DiffKinds |-> "none"]

\* The open diff is closed when its file is no longer listed.
CloseGoneDiff(a) ==
  LET k == a.panel.expanded
  IN  IF k \in DiffKinds /\ k \notin ShownSnapshot(a).files
      THEN [a EXCEPT !.panel.expanded = "none", !.panel.diffs[k] = "none"]
      ELSE a

Effects(before, a) ==
  LET was     == ShownScope(before)
      is      == ShownScope(a)
      moved   == EnterCheckout(LeaveCheckout(a, was), is)
      cleared == [moved EXCEPT !.panel.expanded = "none", !.panel.diffs = noDiffs]
  IN  CloseGoneDiff(IF was = is THEN a ELSE cleared)

\* The quantifier only names the state after the effects.
Become(a) ==
  \E b \in {Effects(Now, a)} :
    /\ BagCardinality(b.calls) <= MaxCalls
    /\ project' = b.project /\ store' = b.store /\ panel' = b.panel /\ watch' = b.watch
    /\ native' = b.native /\ calls' = b.calls /\ written' = b.written
    /\ LET s == ShownScope(b)
       IN  hookRuns' = IF s \in {NoScope, ShownScope(Now)} \/ hookRuns[s] = 2 THEN hookRuns
                       ELSE [hookRuns EXCEPT ![s] = @ + 1]
    /\ UNCHANGED relinked

Move(a) == Become(a) /\ UNCHANGED gestures

Gesture == gestures < MaxGestures /\ gestures' = gestures + 1

\* What a user does in the panel when no dialog is open.
Handle(a) == Gesture /\ MainView(Now) /\ ~DiscardShown(Now) /\ Become(a)

closedPanel == [mounted |-> FALSE, mount |-> 0, busyAction |-> FALSE, busyFile |-> FALSE,
                expanded |-> "none", diffs |-> noDiffs,
                discardTarget |-> NoCheckout]

Init ==
  /\ project = [active |-> FirstTrunk, generation |-> 0,
                runtime |-> [t \in Trunks |->
                   IF t = FirstTrunk THEN [status |-> "ready", scope |-> 1]
                   ELSE [status |-> "none", scope |-> NoScope]],
                home |-> [t \in Trunks |-> FirstCheckout]]
  /\ store = [snapshot |-> [t \in Trunks |-> NoSnapshot], lastRevision |-> [t \in Trunks |-> 0],
              loading |-> [t \in Trunks |-> FALSE],
              log |-> {}]
  /\ panel = closedPanel
  /\ watch = [listening |-> NoScope, timer |-> NoScope]
  /\ native = [scopes |-> <<[trunk |-> FirstTrunk, checkout |-> FirstCheckout]>>, subscribed |-> {}, events |-> {},
               repo |-> [c \in Checkouts |-> [version |-> 0, revision |-> 0,
                 files |-> IF c \in Plain THEN {} ELSE FirstFiles, isRepo |-> c \notin Plain]]]
  /\ calls = EmptyBag
  /\ written = [t \in Trunks |-> 0]
  /\ relinked = {}
  /\ gestures = 0
  /\ hookRuns = [s \in Scopes |-> 0]

-----------------------------------------------------------------------------
(***************************************************************************)
(* The panel's surroundings: the project store and the right side panel.    *)
(***************************************************************************)
\* projectActivateTrunk up to its await; it may be a handler's last step, so
\* a dialog of the panel does not keep it back.
Activate(t) ==
  /\ Gesture
  /\ Become(Send([Now EXCEPT !.project.active = t, !.project.generation = gestures + 1,
                    !.project.runtime[t] = [status |-> "resolving", scope |-> NoScope]],
                 "resolve", t, NoScope, "nothing", "nothing"))

\* The checkout of a trunk is elsewhere from now on: it was relinked, or its
\* worktree was recreated.  Activating it again resolves the new one.
Relink(t, c) ==
  /\ c # project.home[t] /\ Cardinality(relinked) < MaxRelinks
  /\ project' = [project EXCEPT !.home[t] = c]
  /\ relinked' = relinked \cup {t}
  /\ UNCHANGED <<store, panel, watch, native, calls, written, gestures, hookRuns>>

ShowPanel ==
  /\ ~panel.mounted /\ panel.mount < MaxMounts /\ Gesture
  /\ Become([Now EXCEPT !.panel.mounted = TRUE, !.panel.mount = @ + 1])

HidePanel ==
  /\ panel.mounted /\ ~DiscardShown(Now)
  /\ Move([Now EXCEPT !.panel = [closedPanel EXCEPT !.mount = panel.mount]])

-----------------------------------------------------------------------------
(***************************************************************************)
(* What the user does in the panel.                                         *)
(***************************************************************************)
scope  == ShownScope(Now)
active == project.active

\* runPanelAction around a command of the store.
runPanelAction(action, op) ==
  /\ ~panel.busyAction /\ scope # NoScope
  /\ Handle(Send([Now EXCEPT !.panel.busyAction = TRUE], op, active, scope, action, "panel"))

\* With some message in its field.
CommitChanges == runPanelAction("commit", "mutate")
RemoteAction(action) == runPanelAction(action, "mutate")
StageAll == "working-tree" \in ShownSnapshot(Now).files /\ runPanelAction("stage-all", "mutate")
RefreshLog == runPanelAction("refresh-log", "log")

\* runFileAction, for the only file.
FileAction(a, kind) ==
  IF a.panel.busyFile THEN a
  ELSE Send([a EXCEPT !.panel.busyFile = TRUE], "mutate", active, scope, kind, "file")

\* A row of a section has the buttons of its section; the rows of other
\* files keep theirs while one is busy.
RowButtons(k) == IF k = "staged" THEN {"unstage"} ELSE {"stage", "discard"}
RowButton(k, kind) == k \in ShownSnapshot(Now).files /\ kind \in RowButtons(k)

Stage ==
  /\ RowButton("working-tree", "stage") /\ scope # NoScope
  /\ Handle(FileAction(Now, "stage"))

Unstage ==
  /\ RowButton("staged", "unstage") /\ scope # NoScope
  /\ Handle(FileAction(Now, "unstage"))

AskDiscard ==
  /\ RowButton("working-tree", "discard")
  /\ Handle([Now EXCEPT !.panel.discardTarget = ShownSnapshot(Now).checkout])

\* A confirmed discard is dropped while another file command runs.
ConfirmDiscard ==
  /\ DiscardShown(Now) /\ scope # NoScope
  /\ Move(FileAction([Now EXCEPT !.panel.discardTarget = NoCheckout], "discard"))

CancelDiscard ==
  /\ DiscardShown(Now)
  /\ Move([Now EXCEPT !.panel.discardTarget = NoCheckout])

toggleDiff(k) ==
  LET shown == [Now EXCEPT !.panel.expanded = k]
  IN  /\ k \in ShownSnapshot(Now).files /\ scope # NoScope
      /\ Handle(IF panel.expanded = k THEN [Now EXCEPT !.panel.expanded = "none"]
                ELSE IF panel.diffs[k] # "none" THEN shown
                ELSE Send([shown EXCEPT !.panel.diffs[k] = "loading"], "diff", active, scope, k, "nothing"))

Initialize ==
  /\ panel.mounted /\ scope # NoScope
  /\ ShownSnapshot(Now) # NoSnapshot /\ ~ShownSnapshot(Now).isRepo
  /\ Move(Send(Now, "initialize", active, scope, "nothing", "nothing"))

-----------------------------------------------------------------------------
(***************************************************************************)
(* The native side: files change, commands run, events are sent.            *)
(***************************************************************************)
Repo(s)  == native.repo[CheckoutOf(Now, s)]

\* A change of the checkout, seen by the watcher when one is there.
Changed(a, c, files) ==
  LET watched == \E s \in a.native.subscribed : CheckoutOf(a, s) = c
  IN  [a EXCEPT !.native.repo[c].version = @ + 1, !.native.repo[c].files = files,
                !.native.events = IF watched THEN @ \cup {c} ELSE @]

\* Someone edits the file, or works with git outside the application.
EditOutside(c) ==
  LET files == native.repo[c].files
  IN  /\ native.repo[c].version < MaxVersion /\ native.repo[c].isRepo
      /\ Move(Changed(Now, c, IF "working-tree" \in files THEN {} ELSE files \cup {"working-tree"}))

\* snapshot_with draws a revision and asks git for the status.
TakeSnapshot(c) ==
  LET at  == CheckoutOf(Now, c.scope)
      git == native.repo[at]
      r   == git.revision + 1
  IN  /\ c.op = "snapshot" /\ c.snap = NoSnapshot /\ r <= MaxRevision
      /\ Move(Replace([Running(c) EXCEPT !.native.repo[at].revision = r],
                      [c EXCEPT !.snap = [checkout |-> at, revision |-> r, seen |-> git.version,
                                          isRepo |-> git.isRepo, files |-> git.files]]))

\* What a mutation leaves of the file's changes.
After(what, files) ==
  CASE what \in {"stage", "stage-all"} /\ "working-tree" \in files ->
         (files \ {"working-tree"}) \cup {"staged"}
    [] what = "unstage" /\ "staged" \in files -> (files \ {"staged"}) \cup {"working-tree"}
    [] what = "discard" -> files \ {"working-tree"}
    [] what = "commit"  -> files \ {"staged"}
    [] OTHER            -> files

RunMutation(c) ==
  LET at == CheckoutOf(Now, c.scope)
      v  == native.repo[at].version + 1
  IN  /\ c.op = "mutate" /\ c.wrote = 0 /\ native.repo[at].isRepo /\ v <= MaxVersion
      /\ Move(Replace(Changed(Running(c), at, After(c.what, native.repo[at].files)),
                        [c EXCEPT !.wrote = v, !.what = "nothing"]))

\* The broker's debounce ends; the event reaches the hook's listener when it
\* listens on that checkout, and starts its timer anew.
WatchEvent(c) ==
  /\ c \in native.events
  /\ LET heard == watch.listening # NoScope /\ CheckoutOf(Now, watch.listening) = c
     IN  Move([Now EXCEPT !.native.events = @ \ {c},
                            !.watch.timer = IF heard THEN watch.listening ELSE @])

\* Five seconds after the last event the hook refreshes its trunk.
RefreshTimer ==
  LET s == watch.timer
  IN  /\ s # NoScope
      /\ Move(loadSnapshot([Now EXCEPT !.watch.timer = NoScope], native.scopes[s].trunk, s))

-----------------------------------------------------------------------------
(***************************************************************************)
(* Answers.  What follows an await in the panel does nothing once the panel *)
(* was hidden, even when it is shown again.                                 *)
(***************************************************************************)
Mounted(c) == panel.mounted /\ c.since = panel.mount

\* Mutant: the panel stays busy when its command failed.
FinishedWell(a, c, ok) ==
  IF c.then = "nothing" \/ ~Mounted(c) \/ ~ok THEN a
  ELSE IF c.then = "file" THEN [a EXCEPT !.panel.busyFile = FALSE]
  ELSE [a EXCEPT !.panel.busyAction = FALSE]

\* The end of runPanelAction and runFileAction, whether the command succeeded
\* or not.
Finished(a, c, ok) ==
  IF c.then = "nothing" \/ ~Mounted(c) THEN a
  ELSE IF c.then = "file" THEN [a EXCEPT !.panel.busyFile = FALSE]
  ELSE [a EXCEPT !.panel.busyAction = FALSE]

\* Commands fail with checkout-invalid once the checkout is elsewhere.
Moved(c) == CheckoutOf(Now, c.scope) # project.home[c.trunk]

\* A resolution that was overtaken by another activation changes nothing.
activationIsCurrent(c) == active = c.trunk /\ project.generation = c.since

ResolveReady(c) ==
  LET s == Len(native.scopes) + 1
      registered == [Running(c) EXCEPT !.native.scopes =
                       Append(@, [trunk |-> c.trunk, checkout |-> project.home[c.trunk]])]
  IN  /\ c.op = "resolve" /\ s <= MaxScopes
      /\ Move(IF ~activationIsCurrent(c) THEN registered
                ELSE [registered EXCEPT !.project.runtime[c.trunk] =
                                          [status |-> "ready", scope |-> s]])

ResolveInvalid(c) ==
  /\ c.op = "resolve"
  /\ Move(IF ~activationIsCurrent(c) THEN Running(c)
            ELSE [Running(c) EXCEPT !.project.runtime[c.trunk] =
                                      [status |-> "invalid", scope |-> NoScope]])

\* refresh keeps its own failure to itself, so the mutation it follows has
\* succeeded either way.
SnapshotAnswered(c) ==
  LET applied == applySnapshot(Running(c), c.trunk, c.snap)
      loaded  == [applied EXCEPT !.store.loading[c.trunk] = FALSE]
  IN  /\ c.op = "snapshot" /\ c.snap # NoSnapshot
      /\ Move(Finished([loaded EXCEPT !.written[c.trunk] = IF c.wrote # 0 THEN c.wrote ELSE @],
                         c, TRUE))

SnapshotFailed(c) ==
  /\ c.op = "snapshot" /\ c.snap = NoSnapshot
  /\ Move(Finished([setError(Running(c), c.trunk, Moved(c))
                        EXCEPT !.store.loading[c.trunk] = FALSE], c, TRUE))

MutationAnswered(c) ==
  /\ c.op = "mutate" /\ c.wrote # 0
  /\ Move(refresh(Running(c), c))

MutationFailed(c) ==
  /\ c.op = "mutate" /\ c.wrote = 0
  /\ Move(Finished(setError(Running(c), c.trunk, Moved(c)), c, FALSE))

LogAnswered(c) ==
  /\ c.op = "log"
  /\ Move(Finished([Running(c) EXCEPT !.store.log = @ \cup {c.trunk}], c, TRUE))

LogFailed(c) ==
  /\ c.op = "log"
  /\ Move(Finished(setError(Running(c), c.trunk, Moved(c)), c, FALSE))

\* The patch is kept under its kind and path, whatever the panel shows by now.
DiffAnswered(c) ==
  /\ c.op = "diff"
  /\ Move(IF Mounted(c) THEN [Running(c) EXCEPT !.panel.diffs[c.what] = CheckoutOf(Now, c.scope)]
            ELSE Running(c))

DiffFailed(c) ==
  LET failed == IF Moved(c) THEN [Running(c) EXCEPT !.project.runtime[c.trunk] =
                                    [status |-> "invalid", scope |-> NoScope]]
                ELSE Running(c)
  IN  /\ c.op = "diff"
      /\ Move(IF Mounted(c) THEN [failed EXCEPT !.panel.diffs[c.what] = "error"] ELSE failed)

InitializeAnswered(c) ==
  /\ c.op = "initialize"
  /\ Move(loadSnapshot([Running(c) EXCEPT !.native.repo[CheckoutOf(Now, c.scope)].isRepo = TRUE],
                         c.trunk, c.scope))

InitializeFailed(c) == c.op = "initialize" /\ Move(Running(c))

\* The hook's effect has been cleaned up since it sent the command.
Cancelled(c) == ~Mounted(c) \/ ShownScope(Now) # c.scope

SubscribeAnswered(c) ==
  /\ c.op = "subscribe"
  /\ Move(IF Cancelled(c) THEN [Running(c) EXCEPT !.native.subscribed = @ \ {c.scope}]
            ELSE Send(Running(c), "listen", c.trunk, c.scope, "nothing", "nothing"))

\* Mutant: a listener registered after the cleanup listens.
ListenAnsweredAnyway(c) ==
  /\ c.op = "listen"
  /\ Move([Running(c) EXCEPT !.watch.listening = c.scope])

\* A listener registered after the cleanup stays, but does nothing.
ListenAnswered(c) ==
  /\ c.op = "listen"
  /\ Move(IF Cancelled(c) THEN Running(c) ELSE [Running(c) EXCEPT !.watch.listening = c.scope])

-----------------------------------------------------------------------------
Answers(c) ==
  \/ ResolveReady(c) \/ ResolveInvalid(c)
  \/ TakeSnapshot(c) \/ SnapshotAnswered(c)
  \/ RunMutation(c) \/ MutationAnswered(c)
  \/ LogAnswered(c) \/ DiffAnswered(c) \/ InitializeAnswered(c) \/ InitializeFailed(c)
  \/ SubscribeAnswered(c) \/ ListenAnswered(c)
  \/ SnapshotFailed(c) \/ MutationFailed(c) \/ LogFailed(c) \/ DiffFailed(c)

Next ==
  \/ \E t \in Trunks : Activate(t) \/ \E c \in Checkouts : Relink(t, c)
  \/ ShowPanel \/ HidePanel
  \/ CommitChanges \/ StageAll \/ RefreshLog \/ Stage \/ Unstage
  \/ \E action \in RemoteActions : RemoteAction(action)
  \/ AskDiscard \/ ConfirmDiscard \/ CancelDiscard \/ Initialize
  \/ \E k \in Opened : toggleDiff(k)
  \/ \E c \in Checkouts : WatchEvent(c) \/ EditOutside(c)
  \/ RefreshTimer
  \/ \E c \in DOMAIN calls : Answers(c)

Spec == Init /\ [][Next]_vars

-----------------------------------------------------------------------------
TypeOK ==
  /\ project \in [active : Trunks, generation : 0..MaxGestures, runtime : [Trunks -> Runtime],
                 home : [Trunks -> Checkouts]]
  /\ store \in [snapshot : [Trunks -> Snapshot \cup {NoSnapshot}],
                lastRevision : [Trunks -> 0..MaxRevision], loading : [Trunks -> BOOLEAN],
                log : SUBSET Trunks]
  /\ panel \in [mounted : BOOLEAN, mount : 0..MaxMounts, busyAction : BOOLEAN, busyFile : BOOLEAN,
                expanded : DiffKinds \cup {"none"},
                diffs : [DiffKinds -> Checkouts \cup {"none", "loading", "error"}],
                discardTarget : Checkouts \cup {NoCheckout}]
  /\ watch \in [listening : 0..MaxScopes, timer : 0..MaxScopes]
  /\ native.scopes \in Seq([trunk : Trunks, checkout : Checkouts])
  /\ native.subscribed \subseteq Scopes /\ native.events \subseteq Checkouts
  /\ native.repo \in [Checkouts -> [version : 0..MaxVersion, revision : 0..MaxRevision,
                                    files : SUBSET DiffKinds, isRepo : BOOLEAN]]
  /\ IsABag(calls) /\ DOMAIN calls \subseteq Call
  /\ written \in [Trunks -> 0..MaxVersion] /\ relinked \subseteq Trunks
  /\ gestures \in 0..MaxGestures
  /\ hookRuns \in [Scopes -> 0..2]

\* When an action of the panel has ended well, the store's snapshot shows what
\* it did: no answer of an earlier load, which may come in later, takes it
\* back.  Only a trunk whose checkout moved is exempt: revisions are counted
\* per checkout but compared per trunk.
ReadYourWrites ==
  \A t \in Trunks \ relinked : store.snapshot[t].seen >= written[t]

\* The panel and the store are never left busy: whatever shows a spinner waits
\* for a command that will end it.
BusyIsAwaited ==
  /\ TypeOK
  /\ panel.busyAction => \E c \in DOMAIN calls : c.then = "panel" /\ c.since = panel.mount
  /\ panel.busyFile => \E c \in DOMAIN calls : c.then = "file" /\ c.since = panel.mount
  /\ \A t \in Trunks : store.loading[t] => \E c \in DOMAIN calls : c.op = "snapshot" /\ c.trunk = t
  /\ ShownDiff = "loading" =>
       \E c \in DOMAIN calls : c.op = "diff" /\ c.what = panel.expanded /\ c.since = panel.mount

\* Events and the refresh they lead to are about the checkout in view, and no
\* subscription outlives the view it was made for.
WatchFollowsView ==
  /\ {watch.listening, watch.timer} \subseteq {NoScope, ShownScope(Now)}
  /\ native.subscribed \subseteq {ShownScope(Now)}

\* As long as the hook listens, the broker sends: unless the hook ran twice
\* for the same scope, when the first run's late unsubscribe ends the second's
\* subscription, which has the same identity.
ListensToBroker ==
  watch.listening # NoScope =>
    watch.listening \in native.subscribed \/ hookRuns[watch.listening] > 1
=============================================================================
