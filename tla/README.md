# A verification project for opencore-taurians

The repository is a desktop application: a Tauri (Rust) process that runs git,
shells, file operations and provider HTTP, and a React window whose zustand stores
hold projects, trunks, editor tabs, terminals and source-control snapshots.  This
directory models its stateful parts in TLA+, checks them with TLC on small instances
and proves the most important results with TLAPS for every instance.

Paths below are relative to `src/` of the repository; `native/` stands for
`src-tauri/src/` and `window/` for `src/modules/`.

## 1. Inventory

| Component | State it keeps | Operations | Talks to | What is hard | What makes it correct |
|---|---|---|---|---|---|
| Operation coordinator (`native/source_control/coordinator.rs`, `process.rs`, `native/quit.rs`) | a queue and a condition variable per repository, the map of active operations with a cancel flag and a child slot, pending counts, the quit counter | invoke, acquire, begin, run git, poll, cancel, Drop | every coordinated git command; the quit dialog | threads, a polling loop, cancel in the middle, panics, the order inside Drop | one git process per queue; counters exact; answers and events match what happened; every operation ends |
| Mutations, remote commands, clone (`mutations.rs`, `remote.rs`, `clone.rs`, `submodule.rs`, `lfs.rs`, `hooks.rs`) | none of their own | stage, discard, commit, stash, fetch, pull, push, clone | the coordinator, git | several processes in one operation, one of several failing | they only run inside a permit |
| Worktree commands (`worktree.rs`) | directories under the managed root | create, attach, inspect, remove, repair | coordinator, scope registry | what was inspected has changed when it is removed | nothing dirty or moved is removed |
| Scopes and snapshots (`scope.rs`, `scope_registry.rs`, `repository.rs`) | scope records, revision counters | resolve, register, invalidate, snapshot | window's source-control store | the revision is drawn before git status runs; answers arrive out of order | the newest state wins |
| Source-control store (`window/source-control/state`) | snapshots, errors, last revision per trunk | load, refresh, mutate, clear, bind | native commands, project store | late answers for another trunk | what an action of the panel did stays visible; no spinner is left alone |
| Projects and trunks (`window/project`) | projects, trunks, active ids, checkout runtimes (a persisted store) | open, activate, add, delete, pin, relink, boot | workspace, shell, chat stores; native checkout and worktree commands | state read before an await; restart between native call and metadata; the retention sweep | no dangling trunk, no overtaken answer applied, nothing pinned or recent swept |
| Chat (`window/chat`) | messages per trunk | append, delete | project store | cascades | messages have a trunk |
| Terminal (`window/terminal`, `native/terminal`) | entries per trunk, one xterm, native registry, reader threads | effect run and cleanup, spawn, write, kill, exit, quit | project store, PTY | answers and exits that arrive after the trunk changed | input, output and exits reach their own session; no shell outlives the application |
| Watch broker (`native/watch`, its hooks in the window) | subscriptions, debounce threads | subscribe, unsubscribe, event | explorer, source control | a listener registered late; two runs of an effect under one identity | the view that is shown is watched and no other |
| Editor (`window/editor`, `native/editor`) | tabs, buffers, dirty flags | open, edit, save, save as, close, quit | file commands | edits and closing while a save is running | nothing the user typed is lost silently |
| Explorer (`window/explorer`, `native/explorer`) | loaded directories, expansion, search, rename | load, refresh, rename, search | file commands, workspace | listings and searches that end after a renaming, a refresh or a change of the root | the cache stays a tree; a search stays in its root and misses no folder |
| Session persistence (`window/session/infrastructure`) | pending writes, one timer, the key-value store | get, set, remove, clear, flush | every persisted store | writes and resets during a flush, late hydration | a reset leaves nothing stored; what waits is written |
| Provider transport and clients (`native/provider`) | tokens in the keychain | request, retry, paginate, dispatch | hosts over HTTP | retries, limits, error mapping | bounded retries; no answer past the limit |
| Git parsing (`parse.rs`, `diff.rs`, `history.rs`, `refs.rs`) | none | parse | snapshots, panels | text formats | pure functions |
| Shell layout (`window/shell`, `window/workspace-popup/ui`) | visible panels, widths, drags, the scale, mounted and revealed surfaces | toggle, drag, resize, scale, open and close | the window, the session root | transitions, frames and timeouts that end after the state they were started for; rounding | surfaces settle as set last; columns fit the window; the scale fits the monitor |
| Session screens and onboarding (`window/session/ui`, `window/onboarding`) | the screens of the transition, its timeout, the window's size | enter, commit, abort, reset | session store, window | a commit that races a reset; overlapping runs of the window's effect | screens, flag and window agree |
| UI components | | draw | | | |

Interaction is by calls with an awaited answer (`invoke`), by events and channels
from native threads, and by direct calls between stores on the window's one thread.

## 2. Modules

| Module | Models |
|---|---|
| `SerialOperations` | what the coordinator promises: operations of one queue run one at a time, each announced once and reported once |
| `OperationCoordinator` | the coordinator, the process loop, cancellation, Drop and the quit counter, one action per critical section |
| `OperationCoordinatorProps` | its properties and the refinement mapping onto `SerialOperations` |
| `OperationCoordinatorProofs` | its theorems |
| `TerminalSessions` | the terminal card's effect, the store's entries, channels, the native registry and shells |
| `TerminalSessionsProofs` | its theorems |
| `ProjectTrunks` | the project store with what it changes in the chat, workspace and shell stores; activation, worktree children, deletion, source-control answers, retention, quit and boot |
| `ProjectTrunksProofs` | its theorems |
| `EditorTabs` | the editor's store, the dialogs of its header, the window's close handler and the file commands they await |
| `EditorTabsProofs` | its theorems |
| `SourceControlPanel` | the source-control panel, the store of snapshots, the hook that watches the checkout in view, and the scopes, revisions, subscriptions and one file per checkout of the native side |
| `SourceControlPanelProofs` | its theorems |
| `ExplorerPanel` | the explorer's store with its search index, the panel's watch, the context menu and drops, and the native side's disk |
| `ExplorerPanelProofs` | its theorems |
| `SessionBoot` | the window from its start: the storage under the persisted stores, hydration, the screens, the window's size and the reset |
| `SessionBootProofs` | its theorems |
| `ShellLayout` | panels, settings page, popup, handles, columns and scale of the shell |
| `ShellLayoutProofs` | its theorems |
| `MC*` | instances for TLC |

### OperationCoordinator

An operation stands for one invocation of a coordinated command and the thread it
runs on.  `stage` is where the thread is; `running`, `pending`, `ops`, `slot`, `flag`,
`guards` and `child` are the fields of `RepositoryQueue`, the coordinator's maps, the
child slot, the cancel flag, `QuitGuard` and the git process.  The steps follow the
code's locks: what one lock or one atomic instruction covers is one action, so a
cancel call, another operation or the quit dialog can come between any two.
`ReapChild`, `SeesCancellation`, `SeesTimeout`, `FindsSlotEmpty`, `TryWaitFails` are the
exits of the polling loop.  `Unwind` is a panic in the command: Rust drops the guard.

Assumptions.  Each command has a thread of its own, as the coordinator's tests give it.  The commands are not `async`,
and Tauri runs such commands one after another on its main thread: what the model says about overlapping operations
is the coordinator's own contract, which matters once a command leaves that thread.
`try_wait` fails only when the child is no longer ours to wait for.  Cancel is called
at most once per operation (the bound `cancels`).

### TerminalSessions

A session is one call of `spawn`; `owner` is the trunk its closures captured.  `entry` is
`sessionsByTrunkId`, and the store's setters are functions on it under their own names.
`RunEffect` is the whole effect: the cleanup of the previous run and then the early
returns, or the mount with the drained buffer and the spawn.  A delivered message goes
to whichever xterm is mounted, or into the buffer of its trunk.  Activation is reduced to
what the card reads: the active trunk and whether its checkout is ready.

### ProjectTrunks

The store's operations are functions on the record `store` (projects, trunks, active
ids), as zustand's setters are functions on the state.  A step is the code between two
awaits: `BeginActivation` is `projectActivateTrunk` up to its await, with the card it restores
and the subscriber that saves the card; the three `Resolve...` actions are what follows.
Deletions, worktree creations and source-control requests wait likewise, and may be
overtaken by every other action, by `Quit` (a crash loses the same) and by the `Boot`
after it, which rehydrates (`merge`), migrates, sweeps and activates in one synchronous run.
A retry is the user's: the same action again.  The persisted stores are taken
to be written when the application quits; how they are written is the subject of `SessionBoot`.

### EditorTabs

`ed` is the editor store, and its setters are functions on it, under their own names (`Among` keeps the tabs of a
set in their order, as the store's filters do).  `header`
holds the states and refs of `EditorCardHeader` and, as `asking` and `askRest`, the promise the window's
close handler awaits with the untitled tabs it has still to ask for.  `calls` is a bag of the file
commands on their way; each record holds what its closure captured and what its caller does next (`then`,
`rest`).  `AnswerSuccess` and `AnswerFailure` run the code behind the await up to the next one.  The
user reaches what is behind a modal dialog only by the shortcuts that listen on the window or the menu.

Abstractions.  Files are not kept: a read finds any content, and a command fails or succeeds, except that
outside its project root all but the external read fail.  The queries of `openPaths` and the overwrite check
of Save As answer at once, and the latter is confirmed.  Close All, Close Others, drops and deletion in the explorer
are left out; so is the shell card, which only decides when `LeaveCard` happens.  A closed window has no dialogs and awaits nothing.
`lateEdits` is a history variable: the files dirty since an edit after the window was asked to close.

### SourceControlPanel

A step is a handler up to its await together with the effects of the components whose inputs it changed
(`Become`): the panel's mount, the hook's cleanup and new run, the loads for another checkout.  `calls` is a
bag of the commands on their way, each with what its closure captured (`since` is the mount or the activation
it was sent in).  A command runs in one step (`TakeSnapshot`, `RunMutation`) and answers in another, so answers
arrive in any order.  A checkout is one file with its working-tree and staged changes and a version that every
change increments (its name is none of the words for the state of a file's diff, which `PanelNames` says); a snapshot remembers the version it has seen, which is what `ReadYourWrites` is about.
Each checkout has a revision counter and, in the broker, at most one pending event, which stands for the
debounce threads.  `written`, `relinked`, `gestures` and `hookRuns` are history variables.

Abstractions.  Stashes, `clearTrunk` and the operation events have no caller or reader in the interface.  What
git does to branches and remotes is left out, and so are the messages and the commit's text.

### ExplorerPanel

`tree` is the explorer's store, `native.disk` the files and folders; a path is a sequence of names, and whether
there is a query is kept, not its text.  A native command takes effect when it is sent and what it found travels
with the call; the answer and what follows it up to the next await is one step.  A refresh is a chain of listings
(`k`), a search a walk with the token it was started with (`Walked`: what is `Reached` through cached folders,
and the shallowest folder that has to be listed; the code's recursion visits the same), and `watchCalls` are the overlapping runs of
`applyWatch` in the panel's effect.  `gaps` is a history variable: a listing failed or came too late, or a folder
was made or renamed, which no search of the code follows.

Abstractions.  The selected path, messages, revealing and copying a path, and the editor's tabs are left out;
the watch's answers come in the order the commands were sent.

### SessionBoot

`storage` is the batched storage: the map of pending items in the order of their keys, its timer, and the flushes
that are in their loop, each at the item it awaits; a Map's iterator sees what is set and cleared under it, which
`setItem`, `Cleared` and `FlushOn` keep.  Two of the six persisted stores stand for all: the session store, whose flag
the screens follow, and the theme.  `screens` is the state of `useSessionScreenTransition`, `window` the size and
the resizes on their way, `resets` the loops of deletions that run.

Assumptions.  The plugin's store takes commands in the order they are sent, and resizes are answered in order.
Failures of plugin calls, `removeItem` (which nothing calls) and `save` are left out.  A quit may fall anywhere
and loses what was not written; every stored session is an initial state.

### ShellLayout

A surface is the store's flag, the component's `mounted` and `revealed`, the frames it has requested and whether
its CSS transition runs; a popup, a gutter and the right panel's feature are alike.  The column widths are
the code's integer arithmetic over the window's width and the scale.  `gui.calls` are the awaited calls to
the window of the slider, the settings page and the window's effect, each with what it read before.
`FirstArea` is the work area when the window opens.

Assumptions.  Styles are computed between two steps, so a change of style starts its transition; with reduced motion
there is none, and one that runs is cancelled without `transitionend`.  The window answers in order.
Font sizes, the bottom panel and the window's buttons are left out.

## 3. What the runs check

| Run | Instance | Shows |
|---|---|---|
| `op_processes` | two operations of several processes on one repository, a clone outside of it, cancellations, timeouts, failures, panics | no two git processes of a queue at once; the quit guard never says "safe" beside a running git; both counters exact; "not found" only after the terminal event; "cancelled" only if asked; a cancel leaves no placed child alive |
| `op_waiters` | three operations on one queue, spurious wakeups | the coordinator implements `SerialOperations`; under fairness every operation ends |
| `op_worktree` (violation) | a commit and a worktree creation | worktree creation waits in another queue than the repository's other commands |
| `terminal` | two trunks, two spawns, buffer of two, one output on its way | shells stay registered; input and exits go to their own session; nothing stays spawning |
| `project` | two folders, two projects, two trunks, two activations a run, two deletions, two days | the store stays a forest of depth two with nothing dangling; a trunk in view is never left resolving; overtaken answers change nothing; cards are kept; the sweep spares pinned and recent trunks |
| `editor` | one file, one untitled tab, two projects, two file commands on their way | tabs and buffers stay consistent; a failed save loses no text and no dirty mark; no tab stays loading or saving without a call that ends it; the window closes over a dirty file only when it was edited after the request; the close handler's question is always on the screen |
| `editor_close` (violation) | the same, one project | text typed during a save is marked clean and lost when the tab is closed |
| `source_control` | two trunks of one checkout, a second checkout one of them moves to, a panel shown twice, three commands on their way | what a finished action did is not taken back by an older answer; no spinner (action, file, snapshot, open diff) waits for nothing; subscription, listener and timer follow the checkout in view |
| `explorer` | a trunk in the project's folder and one in a worktree, nested folders, a panel shown twice, two commands on their way, one change from outside | the cache stays a tree; no spinner waits for nothing; a search stays in its root and misses no folder; the view is watched as the setting says |
| `session` | every stored session, two flushes and two resets at once, three acts of the user | screens, flag and window agree; a reset that has ended leaves nothing stored; no item waits without a timer or a flush |
| `session_lost` (violation) | the same without resets | an item set again behind a running flush is cleared unwritten |
| `layout` | three work areas, five window widths, five scales, three pointer positions, mouse and touch, five acts of the user | surfaces settle as they were set last; the columns fit the window; the scale fits the monitor |

Bounds.  Two operations in one queue and one outside exhibit every pair the properties
speak of; the third waiter of `op_waiters` is what a notification can miss.  Two spawns
are the session that is shown and the one it replaced.  Two trunks are a parent and a
child, two siblings, or the trunks of two projects; with two activations a run, one can overtake
the other, and a restart starts the count again.  With `RetentionDays = 0` and two days a row is
recent or stale.  In the editor a Save As of the untitled tab onto the path of the open file is the collision of two
tabs, two commands on their way are a save and the one that overtakes it, and two contents tell an edit
from what was saved.  In the source-control panel the third command is the load that a mutation and its
refresh overtake; two mounts and two scopes are the view that is shown and the one that was left; a trunk that moves
is the one case in which revisions of two checkouts meet.  In the explorer a folder in a folder is the
least that a renaming moves and a search descends, and a folder of a name that searches skip is where they end; one change from outside makes the broker report.  In the session two
flushes are the one that writes and the one that overtakes it, two resets likewise.  In the layout five acts
show, hide and show a surface with a preference or a drag between; the widths lie at both sides of each threshold of the
distribution.  Every bound is a named constant of its module.

Fairness.  `op_waiters` assumes that a thread that can take a step takes one
(the operating system's scheduler), that a waiter that can always get the permit again
and again gets it, and that git ends or times out, which the loop's deadline enforces.
`terminal` assumes that the window's event loop reaches each answer and message and the native
side each call; no shell has to print or exit.  The other runs are safety only; that something ends is stated there as
"whatever waits, waits for a call that will end it" (`ResolvingIsAwaited`, `BusyTabsAreAwaited`, `BusyIsAwaited`,
`SpinnersAreAwaited`, `PendingIsScheduled`, `SurfacesSettle`), which needs no fairness.
Of the modules without fairness, `ProjectTrunks` alone can always go on.  The others switch the deadlock check off: a
closed window takes no more steps, and a window whose user has done what the bounds allow comes to rest.

Where a run names no `TypeOK`, the module's type invariant is a conjunct of the first property named for the
shape of its state: `LiveShellsRegistered`, `StoresAgree`, `TabsWellFormed`, `BusyIsAwaited`, `TreeWellFormed` of the explorer,
`ScreensAgree`, `ColumnsFit`.  `StoresAgree` also has `TreeWellFormed`, `ActiveExists`, `HistoryHasTrunk` and
`NoWorkspaceWithoutProject` of `ProjectTrunks` as its parts.

Mutants.  For each property of a passing run, an operator next to the definition
it replaces states a plausible slip (a notification left out, a counter reset, an answer stored
for the active trunk); TLC finds the property violated with it.

## 4. What is proved

Each `...Proofs` module shows, for any values of its module's constants that satisfy the module's named assumptions and
nothing else, that an inductive invariant holds in every state, and derives from it properties that the runs check on
an instance.  The properties alone are not inductive; what each invariant adds is listed with it.

`OperationCoordinatorProofs`, for any number of operations, queues and commands:

- `TypeCorrect`, the type invariant.
- `SerialCommands`: two operations of one queue never have a live git process at once.
  By itself this is not inductive: it needs `PermitExclusive` (at most one thread per queue between
  `acquire` and the permit's drop) and `ProcessPlaced` (a live process belongs to
  a thread in its loop).
- `SafeToQuit` and `QuitCounts`: the quit counter is the cardinality of the set of operations
  between `begin_operation` and `end_operation`; a live process is in that set.
- `CancelAccepted`, `CancelledRequested`, `PendingCounts`, all from `ReportFollowsThread`: the
  operations map and the events are a function of where the thread is.
- `CancelReachesProcess`: when a cancel call has been answered, the child that was in the slot is dead.
- `Refinement`: every step of the coordinator is a step of `SerialOperations` or a stutter.

`TerminalSessionsProofs`, for any trunks, sessions, buffer and messages (`NoTrunkAssumption`, `BoundsAssumption`):
`ShellsRegistered`, `InputStaysInTrunk`, `ExitsAreOwn`.  `Invariant` adds where a session can be named: in an entry, a
closure, a message or the registry only after it was spawned (`NamesSpawned`), with the trunk its closures captured
(`SpawnedHasOwner`), never in an idle entry (`IdleHasNoSession`), and an exit is on its way only for a shell that is
dead (`ExitsOfTheDead`); and that the card is ready only for a trunk that exists (`ReadyIsActive`).

`ProjectTrunksProofs`, for any folders, cards and bounds (`FoldersAssumption`, `CardsAssumption`, `BoundsAssumption`):
`StoresStayInAgreement`, `ResolvingStaysAwaited`, and the action properties `OvertakenAnswersIgnored`,
`CardsSurviveSwitching` and `SweepSpares`.  `Invariant` adds that a worktree that is being created is for a trunk no row
has yet (`CreationsAreNew`), without which its answer could add a row twice, and that a boot without
projects migrates a workspace that is a folder (`MigratesFolders`).

`SourceControlPanelProofs`, for any trunks, checkouts, actions and bounds (`PanelNames`, `RemoteAssumption`, `FirstScope`,
`PanelBounds`): `WritesStayRead`, `SpinnersAreAwaited`, `WatchStaysInView`, `ListenersAreServed`.  `WritesStayRead` needs the
order of what the native side answers, over the calls on their way as well as over what the window holds: of two
snapshots of one checkout, the one with the later revision saw no older a version (`Ordered`), what follows a change has seen it
(`Taken`), and a trunk whose checkout never moved knows snapshots of that one only (`Stayed`).  `SpinnersAreAwaited` needs which handler set which spinner, `WatchStaysInView` which scope each of the hook's runs
and each call on its way belongs to.

`ExplorerPanelProofs`, for any roots, trunks, names of folders and files, first disk and bounds (`ExplorerNames`,
`ExplorerBounds`, `DiskAtFirst`): `TreeStaysWellFormed`, `SpinnersStayAwaited`, `SearchStaysInItsRoot`,
`SearchStaysComplete`, `LiveViewStaysWatched`.  `Invariant` says of every listing on its way that what it found are entries of its folder, and of
every renaming that it keeps the folder and the kind, so that answers keep the cache a tree; that no search has a later token than
the store, and one with the store's token is of the root in view; and what the overlapping runs of `applyWatch`
will do: the last one that enters the root in view enters it with the setting of now, or one that will still leave or enter
it comes after (`Watched`).  That the walk stays in the tree is proved with a least element of the
unread folders' depths.  `SearchStaysComplete` is about what a search that is not through yet still owes (`Promised`): as
long as no gap was noted, every folder on disk is in the listing of the folder it is in, or a command is on its way
whose answer refreshes the tree; and every folder that the walk comes to from the root and that is not listed is below
one that a current walk has before it, or such a command, or a refresh that will search again, is on its way.
A listing keeps this, since it can show no folder that the older listing did not have (`GrownUnread`), and so does each step
of the walk, since of what it came to it leaves nothing behind (`WalkCovers`).  It holds for folders that searches skip, for
disks of any shape in which only folders hold something (`Solid`), and for any number of walks and refreshes at once.

`SessionBootProofs`, for any bounds (`SessionBounds`): `ScreensStayInAgreement`, `WindowFollows`, `ResetLeavesNothing`,
`PendingStaysScheduled`.  `Invariant` adds the order in the batched storage (a key waits once, every flush is at a position
of its list, what waits has a timer or a flush before it), which screens each flag and timer allow, that
only the last of the window's overlapping runs is live and asks for the size of the screen that is shown, and that whatever is
still stored is on the list of a reset that runs.

`ShellLayoutProofs`, for any work areas, widths, pointer positions and bounds (`LayoutConstants`): `SurfacesAlwaysSettle`,
`ColumnsAlwaysFit`, `ScaleAlwaysFits`.  `ColumnsAlwaysFit` is the integer arithmetic of the distribution, with each
conditional of the code a case.  `Invariant` says how each surface's flag, `mounted`, `revealed`, frames and transition
belong together, which width a drag started from, and that either a call that will look at the work area is on its way, or
the scale fits the work area and the window has, or was asked for, its size.

`EditorTabsProofs`, for any files, folders, contents and bounds (`PathsAssumption`, `ContentsAssumption`, `EditorBounds`):
`TabsStayWellFormed`, `QuitSavesWhatWasDirty`, `QuitStaysAnswerable`, `BusyTabsStayAwaited`, and the action property
`FailedSavesKeepEdits`.  `Invariant` adds what the close handler relies on between its awaits (`Quits`): while it asks for
the untitled tabs every dirty file is a late edit, and while it awaits a save every other dirty file is among those it has yet
to save; and that its question has a dialog (`Asks`).  The lemmas follow the code: each setter of the store keeps the tabs distinct,
each with its buffer, and eases what is busy and dirty or starts one tab (`Eases`, `Starts`); each handler keeps a good state
good (`Good`); and one whose call was taken off the bag makes up for it (`Resumed`).

Not proved, and checked by TLC only:

- liveness (`op_waiters`, `terminal`): TLAPS has no rule for fairness here, and no ENABLED.

## 5. Plan

1. `EditorTabs`: Close All and Close Others, and the deletion in the explorer that closes tabs, in an instance of
   their own: their loop through the close dialog more than triples the states of `editor`.
2. `ProjectTrunks` restarted from what `SessionBoot` has flushed.

## 6. Not modelled

Provider clients and git output parsing map one data format to another and keep no state.  The provider
transport handles one request at a time with at most three attempts; whether a request that timed out was carried out,
and is carried out again by the retry, only the remote service knows.  The worktree commands are git commands and file system
checks; their queue is part of `OperationCoordinator` and the window's protocol around them of `ProjectTrunks`.
The canvas of the onboarding and the UI components draw.  Project groups, titles, sibling order and expansion are
layout.  What git does to a repository is outside: a git process succeeds, fails, hangs or is killed.

Some behaviours the models show have no property, because the code does not keep one and no document asks for it
in so many words:

- terminal: a trunk that is left, or activated again, while its spawn is unanswered shows an empty card; late output of a
  replaced shell goes to the xterm that is mounted;
- coordinator: an operation whose process a cancel call killed between the loop's two checks is reported as failed;
- projects: an error for a trunk that is no longer active moves the workspace; the sweep takes a project that was used
  through a trunk deleted since; a deletion that lost an answer cannot be repeated, for its worktree is missing;
- editor: the answer of an older Save As resolves the close handler's question, and the window closes over an untitled
  tab; a save answers for a tab that is not loaded;
- source control: after a trunk's checkout moved, its snapshots are dropped until the new revisions catch up; a late patch, and
  the file to discard, survive a change of the trunk;
- explorer: the empty area's menu asks for a file in the project's folder while a worktree is shown; a listing that answers
  late brings back what was deleted; a renaming's answer ends another renaming; a panel hidden during `applyWatch`
  leaves its subscription;
- session: a returning user starts on the onboarding, since the flag is read before the stores are hydrated; a reset during
  hydration is undone by it; a commit before the frame leaves the shell transparent;
- layout: reduced motion that is switched on while the popup closes leaves it closing for good.
