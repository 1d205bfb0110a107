------------------------------ MODULE ProjectTrunks ------------------------------
(***************************************************************************)
(* Projects and their trunks: the project store with what its operations    *)
(* change in the chat, workspace and shell stores, the activation of a      *)
(* trunk, the creation and deletion of worktree-backed trunks, the          *)
(* boot-time retention sweep, and quitting and starting again.              *)
(*                                                                         *)
(* Everything runs on the window's thread, so a step is the code between    *)
(* two awaits.  What waits for the native side stands in `activations`,     *)
(* `creations`, `deletions` and `requests`.  Trunks and projects are        *)
(* numbered in the order their random identifiers are drawn.                *)
(***************************************************************************)
EXTENDS Integers, FiniteSets, Functions

CONSTANTS
  Folders,         (* the folders a project can be opened on              *)
  NoPath,          (* the workspace path is null                          *)
  Cards,           (* the main cards of the shell                         *)
  DefaultCard,     (* the card of a new trunk                             *)
  RetentionDays,   (* retentionDays of the sweep                          *)
  MaxTrunks,       (* Bound: trunks ever created                          *)
  MaxProjects,     (* Bound: projects ever created                        *)
  MaxDay,          (* Bound: days that pass                               *)
  MaxGeneration,   (* Bound: activations of one run of the application    *)
  MaxDeletions     (* Bound: deletions that wait for the native side      *)

ASSUME FoldersAssumption == NoPath \notin Folders
ASSUME CardsAssumption == DefaultCard \in Cards
ASSUME BoundsAssumption ==
  /\ RetentionDays \in Nat /\ MaxTrunks \in Nat /\ MaxProjects \in Nat
  /\ MaxDay \in Nat /\ MaxGeneration \in Nat /\ MaxDeletions \in Nat

None     == 0
Trunks   == 1..MaxTrunks
Projects == 1..MaxProjects
Days     == 0..MaxDay

\* The path of the worktree the application creates for a trunk.
Worktree(t) == <<t>>
Paths == Folders \cup {Worktree(t) : t \in Trunks}

VARIABLES
  running,       (* the application runs and its stores are rehydrated    *)
  day,           (* the date                                              *)
  store,         (* the persisted part of the project store               *)
  chat,          (* the trunks with messages                              *)
  workspace,     (* workspacePath                                         *)
  shellCard,     (* activeMainCard of the shell                           *)
  runtime,       (* the status in checkoutRuntimeByTrunkId                *)
  generation,    (* activationGeneration                                  *)
  activations,   (* the calls of resolveCheckout on their way             *)
  requests,      (* the trunks with a source-control request on its way   *)
  creations,     (* the calls of createWorktree on their way              *)
  deletions,     (* the runs of projectExecuteDeletion that wait          *)
  worktrees,     (* the trunks whose worktree is on disk                  *)
  nextTrunk, nextProject

clock      == <<running, day>>
calls      == <<generation, activations, requests, creations, deletions>>
identifiers == <<nextTrunk, nextProject>>
vars == <<clock, store, chat, workspace, shellCard, runtime, calls,
          worktrees, identifiers>>

Trunk   == [project : Projects, parent : Trunks \cup {None}, pinned : BOOLEAN,
            lastOpenedAt : Days, worktree : BOOLEAN, card : Cards]
Project == [folderPath : Folders, pinned : BOOLEAN, lastOpenedAt : Days]

Live == DOMAIN store.trunks

-----------------------------------------------------------------------------
(***************************************************************************)
(* The operations of the project store, as functions of its state.          *)
(***************************************************************************)
NewTrunk(p, parent, worktree) ==
  [project |-> p, parent |-> parent, pinned |-> FALSE, lastOpenedAt |-> day,
   worktree |-> worktree, card |-> DefaultCard]

addTrunk(s, t, row) ==
  [s EXCEPT !.trunks = [u \in DOMAIN s.trunks \cup {t} |->
                          IF u = t THEN row ELSE s.trunks[u]]]

createProjectWithRootTrunk(s, p, t, f) ==
  LET project == [folderPath |-> f, pinned |-> FALSE, lastOpenedAt |-> day]
  IN  [addTrunk(s, t, NewTrunk(p, None, FALSE)) EXCEPT
         !.projects = [q \in DOMAIN s.projects \cup {p} |->
                         IF q = p THEN project ELSE s.projects[q]],
         !.activeProject = p,
         !.activeTrunk = t]

setActiveIds(s, p, t) == [s EXCEPT !.activeProject = p, !.activeTrunk = t]

setTrunkActiveMainCard(s, t, card) == [s EXCEPT !.trunks[t].card = card]

setTrunkPinned(s, t, pinned) == [s EXCEPT !.trunks[t].pinned = pinned]

setProjectPinned(s, p, pinned) == [s EXCEPT !.projects[p].pinned = pinned]

updateProjectFolder(s, p, f) ==
  IF p \in DOMAIN s.projects THEN [s EXCEPT !.projects[p].folderPath = f] ELSE s

setCheckoutRuntime(runtimes, t, status) == [runtimes EXCEPT ![t] = status]

touchTrunkActivity(s, t) ==
  [s EXCEPT !.trunks[t].lastOpenedAt = day,
            !.projects[s.trunks[t].project].lastOpenedAt = day]

\* The shell store's subscriber runs inside every change of the main card.
projectSyncRestoreFromShell(s, card) ==
  IF s.activeTrunk = None THEN s
  ELSE setTrunkActiveMainCard(s, s.activeTrunk, card)

\* addChildTrunk only takes a root for a parent, so a subtree has two levels.
Subtree(s, t) ==
  {u \in DOMAIN s.trunks : t \in DOMAIN s.trunks /\ (u = t \/ s.trunks[u].parent = t)}

\* deleteTrunkCascade for one root after another: the trunks in `gone`, and
\* every project they leave without a trunk.
RemoveTrunks(s, gone) ==
  LET kept    == DOMAIN s.trunks \ gone
      owners  == {s.trunks[t].project : t \in DOMAIN s.trunks \cap gone}
      emptied == {p \in owners : \A t \in kept : s.trunks[t].project # p}
  IN  [projects      |-> Restrict(s.projects, DOMAIN s.projects \ emptied),
       trunks        |-> Restrict(s.trunks, kept),
       activeProject |-> IF s.activeProject \in emptied THEN None ELSE s.activeProject,
       activeTrunk   |-> IF s.activeTrunk \in gone THEN None ELSE s.activeTrunk]

deleteTrunkCascade(s, t) == RemoveTrunks(s, Subtree(s, t))

deleteProjectCascades(s, gone) ==
  LET r == RemoveTrunks(s, {t \in DOMAIN s.trunks : s.trunks[t].project \in gone})
  IN  [r EXCEPT !.projects = Restrict(r.projects, DOMAIN r.projects \ gone),
                !.activeProject = IF @ \in gone THEN None ELSE @]

isStale(row) == row.lastOpenedAt < day - RetentionDays

\* Mutant: a pin only counts while its trunk is recent.
ProjectsWithRecentPin(s) ==
  {s.trunks[t].project :
     t \in {u \in DOMAIN s.trunks : s.trunks[u].pinned /\ ~isStale(s.trunks[u])}}

ProjectsWithPin(s) ==
  {s.trunks[t].project : t \in {u \in DOMAIN s.trunks : s.trunks[u].pinned}}

projectSelectExpired(s) ==
  LET retained == {t \in DOMAIN s.trunks : s.trunks[t].pinned \/ ~isStale(s.trunks[t])}
      Expired(t) ==
        /\ t \notin retained
        /\ ~s.projects[s.trunks[t].project].pinned
        /\ s.trunks[t].project \notin ProjectsWithPin(s)
        /\ (Subtree(s, t) \ {t}) \cap retained = {}
      ExpiredProject(p) ==
        /\ ~s.projects[p].pinned
        /\ isStale(s.projects[p])
        /\ p \notin ProjectsWithPin(s)
        /\ \A t \in retained : s.trunks[t].project # p
  IN  [trunks   |-> {t \in DOMAIN s.trunks : Expired(t)},
       projects |-> {p \in DOMAIN s.projects : ExpiredProject(p)}]

runRetentionSweep(s) ==
  LET expired == projectSelectExpired(s)
      swept   == RemoveTrunks(s, UNION {Subtree(s, t) : t \in expired.trunks})
  IN  deleteProjectCascades(swept, expired.projects \cap DOMAIN swept.projects)

\* A card that is not known becomes the default one; a child keeps a worktree.
projectNormalizeTrunkRestore(row) ==
  [row EXCEPT !.card = IF @ \in Cards THEN @ ELSE DefaultCard,
              !.worktree = @ \/ row.parent # None]

\* Every trunk is promoted to a root.
projectFlattenTrunks(trunks) ==
  [t \in DOMAIN trunks |-> [trunks[t] EXCEPT !.parent = None]]

\* The merge of rehydration.
merge(saved) ==
  LET normalized == [t \in DOMAIN saved.trunks |-> projectNormalizeTrunkRestore(saved.trunks[t])]
      trunks     == projectFlattenTrunks(normalized)
      t          == IF saved.activeTrunk \in DOMAIN trunks THEN saved.activeTrunk ELSE None
      p          == IF t # None THEN trunks[t].project
                    ELSE IF saved.activeProject \in DOMAIN saved.projects
                    THEN saved.activeProject ELSE None
  IN  setActiveIds([saved EXCEPT !.trunks = trunks], p, t)

\* projectMigrateFromWorkspace: a workspace path and no project yet.
Migrates(s, path) == path # NoPath /\ DOMAIN s.projects = {}

\* The migrated project is like one made from a folder that was opened.
applyMigration(s, p, t, path) ==
  IF Migrates(s, path) THEN createProjectWithRootTrunk(s, p, t, path) ELSE s

findProjectByFolderPath(s, f) == {p \in DOMAIN s.projects : s.projects[p].folderPath = f}

\* The roots of a project opened last; the list's order decides among equals.
LastOpenedRoots(s, p) ==
  LET roots == {t \in DOMAIN s.trunks : s.trunks[t].project = p /\ s.trunks[t].parent = None}
  IN  {t \in roots : \A u \in roots : s.trunks[u].lastOpenedAt <= s.trunks[t].lastOpenedAt}

-----------------------------------------------------------------------------
Init ==
  /\ running = FALSE
  /\ day = 0
  /\ store = [projects |-> <<>>, trunks |-> <<>>,
              activeProject |-> None, activeTrunk |-> None]
  /\ chat = {}
  \* A version without projects left its workspace path behind.
  /\ workspace \in Folders \cup {NoPath}
  /\ shellCard = DefaultCard
  /\ runtime = [t \in Trunks |-> "none"]
  /\ generation = 0
  /\ activations = {}
  /\ requests = {}
  /\ creations = {}
  /\ deletions = {}
  /\ worktrees = {}
  /\ nextTrunk = 1
  /\ nextProject = 1

NextDay ==
  /\ day < MaxDay
  /\ day' = day + 1
  /\ UNCHANGED <<running, store, chat, workspace, shellCard, runtime, calls,
                 worktrees, identifiers>>

\* Mutant: the card is restored before the active trunk changes, and the
\* subscriber saves it for the trunk that is being left.
BeginActivationCardFirst(s, t) ==
  LET p     == s.trunks[t].project
      saved == projectSyncRestoreFromShell(s, s.trunks[t].card)
  IN  /\ generation < MaxGeneration
      /\ generation' = generation + 1
      /\ shellCard' = s.trunks[t].card
      /\ store' = setActiveIds(touchTrunkActivity(saved, t), p, t)
      /\ runtime' = setCheckoutRuntime(runtime, t, "resolving")
      /\ workspace' = s.projects[p].folderPath
      /\ activations' = activations \cup
           {[generation |-> generation + 1, trunk |-> t,
             folderPath |-> s.projects[p].folderPath,
             worktree |-> s.trunks[t].worktree, onDisk |-> t \in worktrees]}

(***************************************************************************)
(* Activation.  projectActivateTrunk up to its await, with s the project    *)
(* store it starts from.                                                    *)
(***************************************************************************)
BeginActivation(s, t) ==
  LET p      == s.trunks[t].project
      active == setActiveIds(touchTrunkActivity(s, t), p, t)
  IN  /\ generation < MaxGeneration
      /\ generation' = generation + 1
      /\ shellCard' = s.trunks[t].card
      /\ store' = projectSyncRestoreFromShell(active, shellCard')
      /\ runtime' = setCheckoutRuntime(runtime, t, "resolving")
      /\ workspace' = s.projects[p].folderPath
      /\ activations' = activations \cup
           {[generation |-> generation + 1,
             trunk      |-> t,
             folderPath |-> s.projects[p].folderPath,
             worktree   |-> s.trunks[t].worktree,
             onDisk     |-> t \in worktrees]}

ActivateTrunk(t) ==
  /\ running /\ t \in Live
  /\ BeginActivation(store, t)
  /\ UNCHANGED <<clock, chat, requests, creations, deletions, worktrees, identifiers>>

OpenFolder(f) ==
  /\ running
  /\ \/ \E p \in findProjectByFolderPath(store, f) :
          \E t \in LastOpenedRoots(store, p) : BeginActivation(store, t)
        /\ UNCHANGED identifiers
     \/ /\ findProjectByFolderPath(store, f) = {}
        /\ nextProject <= MaxProjects /\ nextTrunk <= MaxTrunks
        /\ BeginActivation(createProjectWithRootTrunk(store, nextProject, nextTrunk, f),
                           nextTrunk)
        /\ nextProject' = nextProject + 1
        /\ nextTrunk' = nextTrunk + 1
  /\ UNCHANGED <<clock, chat, requests, creations, deletions, worktrees>>

AddRootTrunk(p) ==
  /\ running /\ p \in DOMAIN store.projects /\ nextTrunk <= MaxTrunks
  /\ BeginActivation(addTrunk(store, nextTrunk, NewTrunk(p, None, FALSE)), nextTrunk)
  /\ nextTrunk' = nextTrunk + 1
  /\ UNCHANGED <<clock, chat, requests, creations, deletions, worktrees, nextProject>>

\* Mutant: the generation alone decides.
activationIsNewest(a) == a.generation = generation

\* Mutant: the active trunk alone decides.
activationIsOfActive(a) == store.activeTrunk = a.trunk

activationIsCurrent(a) == a.generation = generation /\ store.activeTrunk = a.trunk

\* resolveCheckout answers; a worktree can only be found where one was.
ResolveReady(a) ==
  /\ a.worktree => a.onDisk
  /\ activations' = activations \ {a}
  /\ IF activationIsCurrent(a)
     THEN /\ workspace' = IF a.worktree THEN Worktree(a.trunk) ELSE a.folderPath
          /\ runtime' = setCheckoutRuntime(runtime, a.trunk, "ready")
     ELSE UNCHANGED <<workspace, runtime>>
  /\ UNCHANGED <<clock, store, chat, shellCard, generation, requests, creations,
                 deletions, worktrees, identifiers>>

ResolveInvalid(a) ==
  /\ activations' = activations \ {a}
  /\ IF activationIsCurrent(a)
     THEN /\ workspace' = a.folderPath
          /\ runtime' = setCheckoutRuntime(runtime, a.trunk, "invalid")
     ELSE UNCHANGED <<workspace, runtime>>
  /\ UNCHANGED <<clock, store, chat, shellCard, generation, requests, creations,
                 deletions, worktrees, identifiers>>

\* Mutant: an error of the call itself is reported to nobody.
ResolveThrowsSilently(a) ==
  /\ activations' = activations \ {a}
  /\ UNCHANGED <<clock, store, chat, workspace, shellCard, runtime, generation,
                 requests, creations, deletions, worktrees, identifiers>>

ResolveThrows(a) ==
  /\ activations' = activations \ {a}
  /\ runtime' = IF activationIsCurrent(a)
                THEN setCheckoutRuntime(runtime, a.trunk, "invalid") ELSE runtime
  /\ UNCHANGED <<clock, store, chat, workspace, shellCard, generation, requests,
                 creations, deletions, worktrees, identifiers>>

-----------------------------------------------------------------------------
(***************************************************************************)
(* What the user does to projects and trunks.                               *)
(***************************************************************************)
SetTrunkPinned(t) ==
  /\ running /\ t \in Live
  /\ store' = setTrunkPinned(store, t, ~store.trunks[t].pinned)
  /\ UNCHANGED <<clock, chat, workspace, shellCard, runtime, calls, worktrees, identifiers>>

SetProjectPinned(p) ==
  /\ running /\ p \in DOMAIN store.projects
  /\ store' = setProjectPinned(store, p, ~store.projects[p].pinned)
  /\ UNCHANGED <<clock, chat, workspace, shellCard, runtime, calls, worktrees, identifiers>>

\* The folder picker has been open: the project may be gone by now.
RelinkFolder(p, f) ==
  /\ running /\ p < nextProject
  /\ store' = updateProjectFolder(store, p, f)
  /\ workspace' = IF store.activeProject = p THEN f ELSE workspace
  /\ UNCHANGED <<clock, chat, shellCard, runtime, calls, worktrees, identifiers>>

AppendTrunkMessage ==
  /\ running /\ store.activeTrunk # None
  /\ chat' = chat \cup {store.activeTrunk}
  /\ store' = touchTrunkActivity(store, store.activeTrunk)
  /\ UNCHANGED <<clock, workspace, shellCard, runtime, calls, worktrees, identifiers>>

SetActiveMainCard(card) ==
  /\ running /\ card # shellCard
  /\ shellCard' = card
  /\ store' = projectSyncRestoreFromShell(store, card)
  /\ UNCHANGED <<clock, chat, workspace, runtime, calls, worktrees, identifiers>>

-----------------------------------------------------------------------------
(***************************************************************************)
(* Worktree-backed children: the native call first, then the trunk's row.   *)
(***************************************************************************)
CreateChildTrunk(parent) ==
  /\ running /\ parent \in Live /\ nextTrunk <= MaxTrunks
  /\ store.trunks[parent].parent = None /\ runtime[parent] = "ready"
  /\ creations' = creations \cup {[trunk |-> nextTrunk, parent |-> parent]}
  /\ nextTrunk' = nextTrunk + 1
  /\ UNCHANGED <<clock, store, chat, workspace, shellCard, runtime, generation,
                 activations, requests, deletions, worktrees, nextProject>>

WorktreeCreated(c) ==
  /\ creations' = creations \ {c}
  /\ worktrees' = worktrees \cup {c.trunk}
  /\ IF c.parent \in Live /\ store.trunks[c.parent].parent = None
     THEN /\ store' = addTrunk(store, c.trunk,
                        NewTrunk(store.trunks[c.parent].project, c.parent, TRUE))
          /\ runtime' = setCheckoutRuntime(runtime, c.trunk, "ready")
     ELSE UNCHANGED <<store, runtime>>   \* throws "Parent trunk not found"
  /\ UNCHANGED <<clock, chat, workspace, shellCard, generation, activations,
                 requests, deletions, identifiers>>

WorktreeNotCreated(c) ==
  /\ creations' = creations \ {c}
  /\ UNCHANGED <<clock, store, chat, workspace, shellCard, runtime, generation,
                 activations, requests, deletions, worktrees, identifiers>>

-----------------------------------------------------------------------------
(***************************************************************************)
(* projectExecuteDeletion: for each worktree among the trunks found at the  *)
(* start, an inspection and a removal, and then the cascade.                *)
(***************************************************************************)
Cascade(t) ==
  /\ chat' = chat \ Subtree(store, t)
  /\ store' = deleteTrunkCascade(store, t)
  /\ workspace' = IF DOMAIN store'.projects = {} THEN NoPath ELSE workspace

ExecuteDeletion(t) ==
  LET managed == {u \in Subtree(store, t) : store.trunks[u].worktree}
  IN  /\ running /\ t \in Live
      /\ IF managed = {}
         THEN Cascade(t) /\ UNCHANGED deletions
         ELSE /\ Cardinality(deletions) < MaxDeletions
              /\ \E n \in 1..MaxDeletions :
                   /\ \A d \in deletions : d.id # n
                   /\ deletions' = deletions \cup
                        {[id |-> n, target |-> t, todo |-> managed, inspected |-> None]}
              /\ UNCHANGED <<store, chat, workspace>>
      /\ UNCHANGED <<clock, shellCard, runtime, generation, activations, requests,
                     creations, worktrees, identifiers>>

InspectionSucceeds(d) ==
  /\ d.inspected = None
  /\ \E u \in d.todo \cap worktrees :
       deletions' = (deletions \ {d}) \cup {[d EXCEPT !.inspected = u]}
  /\ UNCHANGED <<clock, store, chat, workspace, shellCard, runtime, generation,
                 activations, requests, creations, worktrees, identifiers>>

RemovalSucceeds(d) ==
  /\ d.inspected \in worktrees
  /\ worktrees' = worktrees \ {d.inspected}
  /\ LET rest == d.todo \ {d.inspected}
     IN  IF rest = {}
         THEN /\ deletions' = deletions \ {d}
              /\ Cascade(d.target)
         ELSE /\ deletions' = (deletions \ {d}) \cup
                                {[d EXCEPT !.todo = rest, !.inspected = None]}
              /\ UNCHANGED <<store, chat, workspace>>
  /\ UNCHANGED <<clock, shellCard, runtime, generation, activations, requests,
                 creations, identifiers>>

DeletionFails(d) ==
  /\ deletions' = deletions \ {d}
  /\ UNCHANGED <<clock, store, chat, workspace, shellCard, runtime, generation,
                 activations, requests, creations, worktrees, identifiers>>

-----------------------------------------------------------------------------
(***************************************************************************)
(* A source-control request of the trunk in view, and its answers.          *)
(***************************************************************************)
RequestSourceControl ==
  /\ running /\ store.activeTrunk # None
  /\ runtime[store.activeTrunk] = "ready"
  /\ requests' = requests \cup {store.activeTrunk}
  /\ UNCHANGED <<clock, store, chat, workspace, shellCard, runtime, generation,
                 activations, creations, deletions, worktrees, identifiers>>

RequestAnswered(t) ==
  /\ requests' = requests \ {t}
  /\ UNCHANGED <<clock, store, chat, workspace, shellCard, runtime, generation,
                 activations, creations, deletions, worktrees, identifiers>>

\* The scope is gone: invalidateCheckoutRuntimeOnScopeError.
RequestFindsNoScope(t) ==
  /\ requests' = requests \ {t}
  /\ IF t \in Live
     THEN /\ workspace' = store.projects[store.trunks[t].project].folderPath
          /\ runtime' = setCheckoutRuntime(runtime, t, "invalid")
     ELSE UNCHANGED <<workspace, runtime>>
  /\ UNCHANGED <<clock, store, chat, shellCard, generation, activations, creations,
                 deletions, worktrees, identifiers>>

-----------------------------------------------------------------------------
(***************************************************************************)
(* Quitting loses what is on its way; a native worktree creation may have   *)
(* come to its end.  Booting rehydrates, migrates, sweeps and activates.    *)
(***************************************************************************)
Quit ==
  /\ running
  /\ running' = FALSE
  /\ \E done \in SUBSET {c.trunk : c \in creations} : worktrees' = worktrees \cup done
  /\ runtime' = [t \in Trunks |-> "none"]
  /\ generation' = 0
  /\ activations' = {}
  /\ requests' = {}
  /\ creations' = {}
  /\ deletions' = {}
  /\ UNCHANGED <<day, store, chat, workspace, shellCard, identifiers>>

Boot ==
  LET saved    == merge(store)
      migrates == Migrates(saved, workspace)
      swept    == runRetentionSweep(applyMigration(saved, nextProject, nextTrunk, workspace))
      targets  == IF swept.activeTrunk # None THEN {swept.activeTrunk}
                  ELSE UNION {LastOpenedRoots(swept, p) :
                                p \in findProjectByFolderPath(swept, workspace)}
  IN  /\ ~running
      /\ migrates => nextProject <= MaxProjects /\ nextTrunk <= MaxTrunks
      /\ running' = TRUE
      /\ nextProject' = IF migrates THEN nextProject + 1 ELSE nextProject
      /\ nextTrunk' = IF migrates THEN nextTrunk + 1 ELSE nextTrunk
      /\ chat' = chat \cap DOMAIN swept.trunks
      /\ \/ \E t \in targets : BeginActivation(swept, t)
         \/ /\ targets = {}
            /\ store' = swept
            /\ workspace' = IF DOMAIN swept.projects = {} THEN NoPath ELSE workspace
            /\ UNCHANGED <<shellCard, runtime, generation, activations>>
      /\ UNCHANGED <<day, requests, creations, deletions, worktrees>>

-----------------------------------------------------------------------------
User ==
  \/ \E t \in Trunks : ActivateTrunk(t) \/ SetTrunkPinned(t) \/ ExecuteDeletion(t)
                       \/ CreateChildTrunk(t)
  \/ \E f \in Folders : OpenFolder(f)
  \/ \E p \in Projects : AddRootTrunk(p) \/ SetProjectPinned(p)
  \/ \E p \in Projects, f \in Folders : RelinkFolder(p, f)
  \/ \E card \in Cards : SetActiveMainCard(card)
  \/ AppendTrunkMessage
  \/ RequestSourceControl

Answers ==
  \/ \E a \in activations : ResolveReady(a) \/ ResolveInvalid(a) \/ ResolveThrows(a)
  \/ \E c \in creations : WorktreeCreated(c) \/ WorktreeNotCreated(c)
  \/ \E d \in deletions : InspectionSucceeds(d) \/ RemovalSucceeds(d) \/ DeletionFails(d)
  \/ \E t \in requests : RequestAnswered(t) \/ RequestFindsNoScope(t)

Next == User \/ Answers \/ NextDay \/ Quit \/ Boot

Spec == Init /\ [][Next]_vars

-----------------------------------------------------------------------------
(***************************************************************************)
(* Properties                                                               *)
(***************************************************************************)
\* The shapes of the state, and identifiers that were drawn before.
TypeOK ==
  /\ running \in BOOLEAN /\ day \in Days
  /\ DOMAIN store = {"projects", "trunks", "activeProject", "activeTrunk"}
  /\ DOMAIN store.projects \subseteq 1..(nextProject - 1)
  /\ \A p \in DOMAIN store.projects : store.projects[p] \in Project
  /\ Live \subseteq 1..(nextTrunk - 1)
  /\ \A t \in Live : store.trunks[t] \in Trunk
  /\ store.activeProject \in Projects \cup {None}
  /\ store.activeTrunk \in Trunks \cup {None}
  /\ chat \subseteq Trunks /\ worktrees \subseteq Trunks /\ requests \subseteq Trunks
  /\ workspace \in Paths \cup {NoPath}
  /\ shellCard \in Cards
  /\ runtime \in [Trunks -> {"none", "resolving", "invalid", "ready"}]
  /\ generation \in 0..MaxGeneration
  /\ activations \subseteq [generation : 1..MaxGeneration, trunk : Trunks,
                             folderPath : Folders, worktree : BOOLEAN, onDisk : BOOLEAN]
  /\ creations \subseteq [trunk : Trunks, parent : Trunks]
  /\ \A d \in deletions : d \in [id : 1..MaxDeletions, target : Trunks,
                                  todo : SUBSET Trunks, inspected : Trunks \cup {None}]
  /\ nextTrunk \in 1..(MaxTrunks + 1) /\ nextProject \in 1..(MaxProjects + 1)

\* The store stays a forest of depth two over its projects: a trunk's project
\* exists, a child's parent is a root of the same project, and no project is
\* left without a trunk; whatever was deleted while a worktree was created.
TreeWellFormed ==
  /\ \A t \in Live :
       LET row == store.trunks[t]
       IN  /\ row.project \in DOMAIN store.projects
           /\ row.parent # None =>
                /\ row.parent \in Live
                /\ store.trunks[row.parent].parent = None
                /\ store.trunks[row.parent].project = row.project
  /\ \A p \in DOMAIN store.projects : \E t \in Live : store.trunks[t].project = p

\* What the window shows as active exists: the active trunk is a trunk of the
\* active project, and an active project without an active trunk still exists.
ActiveExists ==
  /\ store.activeProject # None => store.activeProject \in DOMAIN store.projects
  /\ store.activeTrunk # None =>
       /\ store.activeTrunk \in Live
       /\ store.trunks[store.activeTrunk].project = store.activeProject

\* Messages belong to a trunk that exists: every way a trunk goes, a child with
\* its parent and the sweep included, takes its history with it.
HistoryHasTrunk == chat \subseteq Live

\* Without a project there is no workspace, so the popup asks for a folder: no
\* late answer, relink or boot brings back the path of a deleted project.
NoWorkspaceWithoutProject ==
  running /\ DOMAIN store.projects = {} => workspace = NoPath

\* The stores of the window agree: projects, trunks, what is active, the chat
\* histories and the workspace, which each change by calls of their own, name
\* nothing that is gone from another one.
StoresAgree ==
  /\ TypeOK
  /\ TreeWellFormed
  /\ ActiveExists
  /\ HistoryHasTrunk
  /\ NoWorkspaceWithoutProject

\* A trunk in view is never left resolving: the newest activation, which alone
\* may settle it, is still on its way and is this trunk's.
ResolvingIsAwaited ==
  store.activeTrunk # None /\ runtime[store.activeTrunk] = "resolving" =>
    \E a \in activations : a.generation = generation /\ a.trunk = store.activeTrunk

\* The answer of an activation that another one, or a deletion, has overtaken
\* changes neither the workspace nor any trunk's checkout state.
OvertakenAnswersChangeNothing ==
  [][\A a \in activations \ activations' :
       running' /\ (a.generation # generation \/ a.trunk # store.activeTrunk) =>
         UNCHANGED <<store, workspace, runtime>>]_vars

\* Going from one trunk to another writes the card of neither: a trunk comes
\* back with the card it was left with.
SwitchingKeepsCards ==
  [][\A t \in Live \cap DOMAIN store'.trunks :
       store'.trunks[t].card # store.trunks[t].card =>
         t = store.activeTrunk /\ t = store'.activeTrunk]_vars

\* The sweep takes nothing that is pinned or was used within the window: no
\* pinned project, no project with a pinned trunk, none of their trunks, and
\* no trunk opened since the cutoff.
SweepSparesPinnedAndRecent ==
  [][~running /\ running' =>
       \A t \in Live :
         LET p == store.trunks[t].project
         IN  \/ store.projects[p].pinned
             \/ \E u \in Live : store.trunks[u].project = p /\ store.trunks[u].pinned
             \/ store.trunks[t].lastOpenedAt >= day - RetentionDays
             => t \in DOMAIN store'.trunks /\ p \in DOMAIN store'.projects]_vars
=============================================================================
