-------------------------- MODULE ProjectTrunksProofs --------------------------
(***************************************************************************)
(* Proofs about projects and trunks, for any sets of folders and cards, any *)
(* number of trunks, projects, activations and deletions, and any retention *)
(* window.                                                                  *)
(***************************************************************************)
EXTENDS ProjectTrunks, TLAPS

-----------------------------------------------------------------------------
(* The inductive invariant: with the stores' agreement, that a worktree     *)
(* being created is for a trunk no row has yet, and that what would be      *)
(* migrated is a folder.                                                    *)
CreationsAreNew ==
  /\ \A c \in creations : c.trunk < nextTrunk /\ c.trunk \notin Live
  /\ \A c, d \in creations : c.trunk = d.trunk => c = d

MigratesFolders == DOMAIN store.projects = {} => workspace \in Folders \cup {NoPath}

Invariant ==
  /\ StoresAgree
  /\ CreationsAreNew
  /\ MigratesFolders
  /\ ResolvingIsAwaited

-----------------------------------------------------------------------------
(* The project store, as the operations take and return it.                 *)

Fields == {"projects", "trunks", "activeProject", "activeTrunk"}

\* Its shape, with the identifiers drawn so far.
Shaped(s, projects, trunks) ==
  /\ DOMAIN s = Fields
  /\ DOMAIN s.projects \subseteq 1..(projects - 1)
  /\ \A p \in DOMAIN s.projects : s.projects[p] \in Project
  /\ DOMAIN s.trunks \subseteq 1..(trunks - 1)
  /\ \A t \in DOMAIN s.trunks : s.trunks[t] \in Trunk
  /\ s.activeProject \in Projects \cup {None}
  /\ s.activeTrunk \in Trunks \cup {None}

\* Its trunks are a forest of depth two over its projects.
Forest(s) ==
  /\ \A t \in DOMAIN s.trunks :
       /\ s.trunks[t].project \in DOMAIN s.projects
       /\ s.trunks[t].parent # None =>
            /\ s.trunks[t].parent \in DOMAIN s.trunks
            /\ s.trunks[s.trunks[t].parent].parent = None
            /\ s.trunks[s.trunks[t].parent].project = s.trunks[t].project
  /\ \A p \in DOMAIN s.projects : \E t \in DOMAIN s.trunks : s.trunks[t].project = p

\* What it shows as active exists.
Active(s) ==
  /\ s.activeProject # None => s.activeProject \in DOMAIN s.projects
  /\ s.activeTrunk # None =>
       /\ s.activeTrunk \in DOMAIN s.trunks
       /\ s.trunks[s.activeTrunk].project = s.activeProject

Good(s, projects, trunks) == Shaped(s, projects, trunks) /\ Forest(s) /\ Active(s)

\* The stores agree exactly when the project store is good and the other
\* stores name what it has.
LEMMA StoresAgreeIsGood ==
  StoresAgree <=> /\ Good(store, nextProject, nextTrunk)
                  /\ TypeOK /\ HistoryHasTrunk /\ NoWorkspaceWithoutProject
<1>1. TypeOK => Shaped(store, nextProject, nextTrunk)
  BY DEF TypeOK, Shaped, Fields, Live
<1>2. TreeWellFormed <=> Forest(store)
  BY DEF TreeWellFormed, Forest, Live
<1>3. ActiveExists <=> Active(store)
  BY DEF ActiveExists, Active, Live
<1>4. QED
  BY <1>1, <1>2, <1>3 DEF StoresAgree, Good

\* An operation that changes attributes of rows only: the same projects and
\* trunks in the same tree, and the same active ones.
SameTree(s, r) ==
  /\ DOMAIN r = Fields
  /\ DOMAIN r.projects = DOMAIN s.projects
  /\ DOMAIN r.trunks = DOMAIN s.trunks
  /\ r.activeProject = s.activeProject
  /\ r.activeTrunk = s.activeTrunk
  /\ \A p \in DOMAIN s.projects : r.projects[p] \in Project
  /\ \A t \in DOMAIN s.trunks :
       /\ r.trunks[t] \in Trunk
       /\ r.trunks[t].project = s.trunks[t].project
       /\ r.trunks[t].parent = s.trunks[t].parent

\* Every trunk keeps its card.
SameCards(s, r) ==
  \A t \in DOMAIN s.trunks \cap DOMAIN r.trunks : r.trunks[t].card = s.trunks[t].card

LEMMA SameTreeIsGood ==
  ASSUME NEW s, NEW r, NEW p, NEW t, Good(s, p, t), SameTree(s, r)
  PROVE  Good(r, p, t)
<1>1. Shaped(r, p, t)
  BY DEF Good, Shaped, SameTree
<1>2. Forest(r)
  BY DEF Good, Forest, SameTree
<1>3. Active(r)
  BY DEF Good, Active, SameTree
<1>4. QED
  BY <1>1, <1>2, <1>3 DEF Good

\* A row replaced by one with the same place in the tree.
LEMMA ProjectRowSameTree ==
  ASSUME NEW s, NEW np, NEW nt, Good(s, np, nt), NEW p \in DOMAIN s.projects,
         NEW row \in Project, NEW r, r = [s EXCEPT !.projects[p] = row]
  PROVE  SameTree(s, r) /\ SameCards(s, r)
<1>1. DOMAIN s = Fields
  BY DEF Good, Shaped
<1>2. /\ DOMAIN r = Fields /\ r.trunks = s.trunks
      /\ r.activeProject = s.activeProject /\ r.activeTrunk = s.activeTrunk
      /\ r.projects = [s.projects EXCEPT ![p] = row]
  BY <1>1 DEF Fields
<1>3. SameTree(s, r)
  BY <1>1, <1>2 DEF SameTree, Good, Shaped
<1>4. SameCards(s, r)
  BY <1>2 DEF SameCards
<1>5. QED
  BY <1>3, <1>4

LEMMA TrunkRowSameTree ==
  ASSUME NEW s, NEW np, NEW nt, Good(s, np, nt), NEW t \in DOMAIN s.trunks,
         NEW row \in Trunk, row.project = s.trunks[t].project,
         row.parent = s.trunks[t].parent, NEW r, r = [s EXCEPT !.trunks[t] = row]
  PROVE  /\ SameTree(s, r)
         /\ \A u \in DOMAIN s.trunks : r.trunks[u] = IF u = t THEN row ELSE s.trunks[u]
         /\ row.card = s.trunks[t].card => SameCards(s, r)
<1>1. DOMAIN s = Fields
  BY DEF Good, Shaped
<1>2. /\ DOMAIN r = Fields /\ r.projects = s.projects
      /\ r.activeProject = s.activeProject /\ r.activeTrunk = s.activeTrunk
      /\ r.trunks = [s.trunks EXCEPT ![t] = row]
  BY <1>1 DEF Fields
<1>3. SameTree(s, r)
  BY <1>1, <1>2 DEF SameTree, Good, Shaped
<1>4. QED
  BY <1>2, <1>3 DEF SameCards

\* The setters of a row's attributes.
LEMMA PinnedSameTree ==
  ASSUME NEW s, NEW np, NEW nt, Good(s, np, nt), NEW t \in DOMAIN s.trunks, NEW pinned \in BOOLEAN
  PROVE  SameTree(s, setTrunkPinned(s, t, pinned)) /\ SameCards(s, setTrunkPinned(s, t, pinned))
<1> DEFINE row == [s.trunks[t] EXCEPT !.pinned = pinned]
<1>1. row \in Trunk /\ row.project = s.trunks[t].project /\ row.parent = s.trunks[t].parent
      /\ row.card = s.trunks[t].card
  BY DEF Good, Shaped, Trunk
<1>2. setTrunkPinned(s, t, pinned) = [s EXCEPT !.trunks[t] = row]
  BY DEF setTrunkPinned
<1> HIDE DEF row
<1>3. QED
  BY <1>1, <1>2, TrunkRowSameTree

LEMMA ProjectPinnedSameTree ==
  ASSUME NEW s, NEW np, NEW nt, Good(s, np, nt), NEW p \in DOMAIN s.projects,
         NEW pinned \in BOOLEAN
  PROVE  SameTree(s, setProjectPinned(s, p, pinned)) /\ SameCards(s, setProjectPinned(s, p, pinned))
<1> DEFINE row == [s.projects[p] EXCEPT !.pinned = pinned]
<1>1. row \in Project
  BY DEF Good, Shaped, Project
<1>2. setProjectPinned(s, p, pinned) = [s EXCEPT !.projects[p] = row]
  BY DEF setProjectPinned
<1> HIDE DEF row
<1>3. QED
  BY <1>1, <1>2, ProjectRowSameTree

LEMMA FolderSameTree ==
  ASSUME NEW s, NEW np, NEW nt, Good(s, np, nt), NEW p, NEW f \in Folders
  PROVE  SameTree(s, updateProjectFolder(s, p, f)) /\ SameCards(s, updateProjectFolder(s, p, f))
<1>1. CASE p \in DOMAIN s.projects
  <2> DEFINE row == [s.projects[p] EXCEPT !.folderPath = f]
  <2>1. row \in Project
    BY <1>1 DEF Good, Shaped, Project
  <2>2. updateProjectFolder(s, p, f) = [s EXCEPT !.projects[p] = row]
    BY <1>1 DEF updateProjectFolder
  <2> HIDE DEF row
  <2>3. QED
    BY <1>1, <2>1, <2>2, ProjectRowSameTree
<1>2. CASE p \notin DOMAIN s.projects
  BY <1>2 DEF updateProjectFolder, SameTree, SameCards, Good, Shaped
<1>3. QED
  BY <1>1, <1>2

LEMMA CardSameTree ==
  ASSUME NEW s, NEW np, NEW nt, Good(s, np, nt), NEW t \in DOMAIN s.trunks, NEW card \in Cards
  PROVE  /\ SameTree(s, setTrunkActiveMainCard(s, t, card))
         /\ \A u \in DOMAIN s.trunks \ {t} :
              setTrunkActiveMainCard(s, t, card).trunks[u].card = s.trunks[u].card
         /\ card = s.trunks[t].card => SameCards(s, setTrunkActiveMainCard(s, t, card))
<1> DEFINE row == [s.trunks[t] EXCEPT !.card = card]
<1>1. row \in Trunk /\ row.project = s.trunks[t].project /\ row.parent = s.trunks[t].parent
      /\ row.card = card
  BY DEF Good, Shaped, Trunk
<1>2. setTrunkActiveMainCard(s, t, card) = [s EXCEPT !.trunks[t] = row]
  BY DEF setTrunkActiveMainCard
<1> HIDE DEF row
<1>3. QED
  BY <1>1, <1>2, TrunkRowSameTree

LEMMA TouchSameTree ==
  ASSUME NEW s, NEW np, NEW nt, Good(s, np, nt), NEW t \in DOMAIN s.trunks, day \in Days
  PROVE  SameTree(s, touchTrunkActivity(s, t)) /\ SameCards(s, touchTrunkActivity(s, t))
<1> DEFINE p   == s.trunks[t].project
           row == [s.trunks[t] EXCEPT !.lastOpenedAt = day]
           pro == [s.projects[p] EXCEPT !.lastOpenedAt = day]
           r1  == [s EXCEPT !.trunks[t] = row]
           r   == [r1 EXCEPT !.projects[p] = pro]
<1>1. p \in DOMAIN s.projects
  BY DEF Good, Forest
<1>2. row \in Trunk /\ row.project = s.trunks[t].project /\ row.parent = s.trunks[t].parent
      /\ row.card = s.trunks[t].card
  BY DEF Good, Shaped, Trunk
<1>3. pro \in Project
  BY <1>1 DEF Good, Shaped, Project
<1>4. DOMAIN s = Fields
  BY DEF Good, Shaped
<1>5. touchTrunkActivity(s, t) = r
  BY <1>4 DEF touchTrunkActivity, Fields
<1> HIDE DEF row, pro, p
<1>6. /\ DOMAIN r = Fields
      /\ r.activeProject = s.activeProject /\ r.activeTrunk = s.activeTrunk
      /\ r.trunks = [s.trunks EXCEPT ![t] = row]
      /\ r.projects = [s.projects EXCEPT ![p] = pro]
  BY <1>4 DEF Fields
<1> HIDE DEF r
<1>7. SameTree(s, r)
  BY <1>2, <1>3, <1>6 DEF SameTree, Good, Shaped
<1>8. SameCards(s, r)
  BY <1>2, <1>6 DEF SameCards
<1>9. QED
  BY <1>5, <1>7, <1>8

\* What is shown as active: a trunk with its project, or nothing.
LEMMA ActiveIdsGood ==
  ASSUME NEW s, NEW np, NEW nt, Good(s, np, nt), NEW p \in Projects \cup {None},
         NEW t \in Trunks \cup {None},
         p # None => p \in DOMAIN s.projects,
         t # None => t \in DOMAIN s.trunks /\ s.trunks[t].project = p
  PROVE  /\ Good(setActiveIds(s, p, t), np, nt)
         /\ setActiveIds(s, p, t).trunks = s.trunks
         /\ setActiveIds(s, p, t).projects = s.projects
         /\ setActiveIds(s, p, t).activeTrunk = t
         /\ setActiveIds(s, p, t).activeProject = p
<1> DEFINE r == setActiveIds(s, p, t)
<1>1. DOMAIN s = Fields
  BY DEF Good, Shaped
<1>2. /\ DOMAIN r = Fields /\ r.trunks = s.trunks /\ r.projects = s.projects
      /\ r.activeTrunk = t /\ r.activeProject = p
  BY <1>1 DEF setActiveIds, Fields
<1> HIDE DEF r
<1>3. Good(r, np, nt)
  BY <1>2 DEF Good, Shaped, Forest, Active
<1>4. QED
  BY <1>2, <1>3 DEF r

\* A row for a new trunk, at the root of a project or under one of its roots.
LEMMA AddTrunkGood ==
  ASSUME NEW s, NEW np \in Nat, NEW nt \in Nat, NEW nt2 \in Nat, Good(s, np, nt), nt <= nt2,
         NEW t \in 1..(nt2 - 1), t \notin DOMAIN s.trunks,
         NEW row \in Trunk, row.project \in DOMAIN s.projects,
         row.parent # None =>
           /\ row.parent \in DOMAIN s.trunks /\ s.trunks[row.parent].parent = None
           /\ s.trunks[row.parent].project = row.project
  PROVE  /\ Good(addTrunk(s, t, row), np, nt2)
         /\ DOMAIN addTrunk(s, t, row).trunks = DOMAIN s.trunks \cup {t}
         /\ addTrunk(s, t, row).trunks[t] = row
         /\ addTrunk(s, t, row).projects = s.projects
         /\ addTrunk(s, t, row).activeTrunk = s.activeTrunk
         /\ SameCards(s, addTrunk(s, t, row))
<1> DEFINE r == addTrunk(s, t, row)
<1>1. DOMAIN s = Fields
  BY DEF Good, Shaped
<1>2. /\ DOMAIN r = Fields /\ r.projects = s.projects
      /\ r.activeTrunk = s.activeTrunk /\ r.activeProject = s.activeProject
      /\ DOMAIN r.trunks = DOMAIN s.trunks \cup {t}
      /\ r.trunks[t] = row
      /\ \A u \in DOMAIN s.trunks : r.trunks[u] = s.trunks[u]
  BY <1>1 DEF addTrunk, Fields
<1> HIDE DEF r
<1>3. Shaped(r, np, nt2)
  BY <1>2 DEF Good, Shaped
<1>4. Forest(r)
  <2>1. ASSUME NEW u \in DOMAIN r.trunks
        PROVE  /\ r.trunks[u].project \in DOMAIN r.projects
               /\ r.trunks[u].parent # None =>
                    /\ r.trunks[u].parent \in DOMAIN r.trunks
                    /\ r.trunks[r.trunks[u].parent].parent = None
                    /\ r.trunks[r.trunks[u].parent].project = r.trunks[u].project
    BY <1>2, <2>1 DEF Good, Forest
  <2>2. \A p \in DOMAIN r.projects : \E u \in DOMAIN r.trunks : r.trunks[u].project = p
    BY <1>2 DEF Good, Forest
  <2>3. QED
    BY <2>1, <2>2 DEF Forest
<1>5. Active(r)
  BY <1>2 DEF Good, Active
<1>6. QED
  BY <1>2, <1>3, <1>4, <1>5 DEF r, Good, SameCards

\* A new project comes with its root trunk, which becomes the active one.
LEMMA CreateProjectGood ==
  ASSUME NEW s, NEW np \in Nat, NEW nt \in Nat, Good(s, np, nt), np \in Projects, nt \in Trunks,
         NEW f \in Folders, day \in Days
  PROVE  /\ Good(createProjectWithRootTrunk(s, np, nt, f), np + 1, nt + 1)
         /\ DOMAIN createProjectWithRootTrunk(s, np, nt, f).trunks = DOMAIN s.trunks \cup {nt}
         /\ SameCards(s, createProjectWithRootTrunk(s, np, nt, f))
<1> DEFINE row == NewTrunk(np, None, FALSE)
           a   == addTrunk(s, nt, row)
           pro == [folderPath |-> f, pinned |-> FALSE, lastOpenedAt |-> day]
           r   == createProjectWithRootTrunk(s, np, nt, f)
<1>1. row \in Trunk /\ row.project = np /\ row.parent = None
  BY CardsAssumption DEF NewTrunk, Trunk
<1>2. pro \in Project
  BY DEF Project
<1>3. np \notin DOMAIN s.projects /\ nt \notin DOMAIN s.trunks /\ DOMAIN s = Fields
  BY DEF Good, Shaped
<1>4. /\ DOMAIN a = Fields /\ a.projects = s.projects
      /\ DOMAIN a.trunks = DOMAIN s.trunks \cup {nt}
      /\ a.trunks[nt] = row
      /\ \A u \in DOMAIN s.trunks : a.trunks[u] = s.trunks[u]
  BY <1>3 DEF addTrunk, Fields
<1>5. r = [a EXCEPT !.projects = [q \in DOMAIN s.projects \cup {np} |->
                                    IF q = np THEN pro ELSE s.projects[q]],
                    !.activeProject = np, !.activeTrunk = nt]
  BY DEF createProjectWithRootTrunk
<1> HIDE DEF row, pro, a, r
<1>6. /\ DOMAIN r = Fields /\ r.activeProject = np /\ r.activeTrunk = nt
      /\ r.trunks = a.trunks
      /\ DOMAIN r.projects = DOMAIN s.projects \cup {np}
      /\ r.projects[np] = pro
      /\ \A q \in DOMAIN s.projects : r.projects[q] = s.projects[q]
  BY <1>3, <1>4, <1>5 DEF Fields
<1>7. Shaped(r, np + 1, nt + 1)
  <2>1. 1 <= np /\ 1 <= nt
    BY BoundsAssumption DEF Projects, Trunks
  <2>2. DOMAIN r.projects \subseteq 1..(np + 1 - 1) /\ DOMAIN r.trunks \subseteq 1..(nt + 1 - 1)
    BY <1>4, <1>6, <2>1 DEF Good, Shaped
  <2>3. \A p \in DOMAIN r.projects : r.projects[p] \in Project
    BY <1>2, <1>6 DEF Good, Shaped
  <2>4. \A t \in DOMAIN r.trunks : r.trunks[t] \in Trunk
    BY <1>1, <1>4, <1>6 DEF Good, Shaped
  <2>5. QED
    BY <1>6, <2>2, <2>3, <2>4 DEF Shaped
<1>8. Forest(r)
  <2>1. ASSUME NEW u \in DOMAIN r.trunks
        PROVE  /\ r.trunks[u].project \in DOMAIN r.projects
               /\ r.trunks[u].parent # None =>
                    /\ r.trunks[u].parent \in DOMAIN r.trunks
                    /\ r.trunks[r.trunks[u].parent].parent = None
                    /\ r.trunks[r.trunks[u].parent].project = r.trunks[u].project
    BY <1>1, <1>3, <1>4, <1>6, <2>1 DEF Good, Forest
  <2>2. \A p \in DOMAIN r.projects : \E u \in DOMAIN r.trunks : r.trunks[u].project = p
    BY <1>1, <1>4, <1>6 DEF Good, Forest
  <2>3. QED
    BY <2>1, <2>2 DEF Forest
<1>9. Active(r)
  BY <1>1, <1>4, <1>6 DEF Active
<1>10. SameCards(s, r)
  BY <1>4, <1>6 DEF SameCards
<1>11. QED
  BY <1>4, <1>6, <1>7, <1>8, <1>9, <1>10 DEF r, Good

\* Trunks that go with their children, and the projects they leave empty.
LEMMA RemoveTrunksGood ==
  ASSUME NEW s, NEW np, NEW nt, Good(s, np, nt), NEW gone,
         \A t \in DOMAIN s.trunks : s.trunks[t].parent \in gone => t \in gone
  PROVE  /\ Good(RemoveTrunks(s, gone), np, nt)
         /\ DOMAIN RemoveTrunks(s, gone).trunks = DOMAIN s.trunks \ gone
         /\ \A t \in DOMAIN s.trunks \ gone : RemoveTrunks(s, gone).trunks[t] = s.trunks[t]
         /\ DOMAIN RemoveTrunks(s, gone).projects =
              {p \in DOMAIN s.projects :
                 \E t \in DOMAIN s.trunks \ gone : s.trunks[t].project = p}
         /\ RemoveTrunks(s, gone).activeTrunk \in {s.activeTrunk, None}
<1> DEFINE kept    == DOMAIN s.trunks \ gone
           owners  == {s.trunks[t].project : t \in DOMAIN s.trunks \cap gone}
           emptied == {p \in owners : \A t \in kept : s.trunks[t].project # p}
           r       == RemoveTrunks(s, gone)
<1>1. /\ DOMAIN r = Fields
      /\ DOMAIN r.projects = DOMAIN s.projects \ emptied
      /\ \A p \in DOMAIN s.projects \ emptied : r.projects[p] = s.projects[p]
      /\ DOMAIN r.trunks = kept
      /\ \A t \in kept : r.trunks[t] = s.trunks[t]
      /\ r.activeProject = IF s.activeProject \in emptied THEN None ELSE s.activeProject
      /\ r.activeTrunk = IF s.activeTrunk \in gone THEN None ELSE s.activeTrunk
  BY DEF RemoveTrunks, Restrict, Fields
<1>2. \A p \in DOMAIN s.projects : p \in emptied <=> \A t \in kept : s.trunks[t].project # p
  BY DEF Good, Forest
<1> HIDE DEF owners, emptied, r
<1>3. Shaped(r, np, nt)
  BY <1>1 DEF Good, Shaped
<1>4. Forest(r)
  <2>1. ASSUME NEW t \in kept
        PROVE  /\ s.trunks[t].project \in DOMAIN r.projects
               /\ s.trunks[t].parent # None =>
                    /\ s.trunks[t].parent \in kept
                    /\ s.trunks[s.trunks[t].parent].parent = None
                    /\ s.trunks[s.trunks[t].parent].project = s.trunks[t].project
    BY <1>1, <1>2, <2>1 DEF Good, Forest
  <2>2. \A p \in DOMAIN r.projects : \E t \in kept : s.trunks[t].project = p
    BY <1>1, <1>2
  <2>3. QED
    BY <1>1, <2>1, <2>2 DEF Forest
<1>5. Active(r)
  BY <1>1, <1>2 DEF Good, Active
<1>6. DOMAIN r.projects = {p \in DOMAIN s.projects : \E t \in kept : s.trunks[t].project = p}
  BY <1>1, <1>2
<1>7. QED
  BY <1>1, <1>3, <1>4, <1>5, <1>6 DEF r, Good

\* A trunk's subtree is closed under children.
LEMMA SubtreeClosed ==
  ASSUME NEW s, NEW np, NEW nt, Good(s, np, nt), NEW t
  PROVE  /\ Subtree(s, t) \subseteq DOMAIN s.trunks
         /\ \A u \in DOMAIN s.trunks : s.trunks[u].parent \in Subtree(s, t) => u \in Subtree(s, t)
<1>1. Subtree(s, t) \subseteq DOMAIN s.trunks
  BY DEF Subtree
<1>2. ASSUME NEW u \in DOMAIN s.trunks, s.trunks[u].parent \in Subtree(s, t)
      PROVE  u \in Subtree(s, t)
  <2> DEFINE v == s.trunks[u].parent
  <2>1. v \in DOMAIN s.trunks /\ t \in DOMAIN s.trunks /\ (v = t \/ s.trunks[v].parent = t)
    BY <1>2 DEF Subtree
  <2>2. v # None /\ t # None
    BY <2>1 DEF Good, Shaped, None
  <2>3. s.trunks[v].parent = None
    BY <2>2 DEF Good, Forest
  <2>4. QED
    BY <2>1, <2>2, <2>3 DEF Subtree
<1>3. QED
  BY <1>1, <1>2

LEMMA DeleteTrunkCascadeGood ==
  ASSUME NEW s, NEW np, NEW nt, Good(s, np, nt), NEW t
  PROVE  /\ Good(deleteTrunkCascade(s, t), np, nt)
         /\ DOMAIN deleteTrunkCascade(s, t).trunks = DOMAIN s.trunks \ Subtree(s, t)
         /\ deleteTrunkCascade(s, t).activeTrunk \in {s.activeTrunk, None}
         /\ SameCards(s, deleteTrunkCascade(s, t))
  BY SubtreeClosed, RemoveTrunksGood DEF deleteTrunkCascade, SameCards

\* The projects that expired go with every trunk they still have.
LEMMA DeleteProjectsGood ==
  ASSUME NEW s, NEW np, NEW nt, Good(s, np, nt), NEW gone
  PROVE  LET r == deleteProjectCascades(s, gone)
         IN  /\ Good(r, np, nt)
             /\ DOMAIN r.trunks = {t \in DOMAIN s.trunks : s.trunks[t].project \notin gone}
             /\ \A t \in DOMAIN r.trunks : r.trunks[t] = s.trunks[t]
             /\ DOMAIN r.projects = DOMAIN s.projects \ gone
             /\ r.activeTrunk \in {s.activeTrunk, None}
<1> DEFINE out == {t \in DOMAIN s.trunks : s.trunks[t].project \in gone}
           q   == RemoveTrunks(s, out)
           r   == deleteProjectCascades(s, gone)
<1>1. \A t \in DOMAIN s.trunks : s.trunks[t].parent \in out => t \in out
  <2> SUFFICES ASSUME NEW t \in DOMAIN s.trunks, s.trunks[t].parent \in out
               PROVE  t \in out
    OBVIOUS
  <2>1. s.trunks[t].parent # None
    BY DEF Good, Shaped, None
  <2>2. QED
    BY <2>1 DEF Good, Forest
<1> HIDE DEF out
<1>2. /\ Good(q, np, nt)
      /\ DOMAIN q.trunks = DOMAIN s.trunks \ out
      /\ \A t \in DOMAIN s.trunks \ out : q.trunks[t] = s.trunks[t]
      /\ DOMAIN q.projects = {p \in DOMAIN s.projects :
                                \E t \in DOMAIN s.trunks \ out : s.trunks[t].project = p}
      /\ q.activeTrunk \in {s.activeTrunk, None}
  BY <1>1, RemoveTrunksGood
<1>3. r = [q EXCEPT !.projects = [p \in DOMAIN q.projects \ gone |-> q.projects[p]],
                    !.activeProject = IF @ \in gone THEN None ELSE @]
  BY DEF deleteProjectCascades, Restrict, out
<1>4. DOMAIN q = Fields
  BY <1>2 DEF Good, Shaped
<1> HIDE DEF q, r
<1>5. /\ DOMAIN r = Fields /\ r.trunks = q.trunks /\ r.activeTrunk = q.activeTrunk
      /\ r.activeProject = IF q.activeProject \in gone THEN None ELSE q.activeProject
      /\ DOMAIN r.projects = DOMAIN q.projects \ gone
      /\ \A p \in DOMAIN q.projects \ gone : r.projects[p] = q.projects[p]
  BY <1>3, <1>4 DEF Fields
<1>6. \A t \in DOMAIN q.trunks : q.trunks[t].project \notin gone
  BY <1>2 DEF out
<1>7. \A p \in DOMAIN s.projects \ gone : \E t \in DOMAIN s.trunks \ out : s.trunks[t].project = p
  BY DEF Good, Forest, out
<1>8. DOMAIN r.projects = DOMAIN s.projects \ gone
  BY <1>2, <1>5, <1>7
<1>9. Shaped(r, np, nt)
  BY <1>2, <1>5 DEF Good, Shaped
<1>10. Forest(r)
  BY <1>2, <1>5, <1>6 DEF Good, Forest
<1>11. Active(r)
  <2>1. q.activeTrunk # None => q.activeProject \notin gone
    BY <1>2, <1>6 DEF Good, Active
  <2>2. QED
    BY <1>2, <1>5, <2>1 DEF Good, Active
<1>12. DOMAIN r.trunks = {t \in DOMAIN s.trunks : s.trunks[t].project \notin gone}
  BY <1>2, <1>5 DEF out
<1>13. QED
  BY <1>2, <1>5, <1>8, <1>9, <1>10, <1>11, <1>12 DEF r, Good

\* The sweep takes expired trunks with their children, and then the expired
\* projects with what is left of them.
LEMMA SweepGood ==
  ASSUME NEW s, NEW np, NEW nt, Good(s, np, nt)
  PROVE  LET r       == runRetentionSweep(s)
             expired == projectSelectExpired(s)
         IN  /\ Good(r, np, nt)
             /\ \A t \in DOMAIN s.trunks :
                  \/ t \in DOMAIN r.trunks /\ r.trunks[t] = s.trunks[t]
                  \/ \E u \in expired.trunks : t \in Subtree(s, u)
                  \/ s.trunks[t].project \in expired.projects
             /\ DOMAIN r.trunks \subseteq DOMAIN s.trunks
             /\ \A t \in DOMAIN r.trunks : r.trunks[t] = s.trunks[t]
             /\ DOMAIN r.projects \subseteq DOMAIN s.projects
             /\ r.activeTrunk \in {s.activeTrunk, None}
<1> DEFINE expired == projectSelectExpired(s)
           out     == UNION {Subtree(s, t) : t \in expired.trunks}
           q       == RemoveTrunks(s, out)
           r       == runRetentionSweep(s)
<1>1. \A t \in DOMAIN s.trunks : s.trunks[t].parent \in out => t \in out
  BY SubtreeClosed
<1>2. \A t \in out : \E u \in expired.trunks : t \in Subtree(s, u)
  OBVIOUS
<1>3. r = deleteProjectCascades(q, expired.projects \cap DOMAIN q.projects)
  BY DEF runRetentionSweep
<1> HIDE DEF expired, out, r
<1>4. /\ Good(q, np, nt)
      /\ DOMAIN q.trunks = DOMAIN s.trunks \ out
      /\ \A t \in DOMAIN s.trunks \ out : q.trunks[t] = s.trunks[t]
      /\ DOMAIN q.projects \subseteq DOMAIN s.projects
      /\ q.activeTrunk \in {s.activeTrunk, None}
  BY <1>1, RemoveTrunksGood
<1> HIDE DEF q
<1> DEFINE gone == expired.projects \cap DOMAIN q.projects
<1>5. gone \subseteq expired.projects
  OBVIOUS
<1> HIDE DEF gone
<1>6. /\ Good(r, np, nt)
      /\ DOMAIN r.trunks = {t \in DOMAIN q.trunks : q.trunks[t].project \notin gone}
      /\ \A t \in DOMAIN r.trunks : r.trunks[t] = q.trunks[t]
      /\ DOMAIN r.projects = DOMAIN q.projects \ gone
      /\ r.activeTrunk \in {q.activeTrunk, None}
  BY <1>3, <1>4, DeleteProjectsGood DEF gone
<1>7. \A t \in DOMAIN s.trunks :
        \/ t \in DOMAIN r.trunks /\ r.trunks[t] = s.trunks[t]
        \/ \E u \in expired.trunks : t \in Subtree(s, u)
        \/ s.trunks[t].project \in expired.projects
  BY <1>2, <1>4, <1>5, <1>6
<1>8. QED
  BY <1>4, <1>6, <1>7 DEF r, expired

\* Rehydration keeps every trunk, its project and its card, makes each a root,
\* and drops what was active and no longer exists.
LEMMA MergeGood ==
  ASSUME NEW s, NEW np \in Nat, NEW nt \in Nat, Good(s, np, nt)
  PROVE  LET r == merge(s)
         IN  /\ Good(r, np, nt)
             /\ DOMAIN r.trunks = DOMAIN s.trunks
             /\ r.projects = s.projects
             /\ \A t \in DOMAIN s.trunks :
                  /\ r.trunks[t].project = s.trunks[t].project
                  /\ r.trunks[t].parent = None
                  /\ r.trunks[t].card = s.trunks[t].card
                  /\ r.trunks[t].pinned = s.trunks[t].pinned
                  /\ r.trunks[t].lastOpenedAt = s.trunks[t].lastOpenedAt
             /\ r.activeTrunk = s.activeTrunk
<1> DEFINE normalized == [t \in DOMAIN s.trunks |-> projectNormalizeTrunkRestore(s.trunks[t])]
           trunks     == projectFlattenTrunks(normalized)
           q          == [s EXCEPT !.trunks = trunks]
           t          == IF s.activeTrunk \in DOMAIN trunks THEN s.activeTrunk ELSE None
           p          == IF t # None THEN trunks[t].project
                         ELSE IF s.activeProject \in DOMAIN s.projects
                         THEN s.activeProject ELSE None
<1>1. DOMAIN s = Fields
  BY DEF Good, Shaped
<1>2. ASSUME NEW row \in Trunk
      PROVE  /\ projectNormalizeTrunkRestore(row) \in Trunk
             /\ projectNormalizeTrunkRestore(row).project = row.project
             /\ projectNormalizeTrunkRestore(row).card = row.card
             /\ projectNormalizeTrunkRestore(row).pinned = row.pinned
             /\ projectNormalizeTrunkRestore(row).lastOpenedAt = row.lastOpenedAt
  BY DEF projectNormalizeTrunkRestore, Trunk
<1>3. DOMAIN normalized = DOMAIN s.trunks
  OBVIOUS
<1>4. \A u \in DOMAIN s.trunks :
        /\ normalized[u] \in Trunk
        /\ normalized[u].project = s.trunks[u].project
        /\ normalized[u].card = s.trunks[u].card
        /\ normalized[u].pinned = s.trunks[u].pinned
        /\ normalized[u].lastOpenedAt = s.trunks[u].lastOpenedAt
  BY <1>2 DEF Good, Shaped
<1> HIDE DEF normalized
<1>5. /\ DOMAIN trunks = DOMAIN s.trunks
      /\ \A u \in DOMAIN s.trunks :
           /\ trunks[u] \in Trunk
           /\ trunks[u].project = s.trunks[u].project
           /\ trunks[u].parent = None
           /\ trunks[u].card = s.trunks[u].card
           /\ trunks[u].pinned = s.trunks[u].pinned
           /\ trunks[u].lastOpenedAt = s.trunks[u].lastOpenedAt
  BY <1>3, <1>4 DEF projectFlattenTrunks, Trunk
<1>6. merge(s) = setActiveIds(q, p, t)
  BY DEF merge, normalized
<1> HIDE DEF trunks
<1>7. /\ DOMAIN q = Fields /\ q.trunks = trunks /\ q.projects = s.projects
      /\ q.activeTrunk = s.activeTrunk /\ q.activeProject = s.activeProject
  BY <1>1 DEF Fields
<1> HIDE DEF q
<1>8. Good(q, np, nt)
  <2>1. Shaped(q, np, nt)
    BY <1>5, <1>7 DEF Good, Shaped
  <2>2. Forest(q)
    BY <1>5, <1>7 DEF Good, Forest
  <2>3. Active(q)
    BY <1>5, <1>7 DEF Good, Active
  <2>4. QED
    BY <2>1, <2>2, <2>3 DEF Good
<1>9. t = s.activeTrunk
  BY <1>5 DEF Good, Active
<1>10. /\ t \in Trunks \cup {None} /\ p \in Projects \cup {None}
       /\ p # None => p \in DOMAIN q.projects
       /\ t # None => t \in DOMAIN q.trunks /\ q.trunks[t].project = p
  <2>1. t \in Trunks \cup {None}
    BY <1>9 DEF Good, Shaped
  <2>2. t # None => t \in DOMAIN trunks /\ trunks[t].project \in DOMAIN s.projects
    BY <1>5 DEF Good, Forest
  <2>3. p # None => p \in DOMAIN s.projects
    BY <2>2
  <2>4. p \in Projects \cup {None}
    BY <2>2, <1>5 DEF Good, Shaped, Trunk
  <2>5. QED
    BY <1>7, <2>1, <2>2, <2>3, <2>4
<1> HIDE DEF t, p
<1>11. /\ Good(merge(s), np, nt)
       /\ merge(s).trunks = q.trunks /\ merge(s).projects = q.projects
       /\ merge(s).activeTrunk = t
  BY <1>6, <1>8, <1>10, ActiveIdsGood
<1>12. QED
  BY <1>5, <1>7, <1>9, <1>11

-----------------------------------------------------------------------------
\* Activation shows the trunk, leaves the tree and every card as they are, and
\* is the newest one on its way.
LEMMA BeginActivationGood ==
  ASSUME NEW s, NEW np \in 1..(MaxProjects + 1), NEW nt \in 1..(MaxTrunks + 1), Good(s, np, nt), NEW t \in DOMAIN s.trunks,
         day \in Days, BeginActivation(s, t)
  PROVE  /\ Good(store', np, nt)
         /\ DOMAIN store'.trunks = DOMAIN s.trunks
         /\ DOMAIN store'.projects = DOMAIN s.projects
         /\ store'.activeTrunk = t
         /\ SameCards(s, store')
<1> DEFINE p       == s.trunks[t].project
           touched == touchTrunkActivity(s, t)
           active  == setActiveIds(touched, p, t)
<1>1. /\ SameTree(s, touched) /\ SameCards(s, touched)
      /\ Good(touched, np, nt)
  BY TouchSameTree, SameTreeIsGood
<1>2. /\ t \in DOMAIN touched.trunks /\ touched.trunks[t].project = p
      /\ p \in DOMAIN touched.projects
  BY <1>1 DEF SameTree, Good, Forest
<1>3. t \in Trunks /\ p \in Projects /\ t # None
  <2>1. t \in 1..(nt - 1) /\ s.trunks[t] \in Trunk
    BY DEF Good, Shaped
  <2>2. t \in Trunks /\ t # None
    BY <2>1, BoundsAssumption DEF Trunks, None
  <2>3. QED
    BY <2>1, <2>2 DEF Trunk
<1> HIDE DEF touched
<1>4. /\ Good(active, np, nt)
      /\ active.trunks = touched.trunks /\ active.projects = touched.projects
      /\ active.activeTrunk = t
  <2> HIDE DEF p
  <2>1. QED
    BY <1>1, <1>2, <1>3, ActiveIdsGood
<1>5. shellCard' = s.trunks[t].card /\ store' = projectSyncRestoreFromShell(active, shellCard')
  BY DEF BeginActivation, touched
<1> HIDE DEF active
<1>6. store' = setTrunkActiveMainCard(active, t, active.trunks[t].card)
  <2>1. active.trunks[t].card = s.trunks[t].card
    BY <1>1, <1>2, <1>4 DEF SameCards
  <2>2. QED
    BY <1>3, <1>4, <1>5, <2>1 DEF projectSyncRestoreFromShell
<1>7. active.trunks[t].card \in Cards /\ t \in DOMAIN active.trunks
  BY <1>2, <1>4 DEF Good, Shaped, Trunk
<1>8. SameTree(active, store') /\ SameCards(active, store')
  BY <1>4, <1>6, <1>7, CardSameTree
<1>9. Good(store', np, nt)
  BY <1>4, <1>8, SameTreeIsGood
<1>10. QED
  BY <1>1, <1>4, <1>8, <1>9 DEF SameTree, SameCards

-----------------------------------------------------------------------------
(* The parts of the invariant.                                              *)

RestTyped ==
  /\ running \in BOOLEAN /\ day \in Days
  /\ chat \subseteq Trunks /\ worktrees \subseteq Trunks /\ requests \subseteq Trunks
  /\ workspace \in Paths \cup {NoPath}
  /\ shellCard \in Cards
  /\ runtime \in [Trunks -> {"none", "resolving", "invalid", "ready"}]
  /\ generation \in 0..MaxGeneration
  /\ activations \subseteq [generation : 1..MaxGeneration, trunk : Trunks,
                             folderPath : Folders, worktree : BOOLEAN, onDisk : BOOLEAN]
  /\ creations \subseteq [trunk : Trunks, parent : Trunks]
  /\ \A d \in deletions : d \in [id : 1..MaxDeletions, target : Trunks,
                                  todo : SUBSET Trunks, inspected : Trunks \cup {None}]
  /\ nextTrunk \in 1..(MaxTrunks + 1) /\ nextProject \in 1..(MaxProjects + 1)

LEMMA InvariantParts ==
  Invariant <=> /\ Good(store, nextProject, nextTrunk) /\ RestTyped /\ HistoryHasTrunk
                /\ NoWorkspaceWithoutProject /\ CreationsAreNew /\ MigratesFolders
                /\ ResolvingIsAwaited
<1>1. TypeOK <=> RestTyped /\ Shaped(store, nextProject, nextTrunk)
  BY DEF TypeOK, RestTyped, Shaped, Fields, Live
<1>2. QED
  BY <1>1, StoresAgreeIsGood DEF Invariant, Good

LEMMA InvariantPartsNext ==
  Invariant' <=> /\ Good(store', nextProject', nextTrunk') /\ RestTyped' /\ HistoryHasTrunk'
                 /\ NoWorkspaceWithoutProject' /\ CreationsAreNew' /\ MigratesFolders'
                 /\ ResolvingIsAwaited'
<1> DEFINE good == Good(store, nextProject, nextTrunk)
<1>1. Invariant <=> /\ good /\ RestTyped /\ HistoryHasTrunk /\ NoWorkspaceWithoutProject
                    /\ CreationsAreNew /\ MigratesFolders /\ ResolvingIsAwaited
  BY InvariantParts
<1>2. good' <=> Good(store', nextProject', nextTrunk')
  OBVIOUS
<1> HIDE DEF good
<1>3. Invariant' <=> /\ good' /\ RestTyped' /\ HistoryHasTrunk' /\ NoWorkspaceWithoutProject'
                     /\ CreationsAreNew' /\ MigratesFolders' /\ ResolvingIsAwaited'
  BY <1>1, PTL
<1>4. QED
  BY <1>2, <1>3

LEMMA LiveAreTrunks ==
  ASSUME Good(store, nextProject, nextTrunk), RestTyped
  PROVE  /\ Live \subseteq Trunks /\ None \notin Live
         /\ DOMAIN store.projects \subseteq Projects
<1>1. /\ Live \subseteq 1..(nextTrunk - 1) /\ nextTrunk \in 1..(MaxTrunks + 1)
      /\ DOMAIN store.projects \subseteq 1..(nextProject - 1) /\ nextProject \in 1..(MaxProjects + 1)
  BY DEF Good, Shaped, RestTyped, Live
<1>2. QED
  BY <1>1, BoundsAssumption DEF Trunks, Projects, None

LEMMA ProjectInit == Init => Invariant
<1> SUFFICES ASSUME Init PROVE Invariant
  OBVIOUS
<1>1. DOMAIN << >> = {}
  OBVIOUS
<1>2. /\ DOMAIN store = Fields /\ DOMAIN store.projects = {} /\ DOMAIN store.trunks = {}
      /\ store.activeProject = None /\ store.activeTrunk = None
  BY <1>1 DEF Init, Fields
<1>3. Good(store, nextProject, nextTrunk)
  BY <1>2 DEF Good, Shaped, Forest, Active
<1>4. RestTyped
  <2>1. /\ 0 \in 0..MaxDay /\ 0 \in 0..MaxGeneration
        /\ 1 \in 1..(MaxTrunks + 1) /\ 1 \in 1..(MaxProjects + 1)
    BY BoundsAssumption
  <2>2. workspace \in Paths \cup {NoPath}
    BY DEF Init, Paths
  <2>3. runtime \in [Trunks -> {"none", "resolving", "invalid", "ready"}]
    BY DEF Init
  <2>4. QED
    BY <2>1, <2>2, <2>3, CardsAssumption DEF Init, RestTyped, Days
<1>5. HistoryHasTrunk /\ NoWorkspaceWithoutProject /\ CreationsAreNew /\ MigratesFolders
  BY DEF Init, HistoryHasTrunk, NoWorkspaceWithoutProject, CreationsAreNew, MigratesFolders
<1>6. ResolvingIsAwaited
  BY <1>2 DEF ResolvingIsAwaited
<1>7. QED
  BY <1>3, <1>4, <1>5, <1>6, InvariantParts

-----------------------------------------------------------------------------
(* Steps that activate a trunk.                                             *)

LEMMA ActivationTyped ==
  ASSUME RestTyped, NEW s, NEW np, NEW nt, Good(s, np, nt), NEW t \in DOMAIN s.trunks,
         t \in Trunks, BeginActivation(s, t)
  PROVE  /\ shellCard' \in Cards
         /\ workspace' \in Folders
         /\ runtime' \in [Trunks -> {"none", "resolving", "invalid", "ready"}]
         /\ generation' \in 0..MaxGeneration
         /\ activations' \subseteq [generation : 1..MaxGeneration, trunk : Trunks,
                                    folderPath : Folders, worktree : BOOLEAN, onDisk : BOOLEAN]
         /\ \E a \in activations' : a.generation = generation' /\ a.trunk = t
<1> DEFINE p == s.trunks[t].project
           onDisk == t \in worktrees
           a == [generation |-> generation + 1, trunk |-> t,
                 folderPath |-> s.projects[p].folderPath,
                 worktree |-> s.trunks[t].worktree, onDisk |-> onDisk]
<1>1. s.trunks[t] \in Trunk /\ p \in DOMAIN s.projects /\ s.projects[p] \in Project
  BY DEF Good, Shaped, Forest
<1>2. /\ s.trunks[t].card \in Cards /\ s.trunks[t].worktree \in BOOLEAN
      /\ s.projects[p].folderPath \in Folders
  BY <1>1 DEF Trunk, Project
<1>3. onDisk \in BOOLEAN
  <2>1. CASE t \in worktrees
    BY <2>1
  <2>2. CASE t \notin worktrees
    BY <2>2
  <2>3. QED
    BY <2>1, <2>2
<1>4. generation < MaxGeneration /\ generation' = generation + 1
      /\ shellCard' = s.trunks[t].card /\ workspace' = s.projects[p].folderPath
      /\ runtime' = [runtime EXCEPT ![t] = "resolving"]
      /\ activations' = activations \cup {a}
  BY DEF BeginActivation, setCheckoutRuntime
<1>5. generation' \in 0..MaxGeneration /\ generation + 1 \in 1..MaxGeneration
  BY <1>4, BoundsAssumption DEF RestTyped
<1> HIDE DEF onDisk, p
<1>6. a \in [generation : 1..MaxGeneration, trunk : Trunks,
             folderPath : Folders, worktree : BOOLEAN, onDisk : BOOLEAN]
  BY <1>2, <1>3, <1>5
<1>7. a.generation = generation' /\ a.trunk = t
  BY <1>4
<1> HIDE DEF a
<1>8. QED
  BY <1>2, <1>4, <1>5, <1>6, <1>7 DEF RestTyped

\* With s the store the activation starts from, in which no worktree under
\* way has a row.
LEMMA ActivationStep ==
  ASSUME RestTyped, CreationsAreNew,
         nextProject' \in 1..(MaxProjects + 1), nextTrunk' \in 1..(MaxTrunks + 1),
         nextTrunk' >= nextTrunk,
         NEW s, Good(s, nextProject', nextTrunk'), NEW t \in DOMAIN s.trunks,
         BeginActivation(s, t),
         running' \in BOOLEAN, chat' \subseteq DOMAIN s.trunks,
         UNCHANGED <<day, requests, creations, deletions, worktrees>>,
         \A c \in creations : c.trunk \notin DOMAIN s.trunks
  PROVE  /\ Invariant'
         /\ DOMAIN store'.trunks = DOMAIN s.trunks /\ DOMAIN store'.projects = DOMAIN s.projects
         /\ SameCards(s, store')
<1>1. day \in Days
  BY DEF RestTyped
<1>2. DOMAIN s.trunks \subseteq 1..(nextTrunk' - 1)
  BY DEF Good, Shaped
<1>3. DOMAIN s.trunks \subseteq Trunks
  BY <1>2, BoundsAssumption DEF Trunks
<1>4. /\ shellCard' \in Cards
      /\ workspace' \in Folders
      /\ runtime' \in [Trunks -> {"none", "resolving", "invalid", "ready"}]
      /\ generation' \in 0..MaxGeneration
      /\ activations' \subseteq [generation : 1..MaxGeneration, trunk : Trunks,
                                 folderPath : Folders, worktree : BOOLEAN, onDisk : BOOLEAN]
      /\ \E a \in activations' : a.generation = generation' /\ a.trunk = t
  BY <1>3, ActivationTyped
<1>5. /\ Good(store', nextProject', nextTrunk')
      /\ DOMAIN store'.trunks = DOMAIN s.trunks /\ DOMAIN store'.projects = DOMAIN s.projects
      /\ store'.activeTrunk = t
      /\ SameCards(s, store')
  BY <1>1, BeginActivationGood
<1>6. RestTyped'
  BY <1>3, <1>4 DEF RestTyped, Paths
<1>7. HistoryHasTrunk'
  BY <1>5 DEF HistoryHasTrunk, Live
<1>8. DOMAIN store'.projects # {}
  BY <1>5 DEF Good, Forest
<1>9. NoWorkspaceWithoutProject' /\ MigratesFolders'
  BY <1>8 DEF NoWorkspaceWithoutProject, MigratesFolders
<1>10. CreationsAreNew'
  <2>1. \A c \in creations : c.trunk \in Nat
    BY DEF RestTyped, Trunks
  <2>2. QED
    BY <1>5, <2>1 DEF CreationsAreNew, Live, RestTyped
<1>11. ResolvingIsAwaited'
  BY <1>4, <1>5 DEF ResolvingIsAwaited
<1>12. QED
  BY <1>5, <1>6, <1>7, <1>9, <1>10, <1>11, InvariantPartsNext

LEMMA ActivateTrunkStep ==
  ASSUME Invariant, NEW t \in Trunks, ActivateTrunk(t)
  PROVE  Invariant' /\ SameCards(store, store')
<1>1. /\ Good(store, nextProject, nextTrunk) /\ RestTyped /\ CreationsAreNew
      /\ t \in DOMAIN store.trunks /\ BeginActivation(store, t)
      /\ UNCHANGED <<running, day, chat, requests, creations, deletions, worktrees,
                     nextTrunk, nextProject>>
  BY InvariantParts DEF ActivateTrunk, Live, clock, identifiers
<1>2. chat' \subseteq DOMAIN store.trunks
  BY <1>1, InvariantParts DEF HistoryHasTrunk, Live
<1>3. QED
  BY <1>1, <1>2, ActivationStep DEF RestTyped, CreationsAreNew, Live

LEMMA AddRootTrunkStep ==
  ASSUME Invariant, NEW p \in Projects, AddRootTrunk(p)
  PROVE  Invariant' /\ SameCards(store, store')
<1> DEFINE row == NewTrunk(p, None, FALSE)
           s   == addTrunk(store, nextTrunk, row)
<1>1. /\ Good(store, nextProject, nextTrunk) /\ RestTyped /\ CreationsAreNew
      /\ p \in DOMAIN store.projects /\ nextTrunk <= MaxTrunks
      /\ BeginActivation(s, nextTrunk) /\ nextTrunk' = nextTrunk + 1
      /\ UNCHANGED <<running, day, chat, requests, creations, deletions, worktrees, nextProject>>
  BY InvariantParts DEF AddRootTrunk, clock
<1>2. row \in Trunk /\ row.project = p /\ row.parent = None
  BY <1>1, CardsAssumption DEF NewTrunk, Trunk, RestTyped
<1>3. /\ nextTrunk \in Nat /\ nextTrunk + 1 \in Nat /\ nextProject \in Nat
      /\ nextTrunk + 1 \in 1..(MaxTrunks + 1)
      /\ nextTrunk \in 1..(nextTrunk + 1 - 1) /\ nextTrunk \notin DOMAIN store.trunks
  BY <1>1, BoundsAssumption DEF RestTyped, Good, Shaped
<1> HIDE DEF row
<1>4. /\ Good(s, nextProject, nextTrunk + 1)
      /\ DOMAIN s.trunks = DOMAIN store.trunks \cup {nextTrunk}
      /\ SameCards(store, s)
  BY <1>1, <1>2, <1>3, AddTrunkGood
<1> HIDE DEF s
<1>5. chat' \subseteq DOMAIN s.trunks
  BY <1>1, <1>4, InvariantParts DEF HistoryHasTrunk, Live
<1>6. \A c \in creations : c.trunk \notin DOMAIN s.trunks
  BY <1>1, <1>3, <1>4 DEF CreationsAreNew, Live, RestTyped, Trunks
<1>7. nextTrunk' >= nextTrunk /\ running' \in BOOLEAN
      /\ nextProject' \in 1..(MaxProjects + 1) /\ nextTrunk' \in 1..(MaxTrunks + 1)
  BY <1>1, <1>3 DEF RestTyped
<1>8. Invariant' /\ DOMAIN store'.trunks = DOMAIN s.trunks /\ SameCards(s, store')
  BY <1>1, <1>4, <1>5, <1>6, <1>7, ActivationStep
<1>9. QED
  BY <1>4, <1>8 DEF SameCards

LEMMA OpenFolderStep ==
  ASSUME Invariant, NEW f \in Folders, OpenFolder(f)
  PROVE  Invariant' /\ SameCards(store, store')
<1>1. /\ Good(store, nextProject, nextTrunk) /\ RestTyped /\ CreationsAreNew
      /\ UNCHANGED <<running, day, chat, requests, creations, deletions, worktrees>>
      /\ chat' \subseteq DOMAIN store.trunks
  BY InvariantParts DEF OpenFolder, clock, HistoryHasTrunk, Live
<1>2. ASSUME NEW p \in findProjectByFolderPath(store, f),
             NEW t \in LastOpenedRoots(store, p), BeginActivation(store, t),
             UNCHANGED identifiers
      PROVE  Invariant' /\ SameCards(store, store')
  <2>1. t \in DOMAIN store.trunks
    BY <1>2 DEF LastOpenedRoots
  <2>2. QED
    BY <1>1, <1>2, <2>1, ActivationStep DEF RestTyped, CreationsAreNew, Live, identifiers
<1> DEFINE s == createProjectWithRootTrunk(store, nextProject, nextTrunk, f)
<1>3. ASSUME nextProject <= MaxProjects, nextTrunk <= MaxTrunks,
             BeginActivation(s, nextTrunk),
             nextProject' = nextProject + 1, nextTrunk' = nextTrunk + 1
      PROVE  Invariant' /\ SameCards(store, store')
  <2>1. /\ nextTrunk \in Nat /\ nextProject \in Nat /\ nextTrunk \in Trunks /\ nextProject \in Projects
        /\ nextTrunk + 1 \in 1..(MaxTrunks + 1) /\ nextProject + 1 \in 1..(MaxProjects + 1)
        /\ day \in Days /\ nextTrunk + 1 >= nextTrunk
    BY <1>1, <1>3, BoundsAssumption DEF RestTyped, Trunks, Projects
  <2>2. /\ Good(s, nextProject + 1, nextTrunk + 1)
        /\ DOMAIN s.trunks = DOMAIN store.trunks \cup {nextTrunk}
        /\ SameCards(store, s)
    <3>1. Good(store, nextProject, nextTrunk) /\ f \in Folders
      BY <1>1
    <3>2. QED
      BY <2>1, <3>1, CreateProjectGood
  <2> HIDE DEF s
  <2>3. \A c \in creations : c.trunk \notin DOMAIN s.trunks
    BY <1>1, <2>1, <2>2 DEF CreationsAreNew, Live, RestTyped, Trunks
  <2>4. running' \in BOOLEAN
    BY <1>1 DEF RestTyped
  <2>5. Invariant' /\ DOMAIN store'.trunks = DOMAIN s.trunks /\ SameCards(s, store')
    BY <1>1, <1>3, <2>1, <2>2, <2>3, <2>4, ActivationStep
  <2>6. QED
    BY <2>2, <2>5 DEF SameCards
<1>4. QED
  BY <1>2, <1>3 DEF OpenFolder

\* The store a boot activates from: rehydrated, migrated and swept.
Migrated == applyMigration(merge(store), nextProject, nextTrunk, workspace)
Swept    == runRetentionSweep(Migrated)

LEMMA MigratedGood ==
  ASSUME Invariant, Boot
  PROVE  /\ nextProject' \in 1..(MaxProjects + 1) /\ nextTrunk' \in 1..(MaxTrunks + 1)
         /\ nextTrunk' >= nextTrunk
         /\ Good(Migrated, nextProject', nextTrunk')
         /\ SameCards(store, Migrated)
         /\ DOMAIN store.trunks \subseteq DOMAIN Migrated.trunks
         /\ DOMAIN Migrated.trunks \subseteq DOMAIN store.trunks \cup {nextTrunk}
<1> DEFINE saved == merge(store)
<1>1. Good(store, nextProject, nextTrunk) /\ RestTyped /\ MigratesFolders
  BY InvariantParts
<1>2. /\ nextTrunk \in Nat /\ nextProject \in Nat /\ day \in Days
      /\ nextTrunk \in 1..(MaxTrunks + 1) /\ nextProject \in 1..(MaxProjects + 1)
  BY <1>1 DEF RestTyped
<1>3. /\ Good(saved, nextProject, nextTrunk)
      /\ DOMAIN saved.trunks = DOMAIN store.trunks
      /\ saved.projects = store.projects
      /\ SameCards(store, saved)
  BY <1>1, <1>2, MergeGood DEF SameCards
<1>4. /\ Migrates(saved, workspace) => nextProject <= MaxProjects /\ nextTrunk <= MaxTrunks
      /\ nextProject' = IF Migrates(saved, workspace) THEN nextProject + 1 ELSE nextProject
      /\ nextTrunk' = IF Migrates(saved, workspace) THEN nextTrunk + 1 ELSE nextTrunk
  BY DEF Boot
<1>5. Migrated = IF Migrates(saved, workspace)
                 THEN createProjectWithRootTrunk(saved, nextProject, nextTrunk, workspace)
                 ELSE saved
  BY DEF Migrated, applyMigration
<1> HIDE DEF saved
<1>6. CASE Migrates(saved, workspace)
  <2>1. workspace \in Folders
    BY <1>1, <1>3, <1>6 DEF Migrates, MigratesFolders
  <2>2. nextProject \in Projects /\ nextTrunk \in Trunks
    BY <1>2, <1>4, <1>6, BoundsAssumption DEF Projects, Trunks
  <2>3. /\ Good(Migrated, nextProject + 1, nextTrunk + 1)
        /\ DOMAIN Migrated.trunks = DOMAIN saved.trunks \cup {nextTrunk}
        /\ SameCards(saved, Migrated)
    BY <1>2, <1>3, <1>5, <1>6, <2>1, <2>2, CreateProjectGood
  <2>4. /\ nextProject' \in 1..(MaxProjects + 1) /\ nextTrunk' \in 1..(MaxTrunks + 1)
        /\ nextTrunk' >= nextTrunk
    BY <1>2, <1>4, <1>6, BoundsAssumption
  <2>5. QED
    BY <1>3, <1>4, <1>6, <2>3, <2>4 DEF SameCards
<1>7. CASE ~Migrates(saved, workspace)
  BY <1>2, <1>3, <1>4, <1>5, <1>7
<1>8. QED
  BY <1>6, <1>7

LEMMA BootStep ==
  ASSUME Invariant, Boot
  PROVE  /\ Invariant'
         /\ DOMAIN store'.trunks = DOMAIN Swept.trunks
         /\ DOMAIN store'.projects = DOMAIN Swept.projects
         /\ SameCards(Swept, store')
<1> DEFINE targets == IF Swept.activeTrunk # None THEN {Swept.activeTrunk}
                      ELSE UNION {LastOpenedRoots(Swept, p) :
                                    p \in findProjectByFolderPath(Swept, workspace)}
<1>1. Good(store, nextProject, nextTrunk) /\ RestTyped /\ CreationsAreNew
  BY InvariantParts
<1>2. /\ nextProject' \in 1..(MaxProjects + 1) /\ nextTrunk' \in 1..(MaxTrunks + 1)
      /\ nextTrunk' >= nextTrunk
      /\ Good(Migrated, nextProject', nextTrunk')
      /\ DOMAIN Migrated.trunks \subseteq DOMAIN store.trunks \cup {nextTrunk}
  BY MigratedGood
<1>3. /\ Good(Swept, nextProject', nextTrunk')
      /\ DOMAIN Swept.trunks \subseteq DOMAIN store.trunks \cup {nextTrunk}
  BY <1>2, SweepGood DEF Swept
<1>4. \A c \in creations : c.trunk \notin DOMAIN Swept.trunks
  BY <1>1, <1>3 DEF CreationsAreNew, Live, RestTyped, Trunks
<1>5. /\ running' = TRUE /\ chat' = chat \cap DOMAIN Swept.trunks
      /\ UNCHANGED <<day, requests, creations, deletions, worktrees>>
      /\ \/ \E t \in targets : BeginActivation(Swept, t)
         \/ /\ targets = {}
            /\ store' = Swept
            /\ workspace' = IF DOMAIN Swept.projects = {} THEN NoPath ELSE workspace
            /\ UNCHANGED <<shellCard, runtime, generation, activations>>
  BY DEF Boot, Swept, Migrated
<1>6. targets \subseteq DOMAIN Swept.trunks
  BY <1>3 DEF LastOpenedRoots, Good, Active
<1>7. ASSUME NEW t \in targets, BeginActivation(Swept, t)
      PROVE  /\ Invariant' /\ DOMAIN store'.trunks = DOMAIN Swept.trunks
             /\ DOMAIN store'.projects = DOMAIN Swept.projects /\ SameCards(Swept, store')
  BY <1>1, <1>2, <1>3, <1>4, <1>5, <1>6, <1>7, ActivationStep
<1>8. ASSUME targets = {}, store' = Swept,
             workspace' = IF DOMAIN Swept.projects = {} THEN NoPath ELSE workspace,
             UNCHANGED <<shellCard, runtime, generation, activations>>
      PROVE  /\ Invariant' /\ DOMAIN store'.trunks = DOMAIN Swept.trunks
             /\ DOMAIN store'.projects = DOMAIN Swept.projects /\ SameCards(Swept, store')
  <2>1. RestTyped'
    BY <1>1, <1>2, <1>5, <1>8 DEF RestTyped
  <2>2. HistoryHasTrunk' /\ NoWorkspaceWithoutProject' /\ MigratesFolders'
    BY <1>5, <1>8 DEF HistoryHasTrunk, NoWorkspaceWithoutProject, MigratesFolders, Live
  <2>3. CreationsAreNew'
    BY <1>1, <1>2, <1>4, <1>5, <1>8 DEF CreationsAreNew, Live, RestTyped, Trunks
  <2>4. ResolvingIsAwaited'
    BY <1>8 DEF ResolvingIsAwaited
  <2>5. QED
    BY <1>3, <1>8, <2>1, <2>2, <2>3, <2>4, InvariantPartsNext DEF SameCards
<1>9. QED
  BY <1>5, <1>7, <1>8

-----------------------------------------------------------------------------
(* Steps that change attributes of rows.                                    *)

LEMMA AttributesStep ==
  ASSUME Invariant, SameTree(store, store'),
         UNCHANGED <<running, day, runtime, generation, activations, requests, creations,
                     deletions, worktrees, nextTrunk, nextProject>>,
         shellCard' \in Cards, chat' \subseteq Live,
         workspace' = workspace \/ (workspace' \in Folders /\ DOMAIN store.projects # {})
  PROVE  Invariant'
<1>1. /\ Good(store, nextProject, nextTrunk) /\ RestTyped /\ CreationsAreNew
      /\ NoWorkspaceWithoutProject /\ MigratesFolders /\ ResolvingIsAwaited
  BY InvariantParts
<1>2. /\ Good(store', nextProject', nextTrunk')
      /\ DOMAIN store'.trunks = DOMAIN store.trunks
      /\ DOMAIN store'.projects = DOMAIN store.projects
      /\ store'.activeTrunk = store.activeTrunk
  BY <1>1, SameTreeIsGood DEF SameTree
<1>3. chat' \subseteq Trunks
  BY <1>1, LiveAreTrunks
<1>4. RestTyped'
  BY <1>1, <1>3 DEF RestTyped, Paths
<1>5. HistoryHasTrunk' /\ NoWorkspaceWithoutProject' /\ MigratesFolders' /\ CreationsAreNew'
  BY <1>1, <1>2
     DEF HistoryHasTrunk, NoWorkspaceWithoutProject, MigratesFolders, CreationsAreNew, Live
<1>6. ResolvingIsAwaited'
  BY <1>1, <1>2 DEF ResolvingIsAwaited
<1>7. QED
  BY <1>2, <1>4, <1>5, <1>6, InvariantPartsNext

LEMMA SetTrunkPinnedStep ==
  ASSUME Invariant, NEW t \in Trunks, SetTrunkPinned(t)
  PROVE  Invariant' /\ SameCards(store, store')
<1> DEFINE pinned == ~store.trunks[t].pinned
<1>1. Good(store, nextProject, nextTrunk) /\ RestTyped /\ t \in DOMAIN store.trunks
      /\ store' = setTrunkPinned(store, t, pinned)
  BY InvariantParts DEF SetTrunkPinned, Live
<1>2. pinned \in BOOLEAN
  BY Zenon
<1> HIDE DEF pinned
<1>3. SameTree(store, store') /\ SameCards(store, store')
  BY <1>1, <1>2, PinnedSameTree
<1>4. /\ UNCHANGED <<running, day, runtime, generation, activations, requests, creations,
                     deletions, worktrees, nextTrunk, nextProject>>
      /\ shellCard' \in Cards /\ chat' \subseteq Live
      /\ workspace' = workspace \/ (workspace' \in Folders /\ DOMAIN store.projects # {})
  BY InvariantParts
     DEF SetTrunkPinned, clock, calls, identifiers, RestTyped, HistoryHasTrunk
<1>5. QED
  BY <1>3, <1>4, AttributesStep

LEMMA SetProjectPinnedStep ==
  ASSUME Invariant, NEW p \in Projects, SetProjectPinned(p)
  PROVE  Invariant' /\ SameCards(store, store')
<1> DEFINE pinned == ~store.projects[p].pinned
<1>1. Good(store, nextProject, nextTrunk) /\ RestTyped /\ p \in DOMAIN store.projects
      /\ store' = setProjectPinned(store, p, pinned)
  BY InvariantParts DEF SetProjectPinned
<1>2. pinned \in BOOLEAN
  BY Zenon
<1> HIDE DEF pinned
<1>3. SameTree(store, store') /\ SameCards(store, store')
  BY <1>1, <1>2, ProjectPinnedSameTree
<1>4. /\ UNCHANGED <<running, day, runtime, generation, activations, requests, creations,
                     deletions, worktrees, nextTrunk, nextProject>>
      /\ shellCard' \in Cards /\ chat' \subseteq Live
      /\ workspace' = workspace \/ (workspace' \in Folders /\ DOMAIN store.projects # {})
  BY InvariantParts
     DEF SetProjectPinned, clock, calls, identifiers, RestTyped, HistoryHasTrunk
<1>5. QED
  BY <1>3, <1>4, AttributesStep

\* Relinking changes the workspace only while its project is active, and so
\* exists.
LEMMA RelinkFolderStep ==
  ASSUME Invariant, NEW p \in Projects, NEW f \in Folders, RelinkFolder(p, f)
  PROVE  Invariant' /\ SameCards(store, store')
<1>1. /\ Good(store, nextProject, nextTrunk) /\ RestTyped /\ HistoryHasTrunk
      /\ store' = updateProjectFolder(store, p, f)
      /\ workspace' = IF store.activeProject = p THEN f ELSE workspace
  BY InvariantParts DEF RelinkFolder
<1>2. SameTree(store, store') /\ SameCards(store, store')
  BY <1>1, FolderSameTree
<1>3. p # None
  BY DEF Projects, None
<1>4. store.activeProject = p => DOMAIN store.projects # {}
  BY <1>1, <1>3 DEF Good, Active
<1>5. /\ UNCHANGED <<running, day, runtime, generation, activations, requests, creations,
                     deletions, worktrees, nextTrunk, nextProject>>
      /\ shellCard' \in Cards /\ chat' \subseteq Live
      /\ workspace' = workspace \/ (workspace' \in Folders /\ DOMAIN store.projects # {})
  BY <1>1, <1>4
     DEF RelinkFolder, clock, calls, identifiers, RestTyped, HistoryHasTrunk
<1>6. QED
  BY <1>2, <1>5, AttributesStep

LEMMA AppendTrunkMessageStep ==
  ASSUME Invariant, AppendTrunkMessage
  PROVE  Invariant' /\ SameCards(store, store')
<1>1. /\ Good(store, nextProject, nextTrunk) /\ RestTyped /\ HistoryHasTrunk
      /\ store.activeTrunk # None
      /\ store' = touchTrunkActivity(store, store.activeTrunk)
      /\ chat' = chat \cup {store.activeTrunk}
  BY InvariantParts DEF AppendTrunkMessage
<1>2. store.activeTrunk \in Live /\ day \in Days
  BY <1>1 DEF Good, Active, Live, RestTyped
<1>3. SameTree(store, store') /\ SameCards(store, store')
  BY <1>1, <1>2, TouchSameTree DEF Live
<1>4. /\ UNCHANGED <<running, day, runtime, generation, activations, requests, creations,
                     deletions, worktrees, nextTrunk, nextProject>>
      /\ shellCard' \in Cards /\ chat' \subseteq Live
      /\ workspace' = workspace \/ (workspace' \in Folders /\ DOMAIN store.projects # {})
  BY <1>1, <1>2
     DEF AppendTrunkMessage, clock, calls, identifiers, RestTyped, HistoryHasTrunk
<1>5. QED
  BY <1>3, <1>4, AttributesStep

\* The shell's subscriber writes the card of the active trunk alone.
LEMMA SetActiveMainCardStep ==
  ASSUME Invariant, NEW card \in Cards, SetActiveMainCard(card)
  PROVE  /\ Invariant'
         /\ store'.activeTrunk = store.activeTrunk
         /\ \A t \in Live \ {store.activeTrunk} : store'.trunks[t].card = store.trunks[t].card
<1>1. /\ Good(store, nextProject, nextTrunk) /\ RestTyped /\ HistoryHasTrunk
      /\ store' = IF store.activeTrunk = None THEN store
                  ELSE setTrunkActiveMainCard(store, store.activeTrunk, card)
  BY InvariantParts DEF SetActiveMainCard, projectSyncRestoreFromShell
<1>2. /\ SameTree(store, store')
      /\ \A t \in Live \ {store.activeTrunk} : store'.trunks[t].card = store.trunks[t].card
  <2>1. CASE store.activeTrunk = None
    BY <1>1, <2>1 DEF SameTree, Good, Shaped
  <2>2. CASE store.activeTrunk # None
    <3>1. store.activeTrunk \in DOMAIN store.trunks
      BY <1>1, <2>2 DEF Good, Active
    <3>2. QED
      BY <1>1, <2>2, <3>1, CardSameTree DEF Live
  <2>3. QED
    BY <2>1, <2>2
<1>3. /\ UNCHANGED <<running, day, runtime, generation, activations, requests, creations,
                     deletions, worktrees, nextTrunk, nextProject>>
      /\ shellCard' \in Cards /\ chat' \subseteq Live
      /\ workspace' = workspace \/ (workspace' \in Folders /\ DOMAIN store.projects # {})
  BY <1>1
     DEF SetActiveMainCard, clock, calls, identifiers, RestTyped, HistoryHasTrunk
<1>4. QED
  BY <1>2, <1>3, AttributesStep DEF SameTree

-----------------------------------------------------------------------------
(* Steps that leave the project store alone.                                *)

LEMMA StoreKeptStep ==
  ASSUME Invariant, UNCHANGED <<store, nextProject, nextTrunk>>, RestTyped',
         chat' \subseteq Live, creations' \subseteq creations,
         workspace' # workspace => DOMAIN store.projects # {},
         running' => running, ResolvingIsAwaited'
  PROVE  Invariant'
<1>1. /\ Good(store, nextProject, nextTrunk) /\ CreationsAreNew
      /\ NoWorkspaceWithoutProject /\ MigratesFolders
  BY InvariantParts
<1>2. Good(store', nextProject', nextTrunk')
  BY <1>1
<1>3. HistoryHasTrunk' /\ NoWorkspaceWithoutProject' /\ MigratesFolders' /\ CreationsAreNew'
  BY <1>1 DEF HistoryHasTrunk, NoWorkspaceWithoutProject, MigratesFolders, CreationsAreNew, Live
<1>4. QED
  BY <1>2, <1>3, InvariantPartsNext

\* The steps that touch neither the runtimes nor the activations.
LEMMA CallsStep ==
  ASSUME Invariant,
         NextDay \/ RequestSourceControl
         \/ (\E t \in requests : RequestAnswered(t))
         \/ (\E c \in creations : WorktreeNotCreated(c))
         \/ (\E d \in deletions : InspectionSucceeds(d) \/ DeletionFails(d))
  PROVE  Invariant'
<1>1. Good(store, nextProject, nextTrunk) /\ RestTyped /\ HistoryHasTrunk /\ ResolvingIsAwaited
  BY InvariantParts
<1>2. /\ UNCHANGED <<running, store, chat, workspace, shellCard, runtime, generation,
                     activations, worktrees, nextTrunk, nextProject>>
      /\ creations' \subseteq creations
  BY DEF NextDay, RequestSourceControl, RequestAnswered, WorktreeNotCreated,
         InspectionSucceeds, DeletionFails, clock, calls, identifiers
<1>3. day' \in Days
  BY <1>1, BoundsAssumption
     DEF NextDay, RequestSourceControl, RequestAnswered, WorktreeNotCreated,
         InspectionSucceeds, DeletionFails, clock, RestTyped, Days
<1>4. requests' \subseteq Trunks
  <2>1. store.activeTrunk \in Trunks \cup {None}
    BY <1>1 DEF Good, Shaped
  <2>2. requests' \subseteq requests \/ (store.activeTrunk # None
                                         /\ requests' = requests \cup {store.activeTrunk})
    BY DEF NextDay, RequestSourceControl, RequestAnswered, WorktreeNotCreated,
           InspectionSucceeds, DeletionFails, calls
  <2>3. QED
    BY <1>1, <2>1, <2>2 DEF RestTyped
<1>5. \A d \in deletions' : d \in [id : 1..MaxDeletions, target : Trunks,
                                    todo : SUBSET Trunks, inspected : Trunks \cup {None}]
  <2>1. ASSUME NEW d \in deletions, InspectionSucceeds(d)
        PROVE  \A e \in deletions' : e \in [id : 1..MaxDeletions, target : Trunks,
                                           todo : SUBSET Trunks, inspected : Trunks \cup {None}]
    <3>1. PICK u \in d.todo \cap worktrees :
                 deletions' = (deletions \ {d}) \cup {[d EXCEPT !.inspected = u]}
      BY <2>1 DEF InspectionSucceeds
    <3>2. d \in [id : 1..MaxDeletions, target : Trunks,
                 todo : SUBSET Trunks, inspected : Trunks \cup {None}] /\ u \in Trunks
      BY <1>1, <2>1, <3>1 DEF RestTyped
    <3>3. [d EXCEPT !.inspected = u] \in [id : 1..MaxDeletions, target : Trunks,
                                          todo : SUBSET Trunks, inspected : Trunks \cup {None}]
      BY <3>2
    <3>4. QED
      BY <1>1, <3>1, <3>3 DEF RestTyped
  <2>2. ASSUME deletions' \subseteq deletions
        PROVE  \A e \in deletions' : e \in [id : 1..MaxDeletions, target : Trunks,
                                           todo : SUBSET Trunks, inspected : Trunks \cup {None}]
    BY <1>1, <2>2 DEF RestTyped
  <2>3. QED
    BY <2>1, <2>2
       DEF NextDay, RequestSourceControl, RequestAnswered, WorktreeNotCreated,
           DeletionFails, calls
<1>6. RestTyped'
  BY <1>1, <1>2, <1>3, <1>4, <1>5 DEF RestTyped
<1>7. ResolvingIsAwaited'
  BY <1>1, <1>2 DEF ResolvingIsAwaited
<1>8. QED
  BY <1>1, <1>2, <1>6, <1>7, StoreKeptStep DEF HistoryHasTrunk

\* An answer that is not the newest activation's leaves that one on its way.
LEMMA ResolveStep ==
  ASSUME Invariant, NEW a \in activations,
         ResolveReady(a) \/ ResolveInvalid(a) \/ ResolveThrows(a)
  PROVE  Invariant'
<1>1. Good(store, nextProject, nextTrunk) /\ RestTyped /\ HistoryHasTrunk /\ ResolvingIsAwaited
  BY InvariantParts
<1>2. /\ UNCHANGED <<running, day, store, chat, shellCard, generation, requests, creations,
                     deletions, worktrees, nextTrunk, nextProject>>
      /\ activations' = activations \ {a}
      /\ activationIsCurrent(a) =>
           /\ workspace' \in {workspace, a.folderPath, Worktree(a.trunk)}
           /\ \E status \in {"ready", "invalid"} :
                runtime' = setCheckoutRuntime(runtime, a.trunk, status)
      /\ ~activationIsCurrent(a) => UNCHANGED <<workspace, runtime>>
  BY DEF ResolveReady, ResolveInvalid, ResolveThrows, clock, identifiers
<1>3. a.trunk \in Trunks /\ a.folderPath \in Folders
  BY <1>1 DEF RestTyped
<1>4. workspace' \in Paths \cup {NoPath}
  BY <1>1, <1>2, <1>3 DEF RestTyped, Paths
<1>5. runtime' \in [Trunks -> {"none", "resolving", "invalid", "ready"}]
  BY <1>1, <1>2 DEF RestTyped, setCheckoutRuntime
<1>6. RestTyped'
  BY <1>1, <1>2, <1>4, <1>5 DEF RestTyped
<1>7. activationIsCurrent(a) => DOMAIN store.projects # {}
  <2> SUFFICES ASSUME activationIsCurrent(a) PROVE DOMAIN store.projects # {}
    OBVIOUS
  <2>1. store.activeTrunk # None
    BY <1>3 DEF activationIsCurrent, Trunks, None
  <2>2. QED
    BY <1>1, <2>1 DEF Good, Forest, Active
<1>8. ResolvingIsAwaited'
  <2>1. CASE activationIsCurrent(a)
    BY <1>1, <1>2, <1>3, <2>1
       DEF ResolvingIsAwaited, activationIsCurrent, setCheckoutRuntime, RestTyped
  <2>2. CASE ~activationIsCurrent(a)
    BY <1>1, <1>2, <2>2 DEF ResolvingIsAwaited, activationIsCurrent
  <2>3. QED
    BY <2>1, <2>2
<1>9. QED
  BY <1>1, <1>2, <1>6, <1>7, <1>8, StoreKeptStep DEF HistoryHasTrunk

LEMMA RequestFindsNoScopeStep ==
  ASSUME Invariant, NEW t \in requests, RequestFindsNoScope(t)
  PROVE  Invariant'
<1>1. Good(store, nextProject, nextTrunk) /\ RestTyped /\ HistoryHasTrunk /\ ResolvingIsAwaited
  BY InvariantParts
<1>2. /\ UNCHANGED <<running, day, store, chat, shellCard, generation, activations, creations,
                     deletions, worktrees, nextTrunk, nextProject>>
      /\ requests' = requests \ {t}
      /\ t \in Live =>
           /\ workspace' = store.projects[store.trunks[t].project].folderPath
           /\ runtime' = [runtime EXCEPT ![t] = "invalid"]
      /\ t \notin Live => UNCHANGED <<workspace, runtime>>
  BY DEF RequestFindsNoScope, clock, identifiers, setCheckoutRuntime
<1>3. t \in Live => /\ store.trunks[t].project \in DOMAIN store.projects
                    /\ workspace' \in Folders
  BY <1>1, <1>2 DEF Good, Shaped, Forest, Live, Project
<1>4. RestTyped'
  BY <1>1, <1>2, <1>3 DEF RestTyped, Paths
<1>5. ResolvingIsAwaited'
  <2>1. store.activeTrunk \in Trunks \cup {None}
    BY <1>1 DEF Good, Shaped
  <2>2. \A u \in Trunks : runtime'[u] = "resolving" => runtime[u] = "resolving"
    BY <1>1, <1>2 DEF RestTyped
  <2>3. QED
    BY <1>1, <1>2, <2>1, <2>2 DEF ResolvingIsAwaited
<1>6. QED
  BY <1>1, <1>2, <1>3, <1>4, <1>5, StoreKeptStep DEF HistoryHasTrunk

LEMMA QuitStep ==
  ASSUME Invariant, Quit
  PROVE  Invariant'
<1>1. Good(store, nextProject, nextTrunk) /\ RestTyped /\ HistoryHasTrunk
  BY InvariantParts
<1>2. worktrees' \subseteq Trunks
  BY <1>1 DEF Quit, RestTyped
<1>3. /\ runtime' = [t \in Trunks |-> "none"] /\ generation' = 0
      /\ activations' = {} /\ requests' = {} /\ creations' = {} /\ deletions' = {}
      /\ running' = FALSE
      /\ UNCHANGED <<day, store, chat, workspace, shellCard, nextTrunk, nextProject>>
  BY DEF Quit, identifiers
<1>4. RestTyped'
  <2>1. 0 \in 0..MaxGeneration
    BY BoundsAssumption
  <2>2. runtime' \in [Trunks -> {"none", "resolving", "invalid", "ready"}]
    BY <1>3
  <2>3. QED
    BY <1>1, <1>2, <1>3, <2>1, <2>2 DEF RestTyped
<1>5. ResolvingIsAwaited'
  <2>1. store.activeTrunk \in Trunks \cup {None}
    BY <1>1 DEF Good, Shaped
  <2>2. QED
    BY <1>3, <2>1 DEF ResolvingIsAwaited
<1>6. QED
  BY <1>1, <1>3, <1>4, <1>5, StoreKeptStep DEF HistoryHasTrunk

-----------------------------------------------------------------------------
(* Worktree-backed children and deletions.                                  *)

LEMMA CreateChildTrunkStep ==
  ASSUME Invariant, NEW parent \in Trunks, CreateChildTrunk(parent)
  PROVE  Invariant'
<1>1. /\ Good(store, nextProject, nextTrunk) /\ RestTyped /\ HistoryHasTrunk
      /\ CreationsAreNew /\ ResolvingIsAwaited /\ NoWorkspaceWithoutProject /\ MigratesFolders
  BY InvariantParts
<1> DEFINE c == [trunk |-> nextTrunk, parent |-> parent]
<1>2. /\ UNCHANGED <<running, day, store, chat, workspace, shellCard, runtime, generation,
                     activations, requests, deletions, worktrees, nextProject>>
      /\ creations' = creations \cup {c}
      /\ nextTrunk <= MaxTrunks /\ nextTrunk' = nextTrunk + 1
  BY DEF CreateChildTrunk, clock
<1>3. /\ nextTrunk \in Nat /\ nextTrunk' \in 1..(MaxTrunks + 1) /\ nextTrunk \in Trunks
      /\ nextTrunk < nextTrunk' /\ nextTrunk \notin Live
  BY <1>1, <1>2, BoundsAssumption DEF RestTyped, Trunks, Good, Shaped, Live
<1>4. c \in [trunk : Trunks, parent : Trunks] /\ c.trunk = nextTrunk
  BY <1>3
<1> HIDE DEF c
<1>5. RestTyped'
  BY <1>1, <1>2, <1>3, <1>4 DEF RestTyped
<1>6. Good(store', nextProject', nextTrunk')
  <2>1. DOMAIN store.trunks \subseteq 1..(nextTrunk' - 1)
    BY <1>1, <1>2, <1>3 DEF Good, Shaped
  <2>2. QED
    BY <1>1, <1>2, <2>1 DEF Good, Shaped
<1>7. HistoryHasTrunk' /\ NoWorkspaceWithoutProject' /\ MigratesFolders' /\ ResolvingIsAwaited'
  BY <1>1, <1>2
     DEF HistoryHasTrunk, NoWorkspaceWithoutProject, MigratesFolders, ResolvingIsAwaited, Live
<1>8. CreationsAreNew'
  <2>1. \A d \in creations : d.trunk \in Nat /\ d.trunk < nextTrunk /\ d.trunk \notin Live
    BY <1>1 DEF CreationsAreNew, RestTyped, Trunks
  <2>2. Live' = Live
    BY <1>2 DEF Live
  <2>3. QED
    BY <1>1, <1>2, <1>3, <1>4, <2>1, <2>2 DEF CreationsAreNew
<1>9. QED
  BY <1>5, <1>6, <1>7, <1>8, InvariantPartsNext

\* The row of a new child goes under a parent that still is a root.
LEMMA WorktreeCreatedStep ==
  ASSUME Invariant, NEW c \in creations, WorktreeCreated(c)
  PROVE  Invariant' /\ SameCards(store, store')
<1>1. /\ Good(store, nextProject, nextTrunk) /\ RestTyped /\ HistoryHasTrunk
      /\ CreationsAreNew /\ ResolvingIsAwaited /\ NoWorkspaceWithoutProject /\ MigratesFolders
  BY InvariantParts
<1>2. /\ UNCHANGED <<running, day, chat, workspace, shellCard, generation, activations,
                     requests, deletions, nextTrunk, nextProject>>
      /\ creations' = creations \ {c} /\ worktrees' = worktrees \cup {c.trunk}
  BY DEF WorktreeCreated, clock, identifiers
<1>3. /\ c.trunk \in Trunks /\ c.trunk < nextTrunk /\ c.trunk \notin Live /\ c.trunk # None
      /\ nextTrunk \in Nat /\ nextProject \in Nat /\ c.trunk \in 1..(nextTrunk - 1)
  BY <1>1 DEF RestTyped, CreationsAreNew, Trunks, None
<1>4. CASE c.parent \in Live /\ store.trunks[c.parent].parent = None
  <2> DEFINE row == NewTrunk(store.trunks[c.parent].project, c.parent, TRUE)
  <2>1. /\ store' = addTrunk(store, c.trunk, row)
        /\ runtime' = [runtime EXCEPT ![c.trunk] = "ready"]
    BY <1>4 DEF WorktreeCreated, setCheckoutRuntime
  <2>2. /\ store.trunks[c.parent] \in Trunk
        /\ store.trunks[c.parent].project \in DOMAIN store.projects
        /\ c.parent \in Trunks
    BY <1>1, <1>4, LiveAreTrunks DEF Good, Shaped, Forest, Live
  <2>3. /\ row \in Trunk /\ row.project = store.trunks[c.parent].project
        /\ row.parent = c.parent
    BY <1>1, <2>2, CardsAssumption DEF NewTrunk, Trunk, RestTyped
  <2> HIDE DEF row
  <2>4. /\ Good(store', nextProject, nextTrunk)
        /\ DOMAIN store'.trunks = DOMAIN store.trunks \cup {c.trunk}
        /\ store'.projects = store.projects
        /\ store'.activeTrunk = store.activeTrunk
        /\ SameCards(store, store')
    BY <1>1, <1>3, <1>4, <2>1, <2>2, <2>3, AddTrunkGood DEF Live
  <2>5. runtime' \in [Trunks -> {"none", "resolving", "invalid", "ready"}]
    BY <1>1, <2>1 DEF RestTyped
  <2>6. RestTyped'
    BY <1>1, <1>2, <1>3, <2>5 DEF RestTyped
  <2>7. HistoryHasTrunk' /\ NoWorkspaceWithoutProject' /\ MigratesFolders'
    BY <1>1, <1>2, <2>4 DEF HistoryHasTrunk, NoWorkspaceWithoutProject, MigratesFolders, Live
  <2>8. CreationsAreNew'
    BY <1>1, <1>2, <2>4 DEF CreationsAreNew, Live
  <2>9. ResolvingIsAwaited'
    <3>1. store.activeTrunk \in Trunks \cup {None}
      BY <1>1 DEF Good, Shaped
    <3>2. \A u \in Trunks : runtime'[u] = "resolving" => runtime[u] = "resolving"
      BY <1>1, <2>1 DEF RestTyped
    <3>3. QED
      BY <1>1, <1>2, <2>4, <3>1, <3>2 DEF ResolvingIsAwaited
  <2>10. QED
    BY <1>2, <2>4, <2>6, <2>7, <2>8, <2>9, InvariantPartsNext
<1>5. CASE ~(c.parent \in Live /\ store.trunks[c.parent].parent = None)
  <2>1. UNCHANGED <<store, runtime>>
    BY <1>5 DEF WorktreeCreated
  <2>2. RestTyped'
    BY <1>1, <1>2, <1>3, <2>1 DEF RestTyped
  <2>3. ResolvingIsAwaited'
    BY <1>1, <1>2, <2>1 DEF ResolvingIsAwaited
  <2>4. Invariant'
    BY <1>1, <1>2, <2>1, <2>2, <2>3, StoreKeptStep DEF HistoryHasTrunk
  <2>5. QED
    BY <2>1, <2>4 DEF SameCards
<1>6. QED
  BY <1>4, <1>5

\* A cascade takes the messages with the trunks and, with the last project,
\* the workspace; the other variables may only lose the deletion itself.
LEMMA CascadeStep ==
  ASSUME Invariant, NEW t, Cascade(t),
         UNCHANGED <<running, day, shellCard, runtime, generation, activations, requests,
                     creations, nextTrunk, nextProject>>,
         worktrees' \subseteq worktrees, deletions' \subseteq deletions
  PROVE  Invariant' /\ SameCards(store, store')
<1>1. /\ Good(store, nextProject, nextTrunk) /\ RestTyped /\ HistoryHasTrunk
      /\ CreationsAreNew /\ ResolvingIsAwaited /\ NoWorkspaceWithoutProject /\ MigratesFolders
  BY InvariantParts
<1>2. /\ chat' = chat \ Subtree(store, t)
      /\ store' = deleteTrunkCascade(store, t)
      /\ workspace' = IF DOMAIN store'.projects = {} THEN NoPath ELSE workspace
  BY DEF Cascade
<1>3. /\ Good(store', nextProject, nextTrunk)
      /\ DOMAIN store'.trunks = DOMAIN store.trunks \ Subtree(store, t)
      /\ store'.activeTrunk \in {store.activeTrunk, None}
      /\ SameCards(store, store')
  BY <1>1, <1>2, DeleteTrunkCascadeGood
<1>4. RestTyped'
  BY <1>1, <1>2 DEF RestTyped
<1>5. HistoryHasTrunk'
  BY <1>1, <1>2, <1>3 DEF HistoryHasTrunk, Live
<1>6. NoWorkspaceWithoutProject' /\ MigratesFolders'
  BY <1>2 DEF NoWorkspaceWithoutProject, MigratesFolders
<1>7. CreationsAreNew'
  BY <1>1, <1>3 DEF CreationsAreNew, Live
<1>8. ResolvingIsAwaited'
  BY <1>1, <1>3 DEF ResolvingIsAwaited
<1>9. QED
  BY <1>3, <1>4, <1>5, <1>6, <1>7, <1>8, InvariantPartsNext

LEMMA DeletionsGrow ==
  ASSUME Invariant, UNCHANGED <<running, day, store, chat, workspace, shellCard, runtime,
                                generation, activations, requests, creations, nextTrunk,
                                nextProject>>,
         worktrees' \subseteq worktrees,
         NEW d, d \in [id : 1..MaxDeletions, target : Trunks,
                       todo : SUBSET Trunks, inspected : Trunks \cup {None}],
         deletions' \subseteq deletions \cup {d}
  PROVE  Invariant'
<1>1. RestTyped /\ HistoryHasTrunk /\ ResolvingIsAwaited
  BY InvariantParts
<1>2. RestTyped'
  BY <1>1 DEF RestTyped
<1>3. ResolvingIsAwaited'
  BY <1>1 DEF ResolvingIsAwaited
<1>4. QED
  BY <1>1, <1>2, <1>3, StoreKeptStep DEF HistoryHasTrunk

LEMMA ExecuteDeletionStep ==
  ASSUME Invariant, NEW t \in Trunks, ExecuteDeletion(t)
  PROVE  Invariant' /\ SameCards(store, store')
<1> DEFINE managed == {u \in Subtree(store, t) : store.trunks[u].worktree}
<1>1. UNCHANGED <<running, day, shellCard, runtime, generation, activations, requests,
                  creations, nextTrunk, nextProject, worktrees>>
  BY DEF ExecuteDeletion, clock, identifiers
<1>2. CASE managed = {}
  BY <1>1, <1>2, CascadeStep DEF ExecuteDeletion
<1>3. CASE managed # {}
  <2>1. PICK n \in 1..MaxDeletions :
               deletions' = deletions \cup
                 {[id |-> n, target |-> t, todo |-> managed, inspected |-> None]}
    BY <1>3 DEF ExecuteDeletion
  <2>2. managed \subseteq Trunks
    BY LiveAreTrunks, InvariantParts DEF Subtree, Live
  <2>3. UNCHANGED <<store, chat, workspace>>
    BY <1>3 DEF ExecuteDeletion
  <2> HIDE DEF managed
  <2> DEFINE d == [id |-> n, target |-> t, todo |-> managed, inspected |-> None]
  <2>4. d \in [id : 1..MaxDeletions, target : Trunks,
               todo : SUBSET Trunks, inspected : Trunks \cup {None}]
    BY <2>2
  <2>5. deletions' \subseteq deletions \cup {d}
    BY <2>1
  <2> HIDE DEF d
  <2>6. Invariant'
    BY <1>1, <2>3, <2>4, <2>5, DeletionsGrow
  <2>7. QED
    BY <2>3, <2>6 DEF SameCards
<1>4. QED
  BY <1>2, <1>3

LEMMA RemovalSucceedsStep ==
  ASSUME Invariant, NEW d \in deletions, RemovalSucceeds(d)
  PROVE  Invariant' /\ SameCards(store, store')
<1> DEFINE rest == d.todo \ {d.inspected}
<1>1. /\ UNCHANGED <<running, day, shellCard, runtime, generation, activations, requests,
                     creations, nextTrunk, nextProject>>
      /\ worktrees' \subseteq worktrees
  BY DEF RemovalSucceeds, clock, identifiers
<1>2. CASE rest = {}
  <2>1. deletions' \subseteq deletions /\ Cascade(d.target)
    BY <1>2 DEF RemovalSucceeds
  <2>2. QED
    BY <1>1, <2>1, CascadeStep
<1>3. CASE rest # {}
  <2> DEFINE e == [d EXCEPT !.todo = rest, !.inspected = None]
  <2>1. deletions' \subseteq deletions \cup {e} /\ UNCHANGED <<store, chat, workspace>>
    BY <1>3 DEF RemovalSucceeds
  <2>2. d \in [id : 1..MaxDeletions, target : Trunks,
               todo : SUBSET Trunks, inspected : Trunks \cup {None}]
    BY InvariantParts DEF RestTyped
  <2>3. e \in [id : 1..MaxDeletions, target : Trunks,
               todo : SUBSET Trunks, inspected : Trunks \cup {None}]
    BY <2>2
  <2> HIDE DEF e
  <2>4. Invariant'
    BY <1>1, <2>1, <2>3, DeletionsGrow
  <2>5. QED
    BY <2>1, <2>4 DEF SameCards
<1>4. QED
  BY <1>2, <1>3

-----------------------------------------------------------------------------
(* The invariant is inductive.                                              *)

LEMMA ProjectStep == Invariant /\ [Next]_vars => Invariant'
<1> SUFFICES ASSUME Invariant, [Next]_vars PROVE Invariant'
  OBVIOUS
<1>1. CASE UNCHANGED vars
  BY <1>1
     DEF vars, clock, calls, identifiers, Invariant, StoresAgree, TypeOK, Live, TreeWellFormed,
         ActiveExists, HistoryHasTrunk, NoWorkspaceWithoutProject, CreationsAreNew,
         MigratesFolders, ResolvingIsAwaited
<1>2. CASE User
  <2>1. CASE \E t \in Trunks : ActivateTrunk(t) \/ SetTrunkPinned(t) \/ ExecuteDeletion(t)
                                \/ CreateChildTrunk(t)
    BY <2>1, ActivateTrunkStep, SetTrunkPinnedStep, ExecuteDeletionStep, CreateChildTrunkStep
  <2>2. CASE \/ \E f \in Folders : OpenFolder(f)
             \/ \E p \in Projects : AddRootTrunk(p) \/ SetProjectPinned(p)
             \/ \E p \in Projects, f \in Folders : RelinkFolder(p, f)
    BY <2>2, OpenFolderStep, AddRootTrunkStep, SetProjectPinnedStep, RelinkFolderStep
  <2>3. CASE \/ \E card \in Cards : SetActiveMainCard(card)
             \/ AppendTrunkMessage
             \/ RequestSourceControl
    BY <2>3, SetActiveMainCardStep, AppendTrunkMessageStep, CallsStep
  <2>4. QED
    BY <1>2, <2>1, <2>2, <2>3 DEF User
<1>3. CASE Answers
  <2>1. CASE \E a \in activations : ResolveReady(a) \/ ResolveInvalid(a) \/ ResolveThrows(a)
    BY <2>1, ResolveStep
  <2>2. CASE \E c \in creations : WorktreeCreated(c) \/ WorktreeNotCreated(c)
    BY <2>2, WorktreeCreatedStep, CallsStep
  <2>3. CASE \E d \in deletions : InspectionSucceeds(d) \/ RemovalSucceeds(d) \/ DeletionFails(d)
    BY <2>3, RemovalSucceedsStep, CallsStep
  <2>4. CASE \E t \in requests : RequestAnswered(t) \/ RequestFindsNoScope(t)
    BY <2>4, RequestFindsNoScopeStep, CallsStep
  <2>5. QED
    BY <1>3, <2>1, <2>2, <2>3, <2>4 DEF Answers
<1>4. QED
  BY <1>1, <1>2, <1>3, CallsStep, QuitStep, BootStep DEF Next

(* The invariant holds throughout, whatever the answers, quits and boots.   *)
THEOREM ProjectInvariant == Spec => []Invariant
  BY ProjectInit, ProjectStep, PTL DEF Spec

(* The project store stays a forest over existing projects, what is active  *)
(* exists, every history has its trunk, and there is no workspace without a *)
(* project (projectStore.ts, projectOperations.ts, projectActivateTrunk.ts).*)
THEOREM StoresStayInAgreement == Spec => []StoresAgree
<1>1. Invariant => StoresAgree
  BY DEF Invariant
<1>2. QED
  BY <1>1, ProjectInvariant, PTL

(* A trunk in view that is resolving has an activation on its way that may  *)
(* settle it (projectActivateTrunk.ts).                                     *)
THEOREM ResolvingStaysAwaited == Spec => []ResolvingIsAwaited
<1>1. Invariant => ResolvingIsAwaited
  BY DEF Invariant
<1>2. QED
  BY <1>1, ProjectInvariant, PTL

-----------------------------------------------------------------------------
(* What a step may never do.                                                *)

(* An activation that another one, or a deletion, has overtaken changes     *)
(* nothing when its answer comes (activationIsCurrent in                    *)
(* projectActivateTrunk.ts).                                                *)
THEOREM OvertakenAnswersIgnored == Spec => OvertakenAnswersChangeNothing
<1> DEFINE Ignored ==
      \A a \in activations \ activations' :
        running' /\ (a.generation # generation \/ a.trunk # store.activeTrunk) =>
          UNCHANGED <<store, workspace, runtime>>
<1>1. Next => Ignored
  <2> SUFFICES ASSUME Next, NEW a \in activations \ activations', running',
                      a.generation # generation \/ a.trunk # store.activeTrunk
               PROVE  UNCHANGED <<store, workspace, runtime>>
    OBVIOUS
  <2>1. ASSUME NEW s, NEW t, BeginActivation(s, t) PROVE FALSE
    BY <2>1 DEF BeginActivation
  <2>2. CASE User
    BY <2>1, <2>2
       DEF User, ActivateTrunk, SetTrunkPinned, ExecuteDeletion, CreateChildTrunk, OpenFolder,
           AddRootTrunk, SetProjectPinned, RelinkFolder, SetActiveMainCard,
           AppendTrunkMessage, RequestSourceControl, calls
  <2>3. CASE Answers
    <3>1. PICK b \in activations : ResolveReady(b) \/ ResolveInvalid(b) \/ ResolveThrows(b)
      BY <2>3
         DEF Answers, WorktreeCreated, WorktreeNotCreated, InspectionSucceeds, RemovalSucceeds,
             DeletionFails, RequestAnswered, RequestFindsNoScope
    <3>2. a = b
      BY <3>1 DEF ResolveReady, ResolveInvalid, ResolveThrows
    <3>3. ~activationIsCurrent(b)
      BY <3>2 DEF activationIsCurrent
    <3>4. QED
      BY <3>1, <3>3 DEF ResolveReady, ResolveInvalid, ResolveThrows
  <2>4. CASE NextDay \/ Quit \/ Boot
    BY <2>1, <2>4 DEF NextDay, Quit, Boot, calls
  <2>5. QED
    BY <2>2, <2>3, <2>4 DEF Next
<1>2. [Next]_vars => [Ignored]_vars
  BY <1>1
<1> HIDE DEF Ignored
<1>3. Spec => [][Ignored]_vars
  BY <1>2, PTL DEF Spec
<1>4. QED
  BY <1>3 DEF OvertakenAnswersChangeNothing, Ignored

(* Only the active trunk's card is ever written, and only by a step that    *)
(* leaves it active (projectSyncRestoreFromShell).                          *)
THEOREM CardsSurviveSwitching == Spec => SwitchingKeepsCards
<1> DEFINE Kept ==
      \A t \in Live \cap DOMAIN store'.trunks :
        store'.trunks[t].card # store.trunks[t].card =>
          t = store.activeTrunk /\ t = store'.activeTrunk
<1>1. Invariant /\ Next => Kept
  <2> SUFFICES ASSUME Invariant, Next PROVE Kept
    OBVIOUS
  <2>1. ASSUME SameCards(store, store') PROVE Kept
    BY <2>1 DEF SameCards, Live
  <2>2. ASSUME NEW card \in Cards, SetActiveMainCard(card) PROVE Kept
    BY <2>2, SetActiveMainCardStep
  <2>3. ASSUME UNCHANGED store PROVE SameCards(store, store')
    BY <2>3 DEF SameCards
  <2>4. ASSUME Boot PROVE SameCards(store, store')
    <3>1. /\ SameCards(store, Migrated) /\ DOMAIN store.trunks \subseteq DOMAIN Migrated.trunks
          /\ DOMAIN store'.trunks = DOMAIN Swept.trunks /\ SameCards(Swept, store')
          /\ Good(Migrated, nextProject', nextTrunk')
      BY <2>4, MigratedGood, BootStep
    <3>2. /\ DOMAIN Swept.trunks \subseteq DOMAIN Migrated.trunks
          /\ \A t \in DOMAIN Swept.trunks : Swept.trunks[t] = Migrated.trunks[t]
      BY <3>1, SweepGood DEF Swept
    <3>3. QED
      BY <3>1, <3>2 DEF SameCards
  <2>5. CASE User
    <3>1. CASE \E t \in Trunks : ActivateTrunk(t) \/ SetTrunkPinned(t) \/ ExecuteDeletion(t)
      BY <2>1, <3>1, ActivateTrunkStep, SetTrunkPinnedStep, ExecuteDeletionStep
    <3>2. CASE (\E t \in Trunks : CreateChildTrunk(t)) \/ RequestSourceControl
      BY <2>1, <2>3, <3>2 DEF CreateChildTrunk, RequestSourceControl
    <3>3. CASE \/ \E f \in Folders : OpenFolder(f)
               \/ \E p \in Projects : AddRootTrunk(p) \/ SetProjectPinned(p)
               \/ \E p \in Projects, f \in Folders : RelinkFolder(p, f)
               \/ AppendTrunkMessage
      BY <2>1, <3>3, OpenFolderStep, AddRootTrunkStep, SetProjectPinnedStep, RelinkFolderStep,
         AppendTrunkMessageStep
    <3>4. QED
      BY <2>2, <2>5, <3>1, <3>2, <3>3 DEF User
  <2>6. CASE Answers
    <3>1. CASE \/ \E c \in creations : WorktreeCreated(c)
               \/ \E d \in deletions : RemovalSucceeds(d)
      BY <2>1, <3>1, WorktreeCreatedStep, RemovalSucceedsStep
    <3>2. QED
      BY <2>1, <2>3, <2>6, <3>1
         DEF Answers, ResolveReady, ResolveInvalid, ResolveThrows, WorktreeNotCreated,
             InspectionSucceeds, DeletionFails, RequestAnswered, RequestFindsNoScope
  <2>7. CASE NextDay \/ Quit
    BY <2>1, <2>3, <2>7 DEF NextDay, Quit
  <2>8. QED
    BY <2>1, <2>4, <2>5, <2>6, <2>7 DEF Next
<1>2. Invariant /\ [Next]_vars => [Kept]_vars
  BY <1>1
<1> HIDE DEF Kept
<1>3. Spec => [][Kept]_vars
  BY <1>2, ProjectInvariant, PTL DEF Spec
<1>4. QED
  BY <1>3 DEF SwitchingKeepsCards, Kept

\* What expires is not pinned, is in no project with a pin, and is stale.
LEMMA ExpiredIsStale ==
  ASSUME NEW s, NEW t \in DOMAIN s.trunks
  PROVE  LET expired == projectSelectExpired(s)
             p       == s.trunks[t].project
         IN  t \in expired.trunks \/ p \in expired.projects =>
               /\ ~s.projects[p].pinned
               /\ \A u \in DOMAIN s.trunks : s.trunks[u].project = p => ~s.trunks[u].pinned
               /\ isStale(s.trunks[t])
<1> DEFINE expired  == projectSelectExpired(s)
           p        == s.trunks[t].project
           retained == {u \in DOMAIN s.trunks : s.trunks[u].pinned \/ ~isStale(s.trunks[u])}
<1>1. ASSUME t \in expired.trunks
      PROVE  t \notin retained /\ ~s.projects[p].pinned /\ p \notin ProjectsWithPin(s)
  BY <1>1 DEF projectSelectExpired
<1>2. ASSUME p \in expired.projects
      PROVE  t \notin retained /\ ~s.projects[p].pinned /\ p \notin ProjectsWithPin(s)
  BY <1>2 DEF projectSelectExpired
<1>3. p \notin ProjectsWithPin(s) =>
        \A u \in DOMAIN s.trunks : s.trunks[u].project = p => ~s.trunks[u].pinned
  BY DEF ProjectsWithPin
<1>4. QED
  BY <1>1, <1>2, <1>3

(* The retention sweep spares every trunk that is recent, and every trunk   *)
(* of a pinned project or of a project with a pinned trunk, together with   *)
(* the project itself (projectSelectExpired, runRetentionSweep).            *)
THEOREM SweepSpares == Spec => SweepSparesPinnedAndRecent
<1> DEFINE Spares ==
      ~running /\ running' =>
        \A t \in Live :
          LET p == store.trunks[t].project
          IN  \/ store.projects[p].pinned
              \/ \E u \in Live : store.trunks[u].project = p /\ store.trunks[u].pinned
              \/ store.trunks[t].lastOpenedAt >= day - RetentionDays
              => t \in DOMAIN store'.trunks /\ p \in DOMAIN store'.projects
<1>1. Invariant /\ Next => Spares
  <2> SUFFICES ASSUME Invariant, Next, ~running, running' PROVE Spares
    OBVIOUS
  <2> SUFFICES ASSUME NEW t \in Live,
                      \/ store.projects[store.trunks[t].project].pinned
                      \/ \E u \in Live : /\ store.trunks[u].project = store.trunks[t].project
                                         /\ store.trunks[u].pinned
                      \/ store.trunks[t].lastOpenedAt >= day - RetentionDays
               PROVE  /\ t \in DOMAIN store'.trunks
                      /\ store.trunks[t].project \in DOMAIN store'.projects
    OBVIOUS
  <2> DEFINE p == store.trunks[t].project
             m == merge(store)
  <2>1. Boot
    BY DEF Next, User, Answers, ActivateTrunk, SetTrunkPinned, ExecuteDeletion, CreateChildTrunk,
           OpenFolder, AddRootTrunk, SetProjectPinned, RelinkFolder, SetActiveMainCard,
           AppendTrunkMessage, RequestSourceControl, ResolveReady, ResolveInvalid,
           ResolveThrows, WorktreeCreated, WorktreeNotCreated, InspectionSucceeds,
           RemovalSucceeds, DeletionFails, RequestAnswered, RequestFindsNoScope, NextDay, Quit,
           clock
  <2>2. Good(store, nextProject, nextTrunk) /\ RestTyped
    BY InvariantParts
  <2>3. nextProject \in Nat /\ nextTrunk \in Nat
    BY <2>2 DEF RestTyped
  <2>4. p \in DOMAIN store.projects /\ t \in DOMAIN store.trunks /\ store.trunks[t] \in Trunk
    BY <2>2 DEF Good, Shaped, Forest, Live
  <2>5. /\ Good(m, nextProject, nextTrunk)
        /\ DOMAIN m.trunks = DOMAIN store.trunks /\ m.projects = store.projects
        /\ \A u \in DOMAIN store.trunks :
             /\ m.trunks[u].project = store.trunks[u].project
             /\ m.trunks[u].parent = None
             /\ m.trunks[u].pinned = store.trunks[u].pinned
             /\ m.trunks[u].lastOpenedAt = store.trunks[u].lastOpenedAt
    BY <2>2, <2>3, MergeGood
  <2>6. Migrated = m
    <3>1. DOMAIN m.projects # {}
      BY <2>4, <2>5
    <3>2. QED
      BY <3>1 DEF Migrated, applyMigration, Migrates
  <2> DEFINE expired == projectSelectExpired(m)
  <2>7. /\ \/ t \in DOMAIN Swept.trunks /\ Swept.trunks[t] = m.trunks[t]
           \/ \E u \in expired.trunks : t \in Subtree(m, u)
           \/ m.trunks[t].project \in expired.projects
    <3> HIDE DEF m, p
    <3>1. QED
      BY <2>4, <2>5, <2>6, SweepGood DEF Swept
  <2>8. \A u : t \in Subtree(m, u) => u = t
    <3>1. \A u \in DOMAIN m.trunks : u # None
      BY <2>5 DEF Good, Shaped, None
    <3>2. QED
      BY <2>4, <2>5, <3>1 DEF Subtree
  <2>9. ~(t \in expired.trunks \/ p \in expired.projects)
    <3> SUFFICES ASSUME t \in expired.trunks \/ p \in expired.projects PROVE FALSE
      OBVIOUS
    <3>1. t \in DOMAIN m.trunks /\ m.trunks[t].project = p
      BY <2>4, <2>5
    <3>2. /\ ~m.projects[p].pinned
          /\ \A u \in DOMAIN m.trunks : m.trunks[u].project = p => ~m.trunks[u].pinned
          /\ isStale(m.trunks[t])
      <4> HIDE DEF m, p
      <4>1. QED
        BY <3>1, ExpiredIsStale
    <3>3. store.trunks[t].lastOpenedAt < day - RetentionDays
      BY <2>4, <2>5, <3>2 DEF isStale
    <3>4. store.trunks[t].lastOpenedAt \in Int /\ day \in Int
      BY <2>2, <2>4, BoundsAssumption DEF Trunk, RestTyped, Days
    <3>5. ~(store.trunks[t].lastOpenedAt >= day - RetentionDays)
      BY <3>3, <3>4, BoundsAssumption
    <3>6. ~store.projects[p].pinned
      BY <2>5, <3>2
    <3>7. \A u \in Live : store.trunks[u].project = p => ~store.trunks[u].pinned
      BY <2>5, <3>2 DEF Live
    <3>8. QED
      BY <3>5, <3>6, <3>7
  <2>10. t \in DOMAIN Swept.trunks /\ Swept.trunks[t].project = p
    BY <2>4, <2>5, <2>7, <2>8, <2>9
  <2>11. t \in DOMAIN store'.trunks
    BY <2>1, <2>10, BootStep
  <2>12. Swept.trunks[t].project \in DOMAIN Swept.projects
    BY <2>2, <2>5, <2>6, <2>10, SweepGood DEF Swept, Good, Forest
  <2>13. DOMAIN store'.projects = DOMAIN Swept.projects
    BY <2>1, BootStep
  <2>14. QED
    BY <2>10, <2>11, <2>12, <2>13
<1>2. Invariant /\ [Next]_vars => [Spares]_vars
  BY <1>1
<1> HIDE DEF Spares
<1>3. Spec => [][Spares]_vars
  BY <1>2, ProjectInvariant, PTL DEF Spec
<1>4. QED
  BY <1>3 DEF SweepSparesPinnedAndRecent, Spares
==============================================================================
