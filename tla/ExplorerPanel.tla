------------------------------ MODULE ExplorerPanel ------------------------------
(***************************************************************************)
(* The explorer: the store of the cached tree with its search index, the    *)
(* panel that watches the checkout in view, the context menu and the tree,  *)
(* and what the native side does for them.                                  *)
(*                                                                         *)
(* A step is a handler up to its await, or an answer and what follows it up *)
(* to the next await.  The native commands take effect in the order they    *)
(* are sent; what a command found is kept with it, and answers come in any  *)
(* order (those of the watch commands in the order they were sent).         *)
(*                                                                         *)
(* A path is a sequence of names whose first is the root's.  Whether there  *)
(* is a query is kept, its text is not.  The selected path, the messages,   *)
(* the order of entries and the editor's tabs are left out.                 *)
(***************************************************************************)
EXTENDS Naturals, FiniteSets, Bags, SequencesExt

CONSTANTS
  Roots,           (* the folders of projects and the worktrees            *)
  Trunks,
  Folder,          (* the folder of each trunk's project                   *)
  Checkout,        (* where each trunk's checkout is                       *)
  FirstTrunk,      (* the trunk in view at the start                       *)
  NoRoot,
  NoTrunk,
  DirNames,        (* the names folders have                               *)
  FileNames,       (* the names files have                                 *)
  SkipNames,       (* SEARCH_SKIP_DESCEND_NAMES                            *)
  NewFileName,     (* DEFAULT_NEW_FILE_NAME                                *)
  NewFolderName,   (* DEFAULT_NEW_FOLDER_NAME                              *)
  FirstDisk,       (* the files and folders at the start                   *)
  MaxLength,       (* Bound: length of a path                              *)
  MaxScopes,       (* Bound: checkouts resolved                            *)
  MaxMounts,       (* Bound: times the panel is shown                      *)
  MaxCalls,        (* Bound: commands awaited at once                      *)
  MaxEdits,        (* Bound: changes of the disk from outside              *)
  MaxGestures      (* Bound: what users do, but for ending a renaming      *)

ASSUME ExplorerNames ==
  /\ FirstTrunk \in Trunks /\ NoTrunk \notin Trunks /\ NoRoot \notin Roots
  /\ Folder \in [Trunks -> Roots] /\ Checkout \in [Trunks -> Roots]
  /\ DirNames \cap FileNames = {}
  /\ NewFileName \in FileNames /\ NewFolderName \in DirNames /\ SkipNames \subseteq DirNames
ASSUME ExplorerBounds ==
  /\ \A b \in {MaxMounts, MaxCalls, MaxEdits, MaxGestures} : b \in Nat
  /\ {MaxLength, MaxScopes} \subseteq Nat \ {0}

VARIABLES
  tree,       (* the explorer store                                        *)
  view,       (* the panel's mounts, their scopes, the setting             *)
  project,    (* the trunk in view, its scope and workspacePath            *)
  native,     (* the disk, scopes, watched roots and pending events        *)
  calls,      (* the commands that are awaited, a bag                      *)
  watchCalls, (* the runs of applyWatch that await a command, in order     *)
  gestures,   (* history: how much users did                               *)
  edits,      (* history: how often the disk changed from outside          *)
  gaps        (* history: a folder may have come that no search knew of    *)

vars == <<tree, view, project, native, calls, watchCalls, gestures, edits, gaps>>

Paths == {p \in SeqOf(Roots \cup DirNames \cup FileNames, MaxLength) :
            p # <<>> /\ p[1] \in Roots /\ \A i \in 2..Len(p) : p[i] \in DirNames \cup FileNames}
NoPath == <<>>

IsRoot(p)   == Len(p) = 1
IsFolder(p) == IsRoot(p) \/ Last(p) \in DirNames

\* Only folders hold something.
Solid(disk) == \A p \in disk : \A i \in 2..(Len(p) - 1) : p[i] \in DirNames
ASSUME DiskAtFirst == FirstDisk \subseteq Paths /\ Solid(FirstDisk)

\* What the walk of a search descends into.
Searched(entries) == {p \in entries : IsFolder(p) /\ Last(p) \notin SkipNames}

\* What follows a listing: nothing, the rest of a refresh (which remembers
\* whether there was a query), or renaming the entry that was created.
Continuation == [then : {"none", "refresh", "rename"}, rest : SUBSET Paths, query : BOOLEAN,
                 target : Paths \cup {NoPath}]
nothing == [then |-> "none", rest |-> {}, query |-> FALSE, target |-> NoPath]

Now == [tree |-> tree, view |-> view, project |-> project, native |-> native, calls |-> calls,
        watchCalls |-> watchCalls, gaps |-> gaps]

Send(a, call) == [a EXCEPT !.calls = @ (+) SetToBag({call})]
Running(c)    == [Now EXCEPT !.calls = @ (-) SetToBag({c})]

-----------------------------------------------------------------------------
(***************************************************************************)
(* The native side.                                                         *)
(***************************************************************************)
OnDisk(a, p) == IsRoot(p) \/ p \in a.native.disk

\* Every change below a watched root is reported once it has settled.
Changed(a, root, disk) ==
  [a EXCEPT !.native.disk = disk,
            !.native.events = IF root \in a.native.subscribed THEN @ \cup {root} ELSE @]

\* explorer_list_dir, which refuses a path outside the root it is given.
List(a, root, dir) ==
  LET ok == Head(dir) = root /\ OnDisk(a, dir)
  IN  [ok |-> ok, found |-> IF ok THEN {p \in a.native.disk : Front(p) = dir} ELSE {}]

Under(p, dir) == IsPrefix(dir, p)
Moved(p, from, to) == to \o SubSeq(p, Len(from) + 1, Len(p))

-----------------------------------------------------------------------------
(***************************************************************************)
(* The store's loading of folders.                                          *)
(***************************************************************************)
\* loadDir up to its await; when no root is there it returns at once.
loadDir(a, dir, k) ==
  Send([a EXCEPT !.tree.loading = @ \cup {dir}],
       [op |-> "list", dir |-> dir, list |-> List(a, a.tree.root, dir), k |-> k])

\* What a walk from the folders of `todo` comes to through cached ones.
Reached(children, todo) ==
  {p \in Paths : \E q \in todo :
     /\ Under(p, q)
     /\ \A i \in Len(q)..(Len(p) - 1) :
          LET dir == SubSeq(p, 1, i)
          IN  dir \in DOMAIN children /\ SubSeq(p, 1, i + 1) \in Searched(children[dir])}

\* The search's walk from the folders of `todo`, the shallowest first: it reads
\* the cached ones and comes to one that is not, which it has to list.
Walked(a, todo) ==
  LET reached == Reached(a.tree.children, todo)
      unread  == reached \ DOMAIN a.tree.children
      next    == CHOOSE p \in unread : \A q \in unread : Len(p) <= Len(q)
      Left(p) == Len(p) = Len(next) \/ (p \in todo /\ Len(p) > Len(next))
  IN  IF unread = {} THEN [next |-> NoPath, todo |-> {}]
      ELSE [next |-> next, todo |-> {p \in reached : Left(p)} \ {next}]

EndWalk(a, token) == IF token = a.tree.token THEN [a EXCEPT !.tree.indexing = FALSE] ELSE a

WalkOn(a, root, token, todo) ==
  LET w == Walked(a, todo)
  IN  IF token # a.tree.token \/ ~a.tree.query \/ w.next = NoPath THEN EndWalk(a, token)
      ELSE Send(a, [op |-> "search", dir |-> w.next, list |-> List(a, root, w.next),
                    root |-> root, token |-> token, todo |-> w.todo])

loadDescendantsForSearch(a) ==
  IF a.tree.root = NoRoot \/ ~a.tree.query THEN a
  ELSE LET token == a.tree.token + 1
       IN  WalkOn([a EXCEPT !.tree.token = token, !.tree.indexing = TRUE], a.tree.root, token,
                  {<<a.tree.root>>})

ensureSearchTreeLoaded(a) == IF a.tree.indexing THEN a ELSE loadDescendantsForSearch(a)

\* Mutant: a refresh leaves the search as it is.
keepSearch(a) == a

searchAgain(a) == loadDescendantsForSearch([a EXCEPT !.tree.token = @ + 1])

\* What follows a listing; a refresh lists what was expanded when it started
\* under the root of now, in some order.
Continue(a, k) ==
  IF k.then = "rename" THEN {[a EXCEPT !.tree.renaming = k.target]}
  ELSE IF k.then = "none" THEN {a}
  ELSE IF k.rest = {} \/ a.tree.root = NoRoot THEN {IF k.query THEN searchAgain(a) ELSE a}
  ELSE {loadDir(a, p, [k EXCEPT !.rest = @ \ {p}]) : p \in k.rest}

loadThen(a, dir, k) == IF a.tree.root = NoRoot THEN Continue(a, k) ELSE {loadDir(a, dir, k)}

refresh(a) ==
  IF a.tree.root = NoRoot THEN a
  ELSE loadDir([a EXCEPT !.tree.children = <<>>], <<a.tree.root>>,
               [nothing EXCEPT !.then = "refresh", !.query = a.tree.query,
                               !.rest = a.tree.expanded \ {<<a.tree.root>>}])

emptyTree == [root |-> NoRoot, children |-> <<>>, expanded |-> {}, renaming |-> NoPath,
              loading |-> {}, query |-> FALSE, indexing |-> FALSE, token |-> 0]

\* loadRoot, for the workspace of now.  A panel that is shown again keeps the
\* tree of an unchanged root.
\* Mutant: the query stays with the next root.
loadRootKeeping(a) ==
  LET kept == [emptyTree EXCEPT !.token = a.tree.token, !.indexing = a.tree.indexing, !.query = a.tree.query]
  IN  loadDir([a EXCEPT !.tree = [kept EXCEPT !.root = a.project.workspace]],
              <<a.project.workspace>>, nothing)

loadFreshRoot(a) ==
  LET kept == [emptyTree EXCEPT !.token = a.tree.token, !.indexing = a.tree.indexing]
  IN  loadDir([a EXCEPT !.tree = [kept EXCEPT !.root = a.project.workspace]],
              <<a.project.workspace>>, nothing)

loadRoot(a) ==
  IF a.project.workspace = NoRoot THEN [a EXCEPT !.tree = [emptyTree EXCEPT !.token = a.tree.token]]
  ELSE IF a.tree.root = a.project.workspace /\ <<a.tree.root>> \in DOMAIN a.tree.children THEN a
  ELSE loadFreshRoot(a)

-----------------------------------------------------------------------------
(***************************************************************************)
(* The panel's watch of the checkout in view.                               *)
(***************************************************************************)
Unsubscribed(a, s) ==
  [a EXCEPT !.native.subscribed = @ \ {a.native.scopes[s]},
            !.native.events = @ \ {a.native.scopes[s]}]

\* In a mode other than live, subscribing is unsubscribing.
Subscribed(a, s, live) ==
  IF live THEN [a EXCEPT !.native.subscribed = @ \cup {a.native.scopes[s]}]
  ELSE Unsubscribed(a, s)

Hop(a, kind, mount, s, live) ==
  [a EXCEPT !.watchCalls = Append(@, [kind |-> kind, mount |-> mount, scope |-> s, live |-> live])]

\* Mutant: subscribes first, and then takes back what was subscribed before.
EnterBackwards(a, mount, s) ==
  IF s = 0 THEN a
  ELSE Hop(Unsubscribed(Subscribed(a, s, a.view.live), s), "enter", mount, s, a.view.live)

Enter(a, mount, s) ==
  IF s = 0 THEN a
  ELSE Hop(Unsubscribed(a, s), "reset", mount, s, a.view.live)

\* applyWatch of the panel's mount `mount`, up to its first await.
applyWatch(a, mount, s) ==
  LET watched == a.view.watched[mount]
  IN  IF watched \notin {0, s} THEN Hop(Unsubscribed(a, watched), "leave", mount, s, FALSE)
      ELSE Enter(a, mount, s)

\* The next await of the oldest run that awaits a command.
WatchAnswered(a, h) ==
  CASE h.kind = "leave" -> Enter([a EXCEPT !.view.watched[h.mount] = 0], h.mount, h.scope)
    [] h.kind = "reset" -> Hop(Subscribed(a, h.scope, h.live), "enter", h.mount, h.scope, h.live)
    [] OTHER -> [a EXCEPT !.view.watched[h.mount] = h.scope]

\* resolveActiveScopeId; a trunk keeps its runtime while another is in view.
ShownScope(a) == IF a.project.trunk = NoTrunk THEN 0 ELSE a.project.ready[a.project.trunk]

WatchNow(a) == IF a.view.mounted THEN applyWatch(a, a.view.mount, ShownScope(a)) ELSE a

\* What the tree does when there is a query that it has not been shown with.
SearchEffect(before, a) ==
  IF a.view.mounted /\ a.tree.root # NoRoot /\ a.tree.query /\ ~(before.view.mounted /\ before.tree.query)
  THEN ensureSearchTreeLoaded(a) ELSE a

Become(a) ==
  LET b == SearchEffect(Now, a)
  IN  /\ BagCardinality(b.calls) <= MaxCalls
      /\ tree' = b.tree /\ view' = b.view /\ project' = b.project /\ native' = b.native
      /\ calls' = b.calls /\ watchCalls' = b.watchCalls /\ gaps' = b.gaps

Move(a) == Become(a) /\ UNCHANGED <<gestures, edits>>
Gesture == gestures < MaxGestures /\ gestures' = gestures + 1 /\ UNCHANGED edits

Init ==
  /\ tree = emptyTree
  /\ view = [mounted |-> FALSE, mount |-> 0, watched |-> [m \in 1..MaxMounts |-> 0], live |-> TRUE]
  /\ project = [trunk |-> FirstTrunk, ready |-> [t \in Trunks |-> IF t = FirstTrunk THEN 1 ELSE 0],
              workspace |-> Checkout[FirstTrunk]]
  /\ native = [disk |-> FirstDisk, scopes |-> <<Checkout[FirstTrunk]>>, subscribed |-> {}, events |-> {}]
  /\ calls = EmptyBag /\ watchCalls = <<>>
  /\ gestures = 0 /\ edits = 0 /\ gaps = FALSE

-----------------------------------------------------------------------------
(***************************************************************************)
(* The panel's surroundings: activations, the right side panel, settings.   *)
(***************************************************************************)
\* bindApi's subscription to the workspace, which survives the panel.
SetWorkspace(a, root) ==
  LET b == [a EXCEPT !.project.workspace = root]
      c == loadRoot(b)
  IN  IF a.project.workspace = root \/ a.view.mount = 0 THEN b
      ELSE IF c.tree.root = a.tree.root THEN c ELSE WatchNow(c)

\* The panel's subscription to the scope in view.
SetProject(a, trunk, ready) ==
  LET b == [a EXCEPT !.project.trunk = trunk, !.project.ready = ready]
  IN  IF ShownScope(a) = ShownScope(b) THEN b ELSE WatchNow(b)

\* projectActivateTrunk up to its await: the ids, the runtime, the workspace.
Activate(t) ==
  LET chosen    == SetProject(Now, t, project.ready)
      resolving == SetProject(chosen, t, [project.ready EXCEPT ![t] = 0])
  IN  Gesture /\ Become(SetWorkspace(resolving, Folder[t]))

\* The last project is closed.
CloseProject ==
  /\ project.trunk # NoTrunk /\ Gesture
  /\ Become(SetWorkspace(SetProject(Now, NoTrunk, project.ready), NoRoot))

\* The checkout of the trunk in view is resolved; when it is invalid, nothing
\* changes here.
Resolved ==
  LET t     == project.trunk
      moved == SetWorkspace([Now EXCEPT !.native.scopes = Append(@, Checkout[t])], Checkout[t])
      s     == Len(native.scopes) + 1
  IN  /\ t # NoTrunk /\ project.ready[t] = 0 /\ s <= MaxScopes
      /\ Move(SetProject(moved, t, [project.ready EXCEPT ![t] = s]))

ShowPanel ==
  LET shown == [Now EXCEPT !.view.mounted = TRUE, !.view.mount = @ + 1]
  IN  /\ ~view.mounted /\ view.mount < MaxMounts /\ Gesture
      /\ Become(WatchNow(loadRoot(shown)))

HidePanel ==
  LET watched == view.watched[view.mount]
      hidden  == [Now EXCEPT !.view.mounted = FALSE]
  IN  /\ view.mounted
      /\ Move(IF watched = 0 THEN hidden ELSE Unsubscribed(hidden, watched))

SetAutoRefresh ==
  /\ Gesture
  /\ Become(WatchNow([Now EXCEPT !.view.live = ~@]))

-----------------------------------------------------------------------------
(***************************************************************************)
(* What the user does in the panel.  A click anywhere but in the field of   *)
(* the name cancels a renaming, before what else it does.                   *)
(***************************************************************************)
cancelRename(a) == [a EXCEPT !.tree.renaming = NoPath]

\* The rows on the screen: an entry whose folders are open, or found by a search.
Row(p) ==
  /\ ~IsRoot(p) /\ Head(p) = tree.root
  /\ \A i \in 2..Len(p) :
       LET q == SubSeq(p, 1, i)
       IN  /\ Front(q) \in DOMAIN tree.children /\ q \in tree.children[Front(q)]
           /\ i < Len(p) => q \in tree.expanded \/ tree.query

\* What rows, menus and drops are about: a listed entry, or the project's folder.
Cached  == UNION {tree.children[dir] : dir \in DOMAIN tree.children}
Targets == Cached \cup {<<root>> : root \in Roots}

\* What a click does in the panel of a project, with the renaming cancelled.
Click(a) == view.mounted /\ project.trunk # NoTrunk /\ Gesture /\ Become(a)

toggleExpanded(p) ==
  LET a == cancelRename(Now)
      opened == [a EXCEPT !.tree.expanded = @ \cup {p}]
  IN  /\ Row(p) /\ IsFolder(p) /\ p # tree.renaming
      /\ Click(IF p \in tree.expanded THEN [a EXCEPT !.tree.expanded = @ \ {p}]
               ELSE IF p \in DOMAIN tree.children THEN opened
               ELSE loadDir(opened, p, nothing))

startRename(p) == Row(p) /\ Click([Now EXCEPT !.tree.renaming = p])

\* Escape, leaving the field, a click elsewhere, or on a file, which opens it.
CancelRename == view.mounted /\ tree.renaming # NoPath /\ Move(cancelRename(Now))

\* commitRename up to its await: Enter in the field of a row.
commitRename(name) ==
  LET from == tree.renaming
      to   == Append(Front(from), name)
      ok   == OnDisk(Now, from) /\ ~OnDisk(Now, to)
      disk == {IF Under(p, from) THEN Moved(p, from, to) ELSE p : p \in native.disk}
  IN  /\ from # NoPath /\ Row(from) /\ (Last(from) \in DirNames <=> name \in DirNames)
      /\ view.mounted
      /\ Move(Send(IF ok THEN Changed(Now, tree.root, disk) ELSE Now,
                     [op |-> "rename", from |-> from, to |-> to, ok |-> ok]))

\* New File and New Folder of a folder's row, or of the empty area, where
\* they are for the folder of the project.
Target(p) == IsFolder(p) /\ (Row(p) \/ p = <<Folder[project.trunk]>>)

handleNew(dir, name) ==
  LET entry == Append(dir, name)
      ok == Head(dir) = tree.root /\ OnDisk(Now, dir) /\ ~OnDisk(Now, entry)
  IN  /\ project.trunk # NoTrunk /\ Target(dir) /\ Len(dir) < MaxLength
      /\ tree.root # NoRoot
      /\ Click(Send(IF ok THEN Changed([cancelRename(Now) EXCEPT !.gaps = @ \/ IsFolder(entry)],
                                      tree.root, native.disk \cup {entry})
                    ELSE cancelRename(Now),
                    [op |-> "create", root |-> tree.root, dir |-> dir, entry |-> entry, ok |-> ok]))

\* A command that changes the disk, with a refresh behind it when it went well.
Change(ok, disk) ==
  Click(Send(IF ok THEN Changed(cancelRename(Now), tree.root, disk) ELSE cancelRename(Now),
             [op |-> "change", ok |-> ok]))

\* Once it is confirmed; the editor's tabs of what is deleted close at the end.
handleDelete(p) ==
  /\ Row(p)
  /\ Change(OnDisk(Now, p), {q \in native.disk : ~Under(q, p)})

\* `copy` stands for the name the copy gets.
handleDuplicate(p, copy) ==
  LET to == Append(Front(p), copy)
  IN  /\ Row(p) /\ (Last(p) \in DirNames <=> copy \in DirNames)
      /\ Change(OnDisk(Now, p) /\ ~OnDisk(Now, to),
                native.disk \cup {Moved(q, p, to) : q \in {q \in native.disk : Under(q, p)}})

\* A file is dropped on a row or below the rows, where it is for the root.
handleExternalDrop(dir, name) ==
  LET to == Append(dir, name)
  IN  /\ tree.root # NoRoot
      /\ IsFolder(dir) /\ Len(dir) < MaxLength /\ (Row(dir) \/ dir = <<tree.root>>)
      /\ Change(OnDisk(Now, dir) /\ ~OnDisk(Now, to), native.disk \cup {to})

handleRefresh == Click(refresh(cancelRename(Now)))

setSearchQuery(query) ==
  LET asked == [Now EXCEPT !.tree.query = query]
  IN  Click(IF ~query THEN [asked EXCEPT !.tree.token = @ + 1, !.tree.indexing = FALSE]
            ELSE IF tree.query THEN asked
            ELSE loadDescendantsForSearch(asked))

-----------------------------------------------------------------------------
(***************************************************************************)
(* Answers and events.                                                      *)
(***************************************************************************)
\* The panel listens as long as it is shown, and cares for its root only.
OnChanged(root) ==
  LET seen == [Now EXCEPT !.native.events = @ \ {root}]
  IN  root \in native.events /\ Move(IF view.mounted /\ root = tree.root THEN refresh(seen) ELSE seen)

\* A file or folder comes or goes outside the application.
EditOutside(p) ==
  /\ edits < MaxEdits /\ edits' = edits + 1
  /\ ~IsRoot(p) /\ OnDisk(Now, Front(p)) /\ IsFolder(Front(p))
  /\ Become(Changed([Now EXCEPT !.gaps = @ \/ IsFolder(p)], Head(p),
                    IF p \in native.disk THEN {q \in native.disk : ~Under(q, p)}
                    ELSE native.disk \cup {p}))
  /\ UNCHANGED gestures

Listed(a, dir, found) ==
  [a EXCEPT !.tree.children = [d \in DOMAIN @ \cup {dir} |-> IF d = dir THEN found ELSE @[d]]]

\* Mutant: a folder that cannot be listed stays "Loading".
ListedWell(a, c) == IF c.list.ok THEN [Listed(a, c.dir, c.list.found) EXCEPT !.tree.loading = @ \ {c.dir}] ELSE a

ListEnded(a, c) ==
  LET ended == [a EXCEPT !.tree.loading = @ \ {c.dir}]
  IN  IF c.list.ok THEN Listed(ended, c.dir, c.list.found) ELSE ended

\* A listing that failed, or that the disk has moved on from, leaves a gap.
Noted(c) == [Running(c) EXCEPT !.gaps = @ \/ ~c.list.ok \/ c.list # List(Now, Head(c.dir), c.dir)]

ListAnswered(c) ==
  /\ c.op = "list"
  /\ \E a \in Continue(ListEnded(Noted(c), c), c.k) : Move(a)

\* A walk that was superseded, or whose query is gone, leaves the tree alone.
SearchAnswered(c) ==
  LET current == c.token = tree.token /\ tree.query
  IN  /\ c.op = "search"
      /\ Move(IF ~current THEN EndWalk(Running(c), c.token)
              ELSE IF c.list.ok
              THEN WalkOn(Listed(Noted(c), c.dir, c.list.found), c.root, c.token,
                          c.todo \cup Searched(c.list.found))
              ELSE WalkOn(Noted(c), c.root, c.token, c.todo))

\* Mutant: the entries of a renamed folder keep their paths.
remapKeysOnly(children, from, to) ==
  LET remap(p) == IF Under(p, from) THEN Moved(p, from, to) ELSE p
  IN  [q \in {remap(p) : p \in DOMAIN children} |->
         children[CHOOSE p \in DOMAIN children : remap(p) = q]]

\* Where two keys meet, one of their listings stays.
remapChildrenByPath(children, from, to) ==
  LET remap(p) == IF Under(p, from) THEN Moved(p, from, to) ELSE p
  IN  [q \in {remap(p) : p \in DOMAIN children} |->
         {remap(e) : e \in children[CHOOSE p \in DOMAIN children : remap(p) = q]}]

RenameAnswered(c) ==
  LET dir == Front(c.from)
      Entry(e) == IF e = c.from THEN c.to ELSE e
      a == cancelRename(Running(c))
      b == IF dir \in DOMAIN a.tree.children
           THEN [a EXCEPT !.tree.children[dir] = {Entry(e) : e \in @}] ELSE a
      remap(p) == IF Under(p, c.from) THEN Moved(p, c.from, c.to) ELSE p
  IN  /\ c.op = "rename"
      /\ Move(IF ~c.ok THEN Running(c)
              ELSE IF ~IsFolder(c.to) THEN b
              ELSE [b EXCEPT !.tree.children = remapChildrenByPath(@, c.from, c.to),
                             !.tree.expanded = {remap(p) : p \in @},
                             !.gaps = TRUE])

CreateAnswered(c) ==
  /\ c.op = "create"
  /\ IF c.ok
     THEN \E a \in loadThen(Running(c), c.dir, [nothing EXCEPT !.then = "rename", !.target = c.entry]) : Move(a)
     ELSE Move(Running(c))

ChangeAnswered(c) ==
  c.op = "change" /\ Move(IF c.ok THEN refresh(Running(c)) ELSE Running(c))

WatchAnswer ==
  /\ watchCalls # <<>>
  /\ Move(WatchAnswered([Now EXCEPT !.watchCalls = Tail(@)], Head(watchCalls)))

-----------------------------------------------------------------------------
Answers(c) ==
  \/ ListAnswered(c) \/ SearchAnswered(c) \/ RenameAnswered(c)
  \/ CreateAnswered(c) \/ ChangeAnswered(c)

Next ==
  \/ \E t \in Trunks : Activate(t)
  \/ CloseProject \/ Resolved \/ ShowPanel \/ HidePanel \/ SetAutoRefresh
  \/ \E p \in Cached :
       \/ toggleExpanded(p) \/ startRename(p) \/ handleDelete(p)
       \/ \E name \in DirNames \cup FileNames : handleDuplicate(p, name)
  \/ \E p \in Targets :
       \/ handleNew(p, NewFileName) \/ handleNew(p, NewFolderName)
       \/ \E name \in FileNames : handleExternalDrop(p, name)
  \/ \E p \in Paths : EditOutside(p)
  \/ \E name \in DirNames \cup FileNames : commitRename(name)
  \/ CancelRename \/ handleRefresh
  \/ \E query \in BOOLEAN : setSearchQuery(query)
  \/ \E root \in Roots : OnChanged(root)
  \/ WatchAnswer
  \/ \E c \in DOMAIN calls : Answers(c)

Spec == Init /\ [][Next]_vars

-----------------------------------------------------------------------------
Listing == [ok : BOOLEAN, found : SUBSET Paths]

TypeOK ==
  /\ tree.root \in Roots \cup {NoRoot} /\ DOMAIN tree.children \subseteq Paths
  /\ \A p \in DOMAIN tree.children : IsFolder(p) /\ tree.children[p] \subseteq Paths
  /\ tree.expanded \subseteq Paths /\ tree.loading \subseteq Paths
  /\ tree.renaming \in Paths \cup {NoPath}
  /\ tree.query \in BOOLEAN /\ tree.indexing \in BOOLEAN /\ tree.token \in Nat
  /\ view \in [mounted : BOOLEAN, mount : 0..MaxMounts,
               watched : [1..MaxMounts -> 0..MaxScopes], live : BOOLEAN]
  /\ project \in [trunk : Trunks \cup {NoTrunk}, ready : [Trunks -> 0..MaxScopes],
                  workspace : Roots \cup {NoRoot}]
  /\ native.disk \subseteq Paths /\ native.scopes \in Seq(Roots)
  /\ native.subscribed \subseteq Roots /\ native.events \subseteq native.subscribed
  /\ IsABag(calls)
  /\ \A c \in DOMAIN calls : c.op \in {"list", "search"} => c.dir \in Paths /\ c.list \in Listing
  /\ \A c \in DOMAIN calls : c.op = "list" => c.k \in Continuation
  /\ watchCalls \in Seq([kind : {"leave", "reset", "enter"}, mount : 1..MaxMounts,
                         scope : 0..MaxScopes, live : BOOLEAN])
  /\ gestures \in 0..MaxGestures /\ edits \in 0..MaxEdits /\ gaps \in BOOLEAN

\* What is cached of a folder are its own entries, also after a renaming moved
\* the folder while listings of it were on their way.
TreeWellFormed ==
  /\ TypeOK
  /\ \A dir \in DOMAIN tree.children : \A p \in tree.children[dir] : Front(p) = dir

\* Whatever shows a spinner waits for a command that will end it: a folder for
\* its listing, "Searching" for a walk that was not superseded.
SpinnersAreAwaited ==
  /\ \A p \in tree.loading : \E c \in DOMAIN calls : c.op = "list" /\ c.dir = p
  /\ tree.query /\ tree.indexing =>
       \E c \in DOMAIN calls : c.op = "search" /\ c.token = tree.token

\* A walk that goes on is a walk of the root in view, although a change of the
\* root cancels none.
SearchStaysInRoot ==
  tree.query => \A c \in DOMAIN calls : c.op = "search" /\ c.token = tree.token => c.root = tree.root

\* When there is a query and nothing is on its way, every folder that the walk
\* of a search comes to from the root has been listed, whatever refreshes came
\* in between; unless a listing failed or came too late, or a folder was made
\* or renamed, which no search follows.
SearchIsComplete ==
  tree.query /\ calls = EmptyBag /\ ~gaps =>
    Reached(tree.children, {<<tree.root>>}) \subseteq DOMAIN tree.children

\* Once the watch commands are through, the checkout in view is watched exactly
\* when the setting says so.
LiveViewIsWatched ==
  LET s == ShownScope(Now)
  IN  watchCalls = <<>> /\ view.mounted /\ s # 0 => (native.scopes[s] \in native.subscribed <=> view.live)
=============================================================================
