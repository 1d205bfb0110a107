--------------------------- MODULE ExplorerPanelProofs ---------------------------
(***************************************************************************)
(* Proofs about the explorer, for any roots, trunks, names and disks and    *)
(* any bounds.                                                             *)
(***************************************************************************)
EXTENDS ExplorerPanel, TLAPS, SequenceTheorems, WellFoundedInduction

-----------------------------------------------------------------------------
(* The inductive invariant.  Its parts are about the fields of a state that *)
(* a step works on; D are the calls that are awaited, n is the number of    *)
(* scopes there are.                                                       *)
Fields == {"tree", "view", "project", "native", "calls", "watchCalls", "gaps"}
TreeFields == {"root", "children", "expanded", "renaming", "loading", "query", "indexing", "token"}
NativeFields == {"disk", "scopes", "subscribed", "events"}

Names        == DirNames \cup FileNames
Folders      == {p \in Paths : IsFolder(p)}
Entries(dir) == {p \in Paths : Front(p) = dir}

(* A cache of folders with their own entries.                               *)
Cache(children) ==
  /\ DOMAIN children \subseteq Folders
  /\ \A dir \in DOMAIN children : children[dir] \subseteq Entries(dir)

TreeTyped(t) ==
  /\ DOMAIN t = TreeFields
  /\ t.root \in Roots \cup {NoRoot} /\ Cache(t.children)
  /\ t.expanded \subseteq Folders /\ t.loading \subseteq Folders
  /\ t.renaming \in Paths \cup {NoPath}
  /\ t.query \in BOOLEAN /\ t.indexing \in BOOLEAN /\ t.token \in Nat

Views(n) ==
  [mounted : BOOLEAN, mount : 0..MaxMounts, watched : [1..MaxMounts -> 0..n], live : BOOLEAN]
Projects(n) ==
  [trunk : Trunks \cup {NoTrunk}, ready : [Trunks -> 0..n], workspace : Roots \cup {NoRoot}]
Hops(n) ==
  {h \in [kind : {"leave", "reset", "enter"}, mount : 1..MaxMounts, scope : 0..n, live : BOOLEAN] :
     h.kind # "leave" => h.scope # 0}

NativeTyped(x) ==
  /\ DOMAIN x = NativeFields
  /\ x.disk \subseteq Paths /\ x.scopes \in Seq(Roots) /\ Len(x.scopes) <= MaxScopes
  /\ x.subscribed \subseteq Roots /\ x.events \subseteq x.subscribed

CallTyped(c) ==
  /\ c.op \in {"list", "search", "rename", "create", "change"}
  /\ c.op \in {"list", "search"} =>
       c.dir \in Folders /\ c.list \in Listing /\ c.list.found \subseteq Entries(c.dir)
  /\ c.op = "list" => c.k \in Continuation /\ c.k.rest \subseteq Folders
  /\ c.op = "search" => c.todo \subseteq Folders /\ c.token \in Nat
  /\ c.op = "rename" =>
       /\ c.from \in Paths /\ c.to \in Paths /\ ~IsRoot(c.from)
       /\ Front(c.from) = Front(c.to) /\ (IsFolder(c.from) <=> IsFolder(c.to))
  /\ c.op = "create" => c.dir \in Folders /\ c.entry \in Paths

CallsTyped(B) == IsABag(B) /\ \A c \in DOMAIN B : CallTyped(c)

Typed(a) ==
  /\ DOMAIN a = Fields
  /\ TreeTyped(a.tree) /\ NativeTyped(a.native) /\ CallsTyped(a.calls)
  /\ a.view \in Views(Len(a.native.scopes)) /\ a.project \in Projects(Len(a.native.scopes))
  /\ a.watchCalls \in Seq(Hops(Len(a.native.scopes)))
  /\ a.gaps \in BOOLEAN

(* A search that goes on searches the root in view.                         *)
Tokens(root, query, indexing, token, D) ==
  /\ \A c \in D : c.op = "search" => c.token <= token
  /\ root = NoRoot => ~query /\ ~indexing
  /\ query => \A c \in D : c.op = "search" /\ c.token = token => c.root = root

Indexing(query, indexing, token, D) ==
  query /\ indexing => \E c \in D : c.op = "search" /\ c.token = token

Loading(loading, D) == \A p \in loading : \E c \in D : c.op = "list" /\ c.dir = p

Searching(a) ==
  /\ Tokens(a.tree.root, a.tree.query, a.tree.indexing, a.tree.token, DOMAIN a.calls)
  /\ Loading(a.tree.loading, DOMAIN a.calls)

Good(a) ==
  /\ Typed(a) /\ Searching(a)
  /\ Indexing(a.tree.query, a.tree.indexing, a.tree.token, DOMAIN a.calls)

(* A panel that was shown has the tree of the workspace.                    *)
Rooted(view_, project_, root) ==
  /\ view_.mounted => view_.mount # 0
  /\ view_.mount # 0 => root = project_.workspace
Homed(project_) == project_.trunk # NoTrunk => project_.workspace # NoRoot

(* Of the runs of applyWatch on their way, one that will enter the root in  *)
(* view does so with the setting of then; otherwise the last that has       *)
(* entered it did so with the setting of now; otherwise it is watched as    *)
(* the setting says.                                                        *)
Leaves(h, scopes, root) == h.kind = "leave" /\ h.scope # 0 /\ scopes[h.scope] = root
Resets(h, scopes, root) == h.kind = "reset" /\ scopes[h.scope] = root

Served(live, scopes, subscribed, root, queue) ==
  \/ \E i \in 1..Len(queue) : Leaves(queue[i], scopes, root)
  \/ \E i \in 1..Len(queue) :
       /\ Resets(queue[i], scopes, root) /\ queue[i].live = live
       /\ \A j \in (i + 1)..Len(queue) : Resets(queue[j], scopes, root) => queue[j].live = live
  \/ /\ root \in subscribed <=> live
     /\ \A j \in 1..Len(queue) : Resets(queue[j], scopes, root) => queue[j].live = live

Watching(view_, scopes, subscribed, shown, queue) ==
  view_.mounted /\ shown # 0 => Served(view_.live, scopes, subscribed, scopes[shown], queue)

Watched(a) ==
  Watching(a.view, a.native.scopes, a.native.subscribed, ShownScope(a), a.watchCalls)

(* What a search promises.  A call that changed the folders on disk brings a *)
(* refresh, or a gap, once it is answered; a refresh that began with a query *)
(* begins the search again.                                                 *)
Unfresh(c) == (c.op = "change" /\ c.ok) \/ (c.op = "rename" /\ c.ok /\ IsFolder(c.to))
Again(c)   == c.op = "list" /\ c.k.then = "refresh" /\ c.k.query

(* Every folder on disk is known to the folder it is in, when that is cached. *)
Known(children, disk) ==
  \A p \in disk : IsFolder(p) /\ Front(p) \in DOMAIN children => p \in children[Front(p)]

(* Every folder that a search has to list is below one that it has before it. *)
Unread(children, root) == Reached(children, {<<root>>}) \ DOMAIN children
Before(p, c) == \E q \in c.todo \cup {c.dir} : Under(p, q)
Covered(children, root, token, D) ==
  \A p \in Unread(children, root) :
    \E c \in D : c.op = "search" /\ c.token = token /\ Before(p, c)

Fresh(a) ==
  ~a.gaps /\ a.tree.root # NoRoot =>
    \/ \E c \in DOMAIN a.calls : Unfresh(c)
    \/ Known(a.tree.children, a.native.disk)

Followed(a) ==
  ~a.gaps /\ a.tree.query =>
    \/ \E c \in DOMAIN a.calls : Unfresh(c) \/ Again(c)
    \/ Covered(a.tree.children, a.tree.root, a.tree.token, DOMAIN a.calls)

Promised(a) == Solid(a.native.disk) /\ Fresh(a) /\ Followed(a)

Counted == gestures \in 0..MaxGestures /\ edits \in 0..MaxEdits

Invariant ==
  /\ Good(Now) /\ Watched(Now) /\ Promised(Now)
  /\ Rooted(view, project, tree.root) /\ Homed(project)
  /\ Counted

-----------------------------------------------------------------------------
(* Paths.                                                                   *)

LEMMA Bounded ==
  ASSUME NEW S, NEW n \in Nat, NEW p
  PROVE  p \in SeqOf(S, n) <=> p \in Seq(S) /\ Len(p) <= n
<1>1. ASSUME p \in SeqOf(S, n)
      PROVE  p \in Seq(S) /\ Len(p) <= n
  <2>1. PICK m \in 0..n : p \in [1..m -> S]
    BY <1>1 DEF SeqOf
  <2>2. p \in Seq(S)
    BY <2>1, SeqDef
  <2>3. DOMAIN p = 1..m
    BY <2>1
  <2>4. Len(p) = m
    BY <2>2, <2>3, LenProperties
  <2>5. QED
    BY <2>2, <2>4
<1>2. ASSUME p \in Seq(S), Len(p) <= n
      PROVE  p \in SeqOf(S, n)
  <2>1. Len(p) \in 0..n /\ p \in [1..Len(p) -> S]
    BY <1>2, LenProperties
  <2>2. QED
    BY <2>1 DEF SeqOf
<1>3. QED
  BY <1>1, <1>2

LEMMA ThePaths ==
  ASSUME NEW p
  PROVE  p \in Paths <=>
           /\ p \in Seq(Roots \cup Names) /\ Len(p) \in 1..MaxLength
           /\ p[1] \in Roots /\ \A i \in 2..Len(p) : p[i] \in Names
<1> DEFINE S == Roots \cup DirNames \cup FileNames
<1>1. MaxLength \in Nat \ {0}
  BY ExplorerBounds
<1>2. p \in Paths <=> /\ p \in SeqOf(S, MaxLength) /\ p # <<>>
                      /\ p[1] \in Roots /\ \A i \in 2..Len(p) : p[i] \in Names
  BY DEF Paths, Names
<1>3. p \in SeqOf(S, MaxLength) <=> p \in Seq(S) /\ Len(p) <= MaxLength
  BY <1>1, Bounded
<1>4. S = Roots \cup Names
  BY DEF Names
<1>5. p \in Seq(S) => (p # <<>> <=> Len(p) # 0) /\ Len(p) \in Nat
  BY EmptySeq
<1> HIDE DEF S
<1>6. QED
  BY <1>1, <1>2, <1>3, <1>4, <1>5

LEMMA AFront ==
  ASSUME NEW p \in Paths
  PROVE  /\ Len(p) \in Nat \ {0} /\ Len(Front(p)) = Len(p) - 1
         /\ \A i \in 1..(Len(p) - 1) : Front(p)[i] = p[i]
         /\ ~IsRoot(p) => Front(p) \in Paths
<1>1. /\ p \in Seq(Roots \cup Names) /\ Len(p) \in 1..MaxLength
      /\ p[1] \in Roots /\ \A i \in 2..Len(p) : p[i] \in Names
  BY ThePaths
<1>2. MaxLength \in Nat \ {0}
  BY ExplorerBounds
<1> DEFINE q == SubSeq(p, 1, Len(p) - 1)
<1>3. /\ q \in Seq(Roots \cup Names) /\ Len(q) = Len(p) - 1
      /\ \A i \in 1..(Len(p) - 1) : q[i] = p[i]
  <2>1. \A i \in 1..(Len(p) - 1) : p[i] \in Roots \cup Names
    BY <1>1
  <2>2. Len(p) - 1 \in Int /\ Len(p) - 1 >= 0
    BY <1>1, <1>2
  <2>3. /\ q \in Seq(Roots \cup Names)
        /\ Len(q) = IF 1 <= Len(p) - 1 THEN Len(p) - 1 - 1 + 1 ELSE 0
        /\ \A i \in 1..(Len(p) - 1 - 1 + 1) : q[i] = p[1 + i - 1]
    BY <2>1, <2>2, SubSeqProperties
  <2>4. Len(p) \in Nat \ {0}
    BY <1>1, <1>2
  <2> HIDE DEF q
  <2>5. Len(q) = Len(p) - 1
    <3>1. CASE Len(p) = 1
      <4>1. ~(1 <= Len(p) - 1) /\ Len(p) - 1 = 0
        BY <3>1
      <4>2. QED
        BY <4>1, <2>3
    <3>2. CASE Len(p) > 1
      <4>1. 1 <= Len(p) - 1 /\ Len(p) - 1 - 1 + 1 = Len(p) - 1
        BY <3>2, <2>4
      <4>2. Len(q) = Len(p) - 1 - 1 + 1
        BY <4>1, <2>3, Zenon
      <4>3. QED
        BY <4>2, <2>4
    <3>3. Len(p) = 1 \/ Len(p) > 1
      BY <2>4
    <3>4. QED
      BY <3>1, <3>2, <3>3
  <2>6. ASSUME NEW i \in 1..(Len(p) - 1)
        PROVE  q[i] = p[i]
    <3>1. 1 + i - 1 = i /\ i \in 1..(Len(p) - 1 - 1 + 1)
      BY <2>4
    <3>2. q[i] = p[1 + i - 1]
      BY <3>1, <2>3
    <3>3. QED
      BY <3>1, <3>2
  <2>7. QED
    BY <2>3, <2>5, <2>6
<1>4. ~IsRoot(p) => q \in Paths
  <2> SUFFICES ASSUME ~IsRoot(p) PROVE q \in Paths
    OBVIOUS
  <2>1. Len(q) \in 1..MaxLength /\ q[1] \in Roots /\ \A i \in 2..Len(q) : q[i] \in Names
    BY <1>1, <1>2, <1>3 DEF IsRoot
  <2> HIDE DEF q
  <2>2. QED
    BY <2>1, <1>3, ThePaths
<1>5. QED
  BY <1>1, <1>2, <1>3, <1>4 DEF Front

LEMMA AnEntry ==
  ASSUME NEW dir \in Paths, NEW name \in Names, Len(dir) < MaxLength
  PROVE  /\ Append(dir, name) \in Paths /\ Front(Append(dir, name)) = dir
         /\ Last(Append(dir, name)) = name /\ ~IsRoot(Append(dir, name))
<1> DEFINE e == Append(dir, name)
<1>1. /\ dir \in Seq(Roots \cup Names) /\ Len(dir) \in 1..MaxLength
      /\ dir[1] \in Roots /\ \A i \in 2..Len(dir) : dir[i] \in Names
  BY ThePaths
<1>2. MaxLength \in Nat \ {0}
  BY ExplorerBounds
<1>3. /\ e \in Seq(Roots \cup Names) /\ Len(e) = Len(dir) + 1
      /\ e[Len(e)] = name /\ \A i \in 1..Len(dir) : e[i] = dir[i]
  BY <1>1
<1>4. e \in Paths
  <2>1. Len(e) \in 1..MaxLength /\ e[1] \in Roots /\ \A i \in 2..Len(e) : e[i] \in Names
    BY <1>1, <1>2, <1>3
  <2> HIDE DEF e
  <2>2. QED
    BY <2>1, <1>3, ThePaths
<1>5. SubSeq(e, 1, Len(e) - 1) = dir
  <2> DEFINE s == SubSeq(e, 1, Len(e) - 1)
  <2>1. s \in Seq(Roots \cup Names) /\ Len(s) = Len(dir) /\ \A i \in 1..Len(dir) : s[i] = dir[i]
    BY <1>1, <1>3
  <2> HIDE DEF s
  <2>2. s = dir
    BY <2>1, <1>1, SeqEqual
  <2>3. QED
    BY <2>2 DEF s
<1> HIDE DEF e
<1>6. QED
  BY <1>3, <1>4, <1>5, <1>1 DEF Front, Last, IsRoot, e

LEMMA SameFront ==
  ASSUME NEW p \in Paths, NEW q \in Paths, Front(p) = Front(q)
  PROVE  Len(p) = Len(q)
BY AFront

(* A rename moves what is below a folder, and keeps depths and folders.     *)
LEMMA AMove ==
  ASSUME NEW p \in Paths, NEW from \in Paths, NEW to \in Paths,
         ~IsRoot(from), Front(from) = Front(to), Under(p, from)
  PROVE  /\ Moved(p, from, to) \in Paths /\ Len(Moved(p, from, to)) = Len(p)
         /\ Len(from) <= Len(p)
         /\ \A i \in 1..Len(p) : Moved(p, from, to)[i] = IF i <= Len(from) THEN to[i] ELSE p[i]
<1>1. Len(from) = Len(to) /\ Len(from) \in Nat \ {0}
  BY SameFront, AFront
<1>2. /\ p \in Seq(Roots \cup Names) /\ Len(p) \in 1..MaxLength
      /\ p[1] \in Roots /\ \A i \in 2..Len(p) : p[i] \in Names
  BY ThePaths
<1>3. /\ to \in Seq(Roots \cup Names) /\ Len(to) \in 1..MaxLength
      /\ to[1] \in Roots /\ \A i \in 2..Len(to) : to[i] \in Names
  BY ThePaths
<1>4. MaxLength \in Nat \ {0}
  BY ExplorerBounds
<1>5. Len(from) <= Len(p)
  BY DEF Under, IsPrefix
<1> DEFINE s == SubSeq(p, Len(from) + 1, Len(p))
           m == to \o s
<1>6. s \in Seq(Roots \cup Names) /\ Len(s) = Len(p) - Len(from)
      /\ \A i \in 1..Len(s) : s[i] = p[i + Len(from)]
  BY <1>1, <1>2, <1>5
<1> HIDE DEF s
<1>7. /\ m \in Seq(Roots \cup Names) /\ Len(m) = Len(to) + Len(s)
      /\ \A i \in 1..Len(m) : m[i] = IF i <= Len(to) THEN to[i] ELSE s[i - Len(to)]
  <2>1. /\ m \in Seq(Roots \cup Names) /\ Len(m) = Len(to) + Len(s)
        /\ \A i \in 1..(Len(to) + Len(s)) : m[i] = IF i <= Len(to) THEN to[i] ELSE s[i - Len(to)]
    <3>1. to \in Seq(Roots \cup Names) /\ s \in Seq(Roots \cup Names)
      BY <1>3, <1>6
    <3>2. QED
      BY <3>1, ConcatProperties
  <2> HIDE DEF m
  <2>2. QED
    BY <2>1
<1> HIDE DEF m
<1>8. Len(m) = Len(p) /\ \A i \in 1..Len(p) : m[i] = IF i <= Len(from) THEN to[i] ELSE p[i]
  <2>1. Len(m) = Len(p)
    BY <1>7, <1>6, <1>1, <1>2
  <2>2. ASSUME NEW i \in 1..Len(p), i <= Len(from)
        PROVE  m[i] = to[i]
    BY <2>1, <2>2, <1>7, <1>1
  <2>3. ASSUME NEW i \in 1..Len(p), ~(i <= Len(from))
        PROVE  m[i] = p[i]
    <3>1. i \in 1..Len(m) /\ ~(i <= Len(to))
      BY <2>1, <2>3, <1>1
    <3>2. m[i] = s[i - Len(to)]
      BY <3>1, <1>7
    <3>3. i - Len(from) \in 1..Len(s) /\ (i - Len(from)) + Len(from) = i
      BY <2>3, <1>6, <1>1, <1>2
    <3>4. s[i - Len(from)] = p[(i - Len(from)) + Len(from)]
      BY <3>3, <1>6
    <3>5. QED
      BY <3>2, <3>3, <3>4, <1>1
  <2>4. QED
    BY <2>1, <2>2, <2>3
<1>9. m \in Paths
  <2>1. Len(m) \in 1..MaxLength /\ m[1] \in Roots /\ \A i \in 2..Len(m) : m[i] \in Names
    BY <1>8, <1>2, <1>3, <1>1
  <2>2. QED
    BY <2>1, <1>7, ThePaths
<1>10. m = Moved(p, from, to)
  BY DEF Moved, m, s
<1>11. QED
  BY <1>8, <1>9, <1>10, <1>5

LEMMA APrefix ==
  ASSUME NEW p \in Paths, NEW from \in Paths
  PROVE  Under(p, from) <=> Len(from) <= Len(p) /\ \A i \in 1..Len(from) : from[i] = p[i]
<1>1. /\ p \in Seq(Roots \cup Names) /\ Len(p) \in Nat \ {0}
      /\ from \in Seq(Roots \cup Names) /\ Len(from) \in Nat \ {0}
  BY ThePaths, AFront
<1> DEFINE s == SubSeq(from, 1, Len(from))
           u == SubSeq(p, 1, Len(from))
<1>2. s \in Seq(Roots \cup Names) /\ Len(s) = Len(from) /\ \A i \in 1..Len(from) : s[i] = from[i]
  BY <1>1
<1>3. Len(from) <= Len(p) =>
        u \in Seq(Roots \cup Names) /\ Len(u) = Len(from) /\ \A i \in 1..Len(from) : u[i] = p[i]
  BY <1>1
<1> HIDE DEF s, u
<1>4. Len(from) <= Len(p) => (s = u <=> \A i \in 1..Len(from) : from[i] = p[i])
  <2> SUFFICES ASSUME Len(from) <= Len(p)
               PROVE  s = u <=> \A i \in 1..Len(from) : from[i] = p[i]
    OBVIOUS
  <2>1. ASSUME s = u PROVE \A i \in 1..Len(from) : from[i] = p[i]
    BY <2>1, <1>2, <1>3
  <2>2. ASSUME \A i \in 1..Len(from) : from[i] = p[i] PROVE s = u
    <3>1. Len(s) = Len(u) /\ \A i \in 1..Len(s) : s[i] = u[i]
      BY <2>2, <1>2, <1>3
    <3>2. QED
      BY <3>1, <1>2, <1>3, SeqEqual
  <2>3. QED
    BY <2>1, <2>2
<1>5. QED
  BY <1>4 DEF Under, IsPrefix, s, u

LEMMA SamePath ==
  ASSUME NEW p \in Paths, NEW q \in Paths, Len(p) = Len(q), \A i \in 1..Len(p) : p[i] = q[i]
  PROVE  p = q
BY ThePaths, SeqEqual

(* Prefixes of a path.                                                      *)
LEMMA ThePrefix ==
  ASSUME NEW p \in Paths, NEW i \in 1..Len(p)
  PROVE  /\ SubSeq(p, 1, i) \in Paths /\ Len(SubSeq(p, 1, i)) = i
         /\ \A j \in 1..i : SubSeq(p, 1, i)[j] = p[j]
         /\ Under(p, SubSeq(p, 1, i))
<1> DEFINE q == SubSeq(p, 1, i)
<1>1. /\ p \in Seq(Roots \cup Names) /\ Len(p) \in 1..MaxLength /\ Len(p) \in Nat
      /\ p[1] \in Roots /\ \A j \in 2..Len(p) : p[j] \in Names
  BY ThePaths, AFront
<1>2. MaxLength \in Nat \ {0}
  BY ExplorerBounds
<1>3. q \in Seq(Roots \cup Names) /\ Len(q) = i /\ \A j \in 1..i : q[j] = p[j]
  BY <1>1
<1> HIDE DEF q
<1>4. q \in Paths
  <2>1. Len(q) \in 1..MaxLength /\ q[1] \in Roots /\ \A j \in 2..Len(q) : q[j] \in Names
    BY <1>1, <1>2, <1>3
  <2>2. QED
    BY <2>1, <1>3, ThePaths
<1>5. Under(p, q)
  <2>1. Len(q) <= Len(p) /\ \A j \in 1..Len(q) : q[j] = p[j]
    BY <1>1, <1>3
  <2>2. QED
    BY <2>1, <1>4, APrefix
<1>6. QED
  BY <1>3, <1>4, <1>5 DEF q

LEMMA UnderBoth ==
  ASSUME NEW p \in Paths, NEW q \in Paths, NEW r \in Paths, Under(p, q), Under(q, r)
  PROVE  Under(p, r)
<1>1. Len(q) <= Len(p) /\ \A j \in 1..Len(q) : q[j] = p[j]
  BY APrefix
<1>2. Len(r) <= Len(q) /\ \A j \in 1..Len(r) : r[j] = q[j]
  BY APrefix
<1>3. Len(p) \in Nat /\ Len(q) \in Nat /\ Len(r) \in Nat
  BY AFront
<1>4. Len(r) <= Len(p) /\ \A j \in 1..Len(r) : r[j] = p[j]
  BY <1>1, <1>2, <1>3
<1>5. QED
  BY <1>4, APrefix

(* What a path is below is one of its prefixes, the longer below the shorter. *)
LEMMA APrefixIs ==
  ASSUME NEW p \in Paths, NEW q \in Paths, Under(p, q)
  PROVE  /\ Len(q) \in 1..Len(p) /\ SubSeq(p, 1, Len(q)) = q
         /\ \A i \in Len(q)..Len(p) : Under(SubSeq(p, 1, i), q)
<1>1. Len(q) <= Len(p) /\ \A j \in 1..Len(q) : q[j] = p[j]
  BY APrefix
<1>2. Len(p) \in Nat /\ Len(q) \in Nat \ {0}
  BY AFront
<1>3. Len(q) \in 1..Len(p)
  BY <1>1, <1>2
<1>4. SubSeq(p, 1, Len(q)) = q
  <2> DEFINE r == SubSeq(p, 1, Len(q))
  <2>1. r \in Paths /\ Len(r) = Len(q) /\ \A j \in 1..Len(q) : r[j] = p[j]
    BY <1>3, ThePrefix
  <2> HIDE DEF r
  <2>2. r = q
    BY <2>1, <1>1, SamePath
  <2>3. QED
    BY <2>2 DEF r
<1>5. ASSUME NEW i \in Len(q)..Len(p)
      PROVE  Under(SubSeq(p, 1, i), q)
  <2> DEFINE r == SubSeq(p, 1, i)
  <2>1. i \in 1..Len(p)
    BY <1>2
  <2>2. r \in Paths /\ Len(r) = i /\ \A j \in 1..i : r[j] = p[j]
    BY <2>1, ThePrefix
  <2> HIDE DEF r
  <2>3. Len(q) <= Len(r) /\ \A j \in 1..Len(q) : q[j] = r[j]
    BY <2>2, <1>1, <1>2
  <2>4. QED
    BY <2>2, <2>3, APrefix DEF r
<1>6. QED
  BY <1>3, <1>4, <1>5

LEMMA TwicePrefix ==
  ASSUME NEW p \in Paths, NEW n \in 1..Len(p)
  PROVE  \A j \in 1..n : SubSeq(SubSeq(p, 1, n), 1, j) = SubSeq(p, 1, j)
<1> TAKE j \in 1..n
<1> DEFINE r == SubSeq(p, 1, n)
           s == SubSeq(r, 1, j)
           t == SubSeq(p, 1, j)
<1>1. r \in Paths /\ Len(r) = n /\ \A i \in 1..n : r[i] = p[i]
  BY ThePrefix
<1>2. j \in 1..Len(p) /\ Len(p) \in Nat
  BY AFront
<1>3. t \in Paths /\ Len(t) = j /\ \A i \in 1..j : t[i] = p[i]
  BY <1>2, ThePrefix
<1> HIDE DEF r
<1>4. s \in Paths /\ Len(s) = j /\ \A i \in 1..j : s[i] = r[i]
  BY <1>1, ThePrefix
<1> HIDE DEF s, t
<1>5. s = t
  BY <1>1, <1>3, <1>4, SamePath
<1>6. QED
  BY <1>5 DEF r, s, t

Renamed(p, from, to) == IF Under(p, from) THEN Moved(p, from, to) ELSE p

LEMMA ARenaming ==
  ASSUME NEW p \in Paths, NEW from \in Paths, NEW to \in Paths,
         ~IsRoot(from), Front(from) = Front(to), IsFolder(from) <=> IsFolder(to)
  PROVE  /\ Renamed(p, from, to) \in Paths
         /\ IsFolder(p) => IsFolder(Renamed(p, from, to))
         /\ ~IsRoot(p) => Front(Renamed(p, from, to)) = Renamed(Front(p), from, to)
<1> DEFINE m == Moved(p, from, to)
<1>1. /\ Len(p) \in Nat \ {0} /\ Len(from) \in Nat \ {0} /\ Len(from) > 1 /\ Len(to) = Len(from)
  BY AFront, SameFront DEF IsRoot
<1>2. CASE ~Under(p, from)
  <2>1. ~IsRoot(p) => Front(p) \in Paths /\ ~Under(Front(p), from)
    <3> SUFFICES ASSUME ~IsRoot(p), Under(Front(p), from) PROVE FALSE
      BY AFront
    <3>1. Front(p) \in Paths /\ Len(Front(p)) = Len(p) - 1 /\ \A i \in 1..(Len(p) - 1) : Front(p)[i] = p[i]
      BY AFront
    <3>2. Len(from) <= Len(p) - 1 /\ \A i \in 1..Len(from) : from[i] = Front(p)[i]
      BY <3>1, APrefix
    <3>3. Len(from) <= Len(p) /\ \A i \in 1..Len(from) : from[i] = p[i]
      BY <3>1, <3>2, <1>1
    <3>4. QED
      BY <3>3, <1>2, APrefix
  <2>2. QED
    BY <1>2, <2>1 DEF Renamed
<1>3. CASE Under(p, from)
  <2>1. /\ m \in Paths /\ Len(m) = Len(p) /\ Len(from) <= Len(p)
        /\ \A i \in 1..Len(p) : m[i] = IF i <= Len(from) THEN to[i] ELSE p[i]
    BY <1>3, AMove
  <2>2. \A i \in 1..Len(from) : from[i] = p[i]
    BY <1>3, APrefix
  <2> HIDE DEF m
  <2>3. Len(p) = Len(from) => p = from /\ m = to
    <3> SUFFICES ASSUME Len(p) = Len(from) PROVE p = from /\ m = to
      OBVIOUS
    <3>1. p = from
      BY <2>2, SamePath
    <3>2. \A i \in 1..Len(p) : m[i] = to[i]
      BY <2>1
    <3>3. QED
      BY <3>1, <3>2, <2>1, <1>1, SamePath
  <2>4. IsFolder(p) => IsFolder(m)
    <3>1. CASE Len(p) = Len(from)
      BY <3>1, <2>3
    <3>2. CASE Len(p) # Len(from)
      <4>1. Last(m) = Last(p)
        BY <3>2, <2>1, <1>1 DEF Last
      <4>2. ~IsRoot(p)
        BY <2>1, <1>1 DEF IsRoot
      <4>3. QED
        BY <4>1, <4>2 DEF IsFolder
    <3>3. QED
      BY <3>1, <3>2
  <2>5. Front(m) = Renamed(Front(p), from, to)
    <3> DEFINE f == Front(p)
    <3>1. ~IsRoot(p) /\ f \in Paths /\ Len(f) = Len(p) - 1 /\ \A i \in 1..(Len(p) - 1) : f[i] = p[i]
      BY AFront, <2>1, <1>1 DEF IsRoot
    <3>2. ~IsRoot(m) /\ Front(m) \in Paths /\ Len(Front(m)) = Len(p) - 1
          /\ \A i \in 1..(Len(p) - 1) : Front(m)[i] = m[i]
      BY AFront, <2>1, <1>1 DEF IsRoot
    <3> HIDE DEF f
    <3>3. CASE Len(p) = Len(from)
      <4>1. ~Under(f, from)
        BY <3>1, <3>3, <1>1, APrefix
      <4>2. Front(m) = Front(p)
        BY <2>3, <3>3
      <4>3. QED
        BY <4>1, <4>2 DEF Renamed, f
    <3>4. CASE Len(p) # Len(from)
      <4>1. Len(from) <= Len(f) /\ \A i \in 1..Len(from) : from[i] = f[i]
        BY <3>1, <3>4, <2>1, <2>2, <1>1
      <4>2. Under(f, from)
        BY <3>1, <4>1, APrefix
      <4> DEFINE g == Moved(f, from, to)
      <4>3. /\ g \in Paths /\ Len(g) = Len(f)
            /\ \A i \in 1..Len(f) : g[i] = IF i <= Len(from) THEN to[i] ELSE f[i]
        BY <3>1, <4>2, AMove
      <4> HIDE DEF g
      <4>4. Len(Front(m)) = Len(g) /\ \A i \in 1..Len(g) : Front(m)[i] = g[i]
        BY <4>3, <3>1, <3>2, <2>1, <1>1
      <4>5. Front(m) = g
        BY <4>4, <4>3, <3>2, SamePath
      <4>6. QED
        BY <4>5, <4>2 DEF Renamed, f, g
    <3>5. QED
      BY <3>3, <3>4
  <2>6. QED
    BY <1>3, <2>1, <2>4, <2>5 DEF Renamed, m
<1>4. QED
  BY <1>2, <1>3

LEMMA Least ==
  ASSUME NEW T, T \subseteq Nat, T # {}
  PROVE  \E x \in T : \A y \in T : x <= y
<1> DEFINE R == OpToRel(<, Nat)
<1>1. IsWellFoundedOn(R, Nat)
  BY NatLessThanWellFounded
<1>2. \A x, y \in Nat : y < x => <<y, x>> \in R
  BY DEF OpToRel
<1> HIDE DEF R
<1>3. \E x \in T : \A y \in T : ~ (<<y, x>> \in R)
  BY <1>1, WFMin
<1>4. PICK x \in T : \A y \in T : ~ (<<y, x>> \in R)
  BY <1>3
<1>5. \A y \in T : ~(y < x)
  BY <1>2, <1>4
<1>6. \A y \in T : x <= y
  BY <1>5
<1>7. QED
  BY <1>6

-----------------------------------------------------------------------------
(* The calls that are awaited.                                              *)

LEMMA BagGains ==
  ASSUME NEW B, IsABag(B), NEW d
  PROVE  IsABag(B (+) SetToBag({d})) /\ DOMAIN (B (+) SetToBag({d})) = DOMAIN B \cup {d}
<1> DEFINE n(e) == (IF e \in DOMAIN B THEN B[e] ELSE 0) + (IF e \in {d} THEN 1 ELSE 0)
           C == B (+) SetToBag({d})
<1>1. C = [e \in DOMAIN B \cup {d} |-> n(e)]
  BY DEF (+), SetToBag
<1>2. \A e \in DOMAIN B : B[e] \in Nat /\ B[e] > 0
  BY DEF IsABag
<1>3. \A e \in DOMAIN B \cup {d} : n(e) \in {m \in Nat : m > 0}
  BY <1>2
<1> HIDE DEF n, C
<1>4. QED
  BY <1>1, <1>3 DEF IsABag, C

LEMMA BagLoses ==
  ASSUME NEW B, IsABag(B), NEW c
  PROVE  /\ IsABag(B (-) SetToBag({c}))
         /\ DOMAIN (B (-) SetToBag({c})) \subseteq DOMAIN B
         /\ DOMAIN B \ {c} \subseteq DOMAIN (B (-) SetToBag({c}))
<1> DEFINE n(e) == IF e \in {c} THEN B[e] - 1 ELSE B[e]
           A == [e \in DOMAIN B |-> n(e)]
           C == B (-) SetToBag({c})
<1>1. C = [e \in {x \in DOMAIN A : A[x] > 0} |-> A[e]]
  BY DEF (-), SetToBag
<1>2. \A e \in DOMAIN B : B[e] \in Nat /\ B[e] > 0
  BY DEF IsABag
<1>3. \A e \in DOMAIN B : n(e) \in Nat /\ (e # c => n(e) > 0)
  BY <1>2
<1> HIDE DEF n
<1>4. DOMAIN A = DOMAIN B /\ \A e \in DOMAIN B : A[e] = n(e)
  OBVIOUS
<1> HIDE DEF A, C
<1>5. DOMAIN C = {x \in DOMAIN B : n(x) > 0} /\ \A e \in DOMAIN C : C[e] = n(e)
  BY <1>1, <1>4
<1>6. C = [e \in DOMAIN C |-> C[e]]
  BY <1>1
<1>7. QED
  BY <1>3, <1>5, <1>6 DEF IsABag, C

(* What a step in the store leaves alone.                                   *)
Outside(a, b) ==
  /\ b.view = a.view /\ b.project = a.project /\ b.watchCalls = a.watchCalls
  /\ b.native.scopes = a.native.scopes /\ b.native.subscribed = a.native.subscribed
  /\ b.tree.root = a.tree.root

LEMMA OutsideBoth ==
  ASSUME NEW a, NEW b, NEW c, Outside(a, b), Outside(b, c)
  PROVE  Outside(a, c)
BY DEF Outside

(* A step that changes the tree and the calls only.                         *)
Inside(a, b) ==
  /\ DOMAIN b = Fields /\ b.view = a.view /\ b.project = a.project /\ b.native = a.native
  /\ b.watchCalls = a.watchCalls /\ b.gaps = a.gaps

LEMMA InsideTyped ==
  ASSUME NEW a, Typed(a), NEW b, Inside(a, b), TreeTyped(b.tree), CallsTyped(b.calls)
  PROVE  Typed(b) /\ (b.tree.root = a.tree.root => Outside(a, b))
BY DEF Typed, Inside, Outside

LEMMA NewTree ==
  ASSUME NEW a, Typed(a), NEW t
  PROVE  LET b == [a EXCEPT !.tree = t] IN Inside(a, b) /\ b.tree = t /\ b.calls = a.calls
BY DEF Typed, Fields, Inside

LEMMA SendTyped ==
  ASSUME NEW a, Typed(a), NEW c, CallTyped(c)
  PROVE  /\ Inside(a, Send(a, c)) /\ Send(a, c).tree = a.tree
         /\ CallsTyped(Send(a, c).calls) /\ Typed(Send(a, c)) /\ Outside(a, Send(a, c))
         /\ DOMAIN Send(a, c).calls = DOMAIN a.calls \cup {c}
<1> DEFINE b == Send(a, c)
<1>1. Inside(a, b) /\ b.tree = a.tree /\ b.calls = a.calls (+) SetToBag({c})
  BY DEF Send, Typed, Fields, Inside
<1>2. IsABag(b.calls) /\ DOMAIN b.calls = DOMAIN a.calls \cup {c}
  <2>1. IsABag(a.calls)
    BY DEF Typed, CallsTyped
  <2> HIDE DEF b
  <2>2. QED
    BY <1>1, <2>1, BagGains
<1>3. CallsTyped(b.calls)
  BY <1>2 DEF Typed, CallsTyped
<1>4. TreeTyped(b.tree)
  BY <1>1 DEF Typed
<1> HIDE DEF b
<1>5. Typed(b) /\ Outside(a, b)
  BY <1>1, <1>3, <1>4, InsideTyped
<1>6. QED
  BY <1>1, <1>2, <1>3, <1>5 DEF b

LEMMA RunningTyped ==
  ASSUME Typed(Now), NEW c
  PROVE  /\ Inside(Now, Running(c)) /\ Running(c).tree = tree
         /\ Typed(Running(c)) /\ Outside(Now, Running(c))
         /\ DOMAIN Running(c).calls \subseteq DOMAIN calls
         /\ DOMAIN calls \ {c} \subseteq DOMAIN Running(c).calls
<1> DEFINE b == Running(c)
<1>1. Inside(Now, b) /\ b.tree = tree /\ b.calls = calls (-) SetToBag({c})
  BY DEF Running, Typed, Fields, Inside, Now
<1>2. /\ IsABag(b.calls) /\ DOMAIN b.calls \subseteq DOMAIN calls
      /\ DOMAIN calls \ {c} \subseteq DOMAIN b.calls
  BY <1>1, BagLoses DEF Typed, CallsTyped, Now
<1>3. CallsTyped(b.calls)
  BY <1>2 DEF Typed, CallsTyped, Now
<1>4. TreeTyped(b.tree) /\ Now.tree = tree
  BY <1>1 DEF Typed, Now
<1> HIDE DEF b
<1>5. Typed(b) /\ Outside(Now, b)
  BY <1>1, <1>3, <1>4, InsideTyped
<1>6. QED
  BY <1>1, <1>2, <1>5 DEF b

LEMMA TheList ==
  ASSUME NEW a, Typed(a), NEW root, NEW dir
  PROVE  List(a, root, dir) \in Listing /\ List(a, root, dir).found \subseteq Entries(dir)
BY DEF List, Listing, Entries, Typed, NativeTyped

-----------------------------------------------------------------------------
(* The store's loading of folders and its search.                           *)

LEMMA LoadDir ==
  ASSUME NEW a, Good(a), NEW dir \in Folders, NEW k \in Continuation, k.rest \subseteq Folders
  PROVE  /\ Good(loadDir(a, dir, k)) /\ Outside(a, loadDir(a, dir, k))
         /\ Inside(a, loadDir(a, dir, k))
         /\ loadDir(a, dir, k).tree.query = a.tree.query
<1> DEFINE l == a.tree.loading \cup {dir}
           t == [a.tree EXCEPT !.loading = l]
           x == [a EXCEPT !.tree = t]
           c == [op |-> "list", dir |-> dir, list |-> List(a, a.tree.root, dir), k |-> k]
<1>1. Typed(a) /\ TreeTyped(a.tree)
  BY DEF Good, Typed
<1>2. loadDir(a, dir, k) = Send(x, c)
  BY DEF loadDir
<1>3. /\ DOMAIN t = TreeFields /\ t.loading = l
      /\ \A f \in TreeFields \ {"loading"} : t[f] = a.tree[f]
  BY <1>1 DEF TreeTyped, TreeFields
<1> HIDE DEF t
<1>4. /\ t.root = a.tree.root /\ t.children = a.tree.children /\ t.expanded = a.tree.expanded
      /\ t.renaming = a.tree.renaming /\ t.query = a.tree.query /\ t.indexing = a.tree.indexing
      /\ t.token = a.tree.token
  BY <1>3 DEF TreeFields
<1>5. TreeTyped(t)
  BY <1>1, <1>3, <1>4 DEF TreeTyped
<1>6. Inside(a, x) /\ x.tree = t /\ x.calls = a.calls
  BY <1>1, NewTree
<1> HIDE DEF x
<1>7. Typed(x) /\ Outside(a, x)
  <2>1. CallsTyped(x.calls)
    BY <1>1, <1>6 DEF Typed
  <2>2. QED
    BY <1>1, <1>4, <1>5, <1>6, <2>1, InsideTyped
<1>8. List(a, a.tree.root, dir) \in Listing /\ List(a, a.tree.root, dir).found \subseteq Entries(dir)
  BY <1>1, TheList
<1>9. c.op = "list" /\ c.dir = dir /\ c.k = k /\ c.list = List(a, a.tree.root, dir)
  OBVIOUS
<1> HIDE DEF c
<1>10. CallTyped(c)
  BY <1>8, <1>9 DEF CallTyped
<1> DEFINE b == Send(x, c)
<1>11. /\ Inside(x, b) /\ b.tree = t /\ Typed(b) /\ Outside(x, b)
       /\ DOMAIN b.calls = DOMAIN a.calls \cup {c}
  BY <1>6, <1>7, <1>10, SendTyped
<1> HIDE DEF b
<1>12. Tokens(b.tree.root, b.tree.query, b.tree.indexing, b.tree.token, DOMAIN b.calls)
  BY <1>4, <1>9, <1>11 DEF Good, Searching, Tokens
<1>13. Loading(b.tree.loading, DOMAIN b.calls)
  <2>1. Loading(a.tree.loading, DOMAIN a.calls)
    BY DEF Good, Searching
  <2>2. QED
    BY <2>1, <1>3, <1>9, <1>11 DEF Loading
<1>14. Indexing(b.tree.query, b.tree.indexing, b.tree.token, DOMAIN b.calls)
  BY <1>4, <1>9, <1>11 DEF Good, Indexing
<1>15. Outside(a, b) /\ Inside(a, b)
  BY <1>6, <1>7, <1>11, OutsideBoth DEF Inside
<1>16. QED
  BY <1>2, <1>4, <1>11, <1>12, <1>13, <1>14, <1>15 DEF b, Good, Searching

(* A walk comes to folders only.                                            *)
LEMMA ReachedFolders ==
  ASSUME NEW children, NEW todo, todo \subseteq Folders
  PROVE  Reached(children, todo) \subseteq Folders
<1> SUFFICES ASSUME NEW p \in Paths, NEW q \in todo, Under(p, q),
                    \A i \in Len(q)..(Len(p) - 1) :
                       LET dir == SubSeq(p, 1, i)
                       IN  dir \in DOMAIN children /\ SubSeq(p, 1, i + 1) \in Searched(children[dir])
             PROVE  p \in Folders
  BY DEF Reached
<1>1. q \in Paths /\ IsFolder(q) /\ Len(q) \in Nat \ {0} /\ Len(p) \in Nat \ {0}
  BY AFront DEF Folders
<1>2. Len(q) <= Len(p) /\ \A i \in 1..Len(q) : q[i] = p[i]
  BY <1>1, APrefix
<1>3. CASE Len(q) = Len(p)
  <2>1. q = p
    BY <1>1, <1>2, <1>3, SamePath
  <2>2. QED
    BY <2>1, <1>1 DEF Folders
<1>4. CASE Len(q) # Len(p)
  <2> DEFINE i == Len(p) - 1
             d == SubSeq(p, 1, i)
  <2>1. i \in Len(q)..(Len(p) - 1) /\ i + 1 = Len(p)
    BY <1>1, <1>2, <1>4
  <2>2. SubSeq(p, 1, i + 1) \in Searched(children[d])
    BY <2>1
  <2>3. SubSeq(p, 1, Len(p)) = p
    <3> DEFINE s == SubSeq(p, 1, Len(p))
    <3>1. p \in Seq(Roots \cup Names)
      BY ThePaths
    <3>2. s \in Seq(Roots \cup Names) /\ Len(s) = Len(p) /\ \A j \in 1..Len(p) : s[j] = p[j]
      BY <3>1, <1>1
    <3> HIDE DEF s
    <3>3. s = p
      BY <3>1, <3>2, SeqEqual
    <3>4. QED
      BY <3>3 DEF s
  <2>4. p \in Searched(children[d])
    BY <2>1, <2>2, <2>3
  <2> HIDE DEF d
  <2>5. QED
    BY <2>4 DEF Searched, Folders
<1>5. QED
  BY <1>3, <1>4

(* The folder that a walk comes to is one of the shallowest it has to list.   *)
LEMMA TheNext ==
  ASSUME NEW unread, unread \subseteq Folders, unread # {}
  PROVE  LET next == CHOOSE p \in unread : \A q \in unread : Len(p) <= Len(q)
         IN  next \in unread /\ \A q \in unread : Len(next) <= Len(q)
<1> DEFINE T == {Len(p) : p \in unread}
<1>1. \A p \in unread : Len(p) \in Nat
  BY AFront DEF Folders
<1>2. T \subseteq Nat /\ T # {}
  BY <1>1
<1> HIDE DEF T
<1>3. PICK n \in T : \A m \in T : n <= m
  BY <1>2, Least
<1>4. PICK p \in unread : n = Len(p)
  BY <1>3 DEF T
<1>5. \A q \in unread : Len(q) \in T
  BY DEF T
<1>6. \A q \in unread : Len(p) <= Len(q)
  BY <1>3, <1>4, <1>5
<1>7. \E p1 \in unread : \A q \in unread : Len(p1) <= Len(q)
  BY <1>4, <1>6
<1>8. QED
  BY <1>7

LEMMA TheWalk ==
  ASSUME NEW a, NEW todo, todo \subseteq Folders
  PROVE  /\ Walked(a, todo).todo \subseteq Folders
         /\ Walked(a, todo).next # NoPath => Walked(a, todo).next \in Folders
<1> DEFINE reached == Reached(a.tree.children, todo)
           unread  == reached \ DOMAIN a.tree.children
           next    == CHOOSE p \in unread : \A q \in unread : Len(p) <= Len(q)
           Left(p) == Len(p) = Len(next) \/ (p \in todo /\ Len(p) > Len(next))
           left    == {p \in reached : Left(p)} \ {next}
<1>1. Walked(a, todo) = IF unread = {} THEN [next |-> NoPath, todo |-> {}]
                        ELSE [next |-> next, todo |-> left]
  BY DEF Walked
<1>2. reached \subseteq Folders
  BY ReachedFolders
<1>3. left \subseteq reached
  OBVIOUS
<1>4. unread # {} => next \in unread
  BY <1>2, TheNext
<1>5. unread \subseteq reached
  OBVIOUS
<1> HIDE DEF reached, unread, next, left
<1>6. QED
  BY <1>1, <1>2, <1>3, <1>4, <1>5

LEMMA EndWalkTyped ==
  ASSUME NEW a, Typed(a), NEW token
  PROVE  /\ Inside(a, EndWalk(a, token)) /\ Outside(a, EndWalk(a, token)) /\ Typed(EndWalk(a, token))
         /\ EndWalk(a, token).calls = a.calls
         /\ \A f \in TreeFields \ {"indexing"} : EndWalk(a, token).tree[f] = a.tree[f]
         /\ EndWalk(a, token).tree.indexing = (IF token = a.tree.token THEN FALSE ELSE a.tree.indexing)
<1> DEFINE t == [a.tree EXCEPT !.indexing = FALSE]
           x == [a EXCEPT !.tree = t]
<1>1. TreeTyped(a.tree) /\ DOMAIN a.tree = TreeFields /\ CallsTyped(a.calls) /\ DOMAIN a = Fields
  BY DEF Typed, TreeTyped
<1>2. CASE token # a.tree.token
  <2>1. EndWalk(a, token) = a
    BY <1>2 DEF EndWalk
  <2>2. QED
    BY <1>1, <1>2, <2>1 DEF Inside, Outside
<1>3. CASE token = a.tree.token
  <2>1. EndWalk(a, token) = x
    BY <1>3 DEF EndWalk
  <2>2. DOMAIN t = TreeFields /\ t.indexing = FALSE /\ \A f \in TreeFields \ {"indexing"} : t[f] = a.tree[f]
    BY <1>1 DEF TreeFields
  <2> HIDE DEF t
  <2>3. /\ t.root = a.tree.root /\ t.children = a.tree.children /\ t.expanded = a.tree.expanded
        /\ t.renaming = a.tree.renaming /\ t.query = a.tree.query /\ t.loading = a.tree.loading
        /\ t.token = a.tree.token
    BY <2>2 DEF TreeFields
  <2>4. TreeTyped(t)
    BY <1>1, <2>2, <2>3 DEF TreeTyped
  <2>5. Inside(a, x) /\ x.tree = t /\ x.calls = a.calls
    BY NewTree
  <2> HIDE DEF x
  <2>6. Typed(x) /\ Outside(a, x)
    BY <1>1, <2>3, <2>4, <2>5, InsideTyped
  <2>7. QED
    BY <1>3, <2>1, <2>2, <2>5, <2>6
<1>4. QED
  BY <1>2, <1>3

LEMMA EndWalkGood ==
  ASSUME NEW a, Typed(a), Searching(a), NEW token,
         token # a.tree.token => Indexing(a.tree.query, a.tree.indexing, a.tree.token, DOMAIN a.calls)
  PROVE  /\ Good(EndWalk(a, token)) /\ Outside(a, EndWalk(a, token)) /\ Inside(a, EndWalk(a, token))
         /\ EndWalk(a, token).tree.query = a.tree.query
<1> DEFINE b == EndWalk(a, token)
<1>1. /\ Inside(a, b) /\ Outside(a, b) /\ Typed(b) /\ b.calls = a.calls
      /\ \A f \in TreeFields \ {"indexing"} : b.tree[f] = a.tree[f]
      /\ b.tree.indexing = (IF token = a.tree.token THEN FALSE ELSE a.tree.indexing)
  BY EndWalkTyped
<1> HIDE DEF b
<1>2. b.tree.root = a.tree.root /\ b.tree.query = a.tree.query /\ b.tree.token = a.tree.token
      /\ b.tree.loading = a.tree.loading
  BY <1>1 DEF TreeFields
<1>3. Searching(b)
  BY <1>1, <1>2 DEF Searching, Tokens
<1>4. Indexing(b.tree.query, b.tree.indexing, b.tree.token, DOMAIN b.calls)
  BY <1>1, <1>2 DEF Indexing
<1>5. QED
  BY <1>1, <1>2, <1>3, <1>4 DEF Good, b

LEMMA WalkOnGood ==
  ASSUME NEW a, Typed(a), Searching(a), NEW root, NEW token \in Nat, token <= a.tree.token,
         NEW todo, todo \subseteq Folders,
         a.tree.query /\ token = a.tree.token => root = a.tree.root,
         token # a.tree.token => Indexing(a.tree.query, a.tree.indexing, a.tree.token, DOMAIN a.calls)
  PROVE  /\ Good(WalkOn(a, root, token, todo)) /\ Outside(a, WalkOn(a, root, token, todo))
         /\ Inside(a, WalkOn(a, root, token, todo))
         /\ WalkOn(a, root, token, todo).tree.query = a.tree.query
<1> DEFINE w == Walked(a, todo)
           c == [op |-> "search", dir |-> w.next, list |-> List(a, root, w.next),
                 root |-> root, token |-> token, todo |-> w.todo]
           ends == token # a.tree.token \/ ~a.tree.query \/ w.next = NoPath
<1>1. WalkOn(a, root, token, todo) = IF ends THEN EndWalk(a, token) ELSE Send(a, c)
  BY DEF WalkOn
<1>2. w.todo \subseteq Folders /\ (w.next # NoPath => w.next \in Folders)
  BY TheWalk
<1>3. List(a, root, w.next) \in Listing /\ List(a, root, w.next).found \subseteq Entries(w.next)
  BY TheList
<1>4. c.op = "search" /\ c.dir = w.next /\ c.list = List(a, root, w.next)
      /\ c.root = root /\ c.token = token /\ c.todo = w.todo
  OBVIOUS
<1> HIDE DEF w, c
<1>5. CASE ends
  BY <1>1, <1>5, EndWalkGood
<1>6. CASE ~ends
  <2> DEFINE b == Send(a, c)
  <2>1. token = a.tree.token /\ a.tree.query /\ w.next # NoPath /\ root = a.tree.root
    BY <1>6
  <2>2. CallTyped(c)
    BY <1>2, <1>3, <1>4, <2>1 DEF CallTyped
  <2>3. /\ Inside(a, b) /\ b.tree = a.tree /\ Typed(b) /\ Outside(a, b)
        /\ DOMAIN b.calls = DOMAIN a.calls \cup {c}
    BY <2>2, SendTyped
  <2>4. WalkOn(a, root, token, todo) = b
    BY <1>1, <1>6
  <2> HIDE DEF b
  <2>5. Tokens(b.tree.root, b.tree.query, b.tree.indexing, b.tree.token, DOMAIN b.calls)
    BY <1>4, <2>1, <2>3 DEF Searching, Tokens
  <2>6. Loading(b.tree.loading, DOMAIN b.calls)
    BY <1>4, <2>3 DEF Searching, Loading
  <2>7. Indexing(b.tree.query, b.tree.indexing, b.tree.token, DOMAIN b.calls)
    BY <1>4, <2>1, <2>3 DEF Indexing
  <2>8. QED
    BY <2>3, <2>4, <2>5, <2>6, <2>7 DEF Good, Searching
<1>7. QED
  BY <1>5, <1>6

(* A new search makes good a state in which the one before has lost its     *)
(* root, its token or its command.                                         *)
Searchable(a) ==
  /\ \A c \in DOMAIN a.calls : c.op = "search" => c.token <= a.tree.token
  /\ a.tree.root = NoRoot => ~a.tree.query /\ ~a.tree.indexing
  /\ Loading(a.tree.loading, DOMAIN a.calls)

LEMMA GoodSearchable ==
  ASSUME NEW a, Good(a)
  PROVE  Searchable(a)
BY DEF Good, Searching, Tokens, Searchable

LEMMA UnaskedGood ==
  ASSUME NEW a, Typed(a), Searchable(a), ~a.tree.query
  PROVE  Good(a)
BY DEF Good, Searching, Tokens, Searchable, Indexing

LEMMA RootFolder ==
  ASSUME NEW root \in Roots
  PROVE  <<root>> \in Folders
<1>1. <<root>> \in Seq(Roots \cup Names) /\ Len(<<root>>) = 1 /\ <<root>>[1] = root
  OBVIOUS
<1>2. MaxLength \in Nat \ {0}
  BY ExplorerBounds
<1> DEFINE p == <<root>>
<1>3. p \in Paths
  <2>1. /\ p \in Seq(Roots \cup Names) /\ Len(p) \in 1..MaxLength
        /\ p[1] \in Roots /\ \A i \in 2..Len(p) : p[i] \in Names
    BY <1>1, <1>2
  <2> HIDE DEF p
  <2>2. QED
    BY <2>1, ThePaths
<1> HIDE DEF p
<1>4. QED
  BY <1>1, <1>3 DEF p, Folders, IsFolder, IsRoot

LEMMA SearchGood ==
  ASSUME NEW a, Typed(a), Searchable(a)
  PROVE  /\ Good(loadDescendantsForSearch(a)) /\ Outside(a, loadDescendantsForSearch(a))
         /\ Inside(a, loadDescendantsForSearch(a))
         /\ loadDescendantsForSearch(a).tree.query = a.tree.query
<1> DEFINE token == a.tree.token + 1
           t == [a.tree EXCEPT !.token = token, !.indexing = TRUE]
           x == [a EXCEPT !.tree = t]
<1>1. /\ TreeTyped(a.tree) /\ DOMAIN a.tree = TreeFields /\ CallsTyped(a.calls) /\ DOMAIN a = Fields
      /\ a.tree.token \in Nat /\ a.tree.root \in Roots \cup {NoRoot}
  BY DEF Typed, TreeTyped
<1>2. CASE a.tree.root = NoRoot \/ ~a.tree.query
  <2>1. loadDescendantsForSearch(a) = a
    BY <1>2 DEF loadDescendantsForSearch
  <2>2. ~a.tree.query
    BY <1>2 DEF Searchable
  <2>3. QED
    BY <1>1, <2>1, <2>2, UnaskedGood DEF Inside, Outside
<1>3. CASE ~(a.tree.root = NoRoot \/ ~a.tree.query)
  <2>1. loadDescendantsForSearch(a) = WalkOn(x, a.tree.root, token, {<<a.tree.root>>})
    BY <1>1, <1>3 DEF loadDescendantsForSearch, TreeFields, Fields
  <2>2. DOMAIN t = TreeFields /\ t.indexing = TRUE /\ t.token = token
        /\ \A f \in TreeFields \ {"indexing", "token"} : t[f] = a.tree[f]
    BY <1>1 DEF TreeFields
  <2> HIDE DEF t
  <2>3. /\ t.root = a.tree.root /\ t.children = a.tree.children /\ t.expanded = a.tree.expanded
        /\ t.renaming = a.tree.renaming /\ t.query = a.tree.query /\ t.loading = a.tree.loading
    BY <2>2 DEF TreeFields
  <2>4. token \in Nat
    BY <1>1
  <2>5. TreeTyped(t) /\ token \in Nat
    BY <1>1, <2>2, <2>3, <2>4, Zenon DEF TreeTyped
  <2>6. Inside(a, x) /\ x.tree = t /\ x.calls = a.calls
    BY NewTree
  <2> HIDE DEF x
  <2>7. Typed(x) /\ Outside(a, x)
    BY <1>1, <2>3, <2>5, <2>6, InsideTyped
  <2>8. \A c \in DOMAIN a.calls : c.op = "search" => c.token \in Nat /\ c.token <= a.tree.token
    BY <1>1 DEF Searchable, CallsTyped, CallTyped
  <2>9. Searching(x)
    BY <1>1, <1>3, <2>2, <2>3, <2>6, <2>8 DEF Searching, Tokens, Searchable
  <2>10. {<<a.tree.root>>} \subseteq Folders
    <3>1. a.tree.root \in Roots
      BY <1>1, <1>3
    <3>2. QED
      BY <3>1, RootFolder
  <2> DEFINE b == WalkOn(x, a.tree.root, token, {<<a.tree.root>>})
  <2>11. token <= x.tree.token /\ token = x.tree.token /\ x.tree.root = a.tree.root /\ x.tree.query = a.tree.query
    BY <2>2, <2>3, <2>5, <2>6
  <2>12. Good(b) /\ Outside(x, b) /\ Inside(x, b) /\ b.tree.query = x.tree.query
    BY <2>5, <2>7, <2>9, <2>10, <2>11, WalkOnGood
  <2> HIDE DEF b
  <2>13. Outside(a, b) /\ Inside(a, b)
    BY <2>6, <2>7, <2>12, OutsideBoth DEF Inside
  <2>14. QED
    BY <2>1, <2>11, <2>12, <2>13 DEF b
<1>4. QED
  BY <1>2, <1>3

LEMMA SearchAgainGood ==
  ASSUME NEW a, Good(a)
  PROVE  Good(searchAgain(a)) /\ Outside(a, searchAgain(a)) /\ Inside(a, searchAgain(a))
<1> DEFINE token == a.tree.token + 1
           t == [a.tree EXCEPT !.token = token]
           x == [a EXCEPT !.tree = t]
           b == loadDescendantsForSearch(x)
<1>1. /\ TreeTyped(a.tree) /\ DOMAIN a.tree = TreeFields /\ CallsTyped(a.calls)
      /\ a.tree.token \in Nat /\ Typed(a)
  BY DEF Good, Typed, TreeTyped
<1>2. searchAgain(a) = b
  BY DEF searchAgain
<1>3. DOMAIN t = TreeFields /\ t.token = token
      /\ \A f \in TreeFields \ {"token"} : t[f] = a.tree[f]
  BY <1>1 DEF TreeFields
<1>4. token \in Nat /\ a.tree.token <= token
  BY <1>1
<1> HIDE DEF t, token
<1>5. /\ t.root = a.tree.root /\ t.children = a.tree.children /\ t.expanded = a.tree.expanded
      /\ t.renaming = a.tree.renaming /\ t.query = a.tree.query /\ t.loading = a.tree.loading
      /\ t.indexing = a.tree.indexing
  BY <1>3 DEF TreeFields
<1>6. TreeTyped(t)
  BY <1>1, <1>3, <1>4, <1>5 DEF TreeTyped
<1>7. Inside(a, x) /\ x.tree = t /\ x.calls = a.calls
  BY <1>1, NewTree
<1> HIDE DEF x
<1>8. Typed(x) /\ Outside(a, x)
  BY <1>1, <1>5, <1>6, <1>7, InsideTyped
<1>9. Searchable(x)
  <2>1. Searchable(a)
    BY GoodSearchable
  <2>2. \A c \in DOMAIN a.calls : c.op = "search" => c.token \in Nat
    BY <1>1 DEF CallsTyped, CallTyped
  <2>3. QED
    BY <1>1, <1>3, <1>4, <1>5, <1>7, <2>1, <2>2 DEF Searchable
<1>10. Good(b) /\ Outside(x, b) /\ Inside(x, b)
  BY <1>8, <1>9, SearchGood
<1> HIDE DEF b
<1>11. QED
  BY <1>2, <1>7, <1>8, <1>10, OutsideBoth DEF Inside

(* A change of what the tree shows.                                         *)
Shows(t, u) ==
  /\ u.root = t.root /\ u.query = t.query /\ u.indexing = t.indexing /\ u.token = t.token
  /\ u.loading \subseteq t.loading

LEMMA ShownGood ==
  ASSUME NEW a, Good(a), NEW t, TreeTyped(t), Shows(a.tree, t)
  PROVE  LET b == [a EXCEPT !.tree = t]
         IN  Good(b) /\ Outside(a, b) /\ Inside(a, b) /\ b.tree = t /\ b.calls = a.calls
<1> DEFINE b == [a EXCEPT !.tree = t]
<1>1. Typed(a) /\ CallsTyped(a.calls)
  BY DEF Good, Typed
<1>2. Inside(a, b) /\ b.tree = t /\ b.calls = a.calls
  BY <1>1, NewTree
<1> HIDE DEF b
<1>3. Typed(b) /\ Outside(a, b)
  BY <1>1, <1>2, InsideTyped DEF Shows
<1>4. Searching(b)
  BY <1>2 DEF Good, Searching, Tokens, Loading, Shows
<1>5. Indexing(b.tree.query, b.tree.indexing, b.tree.token, DOMAIN b.calls)
  BY <1>2 DEF Good, Indexing, Shows
<1>6. QED
  BY <1>2, <1>3, <1>4, <1>5 DEF Good, b

LEMMA RenamingGood ==
  ASSUME NEW a, Good(a), NEW p \in Paths \cup {NoPath}
  PROVE  LET b == [a EXCEPT !.tree.renaming = p]
         IN  Good(b) /\ Outside(a, b) /\ Inside(a, b) /\ b.calls = a.calls
             /\ \A f \in TreeFields \ {"renaming"} : b.tree[f] = a.tree[f]
<1> DEFINE t == [a.tree EXCEPT !.renaming = p]
           b == [a EXCEPT !.tree = t]
<1>1. TreeTyped(a.tree) /\ DOMAIN a.tree = TreeFields
  BY DEF Good, Typed, TreeTyped
<1>2. DOMAIN t = TreeFields /\ t.renaming = p /\ \A f \in TreeFields \ {"renaming"} : t[f] = a.tree[f]
  BY <1>1 DEF TreeFields
<1>3. [a EXCEPT !.tree.renaming = p] = b
  OBVIOUS
<1> HIDE DEF t
<1>4. /\ t.root = a.tree.root /\ t.children = a.tree.children /\ t.expanded = a.tree.expanded
      /\ t.query = a.tree.query /\ t.loading = a.tree.loading
      /\ t.indexing = a.tree.indexing /\ t.token = a.tree.token
  BY <1>2 DEF TreeFields
<1>5. TreeTyped(t) /\ Shows(a.tree, t)
  BY <1>1, <1>2, <1>4 DEF TreeTyped, Shows
<1>6. Good(b) /\ Outside(a, b) /\ Inside(a, b) /\ b.tree = t /\ b.calls = a.calls
  BY <1>5, ShownGood
<1> HIDE DEF b
<1>7. QED
  BY <1>2, <1>3, <1>6

LEMMA TheRest ==
  ASSUME NEW k \in Continuation, k.rest \subseteq Folders, NEW s
  PROVE  /\ [k EXCEPT !.rest = @ \ s] \in Continuation
         /\ [k EXCEPT !.rest = @ \ s].rest \subseteq Folders
BY DEF Continuation

LEMMA ContinueGood ==
  ASSUME NEW a, Good(a), NEW k \in Continuation, k.rest \subseteq Folders, NEW b \in Continue(a, k)
  PROVE  Good(b) /\ Outside(a, b) /\ b.native = a.native
<1>1. Outside(a, a)
  BY DEF Outside
<1>2. CASE k.then = "rename"
  <2>1. b = [a EXCEPT !.tree.renaming = k.target] /\ k.target \in Paths \cup {NoPath}
    BY <1>2 DEF Continue, Continuation
  <2>2. QED
    BY <2>1, RenamingGood DEF Inside
<1>3. CASE k.then = "none"
  <2>1. b = a
    BY <1>3 DEF Continue
  <2>2. QED
    BY <2>1, <1>1
<1>4. CASE k.then \notin {"rename", "none"} /\ (k.rest = {} \/ a.tree.root = NoRoot)
  <2>1. b = searchAgain(a) \/ b = a
    BY <1>4 DEF Continue
  <2>2. QED
    BY <2>1, <1>1, SearchAgainGood DEF Inside
<1>5. CASE k.then \notin {"rename", "none"} /\ ~(k.rest = {} \/ a.tree.root = NoRoot)
  <2>1. PICK p \in k.rest : b = loadDir(a, p, [k EXCEPT !.rest = @ \ {p}])
    BY <1>5 DEF Continue
  <2> DEFINE l == [k EXCEPT !.rest = @ \ {p}]
  <2>2. l \in Continuation /\ l.rest \subseteq Folders /\ p \in Folders
    BY TheRest
  <2> HIDE DEF l
  <2>3. Good(loadDir(a, p, l)) /\ Outside(a, loadDir(a, p, l)) /\ Inside(a, loadDir(a, p, l))
    BY <2>2, LoadDir
  <2>4. QED
    BY <2>1, <2>3 DEF l, Inside
<1>6. QED
  BY <1>2, <1>3, <1>4, <1>5

LEMMA ThenGood ==
  ASSUME NEW a, Good(a), NEW dir \in Folders, NEW k \in Continuation, k.rest \subseteq Folders,
         NEW b \in loadThen(a, dir, k)
  PROVE  Good(b) /\ Outside(a, b)
<1>1. CASE a.tree.root = NoRoot
  BY <1>1, ContinueGood DEF loadThen
<1>2. CASE a.tree.root # NoRoot
  BY <1>2, LoadDir DEF loadThen
<1>3. QED
  BY <1>1, <1>2

LEMMA NothingThen ==
  nothing \in Continuation /\ nothing.rest \subseteq Folders
BY DEF nothing, Continuation

LEMMA RefreshGood ==
  ASSUME NEW a, Good(a)
  PROVE  Good(refresh(a)) /\ Outside(a, refresh(a))
<1> DEFINE t == [a.tree EXCEPT !.children = <<>>]
           x == [a EXCEPT !.tree = t]
           k == [nothing EXCEPT !.then = "refresh", !.query = a.tree.query,
                                !.rest = a.tree.expanded \ {<<a.tree.root>>}]
<1>1. /\ TreeTyped(a.tree) /\ DOMAIN a.tree = TreeFields /\ a.tree.root \in Roots \cup {NoRoot}
      /\ a.tree.expanded \subseteq Folders /\ a.tree.query \in BOOLEAN /\ Typed(a)
  BY DEF Good, Typed, TreeTyped
<1>2. CASE a.tree.root = NoRoot
  BY <1>2 DEF refresh, Outside
<1>3. CASE a.tree.root # NoRoot
  <2>1. refresh(a) = loadDir(x, <<a.tree.root>>, k)
    BY <1>3 DEF refresh
  <2>2. DOMAIN t = TreeFields /\ t.children = <<>>
        /\ \A f \in TreeFields \ {"children"} : t[f] = a.tree[f]
    BY <1>1 DEF TreeFields
  <2> HIDE DEF t
  <2>3. /\ t.root = a.tree.root /\ t.expanded = a.tree.expanded
        /\ t.renaming = a.tree.renaming /\ t.query = a.tree.query /\ t.loading = a.tree.loading
        /\ t.indexing = a.tree.indexing /\ t.token = a.tree.token
    BY <2>2 DEF TreeFields
  <2>4. Cache(t.children)
    BY <2>2 DEF Cache
  <2>5. TreeTyped(t) /\ Shows(a.tree, t)
    BY <1>1, <2>2, <2>3, <2>4 DEF TreeTyped, Shows
  <2>6. Good(x) /\ Outside(a, x)
    BY <2>5, ShownGood
  <2> HIDE DEF x
  <2> DEFINE later == a.tree.expanded \ {<<a.tree.root>>}
  <2>7. later \in SUBSET Paths /\ later \subseteq Folders
    BY <1>1 DEF Folders
  <2> HIDE DEF later
  <2>8. [nothing EXCEPT !.then = "refresh", !.query = a.tree.query, !.rest = later] \in Continuation
        /\ [nothing EXCEPT !.then = "refresh", !.query = a.tree.query, !.rest = later].rest = later
    BY <1>1, <2>7, NothingThen DEF Continuation
  <2>9. k \in Continuation /\ k.rest \subseteq Folders
    BY <2>7, <2>8 DEF later
  <2>10. <<a.tree.root>> \in Folders
    BY <1>1, <1>3, RootFolder
  <2> DEFINE b == loadDir(x, <<a.tree.root>>, k)
  <2> HIDE DEF k
  <2>11. Good(b) /\ Outside(x, b)
    BY <2>6, <2>9, <2>10, LoadDir
  <2> HIDE DEF b
  <2>12. Outside(a, b)
    BY <2>6, <2>11, OutsideBoth
  <2>13. QED
    BY <2>1, <2>11, <2>12 DEF b
<1>4. QED
  BY <1>2, <1>3

LEMMA LoadRootGood ==
  ASSUME NEW a, Good(a)
  PROVE  /\ Good(loadRoot(a)) /\ Inside(a, loadRoot(a))
         /\ loadRoot(a).tree.root = a.project.workspace
<1>1. /\ Typed(a) /\ TreeTyped(a.tree) /\ a.tree.token \in Nat /\ a.tree.indexing \in BOOLEAN
      /\ CallsTyped(a.calls) /\ a.project.workspace \in Roots \cup {NoRoot} /\ DOMAIN a = Fields
  BY DEF Good, Typed, TreeTyped, Projects
<1>2. CASE a.project.workspace = NoRoot
  <2> DEFINE t == [emptyTree EXCEPT !.token = a.tree.token]
             x == [a EXCEPT !.tree = t]
  <2>1. loadRoot(a) = x
    BY <1>2 DEF loadRoot
  <2>2. /\ DOMAIN t = TreeFields /\ t.root = NoRoot /\ t.children = <<>> /\ t.expanded = {}
        /\ t.renaming = NoPath /\ t.loading = {} /\ t.query = FALSE /\ t.indexing = FALSE
        /\ t.token = a.tree.token
    BY DEF emptyTree, TreeFields
  <2> HIDE DEF t
  <2>3. Cache(t.children)
    BY <2>2 DEF Cache
  <2>4. TreeTyped(t)
    BY <1>1, <2>2, <2>3 DEF TreeTyped, TreeFields
  <2>5. Inside(a, x) /\ x.tree = t /\ x.calls = a.calls
    BY <1>1, NewTree
  <2> HIDE DEF x
  <2>6. Typed(x)
    BY <1>1, <2>4, <2>5, InsideTyped
  <2>7. Searchable(x) /\ ~x.tree.query
    <3>1. Searchable(a)
      BY GoodSearchable
    <3>2. QED
      BY <3>1, <2>2, <2>5 DEF Searchable, Loading
  <2>8. Good(x)
    BY <2>6, <2>7, UnaskedGood
  <2>9. QED
    BY <1>2, <2>1, <2>2, <2>5, <2>8
<1>3. CASE a.project.workspace # NoRoot /\ a.tree.root = a.project.workspace
           /\ <<a.tree.root>> \in DOMAIN a.tree.children
  BY <1>1, <1>3 DEF loadRoot, Inside
<1>4. CASE a.project.workspace # NoRoot
           /\ ~(a.tree.root = a.project.workspace /\ <<a.tree.root>> \in DOMAIN a.tree.children)
  <2> DEFINE kept == [emptyTree EXCEPT !.token = a.tree.token, !.indexing = a.tree.indexing]
             t == [kept EXCEPT !.root = a.project.workspace]
             x == [a EXCEPT !.tree = t]
             b == loadDir(x, <<a.project.workspace>>, nothing)
  <2>1. loadRoot(a) = b
    BY <1>4 DEF loadRoot, loadFreshRoot
  <2>2. /\ DOMAIN t = TreeFields /\ t.root = a.project.workspace /\ t.children = <<>> /\ t.expanded = {}
        /\ t.renaming = NoPath /\ t.loading = {} /\ t.query = FALSE /\ t.indexing = a.tree.indexing
        /\ t.token = a.tree.token
    BY DEF emptyTree, TreeFields
  <2> HIDE DEF t, kept
  <2>3. Cache(t.children)
    BY <2>2 DEF Cache
  <2>4. TreeTyped(t)
    BY <1>1, <2>2, <2>3 DEF TreeTyped, TreeFields
  <2>5. Inside(a, x) /\ x.tree = t /\ x.calls = a.calls
    BY <1>1, NewTree
  <2> HIDE DEF x
  <2>6. Typed(x)
    BY <1>1, <2>4, <2>5, InsideTyped
  <2>7. Searchable(x) /\ ~x.tree.query
    <3>1. Searchable(a)
      BY GoodSearchable
    <3>2. QED
      BY <3>1, <1>4, <2>2, <2>5 DEF Searchable, Loading
  <2>8. Good(x)
    BY <2>6, <2>7, UnaskedGood
  <2>9. <<a.project.workspace>> \in Folders
    BY <1>1, <1>4, RootFolder
  <2>10. Good(b) /\ Outside(x, b) /\ Inside(x, b)
    BY <2>8, <2>9, NothingThen, LoadDir
  <2> HIDE DEF b
  <2>11. QED
    BY <2>1, <2>2, <2>5, <2>10 DEF Inside, Outside
<1>5. QED
  BY <1>2, <1>3, <1>4

(* A state that promises what another does: the same cache, and no less on   *)
(* its way.                                                                 *)
Steady(a, b) ==
  /\ b.gaps = a.gaps /\ b.native.disk = a.native.disk
  /\ DOMAIN a.calls \subseteq DOMAIN b.calls
  /\ b.tree.root = a.tree.root /\ b.tree.children = a.tree.children
  /\ b.tree.query = a.tree.query /\ b.tree.token = a.tree.token

LEMMA SteadyPromised ==
  ASSUME NEW a, Promised(a), NEW b, Steady(a, b)
  PROVE  Promised(b)
<1>1. Fresh(b)
  BY DEF Promised, Steady, Fresh
<1>2. Followed(b)
  BY DEF Promised, Steady, Followed, Covered
<1>3. QED
  BY <1>1, <1>2 DEF Promised, Steady

LEMMA SteadyBoth ==
  ASSUME NEW a, NEW b, NEW c, Steady(a, b), Steady(b, c)
  PROVE  Steady(a, c)
BY DEF Steady

LEMMA RenamingSteady ==
  ASSUME NEW a, Good(a), NEW p \in Paths \cup {NoPath}
  PROVE  Steady(a, [a EXCEPT !.tree.renaming = p])
<1> DEFINE b == [a EXCEPT !.tree.renaming = p]
<1>1. /\ Inside(a, b) /\ b.calls = a.calls
      /\ \A f \in TreeFields \ {"renaming"} : b.tree[f] = a.tree[f]
  BY RenamingGood
<1> HIDE DEF b
<1>2. Steady(a, b)
  BY <1>1 DEF TreeFields, Inside, Steady
<1>3. QED
  BY <1>2 DEF b

-----------------------------------------------------------------------------
(* The walk of a search.                                                    *)
Goes(children, p, i) ==
  /\ SubSeq(p, 1, i) \in DOMAIN children
  /\ SubSeq(p, 1, i + 1) \in Searched(children[SubSeq(p, 1, i)])

LEMMA ReachedBy ==
  ASSUME NEW children, NEW todo, NEW p
  PROVE  p \in Reached(children, todo) <=>
           /\ p \in Paths
           /\ \E q \in todo : Under(p, q) /\ \A i \in Len(q)..(Len(p) - 1) : Goes(children, p, i)
BY DEF Reached, Goes

LEMMA ReachedFromRoot ==
  ASSUME NEW children, NEW root \in Roots, NEW p
  PROVE  p \in Unread(children, root) <=>
           /\ p \in Paths /\ p \notin DOMAIN children
           /\ Under(p, <<root>>) /\ \A i \in 1..(Len(p) - 1) : Goes(children, p, i)
<1> DEFINE r == <<root>>
<1>1. Len(r) = 1
  OBVIOUS
<1>2. p \in Unread(children, root) <=> p \in Reached(children, {r}) /\ p \notin DOMAIN children
  BY DEF Unread
<1> HIDE DEF r
<1>3. p \in Reached(children, {r}) <=>
        /\ p \in Paths
        /\ \E q \in {r} : Under(p, q) /\ \A i \in Len(q)..(Len(p) - 1) : Goes(children, p, i)
  BY ReachedBy
<1>4. p \in Reached(children, {r}) <=>
        /\ p \in Paths /\ Under(p, r) /\ \A i \in Len(r)..(Len(p) - 1) : Goes(children, p, i)
  BY <1>3
<1>5. QED
  BY <1>1, <1>2, <1>4 DEF r

(* A walk that goes on has before it what it had.                           *)
LEMMA WalkCovers ==
  ASSUME NEW a, NEW todo, todo \subseteq Folders,
         NEW p \in Reached(a.tree.children, todo), p \notin DOMAIN a.tree.children
  PROVE  /\ Walked(a, todo).next # NoPath
         /\ \E q \in Walked(a, todo).todo \cup {Walked(a, todo).next} : Under(p, q)
<1> DEFINE reached == Reached(a.tree.children, todo)
           unread  == reached \ DOMAIN a.tree.children
           next    == CHOOSE r \in unread : \A q \in unread : Len(r) <= Len(q)
           Left(r) == Len(r) = Len(next) \/ (r \in todo /\ Len(r) > Len(next))
           left    == {r \in reached : Left(r)} \ {next}
<1>1. Walked(a, todo) = IF unread = {} THEN [next |-> NoPath, todo |-> {}]
                        ELSE [next |-> next, todo |-> left]
  BY DEF Walked
<1>2. reached \subseteq Folders /\ p \in unread
  BY ReachedFolders
<1>3. next \in unread /\ \A q \in unread : Len(next) <= Len(q)
  <2>1. unread \subseteq Folders /\ unread # {}
    BY <1>2
  <2> HIDE DEF unread
  <2>2. QED
    BY <2>1, TheNext
<1> HIDE DEF next
<1>4. /\ next \in Paths /\ p \in Paths /\ next # NoPath /\ Len(next) <= Len(p)
      /\ Len(p) \in Nat \ {0} /\ Len(next) \in Nat \ {0}
  <2>1. next \in Paths /\ p \in Paths /\ Len(next) <= Len(p)
    BY <1>2, <1>3 DEF Folders
  <2>2. Len(p) \in Nat \ {0} /\ Len(next) \in Nat \ {0} /\ Len(NoPath) = 0
    BY <2>1, AFront DEF NoPath
  <2>3. QED
    BY <2>1, <2>2
<1>5. PICK q \in todo : Under(p, q) /\ \A i \in Len(q)..(Len(p) - 1) : Goes(a.tree.children, p, i)
  BY ReachedBy
<1>6. q \in Paths /\ Len(q) \in 1..Len(p) /\ \A i \in Len(q)..Len(p) : Under(SubSeq(p, 1, i), q)
  BY <1>4, <1>5, APrefixIs DEF Folders
<1>7. \E r \in left \cup {next} : Under(p, r)
  <2>1. CASE Len(q) > Len(next)
    <3>1. q \in reached
      <4>1. Under(q, q)
        BY <1>6, APrefix, AFront
      <4>2. \A i \in Len(q)..(Len(q) - 1) : FALSE
        BY <1>6
      <4>3. QED
        BY <1>6, <4>1, <4>2, ReachedBy
    <3>2. q \in left
      <4>1. q # next
        BY <2>1, <1>4, <1>6
      <4> HIDE DEF reached
      <4>2. QED
        BY <2>1, <3>1, <4>1
    <3>3. QED
      BY <3>2, <1>5
  <2>2. CASE ~(Len(q) > Len(next))
    <3> DEFINE n == Len(next)
               r == SubSeq(p, 1, n)
    <3>1. n \in 1..Len(p) /\ n \in Len(q)..Len(p)
      BY <2>2, <1>4, <1>6
    <3> HIDE DEF n
    <3>2. r \in Paths /\ Len(r) = n /\ Under(p, r) /\ Under(r, q) /\ \A j \in 1..n : r[j] = p[j]
      BY <3>1, <1>4, <1>6, ThePrefix
    <3>3. ASSUME NEW i \in Len(q)..(n - 1)
          PROVE  Goes(a.tree.children, r, i)
      <4>1. i \in Len(q)..(Len(p) - 1) /\ i \in 1..n /\ i + 1 \in 1..n
        BY <3>1, <1>4, <1>6
      <4>2. \A j \in 1..n : SubSeq(r, 1, j) = SubSeq(p, 1, j)
        BY <3>1, <1>4, TwicePrefix
      <4>3. Goes(a.tree.children, p, i)
        BY <4>1, <1>5
      <4> HIDE DEF r
      <4>4. QED
        BY <4>1, <4>2, <4>3 DEF Goes
    <3>4. r \in reached
      <4> HIDE DEF r
      <4>1. QED
        BY <3>2, <3>3, ReachedBy
    <3>5. r \in left \cup {next}
      <4> HIDE DEF reached, r
      <4>1. QED
        BY <3>2, <3>4 DEF n
    <3>6. QED
      BY <3>2, <3>5
  <2>3. QED
    BY <2>1, <2>2
<1>8. unread # {}
  BY <1>2
<1> HIDE DEF left, unread
<1>9. QED
  BY <1>1, <1>4, <1>7, <1>8

(* What has to be listed is before a walk that goes on from `todo`, or       *)
(* before one that is on its way.                                           *)
Awaited(a, todo) ==
  \A p \in Unread(a.tree.children, a.tree.root) :
    \/ \E q \in todo : Under(p, q)
    \/ \E c \in DOMAIN a.calls : c.op = "search" /\ c.token = a.tree.token /\ Before(p, c)

CoveredIn(a) == Covered(a.tree.children, a.tree.root, a.tree.token, DOMAIN a.calls)

LEMMA EndWalkSteady ==
  ASSUME NEW a, Typed(a), NEW token
  PROVE  Steady(a, EndWalk(a, token))
<1> DEFINE b == EndWalk(a, token)
<1>1. /\ Inside(a, b) /\ b.calls = a.calls /\ \A f \in TreeFields \ {"indexing"} : b.tree[f] = a.tree[f]
  BY EndWalkTyped
<1> HIDE DEF b
<1>2. b.tree.root = a.tree.root /\ b.tree.query = a.tree.query /\ b.tree.token = a.tree.token
      /\ b.tree.children = a.tree.children
  BY <1>1 DEF TreeFields
<1>3. QED
  BY <1>1, <1>2 DEF Steady, Inside, b

LEMMA WalkOnSteady ==
  ASSUME NEW a, Typed(a), NEW root, NEW token \in Nat, NEW todo, todo \subseteq Folders
  PROVE  LET b == WalkOn(a, root, token, todo)
         IN  /\ Steady(a, b)
             /\ a.tree.query /\ token = a.tree.token /\ a.tree.root \in Roots /\ Awaited(a, todo) => CoveredIn(b)
<1> DEFINE w == Walked(a, todo)
           c == [op |-> "search", dir |-> w.next, list |-> List(a, root, w.next),
                 root |-> root, token |-> token, todo |-> w.todo]
           ends == token # a.tree.token \/ ~a.tree.query \/ w.next = NoPath
           b == WalkOn(a, root, token, todo)
<1>1. b = IF ends THEN EndWalk(a, token) ELSE Send(a, c)
  BY DEF WalkOn
<1>2. w.todo \subseteq Folders /\ (w.next # NoPath => w.next \in Folders)
  BY TheWalk
<1>3. List(a, root, w.next) \in Listing /\ List(a, root, w.next).found \subseteq Entries(w.next)
  BY TheList
<1>4. c.op = "search" /\ c.dir = w.next /\ c.list = List(a, root, w.next)
      /\ c.root = root /\ c.token = token /\ c.todo = w.todo
  OBVIOUS
<1>5. \A p \in Reached(a.tree.children, todo) \ DOMAIN a.tree.children :
        w.next # NoPath /\ \E q \in w.todo \cup {w.next} : Under(p, q)
  BY WalkCovers
<1> HIDE DEF w, c, b
<1>6. \A p \in Unread(a.tree.children, a.tree.root) :
        a.tree.root \in Roots /\ (\E q \in todo : Under(p, q))
          => w.next # NoPath /\ \E q \in w.todo \cup {w.next} : Under(p, q)
  <2> SUFFICES ASSUME NEW p \in Unread(a.tree.children, a.tree.root), a.tree.root \in Roots,
                      NEW q \in todo, Under(p, q)
               PROVE  p \in Reached(a.tree.children, todo) \ DOMAIN a.tree.children
    BY <1>5
  <2>1. p \in Paths /\ p \notin DOMAIN a.tree.children
        /\ \A i \in 1..(Len(p) - 1) : Goes(a.tree.children, p, i)
    BY ReachedFromRoot
  <2>2. Len(q) \in Nat \ {0}
    BY AFront DEF Folders
  <2>3. \A i \in Len(q)..(Len(p) - 1) : Goes(a.tree.children, p, i)
    <3>1. Len(p) \in Nat
      BY <2>1, AFront
    <3>2. QED
      BY <2>1, <2>2, <3>1
  <2>4. QED
    BY <2>1, <2>3, ReachedBy
<1>7. CASE ends
  <2>1. b = EndWalk(a, token) /\ Steady(a, b)
    BY <1>1, <1>7, EndWalkSteady
  <2>2. ASSUME a.tree.query, token = a.tree.token, a.tree.root \in Roots, Awaited(a, todo)
        PROVE  CoveredIn(b)
    <3>1. w.next = NoPath
      BY <1>7, <2>2
    <3>2. QED
      BY <1>6, <2>1, <2>2, <3>1 DEF Awaited, CoveredIn, Covered, Steady
  <2>3. QED
    BY <2>1, <2>2 DEF b
<1>8. CASE ~ends
  <2>1. token = a.tree.token /\ a.tree.query /\ w.next # NoPath
    BY <1>8
  <2>2. CallTyped(c)
    BY <1>2, <1>3, <1>4, <2>1 DEF CallTyped
  <2>3. b = Send(a, c) /\ Inside(a, b) /\ b.tree = a.tree /\ DOMAIN b.calls = DOMAIN a.calls \cup {c}
    BY <1>1, <1>8, <2>2, SendTyped
  <2>4. Steady(a, b)
    BY <2>3 DEF Steady, Inside
  <2>5. ASSUME a.tree.root \in Roots, Awaited(a, todo)
        PROVE  CoveredIn(b)
    <3> SUFFICES ASSUME NEW p \in Unread(a.tree.children, a.tree.root)
                 PROVE  \E e \in DOMAIN b.calls : e.op = "search" /\ e.token = a.tree.token /\ Before(p, e)
      BY <2>3 DEF CoveredIn, Covered
    <3>1. CASE \E q \in todo : Under(p, q)
      <4>1. Before(p, c)
        BY <1>4, <1>6, <2>5, <3>1 DEF Before
      <4>2. QED
        BY <1>4, <2>1, <2>3, <4>1
    <3>2. CASE ~ \E q \in todo : Under(p, q)
      BY <2>3, <2>5, <3>2 DEF Awaited
    <3>3. QED
      BY <3>1, <3>2
  <2>6. QED
    BY <2>4, <2>5 DEF b
<1>9. QED
  BY <1>7, <1>8

(* A state in which the disk is known as far as it is cached.               *)
Grounded(a) == Solid(a.native.disk) /\ Fresh(a)

LEMMA GroundedOn ==
  ASSUME NEW a, Grounded(a), NEW b, b.gaps = a.gaps, b.native.disk = a.native.disk,
         DOMAIN a.calls \subseteq DOMAIN b.calls,
         b.tree.root = a.tree.root, b.tree.children = a.tree.children
  PROVE  Grounded(b)
BY DEF Grounded, Fresh

LEMMA UnaskedPromised ==
  ASSUME NEW a, Grounded(a), ~a.tree.query
  PROVE  Promised(a)
BY DEF Grounded, Promised, Followed

LEMMA SearchPromised ==
  ASSUME NEW a, Typed(a), Searchable(a), Grounded(a)
  PROVE  Promised(loadDescendantsForSearch(a))
<1> DEFINE token == a.tree.token + 1
           t == [a.tree EXCEPT !.token = token, !.indexing = TRUE]
           x == [a EXCEPT !.tree = t]
<1>1. /\ TreeTyped(a.tree) /\ DOMAIN a.tree = TreeFields /\ CallsTyped(a.calls) /\ DOMAIN a = Fields
      /\ a.tree.token \in Nat /\ a.tree.root \in Roots \cup {NoRoot}
  BY DEF Typed, TreeTyped
<1>2. CASE a.tree.root = NoRoot \/ ~a.tree.query
  <2>1. loadDescendantsForSearch(a) = a
    BY <1>2 DEF loadDescendantsForSearch
  <2>2. ~a.tree.query
    BY <1>2 DEF Searchable
  <2>3. QED
    BY <2>1, <2>2, UnaskedPromised
<1>3. CASE ~(a.tree.root = NoRoot \/ ~a.tree.query)
  <2>1. loadDescendantsForSearch(a) = WalkOn(x, a.tree.root, token, {<<a.tree.root>>})
    BY <1>1, <1>3 DEF loadDescendantsForSearch, TreeFields, Fields
  <2>2. DOMAIN t = TreeFields /\ t.indexing = TRUE /\ t.token = token
        /\ \A f \in TreeFields \ {"indexing", "token"} : t[f] = a.tree[f]
    BY <1>1 DEF TreeFields
  <2> HIDE DEF t
  <2>3. /\ t.root = a.tree.root /\ t.children = a.tree.children /\ t.expanded = a.tree.expanded
        /\ t.renaming = a.tree.renaming /\ t.query = a.tree.query /\ t.loading = a.tree.loading
    BY <2>2 DEF TreeFields
  <2>4. token \in Nat
    BY <1>1
  <2>5. TreeTyped(t)
    BY <1>1, <2>2, <2>3, <2>4, Zenon DEF TreeTyped
  <2>6. Inside(a, x) /\ x.tree = t /\ x.calls = a.calls
    BY NewTree
  <2> HIDE DEF x
  <2>7. Typed(x)
    BY <1>1, <2>5, <2>6, InsideTyped
  <2>8. Grounded(x)
    BY <2>3, <2>6, GroundedOn DEF Inside
  <2> DEFINE todo == {<<a.tree.root>>}
             b == WalkOn(x, a.tree.root, token, todo)
  <2>9. a.tree.root \in Roots /\ todo \subseteq Folders
    BY <1>1, <1>3, RootFolder
  <2>10. Awaited(x, todo)
    <3>1. \A p \in Unread(x.tree.children, x.tree.root) : Under(p, <<a.tree.root>>)
      BY <2>3, <2>6, <2>9, ReachedFromRoot
    <3>2. QED
      BY <3>1 DEF Awaited
  <2> HIDE DEF todo
  <2>11. /\ Steady(x, b)
         /\ x.tree.query /\ token = x.tree.token /\ x.tree.root \in Roots /\ Awaited(x, todo) => CoveredIn(b)
    BY <2>4, <2>7, <2>9, WalkOnSteady
  <2> HIDE DEF b
  <2>12. CoveredIn(b)
    BY <1>3, <2>2, <2>3, <2>6, <2>9, <2>10, <2>11
  <2>13. Grounded(b)
    BY <2>8, <2>11, GroundedOn DEF Steady
  <2>14. Promised(b)
    BY <2>12, <2>13 DEF Promised, Grounded, Followed, CoveredIn
  <2>15. QED
    BY <2>1, <2>14 DEF b, todo
<1>4. QED
  BY <1>2, <1>3

LEMMA SearchAgainPromised ==
  ASSUME NEW a, Good(a), Grounded(a)
  PROVE  Promised(searchAgain(a))
<1> DEFINE token == a.tree.token + 1
           t == [a.tree EXCEPT !.token = token]
           x == [a EXCEPT !.tree = t]
<1>1. /\ TreeTyped(a.tree) /\ DOMAIN a.tree = TreeFields /\ CallsTyped(a.calls)
      /\ a.tree.token \in Nat /\ Typed(a)
  BY DEF Good, Typed, TreeTyped
<1>2. searchAgain(a) = loadDescendantsForSearch(x)
  BY DEF searchAgain
<1>3. DOMAIN t = TreeFields /\ t.token = token
      /\ \A f \in TreeFields \ {"token"} : t[f] = a.tree[f]
  BY <1>1 DEF TreeFields
<1>4. token \in Nat /\ a.tree.token <= token
  BY <1>1
<1> HIDE DEF t, token
<1>5. /\ t.root = a.tree.root /\ t.children = a.tree.children /\ t.expanded = a.tree.expanded
      /\ t.renaming = a.tree.renaming /\ t.query = a.tree.query /\ t.loading = a.tree.loading
      /\ t.indexing = a.tree.indexing
  BY <1>3 DEF TreeFields
<1>6. TreeTyped(t)
  BY <1>1, <1>3, <1>4, <1>5 DEF TreeTyped
<1>7. Inside(a, x) /\ x.tree = t /\ x.calls = a.calls
  BY <1>1, NewTree
<1> HIDE DEF x
<1>8. Typed(x)
  BY <1>1, <1>6, <1>7, InsideTyped
<1>9. Searchable(x)
  <2>1. Searchable(a)
    BY GoodSearchable
  <2>2. \A c \in DOMAIN a.calls : c.op = "search" => c.token \in Nat
    BY <1>1 DEF CallsTyped, CallTyped
  <2>3. QED
    BY <1>1, <1>3, <1>4, <1>5, <1>7, <2>1, <2>2 DEF Searchable
<1>10. Grounded(x)
  BY <1>5, <1>7, GroundedOn DEF Inside
<1>11. QED
  BY <1>2, <1>8, <1>9, <1>10, SearchPromised

-----------------------------------------------------------------------------
(* The store's loading of folders keeps the promise.                        *)
LEMMA LoadDirSteady ==
  ASSUME NEW a, Good(a), NEW dir \in Folders, NEW k \in Continuation, k.rest \subseteq Folders
  PROVE  LET b == loadDir(a, dir, k)
         IN  Steady(a, b) /\ \E c \in DOMAIN b.calls : c.op = "list" /\ c.k = k
<1> DEFINE l == a.tree.loading \cup {dir}
           t == [a.tree EXCEPT !.loading = l]
           x == [a EXCEPT !.tree = t]
           c == [op |-> "list", dir |-> dir, list |-> List(a, a.tree.root, dir), k |-> k]
           b == Send(x, c)
<1>1. Typed(a) /\ TreeTyped(a.tree)
  BY DEF Good, Typed
<1>2. loadDir(a, dir, k) = b
  BY DEF loadDir
<1>3. /\ DOMAIN t = TreeFields /\ t.loading = l
      /\ \A f \in TreeFields \ {"loading"} : t[f] = a.tree[f]
  BY <1>1 DEF TreeTyped, TreeFields
<1> HIDE DEF t
<1>4. /\ t.root = a.tree.root /\ t.children = a.tree.children /\ t.expanded = a.tree.expanded
      /\ t.renaming = a.tree.renaming /\ t.query = a.tree.query /\ t.indexing = a.tree.indexing
      /\ t.token = a.tree.token
  BY <1>3 DEF TreeFields
<1>5. TreeTyped(t)
  BY <1>1, <1>3, <1>4 DEF TreeTyped
<1>6. Inside(a, x) /\ x.tree = t /\ x.calls = a.calls
  BY <1>1, NewTree
<1> HIDE DEF x
<1>7. Typed(x)
  BY <1>1, <1>5, <1>6, InsideTyped DEF Typed
<1>8. List(a, a.tree.root, dir) \in Listing /\ List(a, a.tree.root, dir).found \subseteq Entries(dir)
  BY <1>1, TheList
<1>9. c.op = "list" /\ c.dir = dir /\ c.k = k /\ c.list = List(a, a.tree.root, dir)
  OBVIOUS
<1> HIDE DEF c
<1>10. CallTyped(c)
  BY <1>8, <1>9 DEF CallTyped
<1>11. Inside(x, b) /\ b.tree = t /\ DOMAIN b.calls = DOMAIN a.calls \cup {c}
  BY <1>6, <1>7, <1>10, SendTyped
<1> HIDE DEF b
<1>12. Steady(a, b)
  BY <1>4, <1>6, <1>11 DEF Steady, Inside
<1>13. \E e \in DOMAIN b.calls : e.op = "list" /\ e.k = k
  BY <1>9, <1>11
<1>14. QED
  BY <1>2, <1>12, <1>13

(* A refresh that began with a query promises as long as it goes on.        *)
Searches(k) == k.then = "refresh" /\ k.query

LEMMA AgainPromised ==
  ASSUME NEW a, Grounded(a), NEW k, Searches(k), \E c \in DOMAIN a.calls : c.op = "list" /\ c.k = k
  PROVE  Promised(a)
BY DEF Grounded, Promised, Followed, Again, Searches

LEMMA ContinuePromised ==
  ASSUME NEW a, Good(a), Grounded(a), NEW k \in Continuation, k.rest \subseteq Folders,
         Searches(k) \/ Followed(a), NEW b \in Continue(a, k)
  PROVE  Promised(b)
<1>1. ~Searches(k) => Promised(a)
  BY DEF Promised, Grounded
<1>2. CASE k.then = "rename"
  <2>1. b = [a EXCEPT !.tree.renaming = k.target] /\ k.target \in Paths \cup {NoPath}
    BY <1>2 DEF Continue, Continuation
  <2>2. /\ Inside(a, b) /\ b.calls = a.calls
        /\ \A f \in TreeFields \ {"renaming"} : b.tree[f] = a.tree[f]
    BY <2>1, RenamingGood
  <2>3. Steady(a, b)
    BY <2>2 DEF TreeFields, Inside, Steady
  <2>4. QED
    BY <1>1, <1>2, <2>3, SteadyPromised DEF Searches
<1>3. CASE k.then = "none"
  <2>1. b = a
    BY <1>3 DEF Continue
  <2>2. QED
    BY <1>1, <1>3, <2>1 DEF Searches
<1>4. CASE k.then = "refresh" /\ (k.rest = {} \/ a.tree.root = NoRoot)
  <2>1. b = IF k.query THEN searchAgain(a) ELSE a
    BY <1>4 DEF Continue
  <2>2. QED
    BY <1>1, <2>1, SearchAgainPromised DEF Searches
<1>5. CASE k.then = "refresh" /\ ~(k.rest = {} \/ a.tree.root = NoRoot)
  <2>1. PICK p \in k.rest : b = loadDir(a, p, [k EXCEPT !.rest = @ \ {p}])
    BY <1>5 DEF Continue
  <2> DEFINE l == [k EXCEPT !.rest = @ \ {p}]
  <2>2. l \in Continuation /\ l.rest \subseteq Folders /\ p \in Folders /\ (Searches(k) <=> Searches(l))
    BY TheRest DEF Searches, Continuation
  <2> HIDE DEF l
  <2>3. Steady(a, loadDir(a, p, l)) /\ \E c \in DOMAIN loadDir(a, p, l).calls : c.op = "list" /\ c.k = l
    BY <2>2, LoadDirSteady
  <2>4. b = loadDir(a, p, l)
    BY <2>1 DEF l
  <2>5. Grounded(b)
    BY <2>3, <2>4, GroundedOn DEF Steady
  <2>6. QED
    BY <1>1, <2>2, <2>3, <2>5, <2>4, SteadyPromised, AgainPromised
<1>6. k.then \in {"none", "refresh", "rename"}
  BY DEF Continuation
<1>7. QED
  BY <1>2, <1>3, <1>4, <1>5, <1>6

LEMMA ThenPromised ==
  ASSUME NEW a, Good(a), Promised(a), NEW dir \in Folders, NEW k \in Continuation, k.rest \subseteq Folders,
         NEW b \in loadThen(a, dir, k)
  PROVE  Promised(b)
<1>1. Grounded(a) /\ Followed(a)
  BY DEF Promised, Grounded
<1>2. CASE a.tree.root = NoRoot
  BY <1>1, <1>2, ContinuePromised DEF loadThen
<1>3. CASE a.tree.root # NoRoot
  BY <1>3, LoadDirSteady, SteadyPromised DEF loadThen
<1>4. QED
  BY <1>2, <1>3

(* Nothing that is cached is known.                                         *)
LEMMA EmptyGrounded ==
  ASSUME NEW a, Solid(a.native.disk), a.tree.children = <<>>
  PROVE  Grounded(a)
BY DEF Grounded, Fresh, Known

LEMMA RefreshPromised ==
  ASSUME NEW a, Good(a), Solid(a.native.disk)
  PROVE  Promised(refresh(a))
<1> DEFINE t == [a.tree EXCEPT !.children = <<>>]
           x == [a EXCEPT !.tree = t]
           k == [nothing EXCEPT !.then = "refresh", !.query = a.tree.query,
                                !.rest = a.tree.expanded \ {<<a.tree.root>>}]
<1>1. /\ TreeTyped(a.tree) /\ DOMAIN a.tree = TreeFields /\ a.tree.root \in Roots \cup {NoRoot}
      /\ a.tree.expanded \subseteq Folders /\ a.tree.query \in BOOLEAN /\ Typed(a)
  BY DEF Good, Typed, TreeTyped
<1>2. CASE a.tree.root = NoRoot
  <2>1. refresh(a) = a /\ ~a.tree.query
    BY <1>2 DEF refresh, Good, Searching, Tokens
  <2>2. QED
    BY <1>2, <2>1 DEF Promised, Fresh, Followed
<1>3. CASE a.tree.root # NoRoot
  <2>1. refresh(a) = loadDir(x, <<a.tree.root>>, k)
    BY <1>3 DEF refresh
  <2>2. DOMAIN t = TreeFields /\ t.children = <<>>
        /\ \A f \in TreeFields \ {"children"} : t[f] = a.tree[f]
    BY <1>1 DEF TreeFields
  <2> HIDE DEF t
  <2>3. /\ t.root = a.tree.root /\ t.expanded = a.tree.expanded
        /\ t.renaming = a.tree.renaming /\ t.query = a.tree.query /\ t.loading = a.tree.loading
        /\ t.indexing = a.tree.indexing /\ t.token = a.tree.token
    BY <2>2 DEF TreeFields
  <2>4. Cache(t.children)
    BY <2>2 DEF Cache
  <2>5. TreeTyped(t) /\ Shows(a.tree, t)
    BY <1>1, <2>2, <2>3, <2>4 DEF TreeTyped, Shows
  <2>6. Good(x) /\ Inside(a, x) /\ x.tree = t
    BY <2>5, ShownGood
  <2> HIDE DEF x
  <2> DEFINE later == a.tree.expanded \ {<<a.tree.root>>}
  <2>7. later \in SUBSET Paths /\ later \subseteq Folders
    BY <1>1 DEF Folders
  <2> HIDE DEF later
  <2>8. [nothing EXCEPT !.then = "refresh", !.query = a.tree.query, !.rest = later] \in Continuation
        /\ [nothing EXCEPT !.then = "refresh", !.query = a.tree.query, !.rest = later].rest = later
        /\ [nothing EXCEPT !.then = "refresh", !.query = a.tree.query, !.rest = later].then = "refresh"
        /\ [nothing EXCEPT !.then = "refresh", !.query = a.tree.query, !.rest = later].query = a.tree.query
    BY <1>1, <2>7, NothingThen DEF Continuation
  <2>9. k \in Continuation /\ k.rest \subseteq Folders /\ k.then = "refresh" /\ k.query = a.tree.query
    BY <2>7, <2>8 DEF later
  <2>10. <<a.tree.root>> \in Folders
    BY <1>1, <1>3, RootFolder
  <2> DEFINE b == loadDir(x, <<a.tree.root>>, k)
  <2> HIDE DEF k
  <2>11. Steady(x, b) /\ \E c \in DOMAIN b.calls : c.op = "list" /\ c.k = k
    BY <2>6, <2>9, <2>10, LoadDirSteady
  <2> HIDE DEF b
  <2>12. Grounded(x)
    BY <2>2, <2>6, EmptyGrounded DEF Inside
  <2>13. Grounded(b)
    BY <2>11, <2>12, GroundedOn DEF Steady
  <2>14. ASSUME a.tree.query PROVE Promised(b)
    <3>1. Searches(k)
      BY <2>9, <2>14 DEF Searches
    <3>2. QED
      BY <2>11, <2>13, <3>1, AgainPromised
  <2>15. ASSUME ~a.tree.query PROVE Promised(b)
    <3>1. ~b.tree.query
      BY <2>3, <2>6, <2>11, <2>15 DEF Steady
    <3>2. QED
      BY <2>13, <3>1, UnaskedPromised
  <2>16. Promised(b)
    BY <2>14, <2>15
  <2>17. QED
    BY <2>1, <2>16 DEF b
<1>4. QED
  BY <1>2, <1>3

LEMMA LoadRootPromised ==
  ASSUME NEW a, Good(a), Promised(a)
  PROVE  Promised(loadRoot(a))
<1>1. /\ Typed(a) /\ TreeTyped(a.tree) /\ a.tree.token \in Nat /\ a.tree.indexing \in BOOLEAN
      /\ CallsTyped(a.calls) /\ a.project.workspace \in Roots \cup {NoRoot} /\ DOMAIN a = Fields
      /\ Solid(a.native.disk)
  BY DEF Good, Typed, TreeTyped, Projects, Promised
<1>2. CASE a.project.workspace = NoRoot
  <2> DEFINE t == [emptyTree EXCEPT !.token = a.tree.token]
             x == [a EXCEPT !.tree = t]
  <2>1. loadRoot(a) = x
    BY <1>2 DEF loadRoot
  <2>2. t.children = <<>> /\ t.query = FALSE
    BY DEF emptyTree
  <2> HIDE DEF t
  <2>3. Inside(a, x) /\ x.tree = t
    BY <1>1, NewTree
  <2> HIDE DEF x
  <2>4. Grounded(x)
    BY <1>1, <2>2, <2>3, EmptyGrounded DEF Inside
  <2>5. QED
    BY <2>1, <2>2, <2>3, <2>4, UnaskedPromised
<1>3. CASE a.project.workspace # NoRoot /\ a.tree.root = a.project.workspace
           /\ <<a.tree.root>> \in DOMAIN a.tree.children
  BY <1>3 DEF loadRoot
<1>4. CASE a.project.workspace # NoRoot
           /\ ~(a.tree.root = a.project.workspace /\ <<a.tree.root>> \in DOMAIN a.tree.children)
  <2> DEFINE kept == [emptyTree EXCEPT !.token = a.tree.token, !.indexing = a.tree.indexing]
             t == [kept EXCEPT !.root = a.project.workspace]
             x == [a EXCEPT !.tree = t]
             b == loadDir(x, <<a.project.workspace>>, nothing)
  <2>1. loadRoot(a) = b
    BY <1>4 DEF loadRoot, loadFreshRoot
  <2>2. /\ DOMAIN t = TreeFields /\ t.root = a.project.workspace /\ t.children = <<>> /\ t.expanded = {}
        /\ t.renaming = NoPath /\ t.loading = {} /\ t.query = FALSE /\ t.indexing = a.tree.indexing
        /\ t.token = a.tree.token
    BY DEF emptyTree, TreeFields
  <2> HIDE DEF t, kept
  <2>3. Cache(t.children)
    BY <2>2 DEF Cache
  <2>4. TreeTyped(t)
    BY <1>1, <2>2, <2>3 DEF TreeTyped
  <2>5. Inside(a, x) /\ x.tree = t /\ x.calls = a.calls
    BY <1>1, NewTree
  <2> HIDE DEF x
  <2>6. Typed(x)
    BY <1>1, <2>4, <2>5, InsideTyped
  <2>7. Searchable(x) /\ ~x.tree.query
    <3>1. Searchable(a)
      BY GoodSearchable
    <3>2. QED
      BY <3>1, <1>4, <2>2, <2>5 DEF Searchable, Loading
  <2>8. Good(x)
    BY <2>6, <2>7, UnaskedGood
  <2>9. <<a.project.workspace>> \in Folders
    BY <1>1, <1>4, RootFolder
  <2>10. Steady(x, b)
    BY <2>8, <2>9, NothingThen, LoadDirSteady
  <2> HIDE DEF b
  <2>11. Grounded(x)
    BY <1>1, <2>2, <2>5, EmptyGrounded DEF Inside
  <2>12. QED
    BY <2>1, <2>7, <2>10, <2>11, UnaskedPromised, SteadyPromised
<1>5. QED
  BY <1>2, <1>3, <1>4

-----------------------------------------------------------------------------
(* The watch of the checkout in view.                                       *)

(* A step of the watch.                                                     *)
Aside(a, b) ==
  /\ DOMAIN b = Fields /\ b.tree = a.tree /\ b.calls = a.calls /\ b.project = a.project /\ b.gaps = a.gaps
  /\ b.native.scopes = a.native.scopes /\ b.native.disk = a.native.disk
  /\ b.view.mounted = a.view.mounted /\ b.view.mount = a.view.mount /\ b.view.live = a.view.live

LEMMA AsideBoth ==
  ASSUME NEW a, NEW b, NEW c, Aside(a, b), Aside(b, c)
  PROVE  Aside(a, c)
BY DEF Aside

LEMMA AsideSteady ==
  ASSUME NEW a, NEW b, Aside(a, b)
  PROVE  Steady(a, b)
BY DEF Aside, Steady

LEMMA AsideGood ==
  ASSUME NEW a, Good(a), NEW b, Aside(a, b), NativeTyped(b.native),
         b.view \in Views(Len(a.native.scopes)), b.watchCalls \in Seq(Hops(Len(a.native.scopes)))
  PROVE  Good(b)
BY DEF Good, Typed, Aside, Searching

LEMMA UnsubscribedGood ==
  ASSUME NEW a, Good(a), NEW s \in 1..Len(a.native.scopes)
  PROVE  /\ Good(Unsubscribed(a, s)) /\ Aside(a, Unsubscribed(a, s))
         /\ Unsubscribed(a, s).view = a.view /\ Unsubscribed(a, s).watchCalls = a.watchCalls
         /\ Unsubscribed(a, s).native.subscribed = a.native.subscribed \ {a.native.scopes[s]}
<1> DEFINE b == Unsubscribed(a, s)
           x == a.native
           y == [x EXCEPT !.subscribed = @ \ {x.scopes[s]}, !.events = @ \ {x.scopes[s]}]
<1>1. Typed(a) /\ DOMAIN a = Fields /\ NativeTyped(x) /\ DOMAIN x = NativeFields
  BY DEF Good, Typed, NativeTyped
<1>2. b = [a EXCEPT !.native = y]
  BY DEF Unsubscribed
<1>3. /\ DOMAIN y = NativeFields /\ y.subscribed = x.subscribed \ {x.scopes[s]}
      /\ y.events = x.events \ {x.scopes[s]} /\ y.scopes = x.scopes /\ y.disk = x.disk
  BY <1>1 DEF NativeFields
<1> HIDE DEF y
<1>4. NativeTyped(y)
  BY <1>1, <1>3 DEF NativeTyped
<1>5. /\ DOMAIN b = Fields /\ b.native = y /\ b.tree = a.tree /\ b.calls = a.calls
      /\ b.project = a.project /\ b.gaps = a.gaps /\ b.view = a.view /\ b.watchCalls = a.watchCalls
  BY <1>1, <1>2 DEF Fields
<1> HIDE DEF b
<1>6. Aside(a, b)
  BY <1>3, <1>5 DEF Aside
<1>7. a.view \in Views(Len(a.native.scopes)) /\ a.watchCalls \in Seq(Hops(Len(a.native.scopes)))
  BY <1>1 DEF Typed
<1>8. Good(b)
  BY <1>4, <1>5, <1>6, <1>7, AsideGood
<1>9. QED
  BY <1>3, <1>5, <1>6, <1>8 DEF b

WatchedWith(a, s, live) ==
  IF live THEN a.native.subscribed \cup {a.native.scopes[s]} ELSE a.native.subscribed \ {a.native.scopes[s]}

LEMMA SubscribedGood ==
  ASSUME NEW a, Good(a), NEW s \in 1..Len(a.native.scopes), NEW live
  PROVE  /\ Good(Subscribed(a, s, live)) /\ Aside(a, Subscribed(a, s, live))
         /\ Subscribed(a, s, live).view = a.view /\ Subscribed(a, s, live).watchCalls = a.watchCalls
         /\ Subscribed(a, s, live).native.subscribed = WatchedWith(a, s, live)
<1>1. CASE ~live
  BY <1>1, UnsubscribedGood DEF Subscribed, WatchedWith
<1>2. CASE live
  <2> DEFINE b == Subscribed(a, s, live)
             x == a.native
             y == [x EXCEPT !.subscribed = @ \cup {x.scopes[s]}]
  <2>1. Typed(a) /\ DOMAIN a = Fields /\ NativeTyped(x) /\ DOMAIN x = NativeFields /\ x.scopes[s] \in Roots
    BY DEF Good, Typed, NativeTyped
  <2>2. b = [a EXCEPT !.native = y]
    BY <1>2 DEF Subscribed
  <2>3. /\ DOMAIN y = NativeFields /\ y.subscribed = x.subscribed \cup {x.scopes[s]}
        /\ y.events = x.events /\ y.scopes = x.scopes /\ y.disk = x.disk
    BY <2>1 DEF NativeFields
  <2> HIDE DEF y
  <2>4. NativeTyped(y)
    BY <2>1, <2>3 DEF NativeTyped
  <2>5. /\ DOMAIN b = Fields /\ b.native = y /\ b.tree = a.tree /\ b.calls = a.calls
        /\ b.project = a.project /\ b.gaps = a.gaps /\ b.view = a.view /\ b.watchCalls = a.watchCalls
    BY <2>1, <2>2 DEF Fields
  <2> HIDE DEF b
  <2>6. Aside(a, b)
    BY <2>3, <2>5 DEF Aside
  <2>7. a.view \in Views(Len(a.native.scopes)) /\ a.watchCalls \in Seq(Hops(Len(a.native.scopes)))
    BY <2>1 DEF Typed
  <2>8. Good(b)
    BY <2>4, <2>5, <2>6, <2>7, AsideGood
  <2>9. QED
    BY <1>2, <2>3, <2>5, <2>6, <2>8 DEF b, WatchedWith
<1>3. QED
  BY <1>1, <1>2

LEMMA HopGood ==
  ASSUME NEW a, Good(a), NEW kind, NEW mount, NEW s, NEW live,
         [kind |-> kind, mount |-> mount, scope |-> s, live |-> live] \in Hops(Len(a.native.scopes))
  PROVE  /\ Good(Hop(a, kind, mount, s, live)) /\ Aside(a, Hop(a, kind, mount, s, live))
         /\ Hop(a, kind, mount, s, live).native = a.native
         /\ Hop(a, kind, mount, s, live).view = a.view
         /\ Hop(a, kind, mount, s, live).watchCalls =
              Append(a.watchCalls, [kind |-> kind, mount |-> mount, scope |-> s, live |-> live])
<1> DEFINE b == Hop(a, kind, mount, s, live)
           h == [kind |-> kind, mount |-> mount, scope |-> s, live |-> live]
<1>1. Typed(a) /\ DOMAIN a = Fields
  BY DEF Good, Typed
<1>2. b = [a EXCEPT !.watchCalls = Append(@, h)]
  BY DEF Hop
<1> HIDE DEF h
<1>3. /\ DOMAIN b = Fields /\ b.native = a.native /\ b.tree = a.tree /\ b.calls = a.calls
      /\ b.project = a.project /\ b.gaps = a.gaps /\ b.view = a.view
      /\ b.watchCalls = Append(a.watchCalls, h)
  BY <1>1, <1>2 DEF Fields
<1> HIDE DEF b
<1>4. Aside(a, b)
  BY <1>3 DEF Aside
<1>5. a.view \in Views(Len(a.native.scopes)) /\ a.watchCalls \in Seq(Hops(Len(a.native.scopes)))
      /\ NativeTyped(a.native)
  BY <1>1 DEF Typed
<1>6. h \in Hops(Len(a.native.scopes))
  BY DEF h
<1>7. b.watchCalls \in Seq(Hops(Len(a.native.scopes)))
  BY <1>3, <1>5, <1>6
<1>8. Good(b)
  BY <1>3, <1>4, <1>5, <1>7, AsideGood
<1>9. QED
  BY <1>3, <1>4, <1>8 DEF b, h

LEMMA EnterGood ==
  ASSUME NEW a, Good(a), NEW mount \in 1..MaxMounts, NEW s \in 0..Len(a.native.scopes)
  PROVE  /\ Good(Enter(a, mount, s)) /\ Aside(a, Enter(a, mount, s))
         /\ Enter(a, mount, s).view = a.view
         /\ s = 0 => Enter(a, mount, s) = a
         /\ s # 0 => /\ Enter(a, mount, s).native.subscribed = a.native.subscribed \ {a.native.scopes[s]}
                     /\ Enter(a, mount, s).watchCalls = Append(a.watchCalls,
                          [kind |-> "reset", mount |-> mount, scope |-> s, live |-> a.view.live])
<1>1. Typed(a) /\ DOMAIN a = Fields /\ a.view.live \in BOOLEAN /\ Len(a.native.scopes) \in Nat
  BY DEF Good, Typed, Views, NativeTyped
<1>2. CASE s = 0
  BY <1>1, <1>2 DEF Enter, Aside
<1>3. CASE s # 0
  <2> DEFINE x == Unsubscribed(a, s)
             b == Hop(x, "reset", mount, s, a.view.live)
             h == [kind |-> "reset", mount |-> mount, scope |-> s, live |-> a.view.live]
  <2>1. Enter(a, mount, s) = b
    BY <1>3 DEF Enter
  <2>2. s \in 1..Len(a.native.scopes)
    BY <1>1, <1>3
  <2>3. /\ Good(x) /\ Aside(a, x) /\ x.view = a.view /\ x.watchCalls = a.watchCalls
        /\ x.native.subscribed = a.native.subscribed \ {a.native.scopes[s]}
    BY <2>2, UnsubscribedGood
  <2> HIDE DEF x
  <2>4. h \in Hops(Len(a.native.scopes))
    BY <1>1, <1>3 DEF Hops
  <2>5. x.native.scopes = a.native.scopes
    BY <2>3 DEF Aside
  <2>6. h \in Hops(Len(x.native.scopes))
    BY <2>4, <2>5
  <2>7. /\ Good(b) /\ Aside(x, b) /\ b.native = x.native /\ b.view = x.view
        /\ b.watchCalls = Append(x.watchCalls, h)
    BY <2>3, <2>6, HopGood
  <2> HIDE DEF b, h
  <2>8. Aside(a, b)
    BY <2>3, <2>7, AsideBoth
  <2>9. QED
    BY <1>3, <2>1, <2>3, <2>7, <2>8 DEF h
<1>4. QED
  BY <1>2, <1>3

LEMMA TheShown ==
  ASSUME NEW a, Typed(a)
  PROVE  ShownScope(a) \in 0..Len(a.native.scopes)
<1>1. a.project \in Projects(Len(a.native.scopes)) /\ Len(a.native.scopes) \in Nat
  BY DEF Typed, NativeTyped
<1>2. QED
  BY <1>1, ExplorerNames DEF ShownScope, Projects

LEMMA WatchNowGood ==
  ASSUME NEW a, Good(a), a.view.mounted => a.view.mount # 0
  PROVE  Good(WatchNow(a)) /\ Aside(a, WatchNow(a)) /\ Watched(WatchNow(a))
<1> DEFINE n == Len(a.native.scopes)
           s == ShownScope(a)
           m == a.view.mount
           w == a.view.watched[m]
           b == WatchNow(a)
           no == FALSE
<1>1. /\ Typed(a) /\ DOMAIN a = Fields /\ n \in Nat /\ a.view \in Views(n) /\ s \in 0..n
      /\ a.watchCalls \in Seq(Hops(n)) /\ a.view.live \in BOOLEAN
  BY TheShown DEF Good, Typed, NativeTyped, Views
<1>2. CASE ~a.view.mounted
  BY <1>1, <1>2 DEF WatchNow, Aside, Watched, Watching
<1>3. CASE a.view.mounted
  <2>1. m \in 1..MaxMounts
    <3>1. m \in 0..MaxMounts /\ MaxMounts \in Nat
      BY <1>1, ExplorerBounds DEF Views
    <3>2. QED
      BY <3>1, <1>3
  <2>2. w \in 0..n
    BY <1>1, <2>1 DEF Views
  <2>3. b = IF w \notin {0, s} THEN Hop(Unsubscribed(a, w), "leave", m, s, no) ELSE Enter(a, m, s)
    BY <1>3 DEF WatchNow, applyWatch
  <2>4. no \in BOOLEAN
    OBVIOUS
  <2> HIDE DEF w, m, s, n, b, no
  <2>5. \A x : Aside(a, x) => ShownScope(x) = s /\ x.native.scopes = a.native.scopes /\ x.view.live = a.view.live
    BY DEF Aside, ShownScope, s
  <2>6. CASE w \notin {0, s}
    <3> DEFINE x == Unsubscribed(a, w)
               h == [kind |-> "leave", mount |-> m, scope |-> s, live |-> no]
               q == a.watchCalls
    <3>1. w \in 1..n
      BY <1>1, <2>2, <2>6
    <3>2. Good(x) /\ Aside(a, x) /\ x.watchCalls = a.watchCalls
      BY <3>1, UnsubscribedGood DEF n
    <3> HIDE DEF x
    <3>3. h \in Hops(n)
      BY <1>1, <2>1, <2>4 DEF Hops
    <3>4. x.native.scopes = a.native.scopes
      BY <2>5, <3>2
    <3>5. h \in Hops(Len(x.native.scopes))
      BY <3>3, <3>4 DEF n
    <3>6. /\ Good(Hop(x, "leave", m, s, no)) /\ Aside(x, Hop(x, "leave", m, s, no))
          /\ Hop(x, "leave", m, s, no).watchCalls = Append(x.watchCalls, h)
      BY <3>2, <3>5, HopGood
    <3>7. h.kind = "leave" /\ h.scope = s
      OBVIOUS
    <3> HIDE DEF h
    <3>8. b = Hop(x, "leave", m, s, no)
      BY <2>3, <2>6 DEF x
    <3>9. Good(b) /\ Aside(x, b) /\ b.watchCalls = Append(q, h)
      BY <3>2, <3>6, <3>8
    <3>10. Aside(a, b)
      BY <3>2, <3>9, AsideBoth
    <3> HIDE DEF q
    <3>11. Len(b.watchCalls) = Len(q) + 1 /\ b.watchCalls[Len(q) + 1] = h /\ Len(q) \in Nat
      BY <1>1, <3>9 DEF q
    <3>12. s # 0 => Leaves(b.watchCalls[Len(q) + 1], b.native.scopes, b.native.scopes[s])
      BY <3>7, <3>11 DEF Leaves
    <3>13. ShownScope(b) = s
      BY <2>5, <3>10
    <3>14. Watched(b)
      BY <3>11, <3>12, <3>13 DEF Watched, Watching, Served
    <3>15. QED
      BY <3>9, <3>10, <3>14 DEF b
  <2>7. CASE w \in {0, s}
    <3> DEFINE h == [kind |-> "reset", mount |-> m, scope |-> s, live |-> a.view.live]
               q == a.watchCalls
    <3>1. /\ Good(b) /\ Aside(a, b)
          /\ s # 0 => b.watchCalls = Append(q, h)
      BY <2>1, <1>1, <2>3, <2>7, EnterGood DEF n
    <3>2. h.kind = "reset" /\ h.scope = s /\ h.live = a.view.live
      OBVIOUS
    <3> HIDE DEF h, q
    <3>3. s # 0 => Len(b.watchCalls) = Len(q) + 1 /\ b.watchCalls[Len(q) + 1] = h /\ Len(q) \in Nat
      BY <1>1, <3>1 DEF q
    <3>4. ShownScope(b) = s /\ b.view.live = a.view.live
      BY <2>5, <3>1
    <3>5. s # 0 => Resets(b.watchCalls[Len(q) + 1], b.native.scopes, b.native.scopes[s])
                   /\ b.watchCalls[Len(q) + 1].live = b.view.live
      BY <3>2, <3>3, <3>4 DEF Resets
    <3>6. s # 0 => /\ Len(q) + 1 \in 1..Len(b.watchCalls)
                   /\ \A j \in (Len(q) + 1 + 1)..Len(b.watchCalls) : FALSE
      BY <3>3
    <3>7. Watched(b)
      BY <3>4, <3>5, <3>6 DEF Watched, Watching, Served
    <3>8. QED
      BY <3>1, <3>7 DEF b
  <2>8. QED
    BY <2>6, <2>7
<1>4. QED
  BY <1>2, <1>3

(* The oldest run goes on: what it leaves behind, or appends, is no worse.   *)
LEMMA ServedOn ==
  ASSUME NEW S, NEW q \in Seq(S), q # <<>>, NEW r, NEW live \in BOOLEAN, NEW scopes, NEW subs, NEW subs2, NEW root,
         NEW g, r = Tail(q) \/ r = Append(Tail(q), g),
         Served(live, scopes, subs, root, q)
  PROVE  /\ /\ ~Leaves(Head(q), scopes, root) /\ ~Resets(Head(q), scopes, root)
            /\ ~Resets(g, scopes, root) /\ (root \in subs2 <=> root \in subs)
            => Served(live, scopes, subs2, root, r)
         /\ /\ Head(q).kind = "reset" /\ Resets(Head(q), scopes, root)
            /\ ~Resets(g, scopes, root) /\ (root \in subs2 <=> Head(q).live)
            => Served(live, scopes, subs2, root, r)
<1> DEFINE n == Len(q) - 1
           L(h) == Leaves(h, scopes, root)
           R(h) == Resets(h, scopes, root)
<1>1. /\ n \in Nat /\ Len(q) = n + 1 /\ Head(q) = q[1]
      /\ Len(Tail(q)) = n /\ \A i \in 1..n : Tail(q)[i] = q[i + 1]
  BY HeadTailProperties, EmptySeq
<1> HIDE DEF n
<1>2. \/ Len(r) = n /\ \A i \in 1..n : r[i] = q[i + 1]
      \/ Len(r) = n + 1 /\ r[n + 1] = g /\ \A i \in 1..n : r[i] = q[i + 1]
  <2>1. CASE r = Tail(q)
    BY <2>1, <1>1
  <2>2. CASE r = Append(Tail(q), g)
    <3> DEFINE U == S \cup {g}
               t == Tail(q)
    <3>1. t \in Seq(S) /\ t \in Seq(U) /\ g \in U
      <4>1. t \in Seq(S)
        BY HeadTailProperties
      <4>2. QED
        BY <4>1
    <3> HIDE DEF t, U
    <3>2. /\ Len(Append(t, g)) = Len(t) + 1 /\ Append(t, g)[Len(t) + 1] = g
          /\ \A i \in 1..Len(t) : Append(t, g)[i] = t[i]
      BY <3>1, AppendProperties
    <3>3. QED
      BY <2>2, <3>2, <1>1 DEF t
  <2>3. QED
    BY <2>1, <2>2
<1>3. /\ Len(r) \in {n, n + 1} /\ (Len(r) = n + 1 => r[n + 1] = g)
      /\ \A i \in 1..n : r[i] = q[i + 1]
  BY <1>1, <1>2
<1>4. ASSUME ~R(g)
      PROVE  \A j \in 1..Len(r) : R(r[j]) => j \in 1..n
  BY <1>1, <1>3, <1>4
<1>5. Served(live, scopes, subs, root, q) <=>
        \/ \E i \in 1..(n + 1) : L(q[i])
        \/ \E i \in 1..(n + 1) :
             R(q[i]) /\ q[i].live = live /\ \A j \in (i + 1)..(n + 1) : R(q[j]) => q[j].live = live
        \/ (root \in subs <=> live) /\ \A j \in 1..(n + 1) : R(q[j]) => q[j].live = live
  BY <1>1 DEF Served
<1>6. Served(live, scopes, subs2, root, r) <=>
        \/ \E i \in 1..Len(r) : L(r[i])
        \/ \E i \in 1..Len(r) :
             R(r[i]) /\ r[i].live = live /\ \A j \in (i + 1)..Len(r) : R(r[j]) => r[j].live = live
        \/ (root \in subs2 <=> live) /\ \A j \in 1..Len(r) : R(r[j]) => r[j].live = live
  BY DEF Served
<1>7. ~(L(q[1]) /\ q[1].kind = "reset")
  BY DEF Leaves
<1> HIDE DEF L, R
<1>8. ASSUME ~L(q[1]), NEW i \in 1..(n + 1), L(q[i])
      PROVE  Served(live, scopes, subs2, root, r)
  <2>1. i - 1 \in 1..n /\ (i - 1) + 1 = i
    BY <1>1, <1>8
  <2>2. L(r[i - 1]) /\ i - 1 \in 1..Len(r)
    BY <2>1, <1>1, <1>3, <1>8
  <2>3. QED
    BY <2>2, <1>6
<1>9. ASSUME NEW i \in 2..(n + 1), R(q[i]), q[i].live = live,
             \A j \in (i + 1)..(n + 1) : R(q[j]) => q[j].live = live, ~R(g)
      PROVE  Served(live, scopes, subs2, root, r)
  <2>1. i - 1 \in 1..n /\ (i - 1) + 1 = i
    BY <1>1
  <2>2. R(r[i - 1]) /\ r[i - 1].live = live /\ i - 1 \in 1..Len(r)
    BY <2>1, <1>1, <1>3, <1>9
  <2>3. ASSUME NEW j \in ((i - 1) + 1)..Len(r), R(r[j])
        PROVE  r[j].live = live
    <3>1. j \in 1..n
      BY <2>1, <2>3, <1>1, <1>3, <1>4, <1>9
    <3>2. r[j] = q[j + 1] /\ j + 1 \in (i + 1)..(n + 1)
      BY <3>1, <2>1, <1>1, <1>3
    <3>3. QED
      BY <3>2, <2>3, <1>9
  <2>4. QED
    BY <2>2, <2>3, <1>6
<1>10. ASSUME root \in subs2 <=> live, ~R(g), \A j \in 2..(n + 1) : R(q[j]) => q[j].live = live
       PROVE  Served(live, scopes, subs2, root, r)
  <2>1. ASSUME NEW j \in 1..Len(r), R(r[j])
        PROVE  r[j].live = live
    <3>1. j \in 1..n
      BY <2>1, <1>4, <1>10
    <3>2. r[j] = q[j + 1] /\ j + 1 \in 2..(n + 1)
      BY <3>1, <1>1, <1>3
    <3>3. QED
      BY <3>2, <2>1, <1>10
  <2>2. QED
    BY <2>1, <1>6, <1>10
<1>11. ASSUME ~L(q[1]), ~R(q[1]), ~R(g), root \in subs2 <=> root \in subs
       PROVE  Served(live, scopes, subs2, root, r)
  <2>1. CASE \E i \in 1..(n + 1) : L(q[i])
    BY <2>1, <1>8, <1>11
  <2>2. CASE \E i \in 1..(n + 1) :
               R(q[i]) /\ q[i].live = live /\ \A j \in (i + 1)..(n + 1) : R(q[j]) => q[j].live = live
    <3>1. PICK i \in 1..(n + 1) :
               R(q[i]) /\ q[i].live = live /\ \A j \in (i + 1)..(n + 1) : R(q[j]) => q[j].live = live
      BY <2>2
    <3>2. i \in 2..(n + 1)
      BY <3>1, <1>1, <1>11
    <3>3. QED
      BY <3>1, <3>2, <1>9, <1>11
  <2>3. CASE (root \in subs <=> live) /\ \A j \in 1..(n + 1) : R(q[j]) => q[j].live = live
    <3>1. \A j \in 2..(n + 1) : R(q[j]) => q[j].live = live
      BY <2>3, <1>1
    <3>2. QED
      BY <2>3, <3>1, <1>10, <1>11
  <2>4. QED
    BY <2>1, <2>2, <2>3, <1>5
<1>12. ASSUME q[1].kind = "reset", R(q[1]), ~R(g), root \in subs2 <=> q[1].live
       PROVE  Served(live, scopes, subs2, root, r)
  <2>1. CASE \E i \in 1..(n + 1) : L(q[i])
    BY <2>1, <1>7, <1>8, <1>12
  <2>2. CASE \E i \in 1..(n + 1) :
               R(q[i]) /\ q[i].live = live /\ \A j \in (i + 1)..(n + 1) : R(q[j]) => q[j].live = live
    <3>1. PICK i \in 1..(n + 1) :
               R(q[i]) /\ q[i].live = live /\ \A j \in (i + 1)..(n + 1) : R(q[j]) => q[j].live = live
      BY <2>2
    <3>2. CASE i = 1
      <4>1. \A j \in 2..(n + 1) : R(q[j]) => q[j].live = live
        BY <3>1, <3>2
      <4>2. root \in subs2 <=> live
        BY <3>1, <3>2, <1>12
      <4>3. QED
        BY <4>1, <4>2, <1>10, <1>12
    <3>3. CASE i # 1
      <4>1. i \in 2..(n + 1)
        BY <3>3, <1>1
      <4>2. QED
        BY <3>1, <4>1, <1>9, <1>12
    <3>4. QED
      BY <3>2, <3>3
  <2>3. CASE (root \in subs <=> live) /\ \A j \in 1..(n + 1) : R(q[j]) => q[j].live = live
    <3>1. \A j \in 2..(n + 1) : R(q[j]) => q[j].live = live
      BY <2>3, <1>1
    <3>2. q[1].live = live
      BY <2>3, <1>1, <1>12
    <3>3. root \in subs2 <=> live
      BY <3>2, <1>12
    <3>4. QED
      BY <3>1, <3>3, <1>10, <1>12
  <2>4. QED
    BY <2>1, <2>2, <2>3, <1>5
<1>13. QED
  BY <1>1, <1>11, <1>12 DEF L, R

LEMMA RememberedGood ==
  ASSUME NEW a, Good(a), NEW m \in 1..MaxMounts, NEW s \in 0..Len(a.native.scopes)
  PROVE  LET b == [a EXCEPT !.view.watched[m] = s]
         IN  Good(b) /\ Aside(a, b) /\ b.native = a.native /\ b.watchCalls = a.watchCalls
<1> DEFINE n == Len(a.native.scopes)
           w == [a.view.watched EXCEPT ![m] = s]
           v == [a.view EXCEPT !.watched = w]
           b == [a EXCEPT !.view = v]
<1>1. Typed(a) /\ DOMAIN a = Fields /\ a.view \in Views(n) /\ NativeTyped(a.native)
      /\ a.watchCalls \in Seq(Hops(n))
  BY DEF Good, Typed
<1>2. [a EXCEPT !.view.watched[m] = s] = b
  OBVIOUS
<1>3. w \in [1..MaxMounts -> 0..n]
  BY <1>1 DEF Views
<1> HIDE DEF w, n
<1>4. v \in Views(n) /\ v.mounted = a.view.mounted /\ v.mount = a.view.mount /\ v.live = a.view.live
  BY <1>1, <1>3 DEF Views
<1> HIDE DEF v
<1>5. /\ DOMAIN b = Fields /\ b.view = v /\ b.tree = a.tree /\ b.calls = a.calls
      /\ b.project = a.project /\ b.gaps = a.gaps /\ b.native = a.native /\ b.watchCalls = a.watchCalls
  BY <1>1 DEF Fields
<1> HIDE DEF b
<1>6. Aside(a, b)
  BY <1>4, <1>5 DEF Aside
<1>7. Good(b)
  BY <1>1, <1>4, <1>5, <1>6, AsideGood DEF n
<1>8. QED
  BY <1>2, <1>5, <1>6, <1>7

LEMMA WatchAnswerGood ==
  ASSUME Good(Now), Watched(Now), watchCalls # <<>>
  PROVE  LET b == WatchAnswered([Now EXCEPT !.watchCalls = Tail(@)], Head(watchCalls))
         IN  Good(b) /\ Aside(Now, b) /\ Watched(b)
<1> DEFINE n == Len(native.scopes)
           h == Head(watchCalls)
           q == Tail(watchCalls)
           x == [Now EXCEPT !.watchCalls = q]
           b == WatchAnswered(x, h)
           s == ShownScope(Now)
           root == native.scopes[s]
<1>1. /\ Typed(Now) /\ DOMAIN Now = Fields /\ view \in Views(n) /\ NativeTyped(native)
      /\ watchCalls \in Seq(Hops(n)) /\ n \in Nat /\ view.live \in BOOLEAN
  BY DEF Good, Typed, Now, NativeTyped, Views
<1>2. [Now EXCEPT !.watchCalls = Tail(@)] = x
  BY DEF Now
<1>3. h \in Hops(n) /\ q \in Seq(Hops(n))
  BY <1>1, HeadTailProperties
<1>4. h.kind \in {"leave", "reset", "enter"} /\ h.mount \in 1..MaxMounts /\ h.scope \in 0..n
      /\ h.live \in BOOLEAN /\ (h.kind # "leave" => h.scope # 0)
  BY <1>3 DEF Hops
<1> HIDE DEF h, q
<1>5. /\ DOMAIN x = Fields /\ x.view = view /\ x.native = native /\ x.watchCalls = q
      /\ Aside(Now, x)
  BY DEF Now, Fields, Aside
<1> HIDE DEF x, n
<1>6. Good(x)
  <2>1. view \in Views(Len(Now.native.scopes)) /\ NativeTyped(x.native)
        /\ q \in Seq(Hops(Len(Now.native.scopes)))
    BY <1>1, <1>3, <1>5 DEF n, Now
  <2>2. QED
    BY <2>1, <1>5, AsideGood
<1>7. \A y : Aside(Now, y) => /\ ShownScope(y) = s /\ y.native.scopes = native.scopes
                              /\ y.view.mounted = view.mounted /\ y.view.live = view.live
  BY DEF Aside, ShownScope, Now
<1> HIDE DEF s, root
<1>8. view.mounted /\ s # 0 => Served(view.live, native.scopes, native.subscribed, root, watchCalls)
  BY DEF Watched, Watching, s, root, Now
(* What is left to show of the step that the run takes.                     *)
<1> DEFINE Serves == view.mounted /\ s # 0 =>
                       Served(view.live, native.scopes, b.native.subscribed, root, b.watchCalls)
<1>9. SUFFICES Good(b) /\ Aside(x, b) /\ Serves
  <2>1. ASSUME Good(b), Aside(x, b), Serves
        PROVE  Good(b) /\ Aside(Now, b) /\ Watched(b)
    <3>1. Aside(Now, b)
      BY <1>5, <2>1, AsideBoth
    <3> HIDE DEF b
    <3>2. Watched(b)
      BY <3>1, <2>1, <1>7 DEF Watched, Watching, root
    <3>3. QED
      BY <2>1, <3>1, <3>2
  <2>2. QED
    BY <2>1, <1>2 DEF h
<1>10. CASE h.kind = "leave"
  <2> DEFINE y == [x EXCEPT !.view.watched[h.mount] = 0]
             e == Enter(y, h.mount, h.scope)
             g == [kind |-> "reset", mount |-> h.mount, scope |-> h.scope, live |-> view.live]
  <2>1. b = e
    BY <1>10 DEF WatchAnswered
  <2>2. x.native.scopes = native.scopes
    BY <1>5
  <2>3. h.scope \in 0..Len(x.native.scopes) /\ 0 \in 0..Len(x.native.scopes)
    BY <2>2, <1>1, <1>4 DEF n
  <2>4. Good(y) /\ Aside(x, y) /\ y.native = x.native /\ y.watchCalls = x.watchCalls
    BY <1>4, <1>6, <2>3, RememberedGood
  <2> HIDE DEF y
  <2>5. h.scope \in 0..Len(y.native.scopes) /\ y.view.live = view.live
    BY <2>3, <2>4, <1>5 DEF Aside
  <2>6. /\ Good(e) /\ Aside(y, e)
        /\ h.scope = 0 => e = y
        /\ h.scope # 0 => e.native.subscribed = y.native.subscribed \ {y.native.scopes[h.scope]}
                          /\ e.watchCalls = Append(y.watchCalls,
                               [kind |-> "reset", mount |-> h.mount, scope |-> h.scope, live |-> y.view.live])
    <3> DEFINE mm == h.mount
               sc == h.scope
    <3>1. mm \in 1..MaxMounts /\ sc \in 0..Len(y.native.scopes) /\ Good(y)
      BY <1>4, <2>4, <2>5
    <3>2. e = Enter(y, mm, sc)
      OBVIOUS
    <3> HIDE DEF mm, sc, e
    <3>3. /\ Good(Enter(y, mm, sc)) /\ Aside(y, Enter(y, mm, sc))
          /\ sc = 0 => Enter(y, mm, sc) = y
          /\ sc # 0 => /\ Enter(y, mm, sc).native.subscribed = y.native.subscribed \ {y.native.scopes[sc]}
                       /\ Enter(y, mm, sc).watchCalls = Append(y.watchCalls,
                            [kind |-> "reset", mount |-> mm, scope |-> sc, live |-> y.view.live])
      BY <3>1, EnterGood
    <3>4. QED
      BY <3>2, <3>3 DEF mm, sc
  <2>7. Good(b) /\ Aside(x, b)
    BY <2>1, <2>4, <2>6, AsideBoth
  <2>8. g.kind = "reset" /\ g.scope = h.scope /\ g.live = view.live
    OBVIOUS
  <2>9. /\ h.scope = 0 => b.native.subscribed = native.subscribed /\ b.watchCalls = q
        /\ h.scope # 0 => b.native.subscribed = native.subscribed \ {native.scopes[h.scope]}
                          /\ b.watchCalls = Append(q, g)
    BY <2>1, <2>4, <2>5, <2>6, <1>5
  <2>10. ~Resets(h, native.scopes, root)
    BY <1>10 DEF Resets
  <2> HIDE DEF g, b, e
  <2>11. ASSUME view.mounted, s # 0
         PROVE  Served(view.live, native.scopes, b.native.subscribed, root, b.watchCalls)
    <3>1. CASE h.scope = 0 \/ native.scopes[h.scope] # root
      <4>1. ~Leaves(h, native.scopes, root) /\ (h.scope # 0 => ~Resets(g, native.scopes, root))
        BY <3>1, <2>8 DEF Leaves, Resets
      <4>2. root \in b.native.subscribed <=> root \in native.subscribed
        BY <3>1, <2>9
      <4>3. CASE h.scope = 0
        <5>1. ~Resets(h, native.scopes, root) /\ b.watchCalls = Tail(watchCalls)
          BY <2>9, <2>10, <4>3 DEF q
        <5>2. QED
          BY <5>1, <4>1, <4>2, <2>11, <1>1, <1>8, ServedOn DEF h
      <4>4. CASE h.scope # 0
        <5>1. ~Resets(g, native.scopes, root) /\ b.watchCalls = Append(Tail(watchCalls), g)
          BY <2>9, <4>1, <4>4 DEF q
        <5>2. QED
          BY <5>1, <4>1, <4>2, <2>10, <2>11, <1>1, <1>8, ServedOn DEF h
      <4>5. QED
        BY <4>3, <4>4
    <3>2. CASE h.scope # 0 /\ native.scopes[h.scope] = root
      <4>1. Resets(g, native.scopes, root) /\ g.live = view.live /\ b.watchCalls = Append(q, g)
        BY <3>2, <2>8, <2>9 DEF Resets
      <4>2. Len(q) \in Nat /\ Len(b.watchCalls) = Len(q) + 1 /\ b.watchCalls[Len(q) + 1] = g
        <5> DEFINE U == Hops(n) \cup {g}
        <5>1. q \in Seq(U) /\ g \in U
          BY <1>3
        <5> HIDE DEF U
        <5>2. QED
          BY <5>1, <4>1, AppendProperties, LenProperties
      <4>3. Len(q) + 1 \in 1..Len(b.watchCalls) /\ \A j \in (Len(q) + 1 + 1)..Len(b.watchCalls) : FALSE
        BY <4>2
      <4>4. QED
        BY <4>1, <4>2, <4>3 DEF Served
    <3>3. QED
      BY <3>1, <3>2
  <2>12. QED
    BY <2>7, <2>11
<1>11. CASE h.kind = "reset"
  <2> DEFINE y == Subscribed(x, h.scope, h.live)
             e == Hop(y, "enter", h.mount, h.scope, h.live)
             g == [kind |-> "enter", mount |-> h.mount, scope |-> h.scope, live |-> h.live]
  <2>1. b = e
    BY <1>11 DEF WatchAnswered
  <2>2. h.scope \in 1..Len(x.native.scopes)
    BY <1>1, <1>4, <1>5, <1>11 DEF n
  <2>3. /\ Good(y) /\ Aside(x, y) /\ y.view = x.view /\ y.watchCalls = x.watchCalls
        /\ y.native.subscribed = IF h.live THEN x.native.subscribed \cup {x.native.scopes[h.scope]}
                                 ELSE x.native.subscribed \ {x.native.scopes[h.scope]}
    <3> DEFINE sc == h.scope
               l == h.live
    <3>1. sc \in 1..Len(x.native.scopes) /\ l \in BOOLEAN
      BY <1>4, <2>2
    <3>2. y = Subscribed(x, sc, l)
      OBVIOUS
    <3> HIDE DEF sc, l, y
    <3>3. /\ Good(Subscribed(x, sc, l)) /\ Aside(x, Subscribed(x, sc, l))
          /\ Subscribed(x, sc, l).view = x.view /\ Subscribed(x, sc, l).watchCalls = x.watchCalls
          /\ Subscribed(x, sc, l).native.subscribed = WatchedWith(x, sc, l)
      BY <3>1, <1>6, SubscribedGood
    <3>4. QED
      BY <3>2, <3>3 DEF sc, l, WatchedWith
  <2> HIDE DEF y
  <2>4. g \in Hops(n)
    BY <1>4, <1>11 DEF Hops
  <2>5. y.native.scopes = native.scopes
    BY <2>3, <1>5 DEF Aside
  <2>6. g \in Hops(Len(y.native.scopes))
    BY <2>4, <2>5 DEF n
  <2>7. /\ Good(e) /\ Aside(y, e) /\ e.native = y.native
        /\ e.watchCalls = Append(y.watchCalls, g)
    BY <2>3, <2>6, HopGood
  <2>8. g.kind = "enter"
    OBVIOUS
  <2> HIDE DEF e, g, b
  <2>9. Good(b) /\ Aside(x, b) /\ b.watchCalls = Append(q, g) /\ b.native.subscribed = y.native.subscribed
    BY <2>1, <2>3, <2>7, <1>5, AsideBoth
  <2>10. ~Resets(g, native.scopes, root) /\ ~Leaves(h, native.scopes, root)
    BY <2>8, <1>11 DEF Resets, Leaves
  <2>11. b.watchCalls = Append(Tail(watchCalls), g)
    BY <2>9 DEF q
  <2>12. ASSUME view.mounted, s # 0
         PROVE  Served(view.live, native.scopes, b.native.subscribed, root, b.watchCalls)
    <3>1. CASE native.scopes[h.scope] # root
      <4>1. ~Resets(h, native.scopes, root)
        BY <3>1 DEF Resets
      <4>2. root \in b.native.subscribed <=> root \in native.subscribed
        BY <3>1, <2>3, <2>9, <1>5
      <4>3. QED
        BY <4>1, <4>2, <2>10, <2>11, <2>12, <1>1, <1>8, ServedOn DEF h
    <3>2. CASE native.scopes[h.scope] = root
      <4>1. Resets(h, native.scopes, root)
        BY <3>2, <1>11 DEF Resets
      <4>2. root \in b.native.subscribed <=> h.live
        BY <3>2, <2>3, <2>9, <1>4, <1>5
      <4>3. QED
        BY <4>1, <4>2, <2>10, <2>11, <2>12, <1>1, <1>8, <1>11, ServedOn DEF h
    <3>3. QED
      BY <3>1, <3>2
  <2>13. QED
    BY <2>9, <2>12
<1>12. CASE h.kind = "enter"
  <2>1. b = [x EXCEPT !.view.watched[h.mount] = h.scope]
    BY <1>12 DEF WatchAnswered
  <2>2. h.scope \in 0..Len(x.native.scopes)
    BY <1>4, <1>5 DEF n
  <2>3. Good(b) /\ Aside(x, b) /\ b.native = x.native /\ b.watchCalls = x.watchCalls
    BY <2>1, <2>2, <1>4, <1>6, RememberedGood
  <2> HIDE DEF b
  <2>4. ~Resets(h, native.scopes, root) /\ ~Leaves(h, native.scopes, root)
    BY <1>12 DEF Resets, Leaves
  <2>5. b.watchCalls = Tail(watchCalls) /\ b.native.subscribed = native.subscribed
    BY <2>3, <1>5 DEF q
  <2>6. ASSUME view.mounted, s # 0
        PROVE  Served(view.live, native.scopes, b.native.subscribed, root, b.watchCalls)
    BY <2>4, <2>5, <2>6, <1>1, <1>8, ServedOn DEF h
  <2>7. QED
    BY <2>3, <2>6
<1>13. QED
  BY <1>4, <1>10, <1>11, <1>12

-----------------------------------------------------------------------------
(* What a step of the panel's surroundings keeps, the run's end included.    *)
Whole(a) == Good(a) /\ Watched(a) /\ Rooted(a.view, a.project, a.tree.root) /\ Promised(a)

(* A state whose panel is watched and rooted as another's.                   *)
LEMMA SameWhole ==
  ASSUME NEW a, Whole(a), NEW b, Good(b), Promised(b), Outside(a, b)
  PROVE  Whole(b)
BY DEF Whole, Outside, Watched, ShownScope

LEMMA AsideWhole ==
  ASSUME NEW a, NEW b, Good(b), Watched(b), Aside(a, b), Rooted(a.view, a.project, a.tree.root), Promised(a)
  PROVE  Whole(b)
<1>1. Promised(b)
  BY AsideSteady, SteadyPromised
<1>2. QED
  BY <1>1 DEF Whole, Aside, Rooted

LEMMA WatchNowWhole ==
  ASSUME NEW a, Good(a), Rooted(a.view, a.project, a.tree.root), Promised(a)
  PROVE  Whole(WatchNow(a)) /\ Aside(a, WatchNow(a))
BY WatchNowGood, AsideWhole DEF Rooted

(* The project in view becomes another.                                      *)
LEMMA NewProject ==
  ASSUME NEW a, Good(a), NEW p \in Projects(Len(a.native.scopes))
  PROVE  LET b == [a EXCEPT !.project = p]
         IN  /\ Good(b) /\ b.project = p /\ b.tree = a.tree /\ b.view = a.view /\ b.native = a.native
             /\ b.watchCalls = a.watchCalls /\ (Promised(a) => Promised(b))
<1> DEFINE b == [a EXCEPT !.project = p]
<1>1. Typed(a) /\ DOMAIN a = Fields
  BY DEF Good, Typed
<1>2. /\ DOMAIN b = Fields /\ b.project = p /\ b.tree = a.tree /\ b.view = a.view /\ b.native = a.native
      /\ b.watchCalls = a.watchCalls /\ b.calls = a.calls /\ b.gaps = a.gaps
  BY <1>1 DEF Fields
<1> HIDE DEF b
<1>3. Good(b)
  BY <1>2 DEF Good, Typed, Searching
<1>4. Promised(a) => Promised(b)
  <2>1. Steady(a, b)
    BY <1>2 DEF Steady
  <2>2. QED
    BY <2>1, SteadyPromised
<1>5. QED
  BY <1>2, <1>3, <1>4 DEF b

LEMMA SetWorkspaceGood ==
  ASSUME NEW a, Whole(a), NEW root \in Roots \cup {NoRoot}
  PROVE  LET b == SetWorkspace(a, root)
         IN  /\ Whole(b) /\ b.native.scopes = a.native.scopes /\ b.project.workspace = root
             /\ b.project.trunk = a.project.trunk /\ b.project.ready = a.project.ready
<1> DEFINE p == [a.project EXCEPT !.workspace = root]
           x == [a EXCEPT !.project = p]
           y == loadRoot(x)
           b == SetWorkspace(a, root)
<1>1. Good(a) /\ a.project \in Projects(Len(a.native.scopes)) /\ Watched(a)
      /\ Rooted(a.view, a.project, a.tree.root) /\ Promised(a)
  BY DEF Whole, Good, Typed
<1>2. /\ p \in Projects(Len(a.native.scopes)) /\ p.workspace = root
      /\ p.trunk = a.project.trunk /\ p.ready = a.project.ready
  BY <1>1 DEF Projects
<1>3. b = IF a.project.workspace = root \/ a.view.mount = 0 THEN x
          ELSE IF y.tree.root = a.tree.root THEN y ELSE WatchNow(y)
  BY DEF SetWorkspace
<1> HIDE DEF p, b
<1>4. /\ Good(x) /\ x.project = p /\ x.tree = a.tree /\ x.view = a.view /\ x.native = a.native
      /\ x.watchCalls = a.watchCalls /\ Promised(x)
  BY <1>1, <1>2, NewProject
<1> HIDE DEF x
<1>5. Good(y) /\ Inside(x, y) /\ y.tree.root = root /\ Promised(y)
  BY <1>2, <1>4, LoadRootGood, LoadRootPromised
<1> HIDE DEF y
<1>6. \A z : z.view = a.view /\ z.native = a.native /\ z.watchCalls = a.watchCalls /\ z.project = p
               => Watched(z)
  BY <1>1, <1>2 DEF Watched, ShownScope
<1>7. CASE a.project.workspace = root \/ a.view.mount = 0
  <2>1. Rooted(x.view, x.project, x.tree.root)
    BY <1>1, <1>2, <1>4, <1>7 DEF Rooted
  <2>2. Whole(x)
    BY <1>4, <1>6, <2>1 DEF Whole
  <2>3. QED
    BY <1>2, <1>3, <1>4, <1>7, <2>2 DEF b
<1>8. CASE ~(a.project.workspace = root \/ a.view.mount = 0)
  <2>1. /\ y.view = a.view /\ y.native = a.native /\ y.watchCalls = a.watchCalls /\ y.project = p
    BY <1>4, <1>5 DEF Inside
  <2>2. Rooted(y.view, y.project, y.tree.root)
    BY <1>1, <1>2, <1>5, <2>1 DEF Rooted
  <2>3. Whole(y)
    BY <1>5, <1>6, <2>1, <2>2 DEF Whole
  <2>4. Whole(WatchNow(y)) /\ Aside(y, WatchNow(y))
    BY <1>5, <2>2, WatchNowWhole
  <2>5. b = y \/ b = WatchNow(y)
    BY <1>3, <1>8
  <2>6. QED
    BY <1>2, <2>1, <2>3, <2>4, <2>5 DEF Aside, b
<1>9. QED
  BY <1>7, <1>8

LEMMA SetProjectGood ==
  ASSUME NEW a, Whole(a), NEW trunk \in Trunks \cup {NoTrunk},
         NEW ready \in [Trunks -> 0..Len(a.native.scopes)]
  PROVE  LET b == SetProject(a, trunk, ready)
         IN  /\ Whole(b) /\ b.native.scopes = a.native.scopes
             /\ b.project.workspace = a.project.workspace
             /\ b.project.trunk = trunk /\ b.project.ready = ready
<1> DEFINE p == [a.project EXCEPT !.trunk = trunk, !.ready = ready]
           x == [a EXCEPT !.project = p]
           b == SetProject(a, trunk, ready)
<1>1. Good(a) /\ a.project \in Projects(Len(a.native.scopes)) /\ Watched(a)
      /\ Rooted(a.view, a.project, a.tree.root) /\ DOMAIN a = Fields /\ Promised(a)
  BY DEF Whole, Good, Typed
<1>2. /\ p \in Projects(Len(a.native.scopes)) /\ p.workspace = a.project.workspace
      /\ p.trunk = trunk /\ p.ready = ready
  BY <1>1 DEF Projects
<1>3. [a EXCEPT !.project.trunk = trunk, !.project.ready = ready] = x
  BY <1>1 DEF Fields
<1>4. b = IF ShownScope(a) = ShownScope(x) THEN x ELSE WatchNow(x)
  BY <1>3 DEF SetProject
<1> HIDE DEF p, b
<1>5. /\ Good(x) /\ x.project = p /\ x.tree = a.tree /\ x.view = a.view /\ x.native = a.native
      /\ x.watchCalls = a.watchCalls /\ Promised(x)
  BY <1>1, <1>2, NewProject
<1> HIDE DEF x
<1>6. Rooted(x.view, x.project, x.tree.root)
  BY <1>1, <1>2, <1>5 DEF Rooted
<1>7. Whole(WatchNow(x)) /\ Aside(x, WatchNow(x))
  BY <1>5, <1>6, WatchNowWhole
<1>8. ShownScope(a) = ShownScope(x) => Whole(x)
  BY <1>1, <1>5, <1>6 DEF Whole, Watched
<1>9. QED
  BY <1>2, <1>4, <1>5, <1>7, <1>8 DEF Aside, b

-----------------------------------------------------------------------------
(* The end of every step.                                                    *)
LEMMA SearchEffectGood ==
  ASSUME NEW a, Good(a)
  PROVE  /\ Good(SearchEffect(Now, a)) /\ Outside(a, SearchEffect(Now, a))
         /\ Promised(a) => Promised(SearchEffect(Now, a))
<1>1. Good(loadDescendantsForSearch(a)) /\ Outside(a, loadDescendantsForSearch(a)) /\ Outside(a, a)
      /\ (Promised(a) => Promised(loadDescendantsForSearch(a)))
  <2>1. Typed(a) /\ Searchable(a) /\ (Promised(a) => Grounded(a))
    BY GoodSearchable DEF Good, Promised, Grounded
  <2>2. QED
    BY <2>1, SearchGood, SearchPromised DEF Outside
<1>2. SearchEffect(Now, a) \in {a, loadDescendantsForSearch(a)}
  BY DEF SearchEffect, ensureSearchTreeLoaded
<1>3. QED
  BY <1>1, <1>2

LEMMA BecomeGood ==
  ASSUME NEW a, Whole(a), Homed(a.project), Become(a)
  PROVE  Whole(Now') /\ Homed(project')
<1> DEFINE b == SearchEffect(Now, a)
           n == Now'
<1>1. Good(b) /\ Outside(a, b) /\ Promised(b)
  BY SearchEffectGood DEF Whole
<1>2. Whole(b) /\ Homed(b.project)
  BY <1>1, SameWhole DEF Outside
<1>3. /\ tree' = b.tree /\ view' = b.view /\ project' = b.project /\ native' = b.native
      /\ calls' = b.calls /\ watchCalls' = b.watchCalls /\ gaps' = b.gaps
  BY DEF Become
<1>4. /\ DOMAIN n = Fields /\ n.tree = tree' /\ n.view = view' /\ n.project = project' /\ n.native = native'
      /\ n.calls = calls' /\ n.watchCalls = watchCalls' /\ n.gaps = gaps'
  BY DEF Now, Fields
<1> HIDE DEF b, n
<1>5. Good(n)
  BY <1>2, <1>3, <1>4 DEF Whole, Good, Typed, Searching
<1>6. Watched(n) /\ Rooted(n.view, n.project, n.tree.root)
  BY <1>2, <1>3, <1>4 DEF Whole, Watched, ShownScope
<1>7. Homed(project')
  BY <1>2, <1>3
<1>8. Promised(n)
  <2>1. Steady(b, n) /\ Promised(b)
    BY <1>2, <1>3, <1>4 DEF Steady, Whole
  <2>2. QED
    BY <2>1, SteadyPromised
<1>9. QED
  BY <1>5, <1>6, <1>7, <1>8 DEF Whole, n

(* A step in the store ends well.                                            *)
LEMMA InvariantWhole ==
  ASSUME Invariant
  PROVE  Whole(Now) /\ Good(Now) /\ Homed(Now.project) /\ Typed(Now) /\ Promised(Now)
BY DEF Invariant, Whole, Good, Now

LEMMA StoreStep ==
  ASSUME Invariant, NEW a, Good(a), Promised(a), Outside(Now, a), Become(a)
  PROVE  Whole(Now') /\ Homed(project')
<1>1. Whole(a) /\ Homed(a.project)
  BY InvariantWhole, SameWhole DEF Outside
<1>2. QED
  BY <1>1, BecomeGood

LEMMA CountedOn ==
  ASSUME Counted, Gesture \/ UNCHANGED <<gestures, edits>>
  PROVE  Counted'
<1>1. MaxGestures \in Nat
  BY ExplorerBounds
<1>2. QED
  BY <1>1 DEF Counted, Gesture

LEMMA TheInvariant ==
  ASSUME Whole(Now'), Homed(project'), Counted'
  PROVE  Invariant'
<1> DEFINE n == Now'
<1>1. n.view = view' /\ n.project = project' /\ n.tree = tree'
  BY DEF Now
<1>2. Good(n) /\ Watched(n) /\ Rooted(n.view, n.project, n.tree.root) /\ Promised(n)
  BY DEF Whole
<1> HIDE DEF n
<1>3. Rooted(view, project, tree.root)'
  BY <1>1, <1>2
<1>4. Good(Now)' /\ Watched(Now)' /\ Promised(Now)'
  BY <1>2 DEF n
<1>5. QED
  BY <1>3, <1>4 DEF Invariant

(* The disk changes.                                                         *)
LEMMA ChangedGood ==
  ASSUME NEW a, Good(a), NEW root, NEW disk, disk \subseteq Paths
  PROVE  /\ Good(Changed(a, root, disk)) /\ Outside(a, Changed(a, root, disk))
         /\ Changed(a, root, disk).tree = a.tree /\ Changed(a, root, disk).calls = a.calls
         /\ Changed(a, root, disk).gaps = a.gaps /\ Changed(a, root, disk).native.disk = disk
<1> DEFINE e == IF root \in a.native.subscribed THEN a.native.events \cup {root} ELSE a.native.events
           x == [a.native EXCEPT !.disk = disk, !.events = e]
           b == Changed(a, root, disk)
<1>1. Typed(a) /\ DOMAIN a = Fields /\ NativeTyped(a.native) /\ DOMAIN a.native = NativeFields
  BY DEF Good, Typed, NativeTyped
<1>2. b = [a EXCEPT !.native = x]
  BY <1>1 DEF Changed, Fields, NativeFields
<1>3. e \subseteq a.native.subscribed
  BY <1>1 DEF NativeTyped
<1> HIDE DEF e
<1>4. /\ DOMAIN x = NativeFields /\ x.disk = disk /\ x.events = e
      /\ x.scopes = a.native.scopes /\ x.subscribed = a.native.subscribed
  BY <1>1 DEF NativeFields
<1> HIDE DEF x
<1>5. NativeTyped(x)
  BY <1>1, <1>3, <1>4 DEF NativeTyped
<1>6. /\ DOMAIN b = Fields /\ b.native = x /\ b.tree = a.tree /\ b.calls = a.calls /\ b.view = a.view
      /\ b.project = a.project /\ b.gaps = a.gaps /\ b.watchCalls = a.watchCalls
  BY <1>1, <1>2 DEF Fields
<1> HIDE DEF b
<1>7. Typed(b)
  BY <1>1, <1>4, <1>5, <1>6 DEF Typed
<1>8. Good(b) /\ Outside(a, b)
  BY <1>4, <1>6, <1>7 DEF Good, Searching, Outside
<1>9. QED
  BY <1>4, <1>6, <1>8 DEF b

(* Where folders have been no more than they were, or there is a gap.         *)
LEMMA ChangedPromised ==
  ASSUME NEW a, Good(a), Promised(a), NEW root, NEW disk, disk \subseteq Paths, Solid(disk),
         a.gaps \/ \A p \in disk : IsFolder(p) => p \in a.native.disk
  PROVE  Promised(Changed(a, root, disk))
<1> DEFINE b == Changed(a, root, disk)
<1>1. b.tree = a.tree /\ b.calls = a.calls /\ b.gaps = a.gaps /\ b.native.disk = disk
  BY ChangedGood
<1> HIDE DEF b
<1>2. Fresh(b)
  BY <1>1 DEF Promised, Fresh, Known
<1>3. Followed(b)
  BY <1>1 DEF Promised, Followed
<1>4. Promised(b)
  BY <1>1, <1>2, <1>3 DEF Promised
<1>5. QED
  BY <1>4 DEF b

(* Where a command is on its way that brings a refresh.                       *)
LEMMA UnfreshPromised ==
  ASSUME NEW a, Solid(a.native.disk), NEW c \in DOMAIN a.calls, Unfresh(c)
  PROVE  Promised(a)
BY DEF Promised, Fresh, Followed

LEMMA GapPromised ==
  ASSUME NEW a, Solid(a.native.disk), a.gaps
  PROVE  Promised(a)
BY DEF Promised, Fresh, Followed

LEMMA SolidLess ==
  ASSUME NEW disk, Solid(disk), NEW less, less \subseteq disk
  PROVE  Solid(less)
BY DEF Solid

(* What comes to the disk comes into a folder.                                *)
LEMMA SolidMore ==
  ASSUME NEW disk, Solid(disk), NEW e \in Paths, ~IsRoot(e),
         IsFolder(Front(e)), IsRoot(Front(e)) \/ Front(e) \in disk
  PROVE  Solid(disk \cup {e})
<1> DEFINE d == Front(e)
<1>1. Len(e) \in Nat \ {0} /\ Len(d) = Len(e) - 1 /\ \A i \in 1..(Len(e) - 1) : d[i] = e[i]
  BY AFront
<1>2. IsRoot(d) \/ (d[Len(d)] \in DirNames /\ d \in disk)
  BY DEF IsFolder, Last
<1> HIDE DEF d
<1>3. ASSUME NEW i \in 2..(Len(e) - 1)
      PROVE  e[i] \in DirNames
  <2>1. d[i] = e[i] /\ Len(d) # 1
    BY <1>1
  <2>2. d[Len(d)] \in DirNames /\ d \in disk
    BY <1>2, <2>1 DEF IsRoot
  <2>3. CASE i = Len(d)
    BY <2>1, <2>2, <2>3
  <2>4. CASE i # Len(d)
    <3>1. i \in 2..(Len(d) - 1)
      BY <1>1, <2>4
    <3>2. QED
      BY <2>1, <2>2, <3>1 DEF Solid
  <2>5. QED
    BY <2>3, <2>4
<1>4. QED
  BY <1>3 DEF Solid

(* What moves stays in folders, and a file that moves has nothing below it.   *)
LEMMA SolidMoved ==
  ASSUME NEW disk, Solid(disk), NEW p \in Paths, p \in disk, NEW from \in Paths, NEW to \in Paths,
         ~IsRoot(from), Front(from) = Front(to), IsFolder(from) <=> IsFolder(to), Under(p, from)
  PROVE  /\ \A i \in 2..(Len(Moved(p, from, to)) - 1) : Moved(p, from, to)[i] \in DirNames
         /\ ~IsFolder(from) => ~IsFolder(Moved(p, from, to))
<1> DEFINE m == Moved(p, from, to)
<1>1. /\ m \in Paths /\ Len(m) = Len(p) /\ Len(from) <= Len(p)
      /\ \A i \in 1..Len(p) : m[i] = IF i <= Len(from) THEN to[i] ELSE p[i]
  BY AMove
<1>2. Len(from) \in Nat \ {0} /\ Len(p) \in Nat \ {0} /\ Len(from) = Len(to)
  BY AFront, SameFront
<1>3. \A i \in 1..Len(from) : from[i] = p[i]
  BY APrefix
<1>4. \A i \in 1..(Len(from) - 1) : to[i] = from[i]
  <2>1. \A i \in 1..(Len(from) - 1) : Front(from)[i] = from[i]
    BY AFront
  <2>2. \A i \in 1..(Len(to) - 1) : Front(to)[i] = to[i]
    BY AFront
  <2>3. QED
    BY <1>2, <2>1, <2>2
<1>5. Len(from) # 1 /\ (IsFolder(from) <=> from[Len(from)] \in DirNames)
      /\ (IsFolder(to) <=> to[Len(to)] \in DirNames)
  BY <1>2 DEF IsFolder, IsRoot, Last
<1>6. \A i \in 2..(Len(p) - 1) : p[i] \in DirNames
  BY DEF Solid
<1> HIDE DEF m
<1>7. Len(from) < Len(p) => IsFolder(from)
  <2>1. SUFFICES ASSUME Len(from) < Len(p) PROVE IsFolder(from)
    OBVIOUS
  <2>2. Len(from) \in 2..(Len(p) - 1) /\ Len(from) \in 1..Len(from)
    BY <1>2, <1>5, <2>1
  <2>3. QED
    BY <1>3, <1>5, <1>6, <2>2
<1>8. ASSUME NEW i \in 2..(Len(m) - 1)
      PROVE  m[i] \in DirNames
  <2>1. i \in 2..(Len(p) - 1) /\ i \in 1..Len(p)
    BY <1>1, <1>2
  <2>2. m[i] = (IF i <= Len(from) THEN to[i] ELSE p[i]) /\ p[i] \in DirNames
    BY <1>1, <1>6, <2>1
  <2>3. CASE i < Len(from)
    <3>1. i \in 1..(Len(from) - 1) /\ i \in 1..Len(from) /\ i <= Len(from)
      BY <1>2, <2>1, <2>3
    <3>2. m[i] = p[i]
      BY <1>3, <1>4, <2>2, <3>1
    <3>3. QED
      BY <2>2, <3>2
  <2>4. CASE i = Len(from)
    <3>1. IsFolder(to) /\ m[i] = to[Len(to)]
      BY <1>2, <1>7, <2>1, <2>2, <2>4
    <3>2. QED
      BY <1>5, <3>1
  <2>5. CASE i > Len(from)
    BY <1>2, <2>1, <2>2, <2>5
  <2>6. QED
    BY <1>2, <2>1, <2>3, <2>4, <2>5
<1>9. ASSUME ~IsFolder(from)
      PROVE  ~IsFolder(m)
  <2>1. Len(p) = Len(from) /\ Len(m) = Len(to) /\ Len(p) \in 1..Len(p)
    BY <1>1, <1>2, <1>7, <1>9
  <2>2. m[Len(m)] = to[Len(to)] /\ Len(m) # 1
    BY <1>1, <1>2, <1>5, <2>1
  <2>3. QED
    BY <1>5, <1>9, <2>2 DEF IsFolder, IsRoot, Last
<1>10. QED
  BY <1>8, <1>9 DEF m

-----------------------------------------------------------------------------
(* The panel's surroundings, one step at a time.                             *)

LEMMA ActivateStep ==
  ASSUME Invariant, NEW t \in Trunks, Activate(t)
  PROVE  Invariant'
<1> DEFINE n == Len(native.scopes)
           none == [project.ready EXCEPT ![t] = 0]
           x == SetProject(Now, t, project.ready)
           y == SetProject(x, t, none)
           b == SetWorkspace(y, Folder[t])
<1>1. Whole(Now) /\ Counted /\ Now.native.scopes = native.scopes /\ Now.project = project
  BY InvariantWhole DEF Invariant, Now
<1>2. project.ready \in [Trunks -> 0..n] /\ n \in Nat
  BY DEF Invariant, Good, Typed, Now, Projects, NativeTyped
<1>3. none \in [Trunks -> 0..n] /\ t \in Trunks \cup {NoTrunk} /\ Folder[t] \in Roots
  BY <1>2, ExplorerNames
<1>4. Gesture /\ Become(b)
  BY DEF Activate
<1> HIDE DEF none
<1>5. Whole(x) /\ x.native.scopes = native.scopes
  <2>1. project.ready \in [Trunks -> 0..Len(Now.native.scopes)]
    BY <1>1, <1>2
  <2>2. QED
    BY <2>1, <1>1, <1>3, SetProjectGood
<1> HIDE DEF x
<1>6. Whole(y) /\ y.project.trunk = t
  <2>1. none \in [Trunks -> 0..Len(x.native.scopes)]
    BY <1>3, <1>5
  <2>2. QED
    BY <2>1, <1>3, <1>5, SetProjectGood
<1> HIDE DEF y
<1>7. Whole(b) /\ b.project.workspace = Folder[t]
  <2>1. Folder[t] \in Roots \cup {NoRoot}
    BY <1>3
  <2>2. QED
    BY <2>1, <1>6, SetWorkspaceGood
<1> HIDE DEF b
<1>8. Homed(b.project)
  BY <1>3, <1>7, ExplorerNames DEF Homed
<1>9. Whole(Now') /\ Homed(project') /\ Counted'
  BY <1>1, <1>4, <1>7, <1>8, BecomeGood, CountedOn
<1>10. QED
  BY <1>9, TheInvariant

LEMMA CloseProjectStep ==
  ASSUME Invariant, CloseProject
  PROVE  Invariant'
<1> DEFINE n == Len(native.scopes)
           x == SetProject(Now, NoTrunk, project.ready)
           b == SetWorkspace(x, NoRoot)
<1>1. Whole(Now) /\ Counted /\ Now.native.scopes = native.scopes /\ Now.project = project
  BY InvariantWhole DEF Invariant, Now
<1>2. project.ready \in [Trunks -> 0..Len(Now.native.scopes)] /\ NoTrunk \in Trunks \cup {NoTrunk}
  BY <1>1 DEF Invariant, Good, Typed, Now, Projects
<1>3. Gesture /\ Become(b)
  BY DEF CloseProject
<1>4. Whole(x) /\ x.project.trunk = NoTrunk
  BY <1>1, <1>2, SetProjectGood
<1> HIDE DEF x
<1>5. Whole(b) /\ b.project.trunk = NoTrunk
  <2>1. NoRoot \in Roots \cup {NoRoot}
    OBVIOUS
  <2>2. QED
    BY <2>1, <1>4, SetWorkspaceGood
<1> HIDE DEF b
<1>6. Homed(b.project)
  BY <1>5 DEF Homed
<1>7. Whole(Now') /\ Homed(project') /\ Counted'
  BY <1>1, <1>3, <1>5, <1>6, BecomeGood, CountedOn
<1>8. QED
  BY <1>7, TheInvariant

(* A checkout gets a scope of its own: those there are stay what they are.   *)
LEMMA ScopeAdded ==
  ASSUME NEW a, Whole(a), NEW root \in Roots, Len(a.native.scopes) + 1 <= MaxScopes
  PROVE  LET b == [a EXCEPT !.native.scopes = Append(@, root)]
         IN  /\ Whole(b) /\ Len(b.native.scopes) = Len(a.native.scopes) + 1
             /\ b.project = a.project /\ b.tree = a.tree
<1> DEFINE n == Len(a.native.scopes)
           scopes == Append(a.native.scopes, root)
           x == [a.native EXCEPT !.scopes = scopes]
           b == [a EXCEPT !.native = x]
           s == ShownScope(a)
<1>1. /\ Good(a) /\ Typed(a) /\ DOMAIN a = Fields /\ NativeTyped(a.native) /\ DOMAIN a.native = NativeFields
      /\ Watched(a) /\ Rooted(a.view, a.project, a.tree.root) /\ Promised(a)
  BY DEF Whole, Good, Typed, NativeTyped
<1>2. a.native.scopes \in Seq(Roots) /\ n \in Nat
  BY <1>1 DEF NativeTyped
<1>3. /\ scopes \in Seq(Roots) /\ Len(scopes) = n + 1
      /\ \A i \in 1..n : scopes[i] = a.native.scopes[i]
  BY <1>2
<1>4. [a EXCEPT !.native.scopes = Append(@, root)] = b
  OBVIOUS
<1> HIDE DEF scopes
<1>5. /\ DOMAIN x = NativeFields /\ x.disk = a.native.disk /\ x.events = a.native.events
      /\ x.scopes = scopes /\ x.subscribed = a.native.subscribed
  BY <1>1 DEF NativeFields
<1> HIDE DEF x
<1>6. NativeTyped(x)
  BY <1>1, <1>3, <1>5 DEF NativeTyped
<1>7. /\ DOMAIN b = Fields /\ b.native = x /\ b.tree = a.tree /\ b.calls = a.calls /\ b.view = a.view
      /\ b.project = a.project /\ b.gaps = a.gaps /\ b.watchCalls = a.watchCalls
  BY <1>1 DEF Fields
<1> HIDE DEF b
<1>8. 0..n \subseteq 0..(n + 1)
  BY <1>2
<1>9. Views(n) \subseteq Views(n + 1) /\ Projects(n) \subseteq Projects(n + 1) /\ Hops(n) \subseteq Hops(n + 1)
  <2>1. Views(n) \subseteq Views(n + 1)
    BY <1>8 DEF Views
  <2>2. Projects(n) \subseteq Projects(n + 1)
    BY <1>8 DEF Projects
  <2>3. Hops(n) \subseteq Hops(n + 1)
    BY <1>8 DEF Hops
  <2>4. QED
    BY <2>1, <2>2, <2>3
<1>10. a.view \in Views(n) /\ a.project \in Projects(n) /\ a.watchCalls \in Seq(Hops(n)) /\ s \in 0..n
  BY <1>1, TheShown DEF Typed
<1>11. a.watchCalls \in Seq(Hops(n + 1))
  BY <1>9, <1>10
<1>12. Good(b)
  <2>1. Len(b.native.scopes) = n + 1
    BY <1>3, <1>5, <1>7
  <2> HIDE DEF n
  <2>2. Typed(b)
    BY <1>1, <1>6, <1>7, <1>9, <1>10, <1>11, <2>1 DEF Typed
  <2>3. QED
    BY <1>1, <1>7, <2>2 DEF Good, Searching
<1>13. ShownScope(b) = s
  BY <1>7 DEF ShownScope
<1>14. ASSUME a.view.mounted, s # 0
       PROVE  Served(a.view.live, scopes, a.native.subscribed, scopes[s], a.watchCalls)
  <2> DEFINE q == a.watchCalls
             root_ == a.native.scopes[s]
  <2>1. Served(a.view.live, a.native.scopes, a.native.subscribed, root_, q)
    BY <1>1, <1>14 DEF Watched, Watching
  <2>2. scopes[s] = root_
    BY <1>3, <1>10, <1>14
  <2>3. Len(q) \in Nat /\ \A i \in 1..Len(q) : q[i] \in Hops(n)
    BY <1>10
  <2>4. ASSUME NEW i \in 1..Len(q)
        PROVE  /\ Leaves(q[i], scopes, root_) <=> Leaves(q[i], a.native.scopes, root_)
               /\ Resets(q[i], scopes, root_) <=> Resets(q[i], a.native.scopes, root_)
    <3> DEFINE h == q[i]
    <3>1. h.scope \in 0..n /\ (h.kind # "leave" => h.scope # 0)
      BY <2>3 DEF Hops
    <3> HIDE DEF h
    <3>2. h.scope # 0 => scopes[h.scope] = a.native.scopes[h.scope]
      BY <1>2, <1>3, <3>1
    <3>3. Leaves(h, scopes, root_) <=> Leaves(h, a.native.scopes, root_)
      BY <3>2 DEF Leaves
    <3>4. Resets(h, scopes, root_) <=> Resets(h, a.native.scopes, root_)
      BY <3>1, <3>2 DEF Resets
    <3>5. QED
      BY <3>3, <3>4 DEF h
  <2> HIDE DEF q, root_
  <2>5. Served(a.view.live, scopes, a.native.subscribed, root_, q)
    <3>1. \A i, j : i \in 1..Len(q) /\ j \in (i + 1)..Len(q) => j \in 1..Len(q)
      BY <2>3
    <3>2. QED
      BY <2>1, <2>4, <3>1 DEF Served
  <2>6. QED
    BY <2>2, <2>5 DEF q
<1>15. Watched(b)
  BY <1>5, <1>7, <1>13, <1>14 DEF Watched, Watching
<1>16. Promised(b)
  <2>1. Steady(a, b)
    BY <1>5, <1>7 DEF Steady
  <2>2. QED
    BY <1>1, <2>1, SteadyPromised
<1>17. QED
  BY <1>1, <1>3, <1>4, <1>5, <1>7, <1>12, <1>15, <1>16 DEF Whole

LEMMA ResolvedStep ==
  ASSUME Invariant, Resolved
  PROVE  Invariant'
<1> DEFINE t == project.trunk
           n == Len(native.scopes)
           s == n + 1
           here == Checkout[t]
           x == [Now EXCEPT !.native.scopes = Append(@, here)]
           y == SetWorkspace(x, here)
           r == [project.ready EXCEPT ![t] = s]
           b == SetProject(y, t, r)
<1>1. Whole(Now) /\ Counted /\ Now.native.scopes = native.scopes /\ Now.project = project
  BY InvariantWhole DEF Invariant, Now
<1>2. project.ready \in [Trunks -> 0..n] /\ n \in Nat /\ t \in Trunks \cup {NoTrunk}
  BY DEF Invariant, Good, Typed, Now, Projects, NativeTyped
<1>3. t \in Trunks /\ s <= MaxScopes /\ Become(b) /\ UNCHANGED <<gestures, edits>>
  BY <1>2 DEF Resolved, Move
<1>4. here \in Roots /\ r \in [Trunks -> 0..s]
  <2>1. here \in Roots
    BY <1>3, ExplorerNames
  <2>2. \A u \in Trunks : project.ready[u] \in 0..s /\ s \in 0..s
    BY <1>2
  <2>3. QED
    BY <1>2, <2>1, <2>2
<1> HIDE DEF r, here, t
<1>5. Whole(x) /\ Len(x.native.scopes) = s
  <2>1. Len(Now.native.scopes) + 1 <= MaxScopes /\ Len(Now.native.scopes) + 1 = s
    BY <1>1, <1>3
  <2> HIDE DEF s, n
  <2>2. QED
    BY <2>1, <1>1, <1>4, ScopeAdded
<1> HIDE DEF x, s
<1>6. Whole(y) /\ y.native.scopes = x.native.scopes /\ y.project.workspace = here
  <2>1. here \in Roots \cup {NoRoot}
    BY <1>4
  <2>2. QED
    BY <2>1, <1>5, SetWorkspaceGood
<1> HIDE DEF y
<1>7. Whole(b) /\ b.project.workspace = here
  <2>1. r \in [Trunks -> 0..Len(y.native.scopes)] /\ t \in Trunks \cup {NoTrunk}
    BY <1>3, <1>4, <1>5, <1>6
  <2>2. QED
    BY <2>1, <1>6, SetProjectGood
<1> HIDE DEF b
<1>8. Homed(b.project)
  BY <1>4, <1>7, ExplorerNames DEF Homed
<1>9. Whole(Now') /\ Homed(project') /\ Counted'
  BY <1>1, <1>3, <1>7, <1>8, BecomeGood, CountedOn
<1>10. QED
  BY <1>9, TheInvariant

(* The panel itself changes.                                                 *)
LEMMA NewView ==
  ASSUME NEW a, Good(a), NEW v \in Views(Len(a.native.scopes))
  PROVE  LET b == [a EXCEPT !.view = v]
         IN  /\ Good(b) /\ b.view = v /\ b.tree = a.tree /\ b.project = a.project /\ b.native = a.native
             /\ b.watchCalls = a.watchCalls /\ (Promised(a) => Promised(b))
<1> DEFINE b == [a EXCEPT !.view = v]
<1>1. Typed(a) /\ DOMAIN a = Fields
  BY DEF Good, Typed
<1>2. /\ DOMAIN b = Fields /\ b.view = v /\ b.tree = a.tree /\ b.project = a.project /\ b.native = a.native
      /\ b.watchCalls = a.watchCalls /\ b.calls = a.calls /\ b.gaps = a.gaps
  BY <1>1 DEF Fields
<1> HIDE DEF b
<1>3. Good(b)
  BY <1>2 DEF Good, Typed, Searching
<1>4. Promised(a) => Promised(b)
  <2>1. Steady(a, b)
    BY <1>2 DEF Steady
  <2>2. QED
    BY <2>1, SteadyPromised
<1>5. QED
  BY <1>2, <1>3, <1>4 DEF b

LEMMA TheView ==
  ASSUME Invariant
  PROVE  /\ Good(Now) /\ Promised(Now) /\ DOMAIN Now = Fields /\ Now.view = view /\ Now.native = native
         /\ Now.project = project /\ Now.tree = tree
         /\ view \in Views(Len(Now.native.scopes)) /\ Len(native.scopes) \in Nat
         /\ view.mount \in 0..MaxMounts /\ view.mounted \in BOOLEAN /\ MaxMounts \in Nat
         /\ Rooted(view, project, tree.root) /\ Homed(project) /\ Counted
BY ExplorerBounds DEF Invariant, Good, Typed, Now, Fields, Views, NativeTyped

LEMMA ShowPanelStep ==
  ASSUME Invariant, ShowPanel
  PROVE  Invariant'
<1> DEFINE m == view.mount + 1
           v == [view EXCEPT !.mounted = TRUE, !.mount = m]
           x == [Now EXCEPT !.view = v]
           y == loadRoot(x)
           b == WatchNow(y)
<1>1. /\ Good(Now) /\ Promised(Now) /\ DOMAIN Now = Fields /\ Now.view = view
      /\ view \in Views(Len(Now.native.scopes)) /\ Now.project = project /\ Homed(project) /\ Counted
  BY TheView
<1>2. [Now EXCEPT !.view.mounted = TRUE, !.view.mount = @ + 1] = x
  BY DEF Now
<1>3. Gesture /\ Become(b) /\ view.mount < MaxMounts
  BY <1>2 DEF ShowPanel
<1>4. m \in 1..MaxMounts
  BY <1>3, TheView
<1> HIDE DEF m
<1>5. v \in Views(Len(Now.native.scopes)) /\ v.mount = m
  <2>1. m \in 0..MaxMounts
    BY <1>4
  <2>2. QED
    BY <2>1, <1>1 DEF Views
<1> HIDE DEF v
<1>6. Good(x) /\ Promised(x) /\ x.view = v /\ x.project = project
  BY <1>1, <1>5, NewView
<1> HIDE DEF x
<1>7. Good(y) /\ Promised(y) /\ y.view = v /\ y.project = project /\ y.tree.root = project.workspace
  BY <1>6, LoadRootGood, LoadRootPromised DEF Inside
<1> HIDE DEF y
<1>8. m # 0
  BY <1>4
<1>9. Rooted(y.view, y.project, y.tree.root)
  BY <1>5, <1>7, <1>8 DEF Rooted
<1>10. Whole(b) /\ Homed(b.project)
  BY <1>1, <1>7, <1>9, WatchNowWhole DEF Aside
<1> HIDE DEF b
<1>11. Whole(Now') /\ Homed(project') /\ Counted'
  BY <1>1, <1>3, <1>10, BecomeGood, CountedOn
<1>12. QED
  BY <1>11, TheInvariant

LEMMA HidePanelStep ==
  ASSUME Invariant, HidePanel
  PROVE  Invariant'
<1> DEFINE w == view.watched[view.mount]
           v == [view EXCEPT !.mounted = FALSE]
           x == [Now EXCEPT !.view = v]
           b == IF w = 0 THEN x ELSE Unsubscribed(x, w)
<1>1. /\ Good(Now) /\ Promised(Now) /\ DOMAIN Now = Fields /\ Now.view = view /\ Now.native = native /\ Now.tree = tree
      /\ view \in Views(Len(Now.native.scopes)) /\ Now.project = project /\ Homed(project) /\ Counted
      /\ Rooted(view, project, tree.root)
  BY TheView
<1>2. [Now EXCEPT !.view.mounted = FALSE] = x
  BY DEF Now
<1>3. Become(b) /\ UNCHANGED <<gestures, edits>> /\ view.mounted
  BY <1>2 DEF HidePanel, Move
<1>4. w \in 0..Len(native.scopes)
  <2>1. view.mount \in 0..MaxMounts /\ view.mount # 0 /\ MaxMounts \in Nat
    BY <1>1, <1>3, TheView DEF Rooted
  <2>2. view.mount \in 1..MaxMounts /\ view.watched \in [1..MaxMounts -> 0..Len(native.scopes)]
    BY <1>1, <2>1 DEF Views
  <2>3. QED
    BY <2>2
<1> HIDE DEF w
<1>5. v \in Views(Len(Now.native.scopes)) /\ ~v.mounted /\ v.mount = view.mount
  BY <1>1 DEF Views
<1> HIDE DEF v
<1>6. Good(x) /\ Promised(x) /\ x.view = v /\ x.project = project /\ x.native = native /\ x.tree = tree
  BY <1>1, <1>5, NewView
<1> HIDE DEF x
<1>7. Good(b) /\ Promised(b) /\ b.view = v /\ b.project = project /\ b.tree = tree
  <2>1. CASE w = 0
    BY <1>6, <2>1
  <2>2. CASE w # 0
    <3>1. w \in 1..Len(x.native.scopes)
      BY <1>4, <1>6, <2>2, TheView
    <3>2. QED
      BY <3>1, <2>2, <1>6, UnsubscribedGood, AsideSteady, SteadyPromised DEF Aside
  <2>3. QED
    BY <2>1, <2>2
<1> HIDE DEF b
<1>8. Whole(b) /\ Homed(b.project)
  BY <1>1, <1>5, <1>7 DEF Whole, Watched, Watching, Rooted
<1>9. Whole(Now') /\ Homed(project') /\ Counted'
  BY <1>1, <1>3, <1>8, BecomeGood, CountedOn
<1>10. QED
  BY <1>9, TheInvariant

LEMMA SetAutoRefreshStep ==
  ASSUME Invariant, SetAutoRefresh
  PROVE  Invariant'
<1> DEFINE v == [view EXCEPT !.live = ~@]
           x == [Now EXCEPT !.view = v]
           b == WatchNow(x)
<1>1. /\ Good(Now) /\ Promised(Now) /\ DOMAIN Now = Fields /\ Now.view = view /\ Now.tree = tree
      /\ view \in Views(Len(Now.native.scopes)) /\ Now.project = project /\ Homed(project) /\ Counted
      /\ Rooted(view, project, tree.root)
  BY TheView
<1>2. [Now EXCEPT !.view.live = ~@] = x
  BY DEF Now
<1>3. Gesture /\ Become(b)
  BY <1>2 DEF SetAutoRefresh
<1>4. v \in Views(Len(Now.native.scopes)) /\ v.mounted = view.mounted /\ v.mount = view.mount
  BY <1>1 DEF Views
<1> HIDE DEF v
<1>5. Good(x) /\ Promised(x) /\ x.view = v /\ x.project = project /\ x.tree = tree
  BY <1>1, <1>4, NewView
<1> HIDE DEF x
<1>6. Rooted(x.view, x.project, x.tree.root)
  BY <1>1, <1>4, <1>5 DEF Rooted
<1>7. Whole(b) /\ Homed(b.project)
  BY <1>1, <1>5, <1>6, WatchNowWhole DEF Aside
<1> HIDE DEF b
<1>8. Whole(Now') /\ Homed(project') /\ Counted'
  BY <1>1, <1>3, <1>7, BecomeGood, CountedOn
<1>9. QED
  BY <1>8, TheInvariant

-----------------------------------------------------------------------------
(* What the user does in the panel, one step at a time.                      *)

LEMMA MoveStep ==
  ASSUME Invariant, NEW a, Good(a), Promised(a), Outside(Now, a), Move(a)
  PROVE  Invariant'
<1>1. Counted /\ Become(a) /\ UNCHANGED <<gestures, edits>>
  BY DEF Invariant, Move
<1>2. Whole(Now') /\ Homed(project') /\ Counted'
  BY <1>1, StoreStep, CountedOn
<1>3. QED
  BY <1>2, TheInvariant

LEMMA ClickStep ==
  ASSUME Invariant, NEW a, Good(a), Promised(a), Outside(Now, a), Click(a)
  PROVE  Invariant'
<1>1. Counted /\ Become(a) /\ Gesture
  BY DEF Invariant, Click
<1>2. Whole(Now') /\ Homed(project') /\ Counted'
  BY <1>1, StoreStep, CountedOn
<1>3. QED
  BY <1>2, TheInvariant

LEMMA CancelledGood ==
  ASSUME Invariant
  PROVE  /\ Good(cancelRename(Now)) /\ Outside(Now, cancelRename(Now)) /\ Inside(Now, cancelRename(Now))
         /\ \A f \in TreeFields \ {"renaming"} : cancelRename(Now).tree[f] = tree[f]
         /\ Steady(Now, cancelRename(Now)) /\ Promised(cancelRename(Now))
<1>1. Good(Now) /\ Promised(Now) /\ Now.tree = tree /\ NoPath \in Paths \cup {NoPath}
  BY TheView
<1>2. Steady(Now, cancelRename(Now))
  BY <1>1, RenamingSteady DEF cancelRename
<1>3. QED
  BY <1>1, <1>2, RenamingGood, SteadyPromised DEF cancelRename

LEMMA SendGood ==
  ASSUME NEW a, Good(a), NEW c, CallTyped(c), c.op \notin {"list", "search"}
  PROVE  /\ Good(Send(a, c)) /\ Outside(a, Send(a, c))
         /\ Steady(a, Send(a, c)) /\ c \in DOMAIN Send(a, c).calls
<1> DEFINE b == Send(a, c)
<1>1. Typed(a)
  BY DEF Good
<1>2. /\ b.tree = a.tree /\ Typed(b) /\ Inside(a, b) /\ Outside(a, b)
      /\ DOMAIN b.calls = DOMAIN a.calls \cup {c}
  BY <1>1, SendTyped
<1> HIDE DEF b
<1>3. Good(b)
  BY <1>2 DEF Good, Searching, Tokens, Loading, Indexing
<1>4. Steady(a, b)
  BY <1>2 DEF Steady, Inside
<1>5. QED
  BY <1>2, <1>3, <1>4 DEF b

LEMMA GapsGood ==
  ASSUME NEW a, Good(a), NEW g
  PROVE  LET b == [a EXCEPT !.gaps = @ \/ g]
         IN  /\ Good(b) /\ Outside(a, b) /\ b.tree = a.tree /\ b.native = a.native /\ b.calls = a.calls
             /\ (g => b.gaps) /\ (Promised(a) => Promised(b))
<1> DEFINE b == [a EXCEPT !.gaps = @ \/ g]
<1>1. Typed(a) /\ DOMAIN a = Fields
  BY DEF Good, Typed
<1>2. /\ DOMAIN b = Fields /\ b.tree = a.tree /\ b.native = a.native /\ b.calls = a.calls
      /\ b.view = a.view /\ b.project = a.project /\ b.watchCalls = a.watchCalls
      /\ b.gaps = (a.gaps \/ g)
  BY <1>1 DEF Fields
<1>3. b.gaps \in BOOLEAN
  BY <1>2, Zenon
<1> HIDE DEF b
<1>4. Typed(b)
  BY <1>1, <1>2, <1>3 DEF Typed
<1>5. Good(b) /\ Outside(a, b)
  BY <1>2, <1>4 DEF Good, Searching, Outside
<1>6. (a.gaps => b.gaps) /\ (g => b.gaps)
  BY <1>2, Zenon
<1>7. Promised(a) => Promised(b)
  <2>1. Fresh(a) => Fresh(b)
    BY <1>2, <1>6 DEF Fresh
  <2>2. Followed(a) => Followed(b)
    BY <1>2, <1>6 DEF Followed
  <2>3. QED
    BY <1>2, <2>1, <2>2 DEF Promised
<1>8. QED
  BY <1>2, <1>5, <1>6, <1>7 DEF b

LEMMA TheCached ==
  ASSUME Invariant
  PROVE  /\ Cached \subseteq Paths
         /\ \A p \in Targets : p \in Paths
         /\ \A p \in Targets : IsFolder(p) => p \in Folders
<1>1. Cache(tree.children)
  BY DEF Invariant, Good, Typed, TreeTyped, Now
<1>2. Cached \subseteq Paths
  BY <1>1 DEF Cached, Cache, Entries
<1>3. \A root \in Roots : <<root>> \in Paths
  BY RootFolder DEF Folders
<1>4. QED
  BY <1>2, <1>3 DEF Targets, Folders

LEMMA ToggleStep ==
  ASSUME Invariant, NEW p \in Cached, toggleExpanded(p)
  PROVE  Invariant'
<1> DEFINE a == cancelRename(Now)
           more == [a.tree EXCEPT !.expanded = @ \cup {p}]
           less == [a.tree EXCEPT !.expanded = @ \ {p}]
           opened == [a EXCEPT !.tree = more]
           closed == [a EXCEPT !.tree = less]
           b == IF p \in tree.expanded THEN closed
                ELSE IF p \in DOMAIN tree.children THEN opened ELSE loadDir(opened, p, nothing)
<1>1. Good(a) /\ Outside(Now, a) /\ Promised(a)
  BY CancelledGood
<1>2. p \in Folders
  BY TheCached DEF toggleExpanded, Folders
<1>3. [a EXCEPT !.tree.expanded = @ \cup {p}] = opened /\ [a EXCEPT !.tree.expanded = @ \ {p}] = closed
  OBVIOUS
<1>4. Click(b)
  BY <1>3 DEF toggleExpanded
<1> HIDE DEF a
<1>5. TreeTyped(a.tree) /\ DOMAIN a.tree = TreeFields
  BY <1>1 DEF Good, Typed, TreeTyped
<1>6. ASSUME NEW e, e \subseteq Folders
      PROVE  /\ TreeTyped([a.tree EXCEPT !.expanded = e]) /\ Shows(a.tree, [a.tree EXCEPT !.expanded = e])
             /\ [a.tree EXCEPT !.expanded = e].children = a.tree.children
  <2> DEFINE u == [a.tree EXCEPT !.expanded = e]
  <2>1. DOMAIN u = TreeFields /\ u.expanded = e /\ \A f \in TreeFields \ {"expanded"} : u[f] = a.tree[f]
    BY <1>5 DEF TreeFields
  <2> HIDE DEF u
  <2>2. /\ u.root = a.tree.root /\ u.children = a.tree.children /\ u.renaming = a.tree.renaming
        /\ u.query = a.tree.query /\ u.loading = a.tree.loading
        /\ u.indexing = a.tree.indexing /\ u.token = a.tree.token
    BY <2>1 DEF TreeFields
  <2>3. TreeTyped(u) /\ Shows(a.tree, u)
    BY <1>5, <1>6, <2>1, <2>2 DEF TreeTyped, Shows
  <2>4. QED
    BY <2>2, <2>3 DEF u
<1>7. /\ TreeTyped(more) /\ Shows(a.tree, more) /\ TreeTyped(less) /\ Shows(a.tree, less)
      /\ more.children = a.tree.children /\ less.children = a.tree.children
  <2>1. a.tree.expanded \cup {p} \subseteq Folders /\ a.tree.expanded \ {p} \subseteq Folders
    BY <1>2, <1>5 DEF TreeTyped
  <2>2. QED
    BY <2>1, <1>6
<1> HIDE DEF more, less
<1>8. /\ Good(opened) /\ Outside(a, opened) /\ Good(closed) /\ Outside(a, closed)
      /\ Inside(a, opened) /\ opened.calls = a.calls /\ opened.tree = more
      /\ Inside(a, closed) /\ closed.calls = a.calls /\ closed.tree = less
  BY <1>1, <1>7, ShownGood
<1> HIDE DEF opened, closed
<1>9. Steady(a, opened) /\ Steady(a, closed)
  BY <1>7, <1>8 DEF Inside, Shows, Steady
<1>10. /\ Good(loadDir(opened, p, nothing)) /\ Outside(opened, loadDir(opened, p, nothing))
      /\ Steady(opened, loadDir(opened, p, nothing))
  BY <1>2, <1>8, NothingThen, LoadDir, LoadDirSteady
<1>11. Good(b) /\ Outside(a, b) /\ Promised(b)
  BY <1>1, <1>8, <1>10, <1>9, OutsideBoth, SteadyBoth, SteadyPromised
<1> HIDE DEF b
<1>12. Outside(Now, b)
  BY <1>1, <1>11, OutsideBoth
<1>13. QED
  BY <1>4, <1>11, <1>12, ClickStep

LEMMA StartRenameStep ==
  ASSUME Invariant, NEW p \in Cached, startRename(p)
  PROVE  Invariant'
<1>1. Good(Now) /\ Promised(Now) /\ p \in Paths \cup {NoPath}
  BY TheView, TheCached
<1>2. Click([Now EXCEPT !.tree.renaming = p])
  BY DEF startRename
<1>3. /\ Good([Now EXCEPT !.tree.renaming = p]) /\ Outside(Now, [Now EXCEPT !.tree.renaming = p])
      /\ Promised([Now EXCEPT !.tree.renaming = p])
  BY <1>1, RenamingGood, RenamingSteady, SteadyPromised
<1>4. QED
  BY <1>2, <1>3, ClickStep

LEMMA CancelRenameStep ==
  ASSUME Invariant, CancelRename
  PROVE  Invariant'
<1>1. Move(cancelRename(Now))
  BY DEF CancelRename
<1>2. QED
  BY <1>1, CancelledGood, MoveStep

LEMMA RefreshStep ==
  ASSUME Invariant, handleRefresh
  PROVE  Invariant'
<1> DEFINE a == cancelRename(Now)
<1>1. Good(a) /\ Promised(a) /\ Outside(Now, a) /\ Click(refresh(a))
  BY CancelledGood DEF handleRefresh
<1> HIDE DEF a
<1>2. Good(refresh(a)) /\ Outside(Now, refresh(a)) /\ Promised(refresh(a))
  BY <1>1, RefreshGood, RefreshPromised, OutsideBoth DEF Promised
<1>3. QED
  BY <1>1, <1>2, ClickStep

(* A command that changes the disk, or finds that it cannot.                 *)
LEMMA ChangeSent ==
  ASSUME NEW a, Good(a), NEW ok \in BOOLEAN, NEW root, NEW disk, disk \subseteq Paths, NEW c, CallTyped(c),
         c.op \notin {"list", "search"}, Promised(a),
         ok => Solid(disk) /\ (Unfresh(c) \/ \A p \in disk : IsFolder(p) => p \in a.native.disk)
  PROVE  LET b == Send(IF ok THEN Changed(a, root, disk) ELSE a, c)
         IN  Good(b) /\ Outside(a, b) /\ Promised(b)
<1> DEFINE x == IF ok THEN Changed(a, root, disk) ELSE a
           b == Send(x, c)
<1>1. Good(x) /\ Outside(a, x)
  BY ChangedGood DEF Outside
<1>2. Solid(x.native.disk)
  BY ChangedGood DEF Promised
<1>3. Promised(x) \/ Unfresh(c)
  BY ChangedPromised
<1> HIDE DEF x
<1>4. Good(b) /\ Outside(a, b) /\ Steady(x, b) /\ c \in DOMAIN b.calls
  BY <1>1, SendGood, OutsideBoth
<1> HIDE DEF b
<1>5. Promised(b)
  <2>1. Solid(b.native.disk)
    BY <1>2, <1>4 DEF Steady
  <2>2. QED
    BY <1>3, <1>4, <2>1, SteadyPromised, UnfreshPromised
<1>6. QED
  BY <1>4, <1>5 DEF b, x

LEMMA ChangeStep ==
  ASSUME Invariant, NEW ok \in BOOLEAN, NEW disk, disk \subseteq Paths, ok => Solid(disk), Change(ok, disk)
  PROVE  Invariant'
<1> DEFINE a == cancelRename(Now)
           c == [op |-> "change", ok |-> ok]
           b == Send(IF ok THEN Changed(a, tree.root, disk) ELSE a, c)
<1>1. Good(a) /\ Promised(a) /\ Outside(Now, a) /\ Click(b)
  BY CancelledGood DEF Change
<1>2. CallTyped(c) /\ c.op \notin {"list", "search"} /\ (ok => Unfresh(c))
  BY DEF CallTyped, Unfresh
<1> HIDE DEF a, c
<1>3. Good(b) /\ Outside(a, b) /\ Promised(b)
  BY <1>1, <1>2, ChangeSent
<1> HIDE DEF b
<1>4. QED
  BY <1>1, <1>3, OutsideBoth, ClickStep

LEMMA TheDisk ==
  ASSUME Invariant
  PROVE  /\ native.disk \subseteq Paths /\ tree.root \in Roots \cup {NoRoot}
         /\ tree.renaming \in Paths \cup {NoPath} /\ Solid(native.disk)
BY DEF Invariant, Good, Typed, NativeTyped, TreeTyped, Promised, Now

LEMMA DeleteStep ==
  ASSUME Invariant, NEW p \in Cached, handleDelete(p)
  PROVE  Invariant'
<1> DEFINE disk == {q \in native.disk : ~Under(q, p)}
           ok == OnDisk(Now, p)
<1>1. disk \subseteq Paths /\ Solid(disk)
  BY TheDisk, SolidLess
<1>2. ok \in BOOLEAN
  BY Zenon DEF OnDisk
<1>3. Change(ok, disk)
  BY DEF handleDelete
<1> HIDE DEF ok, disk
<1>4. QED
  BY <1>1, <1>2, <1>3, ChangeStep

(* A path that is not a root's has a neighbour of each name.                 *)
LEMMA ANeighbour ==
  ASSUME NEW p \in Paths, ~IsRoot(p), NEW name \in Names
  PROVE  /\ Append(Front(p), name) \in Paths /\ Front(Append(Front(p), name)) = Front(p)
         /\ Last(Append(Front(p), name)) = name /\ ~IsRoot(Append(Front(p), name))
<1>1. Front(p) \in Paths /\ Len(Front(p)) < MaxLength
  <2>1. Len(p) \in 1..MaxLength /\ MaxLength \in Nat
    BY ThePaths, ExplorerBounds
  <2>2. Front(p) \in Paths /\ Len(Front(p)) = Len(p) - 1
    BY AFront
  <2>3. QED
    BY <2>1, <2>2
<1>2. QED
  BY <1>1, AnEntry

LEMMA DuplicateStep ==
  ASSUME Invariant, NEW p \in Cached, NEW name \in Names, handleDuplicate(p, name)
  PROVE  Invariant'
<1> DEFINE to == Append(Front(p), name)
           copies == {Moved(q, p, to) : q \in {q \in native.disk : Under(q, p)}}
           disk == native.disk \cup copies
           ok == OnDisk(Now, p) /\ ~OnDisk(Now, to)
<1>1. p \in Paths /\ ~IsRoot(p) /\ (Last(p) \in DirNames <=> name \in DirNames)
  BY TheCached DEF handleDuplicate, Row
<1>2. to \in Paths /\ Front(to) = Front(p) /\ Last(to) = name /\ ~IsRoot(to)
  BY <1>1, ANeighbour
<1>3. IsFolder(p) <=> IsFolder(to)
  BY <1>1, <1>2 DEF IsFolder
<1>4. ok \in BOOLEAN
  OBVIOUS
<1>5. Change(ok, disk)
  BY DEF handleDuplicate
<1> HIDE DEF ok, to
<1>6. disk \subseteq Paths
  <2>1. \A q \in native.disk : q \in Paths
    BY TheDisk
  <2>2. \A q \in native.disk : Under(q, p) => Moved(q, p, to) \in Paths
    BY <2>1, <1>1, <1>2, AMove
  <2>3. QED
    BY <2>1, <2>2
<1>7. Solid(disk)
  <2>1. Solid(native.disk) /\ \A q \in native.disk : q \in Paths
    BY TheDisk
  <2>2. \A q \in native.disk : Under(q, p) =>
          \A i \in 2..(Len(Moved(q, p, to)) - 1) : Moved(q, p, to)[i] \in DirNames
    BY <2>1, <1>1, <1>2, <1>3, SolidMoved
  <2>3. Solid(copies)
    BY <2>2 DEF Solid
  <2> HIDE DEF copies
  <2>4. QED
    BY <2>1, <2>3 DEF Solid
<1> HIDE DEF disk
<1>8. QED
  BY <1>4, <1>5, <1>6, <1>7, ChangeStep

LEMMA DropStep ==
  ASSUME Invariant, NEW p \in Targets, NEW name \in FileNames, handleExternalDrop(p, name)
  PROVE  Invariant'
<1> DEFINE to == Append(p, name)
           disk == native.disk \cup {to}
           ok == OnDisk(Now, p) /\ ~OnDisk(Now, to)
<1>1. p \in Paths /\ Len(p) < MaxLength /\ name \in Names /\ IsFolder(p)
  BY TheCached DEF handleExternalDrop, Names
<1>2. to \in Paths /\ Front(to) = p /\ ~IsRoot(to)
  BY <1>1, AnEntry
<1>3. ok => IsRoot(p) \/ p \in native.disk
  BY DEF OnDisk, Now
<1>4. ok \in BOOLEAN
  OBVIOUS
<1>5. Change(ok, disk)
  BY DEF handleExternalDrop
<1> HIDE DEF ok, to
<1>6. disk \subseteq Paths /\ (ok => Solid(disk))
  BY <1>1, <1>2, <1>3, TheDisk, SolidMore
<1> HIDE DEF disk
<1>7. QED
  BY <1>4, <1>5, <1>6, ChangeStep

LEMMA CommitRenameStep ==
  ASSUME Invariant, NEW name \in Names, commitRename(name)
  PROVE  Invariant'
<1> DEFINE from == tree.renaming
           to == Append(Front(from), name)
           ok == OnDisk(Now, from) /\ ~OnDisk(Now, to)
           disk == {IF Under(p, from) THEN Moved(p, from, to) ELSE p : p \in native.disk}
           c == [op |-> "rename", from |-> from, to |-> to, ok |-> ok]
           b == Send(IF ok THEN Changed(Now, tree.root, disk) ELSE Now, c)
<1>1. from \in Paths /\ ~IsRoot(from) /\ (Last(from) \in DirNames <=> name \in DirNames)
  BY TheDisk DEF commitRename, Row
<1>2. Move(b)
  BY DEF commitRename
<1>3. ok \in BOOLEAN
  OBVIOUS
<1>4. /\ to \in Paths /\ Front(to) = Front(from)
      /\ Last(to) = name /\ ~IsRoot(to)
  BY <1>1, ANeighbour
<1>5. c.op = "rename" /\ c.from = from /\ c.to = to /\ c.ok = ok
  OBVIOUS
<1> HIDE DEF ok, to, from
<1>6. disk \subseteq Paths
  <2>1. \A q \in native.disk : q \in Paths
    BY TheDisk
  <2>2. \A q \in native.disk : Under(q, from) => Moved(q, from, to) \in Paths
    BY <2>1, <1>1, <1>4, AMove
  <2>3. QED
    BY <2>1, <2>2
<1>7. IsFolder(from) <=> IsFolder(to)
  BY <1>1, <1>4 DEF IsFolder
<1>8. Solid(disk) /\ (~IsFolder(from) => \A p \in disk : IsFolder(p) => p \in native.disk)
  <2>1. Solid(native.disk) /\ \A q \in native.disk : q \in Paths
    BY TheDisk
  <2>2. \A q \in native.disk : Under(q, from) =>
          /\ \A i \in 2..(Len(Moved(q, from, to)) - 1) : Moved(q, from, to)[i] \in DirNames
          /\ ~IsFolder(from) => ~IsFolder(Moved(q, from, to))
    BY <2>1, <1>1, <1>4, <1>7, SolidMoved
  <2>3. QED
    BY <2>1, <2>2 DEF Solid
<1> HIDE DEF disk, c
<1>9. CallTyped(c) /\ c.op \notin {"list", "search"}
  BY <1>1, <1>4, <1>5, <1>7 DEF CallTyped
<1>10. ok => Unfresh(c) \/ \A p \in disk : IsFolder(p) => p \in Now.native.disk
  BY <1>5, <1>7, <1>8, TheView DEF Unfresh
<1>11. Good(b) /\ Outside(Now, b) /\ Promised(b)
  BY <1>3, <1>6, <1>9, <1>8, <1>10, TheView, ChangeSent
<1> HIDE DEF b
<1>12. QED
  BY <1>2, <1>11, MoveStep

LEMMA NewStep ==
  ASSUME Invariant, NEW dir \in Targets, NEW name \in Names, handleNew(dir, name)
  PROVE  Invariant'
<1> DEFINE entry == Append(dir, name)
           a == cancelRename(Now)
           g == [a EXCEPT !.gaps = @ \/ IsFolder(entry)]
           ok == Head(dir) = tree.root /\ OnDisk(Now, dir) /\ ~OnDisk(Now, entry)
           disk == native.disk \cup {entry}
           c == [op |-> "create", root |-> tree.root, dir |-> dir, entry |-> entry, ok |-> ok]
           b == Send(IF ok THEN Changed(g, tree.root, disk) ELSE a, c)
<1>1. dir \in Folders /\ Len(dir) < MaxLength /\ dir \in Paths /\ IsFolder(dir)
  BY TheCached DEF handleNew, Target, Folders
<1>2. Click(b)
  BY DEF handleNew
<1>3. entry \in Paths /\ Front(entry) = dir /\ ~IsRoot(entry)
  BY <1>1, AnEntry
<1>4. ok => IsRoot(dir) \/ dir \in native.disk
  BY DEF OnDisk, Now
<1>5. disk \subseteq Paths /\ (ok => Solid(disk))
  BY <1>1, <1>3, <1>4, TheDisk, SolidMore
<1>6. c.op = "create" /\ c.dir = dir /\ c.entry = entry
  OBVIOUS
<1>7. Good(a) /\ Outside(Now, a) /\ Promised(a) /\ a.native.disk = native.disk
  BY CancelledGood, TheView DEF Steady
<1> DEFINE folder == IsFolder(entry)
<1>8. g = [a EXCEPT !.gaps = @ \/ folder]
  OBVIOUS
<1>9. \A p \in disk : IsFolder(p) => folder \/ p \in native.disk
  OBVIOUS
<1> HIDE DEF ok, entry, c, a, folder, g
<1>10. Good(g) /\ Outside(a, g) /\ Promised(g) /\ (folder => g.gaps) /\ g.native = a.native
  BY <1>7, <1>8, GapsGood
<1> HIDE DEF disk
<1>11. ok => Promised(Changed(g, tree.root, disk))
  BY <1>7, <1>10, <1>5, <1>9, ChangedPromised
<1>12. CallTyped(c) /\ c.op \notin {"list", "search"}
  BY <1>1, <1>3, <1>6 DEF CallTyped
<1>13. Good(b) /\ Outside(Now, b) /\ Promised(b)
  <2> DEFINE x == IF ok THEN Changed(g, tree.root, disk) ELSE a
  <2>1. Good(x) /\ Outside(Now, x) /\ Promised(x)
    <3>1. Good(Changed(g, tree.root, disk)) /\ Outside(g, Changed(g, tree.root, disk))
      BY <1>10, <1>5, ChangedGood
    <3>2. Outside(Now, Changed(g, tree.root, disk))
      BY <3>1, <1>7, <1>10, OutsideBoth
    <3>3. QED
      BY <3>1, <3>2, <1>7, <1>11
  <2> HIDE DEF x
  <2>2. Good(Send(x, c)) /\ Outside(Now, Send(x, c)) /\ Promised(Send(x, c))
    BY <2>1, <1>12, SendGood, OutsideBoth, SteadyPromised
  <2>3. QED
    BY <2>2 DEF x
<1> HIDE DEF b
<1>14. QED
  BY <1>2, <1>13, ClickStep

LEMMA QueryStep ==
  ASSUME Invariant, NEW query \in BOOLEAN, setSearchQuery(query)
  PROVE  Invariant'
<1> DEFINE t == [tree EXCEPT !.query = query]
           asked == [Now EXCEPT !.tree = t]
           u == [t EXCEPT !.token = @ + 1, !.indexing = FALSE]
           unasked == [Now EXCEPT !.tree = u]
           b == IF ~query THEN unasked ELSE IF tree.query THEN asked ELSE loadDescendantsForSearch(asked)
<1>1. /\ Good(Now) /\ Typed(Now) /\ TreeTyped(tree) /\ DOMAIN tree = TreeFields /\ Now.tree = tree
      /\ Now.calls = calls /\ Promised(Now)
  BY DEF Invariant, Good, Typed, TreeTyped, Now
<1>2. [Now EXCEPT !.tree.query = query] = asked /\ [asked EXCEPT !.tree.token = @ + 1, !.tree.indexing = FALSE] = unasked
  BY <1>1 DEF Now
<1>3. Click(b)
  BY <1>2 DEF setSearchQuery
<1>4. tree.root # NoRoot
  BY <1>3, TheView DEF Click, Rooted, Homed
<1>5. /\ DOMAIN t = TreeFields /\ t.root = tree.root /\ t.children = tree.children /\ t.expanded = tree.expanded
      /\ t.renaming = tree.renaming /\ t.loading = tree.loading
      /\ t.indexing = tree.indexing /\ t.token = tree.token
  BY <1>1 DEF TreeFields
<1>6. t.query = query
  BY <1>1, Zenon DEF TreeFields
<1>7. /\ DOMAIN u = TreeFields /\ u.root = t.root /\ u.children = t.children /\ u.expanded = t.expanded
      /\ u.renaming = t.renaming /\ u.loading = t.loading /\ u.token = t.token + 1
  BY <1>5 DEF TreeFields
<1>8. u.query = t.query /\ u.indexing = FALSE
  <2>1. "query" \in DOMAIN t /\ "indexing" \in DOMAIN t
    BY <1>5 DEF TreeFields
  <2> DEFINE w == [t EXCEPT !.token = @ + 1]
  <2>2. DOMAIN w = DOMAIN t /\ w.query = t.query
    BY <2>1
  <2>3. u = [w EXCEPT !.indexing = FALSE]
    OBVIOUS
  <2> HIDE DEF w, u, t
  <2>4. QED
    BY <2>1, <2>2, <2>3, Zenon
<1> HIDE DEF t, u
<1>9. TreeTyped(t) /\ TreeTyped(u)
  <2>1. t.query \in BOOLEAN /\ u.query \in BOOLEAN /\ u.indexing \in BOOLEAN
    BY <1>6, <1>8, Zenon
  <2>2. t.indexing \in BOOLEAN /\ Cache(tree.children) /\ t.token \in Nat
    BY <1>1, <1>5 DEF TreeTyped
  <2>3. TreeTyped(t)
    BY <1>1, <1>5, <2>1, <2>2 DEF TreeTyped
  <2>4. u.token \in Nat
    BY <1>7, <2>2
  <2>5. QED
    BY <1>5, <1>7, <2>1, <2>3, <2>4 DEF TreeTyped
<1>10. /\ Inside(Now, asked) /\ asked.tree = t /\ asked.calls = calls
       /\ Inside(Now, unasked) /\ unasked.tree = u /\ unasked.calls = calls
  BY <1>1, NewTree
<1> HIDE DEF asked, unasked
<1>11. CallsTyped(calls)
  BY <1>1 DEF Typed
<1>12. Typed(asked) /\ Outside(Now, asked) /\ Typed(unasked) /\ Outside(Now, unasked)
  BY <1>1, <1>5, <1>7, <1>9, <1>10, <1>11, InsideTyped
<1>13. Searchable(asked)
  BY <1>1, <1>4, <1>5, <1>10 DEF Good, Searching, Tokens, Searchable
<1>14. Grounded(asked) /\ Grounded(unasked)
  <2>1. Grounded(Now)
    BY <1>1 DEF Promised, Grounded
  <2>2. QED
    BY <1>1, <1>5, <1>7, <1>10, <2>1, GroundedOn DEF Inside
<1>15. CASE ~query
  <2>1. ~u.query /\ ~u.indexing
    BY <1>6, <1>8, <1>15
  <2>2. \A c \in DOMAIN calls : c.op = "search" => c.token <= u.token
    <3>1. \A c \in DOMAIN calls : c.op = "search" => c.token <= tree.token /\ c.token \in Nat
      BY <1>1, <1>11 DEF Good, Searching, Tokens, CallsTyped, CallTyped
    <3>2. tree.token \in Nat /\ u.token = tree.token + 1
      BY <1>1, <1>5, <1>7 DEF TreeTyped
    <3>3. QED
      BY <3>1, <3>2
  <2>3. Loading(u.loading, DOMAIN calls)
    BY <1>1, <1>5, <1>7 DEF Good, Searching
  <2>4. Searchable(unasked)
    BY <2>1, <2>2, <2>3, <1>10 DEF Searchable
  <2>5. Good(unasked)
    BY <2>1, <2>4, <1>10, <1>12, UnaskedGood
  <2>6. Click(unasked)
    BY <1>3, <1>15
  <2>7. Promised(unasked)
    BY <1>10, <1>14, <2>1, UnaskedPromised
  <2>8. QED
    BY <2>5, <2>6, <2>7, <1>12, ClickStep
<1>16. CASE query /\ tree.query
  <2>1. t.query = tree.query
    BY <1>1, <1>6, <1>16 DEF TreeTyped
  <2>2. Good(asked)
    BY <1>1, <1>5, <1>10, <1>12, <2>1 DEF Good, Searching
  <2>3. Click(asked)
    BY <1>3, <1>16
  <2>4. Steady(Now, asked)
    BY <1>1, <1>5, <1>10, <2>1 DEF Steady, Inside
  <2>5. QED
    BY <1>1, <2>2, <2>3, <2>4, <1>12, ClickStep, SteadyPromised
<1>17. CASE query /\ ~tree.query
  <2> DEFINE d == loadDescendantsForSearch(asked)
  <2>1. Good(d) /\ Outside(asked, d) /\ Promised(d)
    BY <1>12, <1>13, <1>14, SearchGood, SearchPromised
  <2>2. Click(d)
    BY <1>3, <1>17
  <2> HIDE DEF d
  <2>3. Outside(Now, d)
    BY <2>1, <1>12, OutsideBoth
  <2>4. QED
    BY <2>1, <2>2, <2>3, ClickStep
<1>18. QED
  BY <1>15, <1>16, <1>17

-----------------------------------------------------------------------------
(* Events and answers, one step at a time.                                   *)

LEMMA OnChangedStep ==
  ASSUME Invariant, NEW root \in Roots, OnChanged(root)
  PROVE  Invariant'
<1> DEFINE x == [native EXCEPT !.events = @ \ {root}]
           seen == [Now EXCEPT !.native = x]
           b == IF view.mounted /\ root = tree.root THEN refresh(seen) ELSE seen
<1>1. /\ Good(Now) /\ Typed(Now) /\ NativeTyped(native) /\ DOMAIN native = NativeFields /\ Now.native = native
      /\ Promised(Now)
  BY DEF Invariant, Good, Typed, NativeTyped, Now
<1>2. [Now EXCEPT !.native.events = @ \ {root}] = seen
  BY DEF Now
<1>3. Move(b)
  BY <1>2 DEF OnChanged
<1>4. /\ DOMAIN x = NativeFields /\ x.disk = native.disk /\ x.events = native.events \ {root}
      /\ x.scopes = native.scopes /\ x.subscribed = native.subscribed
  BY <1>1 DEF NativeFields
<1> HIDE DEF x
<1>5. NativeTyped(x)
  BY <1>1, <1>4 DEF NativeTyped
<1>6. /\ DOMAIN seen = Fields /\ seen.native = x /\ seen.tree = Now.tree /\ seen.calls = Now.calls
      /\ seen.view = Now.view /\ seen.project = Now.project /\ seen.gaps = Now.gaps
      /\ seen.watchCalls = Now.watchCalls
  BY <1>1 DEF Now, Fields
<1> HIDE DEF seen
<1>7. Typed(seen)
  BY <1>1, <1>4, <1>5, <1>6 DEF Typed
<1>8. Good(seen) /\ Outside(Now, seen)
  BY <1>1, <1>4, <1>6, <1>7 DEF Good, Searching, Outside
<1>9. Promised(seen)
  <2>1. Steady(Now, seen)
    BY <1>1, <1>4, <1>6 DEF Steady
  <2>2. QED
    BY <1>1, <2>1, SteadyPromised
<1>10. Good(b) /\ Outside(Now, b) /\ Promised(b)
  BY <1>8, <1>9, RefreshGood, RefreshPromised, OutsideBoth DEF Promised
<1> HIDE DEF b
<1>11. QED
  BY <1>3, <1>10, MoveStep

LEMMA EditStep ==
  ASSUME Invariant, NEW p \in Paths, EditOutside(p)
  PROVE  Invariant'
<1> DEFINE folder == IsFolder(p)
           g == [Now EXCEPT !.gaps = @ \/ folder]
           disk == IF p \in native.disk THEN {q \in native.disk : ~Under(q, p)} ELSE native.disk \cup {p}
           b == Changed(g, Head(p), disk)
<1>1. Become(b) /\ edits < MaxEdits /\ edits' = edits + 1 /\ UNCHANGED gestures
  BY DEF EditOutside
<1>2. disk \subseteq Paths
  BY TheDisk
<1>3. Solid(disk)
  <2>1. ~IsRoot(p) /\ IsFolder(Front(p)) /\ (IsRoot(Front(p)) \/ Front(p) \in native.disk)
    BY DEF EditOutside, OnDisk, Now
  <2>2. Solid(native.disk \cup {p})
    BY <2>1, TheDisk, SolidMore
  <2>3. QED
    BY <2>2, SolidLess
<1>4. \A q \in disk : IsFolder(q) => folder \/ q \in native.disk
  OBVIOUS
<1> HIDE DEF disk, folder
<1>5. Good(g) /\ Outside(Now, g) /\ Promised(g) /\ (folder => g.gaps) /\ g.native = native
  BY TheView, GapsGood
<1> HIDE DEF g
<1>6. Promised(b)
  BY <1>2, <1>5, <1>3, <1>4, ChangedPromised
<1>7. Good(b) /\ Outside(Now, b) /\ Promised(b)
  BY <1>2, <1>5, <1>6, ChangedGood, OutsideBoth
<1> HIDE DEF b
<1>8. Whole(Now') /\ Homed(project')
  BY <1>1, <1>7, StoreStep
<1>9. Counted'
  BY <1>1, ExplorerBounds DEF Invariant, Counted
<1>10. QED
  BY <1>8, <1>9, TheInvariant

(* Without a call that nothing promised depends on.                          *)
LEMMA DroppedPromised ==
  ASSUME NEW a, Promised(a), NEW c, ~Unfresh(c), ~Again(c),
         ~(c.op = "search" /\ a.tree.query /\ c.token = a.tree.token),
         NEW b, b.tree = a.tree, b.gaps = a.gaps, b.native.disk = a.native.disk,
         DOMAIN a.calls \ {c} \subseteq DOMAIN b.calls
  PROVE  Promised(b)
<1>1. Fresh(b)
  BY DEF Promised, Fresh
<1>2. Followed(b)
  BY DEF Promised, Followed, Covered
<1>3. QED
  BY <1>1, <1>2 DEF Promised

(* An answer of a command that nothing in the tree waits for.                *)
LEMMA RunningGood ==
  ASSUME Invariant, NEW c \in DOMAIN calls, c.op \notin {"list", "search"}
  PROVE  /\ Good(Running(c)) /\ Outside(Now, Running(c)) /\ Inside(Now, Running(c))
         /\ ~Unfresh(c) => Promised(Running(c))
<1> DEFINE b == Running(c)
<1>1. Good(Now) /\ Now.tree = tree /\ Now.calls = calls /\ Typed(Now)
  BY DEF Invariant, Good, Now
<1>2. /\ b.tree = tree /\ Typed(b) /\ Outside(Now, b) /\ Inside(Now, b)
      /\ DOMAIN b.calls \subseteq DOMAIN calls /\ DOMAIN calls \ {c} \subseteq DOMAIN b.calls
  BY <1>1, RunningTyped
<1> HIDE DEF b
<1>3. Good(b)
  BY <1>1, <1>2 DEF Good, Searching, Tokens, Loading, Indexing
<1>4. ~Unfresh(c) => Promised(b)
  BY <1>1, <1>2, TheView, DroppedPromised DEF Inside, Again
<1>5. QED
  BY <1>2, <1>3, <1>4 DEF b

LEMMA TheCall ==
  ASSUME Invariant, NEW c \in DOMAIN calls
  PROVE  CallTyped(c)
BY DEF Invariant, Good, Typed, CallsTyped, Now

LEMMA ChangeAnswerStep ==
  ASSUME Invariant, NEW c \in DOMAIN calls, ChangeAnswered(c)
  PROVE  Invariant'
<1> DEFINE b == IF c.ok THEN refresh(Running(c)) ELSE Running(c)
<1>1. Move(b) /\ c.op \notin {"list", "search"}
  BY DEF ChangeAnswered
<1>2. Good(Running(c)) /\ Outside(Now, Running(c)) /\ (~c.ok => Promised(Running(c)))
  BY <1>1, RunningGood DEF Unfresh, ChangeAnswered
<1>3. Solid(Running(c).native.disk)
  BY <1>1, RunningGood, TheView DEF Inside, Promised
<1>4. Good(b) /\ Outside(Now, b) /\ Promised(b)
  BY <1>2, <1>3, RefreshGood, RefreshPromised, OutsideBoth
<1> HIDE DEF b
<1>5. QED
  BY <1>1, <1>4, MoveStep

LEMMA CreateAnswerStep ==
  ASSUME Invariant, NEW c \in DOMAIN calls, CreateAnswered(c)
  PROVE  Invariant'
<1> DEFINE k == [nothing EXCEPT !.then = "rename", !.target = c.entry]
<1>1. c.op = "create"
  BY DEF CreateAnswered
<1>2. Good(Running(c)) /\ Outside(Now, Running(c)) /\ Promised(Running(c))
  BY <1>1, RunningGood DEF Unfresh
<1>3. c.dir \in Folders /\ c.entry \in Paths
  BY <1>1, TheCall DEF CallTyped
<1>4. k \in Continuation /\ k.rest \subseteq Folders
  BY <1>3 DEF nothing, Continuation
<1>5. CASE c.ok
  <2>1. PICK b \in loadThen(Running(c), c.dir, k) : Move(b)
    BY <1>5 DEF CreateAnswered
  <2> HIDE DEF k
  <2>2. Good(b) /\ Outside(Running(c), b) /\ Promised(b)
    BY <1>2, <1>3, <1>4, ThenGood, ThenPromised
  <2>3. Outside(Now, b)
    BY <1>2, <2>2, OutsideBoth
  <2>4. QED
    BY <2>1, <2>2, <2>3, MoveStep
<1>6. CASE ~c.ok
  <2>1. Move(Running(c))
    BY <1>6 DEF CreateAnswered
  <2>2. QED
    BY <1>2, <2>1, MoveStep
<1>7. QED
  BY <1>5, <1>6

(* A listing comes: the folder has what was found.                           *)
Grown(children, dir, found, more) ==
  /\ DOMAIN more = DOMAIN children \cup {dir} /\ more[dir] = found
  /\ \A d \in DOMAIN children \ {dir} : more[d] = children[d]

LEMMA ListedTyped ==
  ASSUME NEW a, Typed(a), NEW dir \in Folders, NEW found, found \subseteq Entries(dir)
  PROVE  LET b == Listed(a, dir, found)
         IN  /\ Inside(a, b) /\ Typed(b) /\ Outside(a, b) /\ b.calls = a.calls
             /\ \A f \in TreeFields \ {"children"} : b.tree[f] = a.tree[f]
             /\ Grown(a.tree.children, dir, found, b.tree.children)
<1> DEFINE ch == [d \in DOMAIN a.tree.children \cup {dir} |-> IF d = dir THEN found ELSE a.tree.children[d]]
           t == [a.tree EXCEPT !.children = ch]
           b == [a EXCEPT !.tree = t]
<1>1. TreeTyped(a.tree) /\ DOMAIN a.tree = TreeFields /\ DOMAIN a = Fields /\ Cache(a.tree.children)
      /\ CallsTyped(a.calls)
  BY DEF Typed, TreeTyped
<1>2. Listed(a, dir, found) = b
  BY <1>1 DEF Listed, Fields, TreeFields
<1>3. Cache(ch)
  <2>1. DOMAIN ch = DOMAIN a.tree.children \cup {dir}
    OBVIOUS
  <2>2. \A d \in DOMAIN ch : ch[d] \subseteq Entries(d)
    BY <1>1 DEF Cache
  <2>3. DOMAIN ch \subseteq Folders
    BY <1>1, <2>1 DEF Cache
  <2> HIDE DEF ch
  <2>4. QED
    BY <2>2, <2>3 DEF Cache
<1>4. Grown(a.tree.children, dir, found, ch)
  BY DEF Grown
<1> HIDE DEF ch
<1>5. DOMAIN t = TreeFields /\ t.children = ch /\ \A f \in TreeFields \ {"children"} : t[f] = a.tree[f]
  BY <1>1 DEF TreeFields
<1> HIDE DEF t
<1>6. /\ t.root = a.tree.root /\ t.renaming = a.tree.renaming /\ t.expanded = a.tree.expanded
      /\ t.query = a.tree.query /\ t.loading = a.tree.loading
      /\ t.indexing = a.tree.indexing /\ t.token = a.tree.token
  BY <1>5 DEF TreeFields
<1>7. TreeTyped(t)
  BY <1>1, <1>3, <1>5, <1>6 DEF TreeTyped
<1>8. Inside(a, b) /\ b.tree = t /\ b.calls = a.calls
  BY NewTree
<1> HIDE DEF b
<1>9. Typed(b) /\ Outside(a, b)
  BY <1>1, <1>6, <1>7, <1>8, InsideTyped
<1>10. QED
  BY <1>2, <1>5, <1>8, <1>9, <1>4

(* What an answer leaves of the calls, whatever it notes of gaps.            *)
LEMMA NotedTyped ==
  ASSUME Invariant, NEW c \in DOMAIN calls
  PROVE  /\ Typed(Noted(c)) /\ Outside(Now, Noted(c)) /\ Noted(c).tree = tree
         /\ Noted(c).native = native
         /\ ~Noted(c).gaps => ~gaps /\ c.list.ok /\ c.list = List(Now, Head(c.dir), c.dir)
         /\ DOMAIN Noted(c).calls \subseteq DOMAIN calls
         /\ DOMAIN calls \ {c} \subseteq DOMAIN Noted(c).calls
<1> DEFINE r == Running(c)
           g == ~c.list.ok \/ c.list # List(Now, Head(c.dir), c.dir)
           b == Noted(c)
<1>1. /\ r.tree = tree /\ Typed(r) /\ Outside(Now, r) /\ Inside(Now, r)
      /\ DOMAIN r.calls \subseteq DOMAIN calls /\ DOMAIN calls \ {c} \subseteq DOMAIN r.calls
  BY RunningTyped DEF Invariant, Good
<1>2. r.native = native /\ r.gaps = gaps
  BY <1>1 DEF Inside, Now
<1>3. b = [r EXCEPT !.gaps = @ \/ ~c.list.ok \/ c.list # List(Now, Head(c.dir), c.dir)]
  BY DEF Noted
<1>4. DOMAIN r = Fields
  BY <1>1 DEF Typed
<1> HIDE DEF r, g
<1>5. /\ DOMAIN b = Fields /\ b.tree = r.tree /\ b.native = r.native /\ b.calls = r.calls
      /\ b.view = r.view /\ b.project = r.project /\ b.watchCalls = r.watchCalls
      /\ b.gaps = (r.gaps \/ ~c.list.ok \/ c.list # List(Now, Head(c.dir), c.dir))
  BY <1>3, <1>4 DEF Fields
<1>6. b.gaps \in BOOLEAN
  BY <1>5, Zenon
<1>7. ~b.gaps => ~gaps /\ c.list.ok /\ c.list = List(Now, Head(c.dir), c.dir)
  BY <1>5, <1>2, Zenon
<1> HIDE DEF b
<1>8. Typed(b)
  BY <1>1, <1>5, <1>6 DEF Typed
<1>9. Outside(Now, b)
  BY <1>1, <1>5 DEF Outside
<1>10. QED
  BY <1>1, <1>5, <1>8, <1>9, <1>2, <1>7 DEF b

(* What a walk from the root comes to once a folder is listed: what it came  *)
(* to before, and what it comes to through that folder.                     *)
LEMMA GrownBelow ==
  ASSUME NEW children, NEW dir \in Folders, NEW found, NEW more, Grown(children, dir, found, more),
         NEW root \in Roots, NEW p \in Unread(more, root), Under(p, dir)
  PROVE  \E q \in Searched(found) : Under(p, q)
<1>1. /\ p \in Paths /\ p \notin DOMAIN more
      /\ \A i \in 1..(Len(p) - 1) : Goes(more, p, i)
  BY ReachedFromRoot
<1>2. dir \in Paths /\ p # dir
  BY <1>1 DEF Folders, Grown
<1>3. Len(dir) \in 1..Len(p) /\ SubSeq(p, 1, Len(dir)) = dir
  BY <1>1, <1>2, APrefixIs
<1>4. Len(p) \in Nat /\ Len(dir) \in Nat
  BY <1>1, <1>2, AFront
<1>5. Len(dir) # Len(p)
  <2>1. SUFFICES ASSUME Len(dir) = Len(p) PROVE FALSE
    OBVIOUS
  <2>2. \A i \in 1..Len(dir) : dir[i] = p[i]
    BY <1>1, <1>2, APrefix
  <2>3. p = dir
    BY <1>1, <1>2, <2>1, <2>2, SamePath
  <2>4. QED
    BY <1>2, <2>3
<1>6. Len(dir) \in 1..(Len(p) - 1) /\ Len(dir) + 1 \in 1..Len(p)
  BY <1>3, <1>4, <1>5
<1> DEFINE q == SubSeq(p, 1, Len(dir) + 1)
<1>7. Under(p, q)
  BY <1>1, <1>6, ThePrefix
<1>8. q \in Searched(more[dir])
  BY <1>1, <1>3, <1>6 DEF Goes
<1>9. QED
  BY <1>7, <1>8 DEF Grown

LEMMA GrownUnread ==
  ASSUME NEW children, NEW dir \in Folders, NEW found, NEW more, Grown(children, dir, found, more),
         dir \in DOMAIN children => Searched(found) \subseteq Searched(children[dir]),
         NEW root \in Roots, NEW p \in Unread(more, root)
  PROVE  p \in Unread(children, root) \/ (dir \in Unread(children, root) /\ Under(p, dir))
<1> DEFINE r == <<root>>
           P(i) == SubSeq(p, 1, i)
<1>1. /\ p \in Paths /\ p \notin DOMAIN more /\ Under(p, r)
      /\ \A i \in 1..(Len(p) - 1) : Goes(more, p, i)
  BY ReachedFromRoot
<1>2. /\ DOMAIN more = DOMAIN children \cup {dir} /\ more[dir] = found
      /\ \A d \in DOMAIN children \ {dir} : more[d] = children[d]
  BY DEF Grown
<1>3. dir \in Paths /\ r \in Paths /\ Len(r) = 1
  BY RootFolder DEF Folders
<1>4. Len(p) \in Nat \ {0}
  BY <1>1, AFront
<1>5. \A q : q \in Unread(children, root) <=>
        q \in Paths /\ q \notin DOMAIN children /\ Under(q, r) /\ \A i \in 1..(Len(q) - 1) : Goes(children, q, i)
  BY ReachedFromRoot
<1> HIDE DEF r
<1>6. CASE \E i \in 1..(Len(p) - 1) : P(i) = dir /\ dir \notin DOMAIN children
  <2>1. PICK n \in 1..(Len(p) - 1) : P(n) = dir /\ dir \notin DOMAIN children
    BY <1>6
  <2>2. n \in 1..Len(p) /\ n \in Nat \ {0}
    BY <1>4
  <2>3. Len(dir) = n /\ Under(p, dir)
    BY <1>1, <2>1, <2>2, ThePrefix
  <2>4. Under(dir, r)
    <3>1. n \in Len(r)..Len(p)
      BY <1>3, <2>2
    <3>2. QED
      BY <1>1, <1>3, <2>1, <3>1, APrefixIs
  <2>5. ASSUME NEW j \in 1..(Len(dir) - 1)
        PROVE  Goes(children, dir, j)
    <3>1. j \in 1..n /\ j + 1 \in 1..n /\ j \in 1..(Len(p) - 1) /\ j # n /\ j \in 1..Len(p)
      BY <1>4, <2>2, <2>3
    <3>2. SubSeq(dir, 1, j) = P(j) /\ SubSeq(dir, 1, j + 1) = P(j + 1)
      BY <1>1, <2>1, <2>2, <3>1, TwicePrefix
    <3>3. P(j) \in DOMAIN more /\ P(j + 1) \in Searched(more[P(j)])
      BY <1>1, <3>1 DEF Goes
    <3>4. P(j) # dir
      <4>1. Len(P(j)) = j
        BY <1>1, <3>1, ThePrefix
      <4>2. QED
        BY <2>3, <3>1, <4>1
    <3> HIDE DEF P
    <3>5. P(j) \in DOMAIN children \ {dir}
      BY <1>2, <3>3, <3>4
    <3>6. P(j) \in DOMAIN children /\ P(j + 1) \in Searched(children[P(j)])
      BY <1>2, <3>3, <3>5
    <3>7. QED
      BY <3>2, <3>6 DEF Goes
  <2>6. dir \in Unread(children, root)
    BY <1>3, <1>5, <2>1, <2>4, <2>5
  <2>7. QED
    BY <2>3, <2>6
<1>7. CASE ~ \E i \in 1..(Len(p) - 1) : P(i) = dir /\ dir \notin DOMAIN children
  <2>1. ASSUME NEW i \in 1..(Len(p) - 1)
        PROVE  Goes(children, p, i)
    <3>1. P(i) \in DOMAIN more /\ P(i + 1) \in Searched(more[P(i)])
      BY <1>1 DEF Goes
    <3>2. P(i) = dir => dir \in DOMAIN children
      BY <1>7
    <3> HIDE DEF P
    <3>3. P(i) \in DOMAIN children /\ P(i + 1) \in Searched(children[P(i)])
      BY <1>2, <3>1, <3>2
    <3>4. QED
      BY <3>3 DEF Goes, P
  <2>2. p \in Unread(children, root)
    BY <1>1, <1>2, <1>5, <2>1
  <2>3. QED
    BY <2>2
<1>8. QED
  BY <1>6, <1>7

(* The state of now once the answer of c is taken in.                        *)
Took(c, y) ==
  /\ y.tree.root = tree.root /\ y.tree.query = tree.query /\ y.tree.token = tree.token
  /\ y.native.disk = native.disk /\ DOMAIN calls \ {c} \subseteq DOMAIN y.calls
  /\ ~y.gaps => /\ ~gaps /\ c.list = List(Now, Head(c.dir), c.dir) /\ c.list.ok
                /\ Grown(tree.children, c.dir, c.list.found, y.tree.children)

LEMMA TheFound ==
  ASSUME NEW c, c.list = List(Now, Head(c.dir), c.dir), c.list.ok
  PROVE  c.list.found = {p \in native.disk : Front(p) = c.dir}
<1> DEFINE own == {p \in Now.native.disk : Front(p) = c.dir}
           ok  == Head(c.dir) = Head(c.dir) /\ OnDisk(Now, c.dir)
           l   == [ok |-> ok, found |-> IF ok THEN own ELSE {}]
<1>1. List(Now, Head(c.dir), c.dir) = l
  BY DEF List
<1> HIDE DEF ok, own
<1>2. l.ok = ok /\ (ok => l.found = own)
  BY Zenon
<1>3. ok
  BY <1>1, <1>2, Zenon
<1>4. c.list.found = own
  BY <1>1, <1>2, <1>3, Zenon
<1>5. QED
  BY <1>4 DEF own, Now

LEMMA TookGrounded ==
  ASSUME Invariant, NEW c \in DOMAIN calls, c.op \in {"list", "search"}, NEW y, Took(c, y)
  PROVE  Grounded(y)
<1>1. Solid(native.disk) /\ Fresh(Now) /\ Now.tree = tree /\ Now.native = native /\ Now.calls = calls
      /\ Now.gaps = gaps
  BY DEF Invariant, Promised, Now
<1>2. ASSUME ~y.gaps, tree.root # NoRoot, ~ \E e \in DOMAIN y.calls : Unfresh(e)
      PROVE  Known(y.tree.children, native.disk)
  <2>1. ~ \E e \in DOMAIN calls : Unfresh(e)
    BY <1>2 DEF Took, Unfresh
  <2>2. Known(tree.children, native.disk)
    BY <1>1, <1>2, <2>1 DEF Fresh, Took
  <2>3. c.list.found = {p \in native.disk : Front(p) = c.dir}
    BY <1>2, TheFound DEF Took
  <2>4. QED
    BY <1>2, <2>2, <2>3 DEF Took, Grown, Known
<1>3. QED
  BY <1>1, <1>2 DEF Grounded, Fresh, Took

(* What has to be listed then, a search had before it.                       *)
LEMMA TookCovered ==
  ASSUME Invariant, NEW c \in DOMAIN calls, c.op \in {"list", "search"}, NEW y, Took(c, y),
         ~y.gaps, tree.query, ~Again(c), ~ \E e \in DOMAIN y.calls : Unfresh(e) \/ Again(e),
         NEW p \in Unread(y.tree.children, tree.root)
  PROVE  \E e \in DOMAIN calls : e.op = "search" /\ e.token = tree.token /\ Before(p, e)
<1>1. Promised(Now) /\ Now.tree = tree /\ Now.native = native /\ Now.calls = calls /\ Now.gaps = gaps
  BY DEF Invariant, Now
<1>2. tree.root \in Roots
  BY DEF Invariant, Good, Searching, Tokens, Typed, TreeTyped, Now
<1>3. c.dir \in Folders
  BY TheCall DEF CallTyped
<1>4. ~ \E e \in DOMAIN calls : Unfresh(e) \/ Again(e)
  BY DEF Took, Unfresh
<1>5. tree.root # NoRoot /\ ~gaps
  BY <1>2, ExplorerNames DEF Took
<1>6. Known(tree.children, native.disk) /\ Covered(tree.children, tree.root, tree.token, DOMAIN calls)
  BY <1>1, <1>4, <1>5 DEF Promised, Fresh, Followed
<1>7. c.list.found = {q \in native.disk : Front(q) = c.dir}
  BY TheFound DEF Took
<1>8. c.dir \in DOMAIN tree.children => Searched(c.list.found) \subseteq Searched(tree.children[c.dir])
  BY <1>6, <1>7 DEF Searched, Known
<1>9. Grown(tree.children, c.dir, c.list.found, y.tree.children)
  BY DEF Took
<1>10. CASE p \in Unread(tree.children, tree.root)
  BY <1>6, <1>10 DEF Covered
<1>11. CASE c.dir \in Unread(tree.children, tree.root) /\ Under(p, c.dir)
  <2>1. PICK e \in DOMAIN calls : e.op = "search" /\ e.token = tree.token /\ Before(c.dir, e)
    BY <1>6, <1>11 DEF Covered
  <2>2. PICK q \in e.todo \cup {e.dir} : Under(c.dir, q)
    BY <2>1 DEF Before
  <2>3. q \in Paths /\ c.dir \in Paths
    BY <1>3, <2>1, TheCall DEF CallTyped, Folders
  <2>4. p \in Paths
    BY <1>2, ReachedFromRoot
  <2>5. Under(p, q)
    BY <1>11, <2>2, <2>3, <2>4, UnderBoth
  <2>6. QED
    BY <2>1, <2>2, <2>5 DEF Before
<1>12. QED
  BY <1>2, <1>3, <1>8, <1>9, <1>10, <1>11, GrownUnread

LEMMA ListEndedGood ==
  ASSUME Invariant, NEW c \in DOMAIN calls, c.op = "list"
  PROVE  /\ Good(ListEnded(Noted(c), c)) /\ Outside(Now, ListEnded(Noted(c), c))
         /\ Took(c, ListEnded(Noted(c), c))
<1> DEFINE x == Noted(c)
           t == [x.tree EXCEPT !.loading = @ \ {c.dir}]
           y == [x EXCEPT !.tree = t]
           z == Listed(y, c.dir, c.list.found)
           b == ListEnded(x, c)
<1>1. /\ Typed(x) /\ Outside(Now, x) /\ x.tree = tree /\ x.native = native
      /\ DOMAIN x.calls \subseteq DOMAIN calls /\ DOMAIN calls \ {c} \subseteq DOMAIN x.calls
      /\ ~x.gaps => ~gaps /\ c.list.ok /\ c.list = List(Now, Head(c.dir), c.dir)
  BY NotedTyped
<1>2. Good(Now) /\ Now.tree = tree /\ Now.calls = calls
  BY DEF Invariant, Now
<1>3. c.dir \in Folders /\ c.list.found \subseteq Entries(c.dir)
  BY TheCall DEF CallTyped
<1> HIDE DEF x
<1>4. [x EXCEPT !.tree.loading = @ \ {c.dir}] = y
  OBVIOUS
<1>5. b = IF c.list.ok THEN z ELSE y
  BY <1>4 DEF ListEnded
<1>6. TreeTyped(x.tree) /\ DOMAIN x.tree = TreeFields /\ CallsTyped(x.calls)
  BY <1>1 DEF Typed, TreeTyped
<1>7. DOMAIN t = TreeFields /\ t.loading = x.tree.loading \ {c.dir} /\ \A f \in TreeFields \ {"loading"} : t[f] = x.tree[f]
  BY <1>6 DEF TreeFields
<1> HIDE DEF t
<1>8. /\ t.root = x.tree.root /\ t.children = x.tree.children /\ t.expanded = x.tree.expanded
      /\ t.renaming = x.tree.renaming /\ t.query = x.tree.query
      /\ t.indexing = x.tree.indexing /\ t.token = x.tree.token
  BY <1>7 DEF TreeFields
<1>9. TreeTyped(t)
  BY <1>6, <1>7, <1>8 DEF TreeTyped
<1>10. Inside(x, y) /\ y.tree = t /\ y.calls = x.calls
  BY <1>1, NewTree
<1> HIDE DEF y
<1>11. Typed(y) /\ Outside(x, y)
  BY <1>1, <1>6, <1>8, <1>9, <1>10, InsideTyped
(* What waits for its listing waits for another one than this.               *)
<1>12. Good(y)
  <2>1. Loading(t.loading, DOMAIN x.calls)
    BY <1>1, <1>2, <1>7 DEF Good, Searching, Loading
  <2>2. Tokens(t.root, t.query, t.indexing, t.token, DOMAIN x.calls)
    BY <1>1, <1>2, <1>8 DEF Good, Searching, Tokens
  <2>3. Indexing(t.query, t.indexing, t.token, DOMAIN x.calls)
    BY <1>1, <1>2, <1>8 DEF Good, Indexing
  <2>4. QED
    BY <1>10, <1>11, <2>1, <2>2, <2>3 DEF Good, Searching
<1>13. /\ Typed(z) /\ Outside(y, z) /\ Inside(y, z) /\ z.calls = y.calls
       /\ \A f \in TreeFields \ {"children"} : z.tree[f] = y.tree[f]
       /\ Grown(y.tree.children, c.dir, c.list.found, z.tree.children)
  BY <1>3, <1>11, ListedTyped
<1> HIDE DEF z
<1>14. Good(z)
  <2>1. /\ z.tree.root = y.tree.root /\ z.tree.query = y.tree.query /\ z.tree.loading = y.tree.loading
        /\ z.tree.indexing = y.tree.indexing /\ z.tree.token = y.tree.token
    BY <1>13 DEF TreeFields
  <2>2. QED
    BY <1>12, <1>13, <2>1 DEF Good, Searching
<1>15. z.tree.root = y.tree.root /\ z.tree.query = y.tree.query /\ z.tree.token = y.tree.token
  BY <1>13 DEF TreeFields
<1>16. Took(c, b)
  <2>1. CASE c.list.ok
    BY <1>1, <1>5, <1>8, <1>10, <1>13, <1>15, <2>1 DEF Took, Inside
  <2>2. CASE ~c.list.ok
    BY <1>1, <1>5, <1>8, <1>10, <2>2 DEF Took, Inside
  <2>3. QED
    BY <2>1, <2>2
<1>17. Good(b) /\ Outside(x, b)
  BY <1>5, <1>11, <1>12, <1>13, <1>14, OutsideBoth
<1> HIDE DEF b
<1>18. Outside(Now, b)
  BY <1>1, <1>17, OutsideBoth
<1>19. QED
  BY <1>17, <1>18, <1>16 DEF b, x

LEMMA ListAnswerStep ==
  ASSUME Invariant, NEW c \in DOMAIN calls, ListAnswered(c)
  PROVE  Invariant'
<1> DEFINE x == ListEnded(Noted(c), c)
<1>1. c.op = "list"
  BY DEF ListAnswered
<1>2. PICK b \in Continue(x, c.k) : Move(b)
  BY DEF ListAnswered
<1>3. c.k \in Continuation /\ c.k.rest \subseteq Folders
  BY <1>1, TheCall DEF CallTyped
<1>4. Good(x) /\ Outside(Now, x) /\ Took(c, x)
  BY <1>1, ListEndedGood
<1> HIDE DEF x
<1>5. Grounded(x)
  BY <1>1, <1>4, TookGrounded
<1>6. Searches(c.k) \/ Followed(x)
  <2>1. SUFFICES ASSUME ~Searches(c.k), ~x.gaps, x.tree.query,
                        ~ \E e \in DOMAIN x.calls : Unfresh(e) \/ Again(e),
                        NEW p \in Unread(x.tree.children, x.tree.root)
                 PROVE  \E e \in DOMAIN x.calls : e.op = "search" /\ e.token = x.tree.token /\ Before(p, e)
    BY DEF Followed, Covered
  <2>2. x.tree.root = tree.root /\ tree.query /\ x.tree.token = tree.token
        /\ DOMAIN calls \ {c} \subseteq DOMAIN x.calls
    BY <1>4, <2>1 DEF Took
  <2>3. ~Again(c)
    BY <2>1 DEF Again, Searches
  <2>4. PICK e \in DOMAIN calls : e.op = "search" /\ e.token = tree.token /\ Before(p, e)
    BY <1>1, <1>4, <2>1, <2>2, <2>3, TookCovered
  <2>5. e \in DOMAIN x.calls
    BY <1>1, <2>2, <2>4
  <2>6. QED
    BY <2>2, <2>4, <2>5
<1>7. Good(b) /\ Outside(x, b) /\ Promised(b)
  BY <1>2, <1>3, <1>4, <1>5, <1>6, ContinueGood, ContinuePromised
<1>8. Outside(Now, b)
  BY <1>4, <1>7, OutsideBoth
<1>9. QED
  BY <1>2, <1>7, <1>8, MoveStep

(* Without the command of a walk: what is left is a search, but for the one  *)
(* that the command was of.                                                 *)
LEMMA WalkLess ==
  ASSUME Invariant, NEW c \in DOMAIN calls, c.op = "search",
         NEW a, Typed(a), a.tree.root = tree.root, a.tree.query = tree.query, a.tree.indexing = tree.indexing,
         a.tree.token = tree.token, a.tree.loading = tree.loading,
         DOMAIN a.calls \subseteq DOMAIN calls, DOMAIN calls \ {c} \subseteq DOMAIN a.calls
  PROVE  /\ Searching(a) /\ c.token \in Nat /\ c.token <= a.tree.token
         /\ c.token # a.tree.token => Indexing(a.tree.query, a.tree.indexing, a.tree.token, DOMAIN a.calls)
<1>1. Good(Now) /\ Now.tree = tree /\ Now.calls = calls
  BY DEF Invariant, Now
<1>2. c.token \in Nat
  BY TheCall DEF CallTyped
<1>3. Tokens(a.tree.root, a.tree.query, a.tree.indexing, a.tree.token, DOMAIN a.calls) /\ c.token <= a.tree.token
  BY <1>1 DEF Good, Searching, Tokens
<1>4. Loading(a.tree.loading, DOMAIN a.calls)
  BY <1>1 DEF Good, Searching, Loading
<1>5. c.token # a.tree.token => Indexing(a.tree.query, a.tree.indexing, a.tree.token, DOMAIN a.calls)
  BY <1>1 DEF Good, Indexing
<1>6. QED
  BY <1>2, <1>3, <1>4, <1>5 DEF Searching

LEMMA SearchAnswerStep ==
  ASSUME Invariant, NEW c \in DOMAIN calls, SearchAnswered(c)
  PROVE  Invariant'
<1> DEFINE r == Running(c)
           x == Noted(c)
           y == Listed(x, c.dir, c.list.found)
           on == c.todo \cup Searched(c.list.found)
           b == IF ~(c.token = tree.token /\ tree.query) THEN EndWalk(r, c.token)
                ELSE IF c.list.ok THEN WalkOn(y, c.root, c.token, on)
                ELSE WalkOn(x, c.root, c.token, c.todo)
<1>1. c.op = "search" /\ Move(b)
  BY DEF SearchAnswered
<1>2. c.dir \in Folders /\ c.list.found \subseteq Entries(c.dir) /\ c.todo \subseteq Folders /\ on \subseteq Folders
  <2>1. c.dir \in Folders /\ c.list.found \subseteq Entries(c.dir) /\ c.todo \subseteq Folders
    BY <1>1, TheCall DEF CallTyped
  <2>2. QED
    BY <2>1 DEF Searched, Folders, Entries
<1>3. /\ r.tree = tree /\ Typed(r) /\ Outside(Now, r) /\ Inside(Now, r)
      /\ DOMAIN r.calls \subseteq DOMAIN calls /\ DOMAIN calls \ {c} \subseteq DOMAIN r.calls
  BY RunningTyped DEF Invariant, Good
<1>4. /\ x.tree = tree /\ Typed(x) /\ Outside(Now, x) /\ x.native = native
      /\ DOMAIN x.calls \subseteq DOMAIN calls /\ DOMAIN calls \ {c} \subseteq DOMAIN x.calls
      /\ ~x.gaps => ~gaps /\ c.list.ok /\ c.list = List(Now, Head(c.dir), c.dir)
  BY NotedTyped
<1>5. Promised(Now) /\ Now.tree = tree /\ Now.native = native /\ Now.calls = calls /\ Now.gaps = gaps
  BY TheView DEF Now
<1>6. \A q \in c.todo \cup Searched(c.list.found) : q \in on
  OBVIOUS
<1> HIDE DEF r, x, on
<1>7. /\ Typed(y) /\ Outside(x, y) /\ Inside(x, y) /\ y.calls = x.calls
      /\ \A f \in TreeFields \ {"children"} : y.tree[f] = x.tree[f]
      /\ Grown(x.tree.children, c.dir, c.list.found, y.tree.children)
  BY <1>2, <1>4, ListedTyped
<1> HIDE DEF y
<1>8. /\ y.tree.root = tree.root /\ y.tree.query = tree.query /\ y.tree.loading = tree.loading
      /\ y.tree.indexing = tree.indexing /\ y.tree.token = tree.token
  BY <1>4, <1>7 DEF TreeFields
<1>9. \A z \in {r, x, y} :
        /\ Searching(z) /\ c.token \in Nat /\ c.token <= z.tree.token
        /\ c.token # z.tree.token => Indexing(z.tree.query, z.tree.indexing, z.tree.token, DOMAIN z.calls)
  <2>1. SUFFICES ASSUME NEW z \in {r, x, y}
                 PROVE  /\ Searching(z) /\ c.token \in Nat /\ c.token <= z.tree.token
                        /\ c.token # z.tree.token => Indexing(z.tree.query, z.tree.indexing, z.tree.token, DOMAIN z.calls)
    OBVIOUS
  <2>2. /\ Typed(z) /\ z.tree.root = tree.root /\ z.tree.query = tree.query /\ z.tree.indexing = tree.indexing
        /\ z.tree.token = tree.token /\ z.tree.loading = tree.loading
        /\ DOMAIN z.calls \subseteq DOMAIN calls /\ DOMAIN calls \ {c} \subseteq DOMAIN z.calls
    BY <1>3, <1>4, <1>7, <1>8
  <2>3. QED
    BY <1>1, <2>2, WalkLess
<1>10. CASE ~(c.token = tree.token /\ tree.query)
  <2>1. Good(EndWalk(r, c.token)) /\ Outside(r, EndWalk(r, c.token))
    BY <1>3, <1>9, EndWalkGood
  <2>2. Move(EndWalk(r, c.token))
    BY <1>1, <1>10
  <2>3. Promised(r)
    BY <1>1, <1>3, <1>10, <1>5, DroppedPromised DEF Inside, Unfresh, Again
  <2>4. Promised(EndWalk(r, c.token))
    BY <1>3, <2>3, EndWalkSteady, SteadyPromised
  <2>5. QED
    BY <1>3, <2>1, <2>2, <2>4, OutsideBoth, MoveStep
<1>11. CASE c.token = tree.token /\ tree.query
  <2>1. c.root = tree.root
    BY <1>1, <1>11 DEF Invariant, Good, Searching, Tokens, Now
  <2> DEFINE u == WalkOn(y, c.root, c.token, on)
             v == WalkOn(x, c.root, c.token, c.todo)
  <2>2. Good(u) /\ Outside(y, u)
    <3>1. y.tree.query /\ c.token = y.tree.token => c.root = y.tree.root
      BY <1>8, <2>1
    <3>2. /\ Searching(y) /\ c.token \in Nat /\ c.token <= y.tree.token
          /\ c.token # y.tree.token => Indexing(y.tree.query, y.tree.indexing, y.tree.token, DOMAIN y.calls)
      BY <1>9
    <3>3. QED
      BY <1>2, <1>7, <3>1, <3>2, WalkOnGood
  <2>3. Good(v) /\ Outside(x, v)
    <3>1. x.tree.query /\ c.token = x.tree.token => c.root = x.tree.root
      BY <1>4, <2>1
    <3>2. /\ Searching(x) /\ c.token \in Nat /\ c.token <= x.tree.token
          /\ c.token # x.tree.token => Indexing(x.tree.query, x.tree.indexing, x.tree.token, DOMAIN x.calls)
      BY <1>9
    <3>3. QED
      BY <1>2, <1>4, <3>1, <3>2, WalkOnGood
  <2>4. (c.list.ok /\ Move(u)) \/ (~c.list.ok /\ Move(v))
    BY <1>1, <1>11
  <2>5. Took(c, y)
    BY <1>4, <1>7, <1>8 DEF Took, Inside
  <2>6. Grounded(y)
    BY <1>1, <2>5, TookGrounded
  <2>7. c.token \in Nat /\ tree.root \in Roots
    BY <1>1, <1>9, <1>11 DEF Invariant, Good, Searching, Tokens, Typed, TreeTyped, Now
  <2>8. /\ Steady(y, u) /\ (Awaited(y, on) => CoveredIn(u))
    BY <1>2, <1>7, <1>8, <1>11, <2>7, WalkOnSteady
  <2>9. Steady(x, v)
    BY <1>2, <1>4, <2>7, WalkOnSteady
  <2> HIDE DEF u, v
  <2>10. Promised(u)
    <3>1. Grounded(u)
      BY <2>6, <2>8, GroundedOn DEF Steady
    <3>2. Followed(u)
      <4>1. SUFFICES ASSUME ~u.gaps, ~ \E e \in DOMAIN u.calls : Unfresh(e) \/ Again(e)
                     PROVE  Awaited(y, on)
        BY <2>8 DEF Followed, CoveredIn
      <4>2. ~y.gaps /\ ~ \E e \in DOMAIN y.calls : Unfresh(e) \/ Again(e)
        BY <2>8, <4>1 DEF Steady
      <4>3. SUFFICES ASSUME NEW p \in Unread(y.tree.children, tree.root)
                     PROVE  \/ \E q \in on : Under(p, q)
                            \/ \E e \in DOMAIN y.calls : e.op = "search" /\ e.token = tree.token /\ Before(p, e)
        BY <1>8 DEF Awaited
      <4>4. ~Again(c)
        BY <1>1 DEF Again
      <4>5. PICK e \in DOMAIN calls : e.op = "search" /\ e.token = tree.token /\ Before(p, e)
        BY <1>1, <1>11, <2>5, <4>2, <4>4, TookCovered
      <4>6. CASE e # c
        BY <1>4, <1>7, <4>5, <4>6
      <4>7. CASE e = c
        <5>1. PICK q \in c.todo \cup {c.dir} : Under(p, q)
          BY <4>5, <4>7 DEF Before
        <5>2. CASE q \in c.todo
          BY <1>6, <5>1, <5>2
        <5>3. CASE q = c.dir
          <6>1. \E o \in Searched(c.list.found) : Under(p, o)
            BY <1>2, <1>4, <1>7, <2>7, <5>1, <5>3, GrownBelow
          <6>2. QED
            BY <1>6, <6>1
        <5>4. QED
          BY <5>1, <5>2, <5>3
      <4>8. QED
        BY <4>6, <4>7
    <3>3. QED
      BY <3>1, <3>2 DEF Grounded, Promised
  <2>11. ~c.list.ok => Promised(v)
    <3>1. ~c.list.ok => x.gaps
      BY <1>4
    <3>2. Solid(v.native.disk) /\ v.gaps = x.gaps
      BY <1>4, <1>5, <2>9 DEF Promised, Steady
    <3>3. QED
      BY <3>1, <3>2, GapPromised
  <2>12. Outside(Now, u) /\ Outside(Now, v)
    BY <1>4, <1>7, <2>2, <2>3, OutsideBoth
  <2>13. QED
    BY <2>2, <2>3, <2>4, <2>12, <2>10, <2>11, MoveStep
<1>12. QED
  BY <1>10, <1>11

LEMMA WatchAnswerStep ==
  ASSUME Invariant, WatchAnswer
  PROVE  Invariant'
<1> DEFINE b == WatchAnswered([Now EXCEPT !.watchCalls = Tail(@)], Head(watchCalls))
<1>1. watchCalls # <<>> /\ Become(b) /\ UNCHANGED <<gestures, edits>>
  BY DEF WatchAnswer, Move
<1>2. Good(b) /\ Aside(Now, b) /\ Watched(b)
  BY <1>1, WatchAnswerGood DEF Invariant
<1> HIDE DEF b
<1>3. Whole(b) /\ Homed(b.project)
  <2>1. Rooted(Now.view, Now.project, Now.tree.root) /\ Homed(Now.project) /\ Promised(Now)
    BY TheView
  <2>2. QED
    BY <1>2, <2>1, AsideWhole DEF Aside
<1>4. Whole(Now') /\ Homed(project') /\ Counted'
  BY <1>1, <1>3, BecomeGood, CountedOn, TheView
<1>5. QED
  BY <1>4, TheInvariant

(* A renaming keeps the cache a cache: folders with their own entries.       *)
LEMMA RemappedCache ==
  ASSUME NEW children, Cache(children), NEW from \in Paths, NEW to \in Paths,
         ~IsRoot(from), Front(from) = Front(to), IsFolder(from) <=> IsFolder(to)
  PROVE  Cache(remapChildrenByPath(children, from, to))
<1> DEFINE R(p) == Renamed(p, from, to)
           old(q) == CHOOSE p \in DOMAIN children : R(p) = q
           K == {R(p) : p \in DOMAIN children}
           new == remapChildrenByPath(children, from, to)
<1>1. new = [q \in K |-> {R(e) : e \in children[old(q)]}]
  BY DEF remapChildrenByPath, Renamed
<1>2. DOMAIN children \subseteq Folders /\ \A d \in DOMAIN children : children[d] \subseteq Entries(d)
  BY DEF Cache
<1>3. \A p \in Paths : R(p) \in Paths /\ (IsFolder(p) => IsFolder(R(p)))
                       /\ (~IsRoot(p) => Front(R(p)) = R(Front(p)))
  BY ARenaming
<1>4. \A q \in K : old(q) \in DOMAIN children /\ R(old(q)) = q
  OBVIOUS
<1>5. K \subseteq Folders
  BY <1>2, <1>3 DEF Folders
<1>6. ASSUME NEW q \in K, NEW e \in children[old(q)]
      PROVE  R(e) \in Entries(q)
  <2> DEFINE d == old(q)
  <2>1. d \in DOMAIN children /\ R(d) = q
    BY <1>4
  <2> HIDE DEF d
  <2>2. e \in Paths /\ Front(e) = d /\ d \in Paths
    <3>1. e \in children[d]
      BY <1>6 DEF d
    <3>2. QED
      BY <3>1, <2>1, <1>2 DEF Entries, Folders
  <2>3. ~IsRoot(e)
    <3>1. Len(Front(e)) = Len(e) - 1 /\ Len(Front(e)) \in Nat \ {0}
      BY <2>2, AFront
    <3>2. QED
      BY <3>1 DEF IsRoot
  <2>4. R(e) \in Paths /\ Front(R(e)) = R(Front(e))
    BY <1>3, <2>2, <2>3
  <2>5. QED
    BY <2>1, <2>2, <2>4 DEF Entries
<1>7. DOMAIN new = K /\ \A q \in K : new[q] = {R(e) : e \in children[old(q)]}
  BY <1>1
<1> HIDE DEF new, K, old, R
<1>8. \A q \in DOMAIN new : new[q] \subseteq Entries(q)
  BY <1>6, <1>7
<1>9. Cache(new)
  BY <1>5, <1>7, <1>8 DEF Cache
<1>10. QED
  BY <1>9 DEF new

LEMMA RenamedEntry ==
  ASSUME NEW children, Cache(children), NEW from \in Paths, NEW to \in Paths, Front(from) = Front(to),
         NEW dir, dir = Front(from), dir \in DOMAIN children
  PROVE  Cache([children EXCEPT ![dir] = {IF e = from THEN to ELSE e : e \in @}])
<1> DEFINE es == {IF e = from THEN to ELSE e : e \in children[dir]}
           new == [children EXCEPT ![dir] = es]
<1>1. es \subseteq Entries(dir)
  BY DEF Cache, Entries
<1> HIDE DEF es
<1>2. DOMAIN new = DOMAIN children /\ \A d \in DOMAIN children : new[d] = IF d = dir THEN es ELSE children[d]
  OBVIOUS
<1> HIDE DEF new
<1>3. \A d \in DOMAIN new : new[d] \subseteq Entries(d)
  BY <1>1, <1>2 DEF Cache
<1>4. Cache(new)
  BY <1>2, <1>3 DEF Cache
<1>5. QED
  BY <1>4 DEF new, es

LEMMA NewChildren ==
  ASSUME NEW a, Good(a), NEW children, Cache(children)
  PROVE  LET b == [a EXCEPT !.tree.children = children]
         IN  /\ Good(b) /\ Outside(a, b) /\ Inside(a, b) /\ b.calls = a.calls
             /\ b.tree.children = children /\ \A f \in TreeFields \ {"children"} : b.tree[f] = a.tree[f]
<1> DEFINE t == [a.tree EXCEPT !.children = children]
           b == [a EXCEPT !.tree = t]
<1>1. TreeTyped(a.tree) /\ DOMAIN a.tree = TreeFields
  BY DEF Good, Typed, TreeTyped
<1>2. [a EXCEPT !.tree.children = children] = b
  OBVIOUS
<1>3. DOMAIN t = TreeFields /\ t.children = children /\ \A f \in TreeFields \ {"children"} : t[f] = a.tree[f]
  BY <1>1 DEF TreeFields
<1> HIDE DEF t
<1>4. /\ t.root = a.tree.root /\ t.expanded = a.tree.expanded /\ t.renaming = a.tree.renaming
      /\ t.query = a.tree.query /\ t.loading = a.tree.loading
      /\ t.indexing = a.tree.indexing /\ t.token = a.tree.token
  BY <1>3 DEF TreeFields
<1>5. TreeTyped(t) /\ Shows(a.tree, t)
  BY <1>1, <1>3, <1>4 DEF TreeTyped, Shows
<1>6. Good(b) /\ Outside(a, b) /\ Inside(a, b) /\ b.calls = a.calls /\ b.tree = t
  BY <1>5, ShownGood
<1> HIDE DEF b
<1>7. QED
  BY <1>2, <1>3, <1>6

(* The tree gets another cache and other open folders.                       *)
LEMMA NewCache ==
  ASSUME NEW a, Good(a), NEW children, Cache(children), NEW expanded, expanded \subseteq Folders
  PROVE  LET b == [a EXCEPT !.tree.children = children, !.tree.expanded = expanded]
         IN  /\ Good(b) /\ Outside(a, b) /\ Inside(a, b)
             /\ b.tree.children = children /\ b.tree.expanded = expanded
<1> DEFINE w == [a.tree EXCEPT !.children = children]
           t == [w EXCEPT !.expanded = expanded]
           b == [a EXCEPT !.tree = t]
<1>1. TreeTyped(a.tree) /\ DOMAIN a.tree = TreeFields /\ DOMAIN a = Fields
  BY DEF Good, Typed, TreeTyped
<1>2. [a EXCEPT !.tree.children = children, !.tree.expanded = expanded] = b
  BY <1>1 DEF Fields, TreeFields
<1>3. DOMAIN w = TreeFields /\ w.children = children /\ \A f \in TreeFields \ {"children"} : w[f] = a.tree[f]
  BY <1>1 DEF TreeFields
<1> HIDE DEF w
<1>4. DOMAIN t = TreeFields /\ t.expanded = expanded /\ \A f \in TreeFields \ {"expanded"} : t[f] = w[f]
  BY <1>3 DEF TreeFields
<1> HIDE DEF t
<1>5. /\ t.root = a.tree.root /\ t.children = children /\ t.renaming = a.tree.renaming
      /\ t.query = a.tree.query /\ t.loading = a.tree.loading
      /\ t.indexing = a.tree.indexing /\ t.token = a.tree.token
  BY <1>3, <1>4 DEF TreeFields
<1>6. TreeTyped(t) /\ Shows(a.tree, t)
  BY <1>1, <1>4, <1>5 DEF TreeTyped, Shows
<1>7. Good(b) /\ Outside(a, b) /\ Inside(a, b) /\ b.tree = t
  BY <1>6, ShownGood
<1> HIDE DEF b
<1>8. QED
  BY <1>2, <1>4, <1>5, <1>7

(* Folders are what they were in the cache.                                  *)
LEMMA FilesPromised ==
  ASSUME NEW a, Promised(a), NEW b, b.gaps = a.gaps, b.native.disk = a.native.disk, b.calls = a.calls,
         b.tree.root = a.tree.root, b.tree.query = a.tree.query, b.tree.token = a.tree.token,
         DOMAIN b.tree.children = DOMAIN a.tree.children,
         \A d \in DOMAIN a.tree.children : \A p :
           IsFolder(p) => (p \in b.tree.children[d] <=> p \in a.tree.children[d])
  PROVE  Promised(b)
<1>1. \A d \in DOMAIN a.tree.children : Searched(b.tree.children[d]) = Searched(a.tree.children[d])
  BY DEF Searched
<1>2. \A p, i : Goes(b.tree.children, p, i) <=> Goes(a.tree.children, p, i)
  BY <1>1 DEF Goes
<1>3. \A todo, p : p \in Reached(b.tree.children, todo) <=> p \in Reached(a.tree.children, todo)
  BY <1>2, ReachedBy
<1>4. \A p : p \in Unread(b.tree.children, b.tree.root) <=> p \in Unread(a.tree.children, a.tree.root)
  BY <1>3 DEF Unread
<1>5. Fresh(b)
  BY DEF Promised, Fresh, Known
<1>6. Followed(b)
  BY <1>4 DEF Promised, Followed, Covered
<1>7. QED
  BY <1>5, <1>6 DEF Promised

LEMMA RenameAnswerStep ==
  ASSUME Invariant, NEW c \in DOMAIN calls, RenameAnswered(c)
  PROVE  Invariant'
<1> DEFINE dir == Front(c.from)
           r == Running(c)
           a == cancelRename(r)
           ch == a.tree.children
           mid == [ch EXCEPT ![dir] = {IF e = c.from THEN c.to ELSE e : e \in @}]
           b == IF dir \in DOMAIN ch THEN [a EXCEPT !.tree.children = mid] ELSE a
           over == remapChildrenByPath(b.tree.children, c.from, c.to)
           open == {Renamed(p, c.from, c.to) : p \in b.tree.expanded}
           x == [b EXCEPT !.tree.children = over, !.tree.expanded = open]
           d == [x EXCEPT !.gaps = TRUE]
<1>1. c.op = "rename"
  BY DEF RenameAnswered
<1>2. /\ c.from \in Paths /\ c.to \in Paths /\ ~IsRoot(c.from)
      /\ Front(c.from) = Front(c.to) /\ (IsFolder(c.from) <=> IsFolder(c.to))
  BY <1>1, TheCall DEF CallTyped
<1>3. /\ Good(r) /\ Outside(Now, r) /\ (~(c.ok /\ IsFolder(c.to)) => Promised(r))
      /\ Solid(r.native.disk)
  BY <1>1, RunningGood, TheView DEF Unfresh, Inside, Promised
<1>4. Good(a) /\ Outside(r, a) /\ Steady(r, a)
  BY <1>3, RenamingGood, RenamingSteady DEF cancelRename
<1>5. ~IsFolder(c.to) => Promised(a)
  BY <1>3, <1>4, SteadyPromised
<1>6. Outside(Now, a)
  BY <1>3, <1>4, OutsideBoth
<1>7. /\ Cache(ch) /\ a.tree.expanded \subseteq Folders /\ DOMAIN a = Fields /\ DOMAIN a.tree = TreeFields
  BY <1>4 DEF Good, Typed, TreeTyped
<1>8. Move(IF ~c.ok THEN r ELSE IF ~IsFolder(c.to) THEN b ELSE d)
  <2>1. (IF dir \in DOMAIN ch THEN [a EXCEPT !.tree.children[dir] = {IF e = c.from THEN c.to ELSE e : e \in @}] ELSE a) = b
    OBVIOUS
  <2> HIDE DEF b
  <2>2. d = [b EXCEPT !.tree.children = remapChildrenByPath(@, c.from, c.to),
                      !.tree.expanded = {IF Under(p, c.from) THEN Moved(p, c.from, c.to) ELSE p : p \in @},
                      !.gaps = TRUE]
    BY DEF Renamed
  <2>3. QED
    BY <2>1, <2>2 DEF RenameAnswered
<1> HIDE DEF r, a
<1>9. dir \in DOMAIN ch => Cache(mid)
  BY <1>2, <1>7, RenamedEntry
<1>10. dir \in DOMAIN ch /\ ~IsFolder(c.to) =>
        /\ DOMAIN mid = DOMAIN ch
        /\ \A d1 \in DOMAIN ch : \A p : IsFolder(p) => (p \in mid[d1] <=> p \in ch[d1])
  BY <1>2
<1> HIDE DEF mid
<1>11. Good(b) /\ Outside(a, b) /\ b.native = a.native
  BY <1>4, <1>9, NewChildren DEF Outside, Inside
<1>12. ~IsFolder(c.to) => Promised(b)
  <2>1. SUFFICES ASSUME ~IsFolder(c.to), dir \in DOMAIN ch
                 PROVE  Promised([a EXCEPT !.tree.children = mid])
    BY <1>5
  <2> DEFINE e == [a EXCEPT !.tree.children = mid]
  <2>2. /\ Inside(a, e) /\ e.calls = a.calls /\ e.tree.children = mid
        /\ \A f \in TreeFields \ {"children"} : e.tree[f] = a.tree[f]
    BY <1>4, <1>9, <2>1, NewChildren
  <2> HIDE DEF e
  <2>3. e.tree.root = a.tree.root /\ e.tree.query = a.tree.query /\ e.tree.token = a.tree.token
    BY <2>2 DEF TreeFields
  <2>4. Promised(e)
    BY <1>5, <1>10, <2>1, <2>2, <2>3, FilesPromised DEF Inside
  <2>5. QED
    BY <2>4 DEF e
<1> HIDE DEF b
<1>13. Cache(over)
  <2>1. Cache(b.tree.children)
    BY <1>11 DEF Good, Typed, TreeTyped
  <2>2. QED
    BY <1>2, <2>1, RemappedCache
<1> HIDE DEF over
<1>14. open \subseteq Folders
  <2>1. \A p \in Folders : Renamed(p, c.from, c.to) \in Folders
    BY <1>2, ARenaming DEF Folders
  <2>2. b.tree.expanded \subseteq Folders
    BY <1>11 DEF Good, Typed, TreeTyped
  <2>3. QED
    BY <2>1, <2>2
<1> HIDE DEF open
<1>15. Good(x) /\ Outside(b, x) /\ Inside(b, x)
  BY <1>11, <1>13, <1>14, NewCache
<1> HIDE DEF x
<1>16. x.native = b.native
  BY <1>15 DEF Inside
<1>17. Good(d) /\ Outside(x, d) /\ Promised(d)
  <2>1. DOMAIN x = Fields /\ x.gaps \in BOOLEAN
    BY <1>15 DEF Good, Typed
  <2> DEFINE g == TRUE
  <2>2. (x.gaps \/ g) = TRUE
    OBVIOUS
  <2>3. d = [x EXCEPT !.gaps = @ \/ g]
    BY <2>2
  <2>4. g
    OBVIOUS
  <2>5. Solid(x.native.disk)
    BY <1>3, <1>4, <1>11, <1>16 DEF Steady
  <2> HIDE DEF g, d
  <2>6. Good(d) /\ Outside(x, d) /\ d.gaps /\ d.native = x.native
    BY <2>3, <2>4, <1>15, GapsGood
  <2>7. QED
    BY <2>6, <2>5, GapPromised
<1> HIDE DEF d
<1>18. Outside(Now, b) /\ Outside(Now, d)
  BY <1>6, <1>11, <1>15, <1>17, OutsideBoth
<1>19. QED
  BY <1>3, <1>8, <1>11, <1>17, <1>18, <1>12, MoveStep

-----------------------------------------------------------------------------
(* The theorems.                                                             *)

LEMMA InitGood ==
  ASSUME Init
  PROVE  Invariant
<1> DEFINE n == Now
<1>1. /\ tree = emptyTree
      /\ project = [trunk |-> FirstTrunk, ready |-> [t \in Trunks |-> IF t = FirstTrunk THEN 1 ELSE 0],
                    workspace |-> Checkout[FirstTrunk]]
      /\ native = [disk |-> FirstDisk, scopes |-> <<Checkout[FirstTrunk]>>, subscribed |-> {}, events |-> {}]
      /\ calls = EmptyBag /\ watchCalls = <<>> /\ gestures = 0 /\ edits = 0
  BY DEF Init
<1>2. view = [mounted |-> FALSE, mount |-> 0, watched |-> [m \in 1..MaxMounts |-> 0], live |-> TRUE]
  BY Zenon DEF Init
<1>3. gaps = FALSE
  BY Zenon DEF Init
<1>4. view \in Views(1)
  <2>1. 0 \in 0..MaxMounts /\ [m \in 1..MaxMounts |-> 0] \in [1..MaxMounts -> 0..1]
    BY ExplorerBounds
  <2>2. QED
    BY <1>2, <2>1 DEF Views
<1>5. view.mount = 0 /\ ~view.mounted
  BY <1>2
<1>6. project \in Projects(1) /\ project.workspace \in Roots
  BY <1>1, ExplorerNames DEF Projects
<1>7. native.scopes = <<Checkout[FirstTrunk]>> /\ Checkout[FirstTrunk] \in Roots /\ Len(native.scopes) = 1
  BY <1>1, ExplorerNames
<1>8. NativeTyped(native)
  <2>1. DOMAIN native = NativeFields /\ native.disk = FirstDisk /\ native.subscribed = {} /\ native.events = {}
    BY <1>1 DEF NativeFields
  <2>2. native.scopes \in Seq(Roots) /\ Len(native.scopes) <= MaxScopes
    BY <1>7, ExplorerBounds
  <2>3. QED
    BY <2>1, <2>2, DiskAtFirst DEF NativeTyped
<1>9. /\ DOMAIN tree = TreeFields /\ tree.root = NoRoot /\ tree.children = <<>> /\ tree.expanded = {}
      /\ tree.renaming = NoPath /\ tree.loading = {} /\ tree.token = 0
  BY <1>1 DEF emptyTree, TreeFields
<1>10. tree.query = FALSE /\ tree.indexing = FALSE
  BY <1>1, Zenon DEF emptyTree
<1>11. TreeTyped(tree)
  <2>1. Cache(tree.children)
    BY <1>9 DEF Cache
  <2>2. tree.query \in BOOLEAN /\ tree.indexing \in BOOLEAN
    BY <1>10, Zenon
  <2>3. QED
    BY <1>9, <2>1, <2>2 DEF TreeTyped
<1>12. CallsTyped(calls) /\ DOMAIN calls = {}
  BY <1>1 DEF CallsTyped, EmptyBag, SetToBag, IsABag
<1>13. watchCalls \in Seq(Hops(1))
  BY <1>1
<1>14. gaps \in BOOLEAN
  BY <1>3, Zenon
<1>15. /\ DOMAIN n = Fields /\ n.tree = tree /\ n.view = view /\ n.project = project /\ n.native = native
       /\ n.calls = calls /\ n.watchCalls = watchCalls /\ n.gaps = gaps
  BY DEF Now, Fields
<1> HIDE DEF n
<1>16. Typed(n)
  BY <1>4, <1>6, <1>7, <1>8, <1>11, <1>12, <1>13, <1>14, <1>15 DEF Typed
<1>17. Searching(n) /\ Indexing(n.tree.query, n.tree.indexing, n.tree.token, DOMAIN n.calls)
  BY <1>9, <1>10, <1>12, <1>15 DEF Searching, Tokens, Loading, Indexing
<1>18. Good(n) /\ Watched(n)
  BY <1>5, <1>15, <1>16, <1>17 DEF Good, Watched, Watching
<1>19. Rooted(view, project, tree.root) /\ Homed(project)
  BY <1>5, <1>6, ExplorerNames DEF Rooted, Homed
<1>20. Counted
  BY <1>1, ExplorerBounds DEF Counted
<1>21. Promised(n)
  <2>1. Grounded(n)
    BY <1>1, <1>9, <1>15, DiskAtFirst, EmptyGrounded
  <2>2. QED
    BY <1>10, <1>15, <2>1, UnaskedPromised
<1>22. QED
  BY <1>18, <1>19, <1>20, <1>21 DEF Invariant, n

LEMMA NextGood ==
  ASSUME Invariant, Next
  PROVE  Invariant'
<1>1. NewFileName \in Names /\ NewFolderName \in Names
  BY ExplorerNames DEF Names
<1>2. CASE \E t \in Trunks : Activate(t)
  BY <1>2, ActivateStep
<1>3. CASE CloseProject \/ Resolved \/ ShowPanel \/ HidePanel \/ SetAutoRefresh
  BY <1>3, CloseProjectStep, ResolvedStep, ShowPanelStep, HidePanelStep, SetAutoRefreshStep
<1>4. CASE \E p \in Cached :
             \/ toggleExpanded(p) \/ startRename(p) \/ handleDelete(p)
             \/ \E name \in DirNames \cup FileNames : handleDuplicate(p, name)
  BY <1>4, ToggleStep, StartRenameStep, DeleteStep, DuplicateStep DEF Names
<1>5. CASE \E p \in Targets :
             \/ handleNew(p, NewFileName) \/ handleNew(p, NewFolderName)
             \/ \E name \in FileNames : handleExternalDrop(p, name)
  BY <1>1, <1>5, NewStep, DropStep
<1>6. CASE \E p \in Paths : EditOutside(p)
  BY <1>6, EditStep
<1>7. CASE \E name \in DirNames \cup FileNames : commitRename(name)
  BY <1>7, CommitRenameStep DEF Names
<1>8. CASE CancelRename \/ handleRefresh \/ WatchAnswer
  BY <1>8, CancelRenameStep, RefreshStep, WatchAnswerStep
<1>9. CASE \E query \in BOOLEAN : setSearchQuery(query)
  BY <1>9, QueryStep, Zenon
<1>10. CASE \E root \in Roots : OnChanged(root)
  BY <1>10, OnChangedStep
<1>11. CASE \E c \in DOMAIN calls : Answers(c)
  BY <1>11, ListAnswerStep, SearchAnswerStep, RenameAnswerStep, CreateAnswerStep, ChangeAnswerStep DEF Answers
<1>12. QED
  BY <1>2, <1>3, <1>4, <1>5, <1>6, <1>7, <1>8, <1>9, <1>10, <1>11 DEF Next

(* Every reachable state of the explorer has the inductive invariant.        *)
THEOREM ExplorerInvariant == Spec => []Invariant
<1>1. Init => Invariant
  BY InitGood
<1>2. Invariant /\ [Next]_vars => Invariant'
  <2>1. ASSUME Invariant, UNCHANGED vars
        PROVE  Invariant'
    <3>1. Now' = Now /\ view' = view /\ project' = project /\ tree' = tree /\ gestures' = gestures /\ edits' = edits
      BY <2>1 DEF vars, Now
    <3>2. Good(Now)' /\ Watched(Now)' /\ Promised(Now)'
      BY <2>1, <3>1 DEF Invariant
    <3>3. Rooted(view, project, tree.root)' /\ Homed(project)' /\ Counted'
      BY <2>1, <3>1 DEF Invariant, Counted
    <3>4. QED
      BY <3>2, <3>3 DEF Invariant
  <2>2. QED
    BY <2>1, NextGood
<1>3. QED
  BY <1>1, <1>2, PTL DEF Spec

(* What is cached of a folder are entries of that folder, whatever is        *)
(* renamed, listed or moved on the disk while listings are on their way      *)
(* (TreeWellFormed, with the types of the state).                            *)
THEOREM TreeStaysWellFormed == Spec => []TreeWellFormed
<1>1. Invariant => TreeWellFormed
  <2> SUFFICES ASSUME Invariant PROVE TreeWellFormed
    OBVIOUS
  <2> DEFINE n == Len(native.scopes)
  <2>1. /\ TreeTyped(tree) /\ NativeTyped(native) /\ CallsTyped(calls) /\ view \in Views(n)
        /\ project \in Projects(n) /\ watchCalls \in Seq(Hops(n)) /\ gaps \in BOOLEAN /\ Counted
    BY DEF Invariant, Good, Typed, Now
  <2>2. n \in Nat /\ n <= MaxScopes /\ MaxScopes \in Nat
    BY <2>1, ExplorerBounds DEF NativeTyped
  <2>3. 0..n \subseteq 0..MaxScopes
    BY <2>2
  <2> HIDE DEF n
  <2>4. view \in [mounted : BOOLEAN, mount : 0..MaxMounts, watched : [1..MaxMounts -> 0..MaxScopes], live : BOOLEAN]
    BY <2>1, <2>3 DEF Views
  <2>5. project \in [trunk : Trunks \cup {NoTrunk}, ready : [Trunks -> 0..MaxScopes], workspace : Roots \cup {NoRoot}]
    BY <2>1, <2>3 DEF Projects
  <2>6. watchCalls \in Seq([kind : {"leave", "reset", "enter"}, mount : 1..MaxMounts,
                            scope : 0..MaxScopes, live : BOOLEAN])
    <3> DEFINE H == [kind : {"leave", "reset", "enter"}, mount : 1..MaxMounts,
                     scope : 0..MaxScopes, live : BOOLEAN]
    <3>1. Hops(n) \subseteq H
      BY <2>3 DEF Hops
    <3> HIDE DEF H
    <3>2. watchCalls \in Seq(H)
      BY <2>1, <3>1
    <3>3. QED
      BY <3>2 DEF H
  <2>7. /\ tree.root \in Roots \cup {NoRoot} /\ DOMAIN tree.children \subseteq Paths
        /\ \A p \in DOMAIN tree.children : IsFolder(p) /\ tree.children[p] \subseteq Paths
        /\ \A dir \in DOMAIN tree.children : \A p \in tree.children[dir] : Front(p) = dir
        /\ tree.expanded \subseteq Paths /\ tree.loading \subseteq Paths
        /\ tree.renaming \in Paths \cup {NoPath}
        /\ tree.query \in BOOLEAN /\ tree.indexing \in BOOLEAN /\ tree.token \in Nat
    BY <2>1 DEF TreeTyped, Cache, Folders, Entries
  <2>8. /\ native.disk \subseteq Paths /\ native.scopes \in Seq(Roots)
        /\ native.subscribed \subseteq Roots /\ native.events \subseteq native.subscribed
    BY <2>1 DEF NativeTyped
  <2>9. /\ IsABag(calls)
        /\ \A c \in DOMAIN calls : c.op \in {"list", "search"} => c.dir \in Paths /\ c.list \in Listing
        /\ \A c \in DOMAIN calls : c.op = "list" => c.k \in Continuation
    BY <2>1 DEF CallsTyped, CallTyped, Folders
  <2>10. QED
    BY <2>1, <2>4, <2>5, <2>6, <2>7, <2>8, <2>9 DEF TreeWellFormed, TypeOK, Counted
<1>2. QED
  BY <1>1, ExplorerInvariant, PTL

(* No spinner of the tree turns without a command on its way that will end   *)
(* it, also when a search is superseded by a refresh, a new query or another *)
(* root (SpinnersAreAwaited).                                                *)
THEOREM SpinnersStayAwaited == Spec => []SpinnersAreAwaited
<1>1. Invariant => SpinnersAreAwaited
  BY DEF Invariant, Good, Searching, Loading, Indexing, Now, SpinnersAreAwaited
<1>2. QED
  BY <1>1, ExplorerInvariant, PTL

(* A walk that still counts lists folders of the root in view, although no   *)
(* change of the root cancels one (SearchStaysInRoot).                       *)
THEOREM SearchStaysInItsRoot == Spec => []SearchStaysInRoot
<1>1. Invariant => SearchStaysInRoot
  BY DEF Invariant, Good, Searching, Tokens, Now, SearchStaysInRoot
<1>2. QED
  BY <1>1, ExplorerInvariant, PTL

(* With a query and nothing on its way, every folder that the search comes    *)
(* to from the root has been listed, whatever refreshes, changes of the disk, *)
(* renamings and walks came in between, unless one of them left a gap         *)
(* (SearchIsComplete).                                                       *)
THEOREM SearchStaysComplete == Spec => []SearchIsComplete
<1>1. Invariant => SearchIsComplete
  <2> SUFFICES ASSUME Invariant, tree.query, calls = EmptyBag, ~gaps
               PROVE  Unread(tree.children, tree.root) = {}
    BY DEF SearchIsComplete, Unread
  <2>1. DOMAIN calls = {}
    BY DEF EmptyBag, SetToBag
  <2>2. Covered(tree.children, tree.root, tree.token, DOMAIN calls)
    BY <2>1 DEF Invariant, Promised, Followed, Now
  <2>3. QED
    BY <2>1, <2>2 DEF Covered
<1>2. QED
  BY <1>1, ExplorerInvariant, PTL

(* When no run of applyWatch is on its way any more, the checkout in view is *)
(* watched exactly when the setting says so, however the runs of several     *)
(* mounts, trunks and settings came in between (LiveViewIsWatched).          *)
THEOREM LiveViewStaysWatched == Spec => []LiveViewIsWatched
<1>1. Invariant => LiveViewIsWatched
  <2> SUFFICES ASSUME Invariant, watchCalls = <<>>, view.mounted, ShownScope(Now) # 0
               PROVE  native.scopes[ShownScope(Now)] \in native.subscribed <=> view.live
    BY DEF LiveViewIsWatched
  <2>1. Served(view.live, native.scopes, native.subscribed, native.scopes[ShownScope(Now)], watchCalls)
    BY DEF Invariant, Watched, Watching, Now
  <2>2. Len(watchCalls) = 0
    OBVIOUS
  <2>3. \A i \in 1..Len(watchCalls) : FALSE
    BY <2>2
  <2>4. QED
    BY <2>1, <2>3 DEF Served
<1>2. QED
  BY <1>1, ExplorerInvariant, PTL
==============================================================================
