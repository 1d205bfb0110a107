------------------------ MODULE SourceControlPanelProofs ------------------------
(***************************************************************************)
(* Proofs about the source-control panel, for any trunks and checkouts and  *)
(* any bounds.                                                             *)
(***************************************************************************)
EXTENDS SourceControlPanel, TLAPS, SequenceTheorems

-----------------------------------------------------------------------------
(* The inductive invariant.  Its parts are about the fields of a state that *)
(* a step works on; D are the calls that are awaited.                       *)
Fields == {"project", "store", "panel", "watch", "native", "calls", "written"}
NativeFields == {"scopes", "subscribed", "events", "repo"}

Project ==
  [active : Trunks, generation : 0..MaxGestures, runtime : [Trunks -> Runtime], home : [Trunks -> Checkouts]]
Store ==
  [snapshot : [Trunks -> Snapshot \cup {NoSnapshot}], lastRevision : [Trunks -> 0..MaxRevision],
   loading : [Trunks -> BOOLEAN], log : SUBSET Trunks]
Panel ==
  [mounted : BOOLEAN, mount : 0..MaxMounts, busyAction : BOOLEAN, busyFile : BOOLEAN,
   expanded : DiffKinds \cup {"none"}, diffs : [DiffKinds -> Checkouts \cup {"none", "loading", "error"}],
   discardTarget : Checkouts \cup {NoCheckout}]
Watch == [listening : 0..MaxScopes, timer : 0..MaxScopes]
Scope == [trunk : Trunks, checkout : Checkouts]
Repository == [version : 0..MaxVersion, revision : 0..MaxRevision, files : SUBSET DiffKinds, isRepo : BOOLEAN]

Typed(a) ==
  /\ DOMAIN a = Fields
  /\ a.project \in Project /\ a.store \in Store /\ a.panel \in Panel /\ a.watch \in Watch
  /\ DOMAIN a.native = NativeFields
  /\ a.native.scopes \in Seq(Scope) /\ Len(a.native.scopes) <= MaxScopes
  /\ a.native.subscribed \subseteq Scopes /\ a.native.events \subseteq Checkouts
  /\ a.native.repo \in [Checkouts -> Repository]
  /\ IsABag(a.calls) /\ DOMAIN a.calls \subseteq Call
  /\ a.written \in [Trunks -> 0..MaxVersion]

(* The commands whose end the panel follows.                                *)
Finishing == {"mutate", "snapshot", "log"}

(* A resolved checkout is a scope of its trunk, and so is that of a command. *)
Scoped(project_, scopes, D) ==
  /\ \A t \in Trunks : project_.runtime[t].status = "ready" =>
       project_.runtime[t].scope \in DOMAIN scopes /\ scopes[project_.runtime[t].scope].trunk = t
  /\ \A c \in D : c.op # "resolve" => c.scope \in DOMAIN scopes /\ scopes[c.scope].trunk = c.trunk
  /\ \A c \in D : c.op = "diff" => c.what \in DiffKinds
  /\ \A c \in D : c.then # "nothing" => c.op \in Finishing

(* What shows a spinner waits for a command; a hidden panel shows none.      *)
Awaited(panel_, loading, D) ==
  /\ ~panel_.mounted =>
       ~panel_.busyAction /\ ~panel_.busyFile /\ \A k \in DiffKinds : panel_.diffs[k] # "loading"
  /\ panel_.busyAction => \E c \in D : c.then = "panel" /\ c.since = panel_.mount
  /\ panel_.busyFile => \E c \in D : c.then = "file" /\ c.since = panel_.mount
  /\ \A k \in DiffKinds : panel_.diffs[k] = "loading" =>
       \E c \in D : c.op = "diff" /\ c.what = k /\ c.since = panel_.mount
  /\ \A t \in Trunks : loading[t] => \E c \in D : c.op = "snapshot" /\ c.trunk = t

Watched(watch_, subscribed, shown) ==
  {watch_.listening, watch_.timer} \subseteq {NoScope, shown} /\ subscribed \subseteq {shown}

(* A scope whose only run of the hook shows it is subscribed, and no answer *)
(* that is on its way ends that.                                            *)
Hooked(D, subscribed, runs, shown, mount) ==
  \A s \in Scopes :
    /\ runs[s] = 0 => s # shown /\ \A c \in D : c.op = "subscribe" => c.scope # s
    /\ runs[s] = 1 /\ s = shown =>
         /\ s \in subscribed
         /\ \A c \in D : c.op = "subscribe" /\ c.scope = s => c.since = mount

(* The snapshots there are: those of the store, and those that will be.      *)
Known(snapshot, D) == ({snapshot[t] : t \in Trunks} \cup {c.snap : c \in D}) \ {NoSnapshot}

(* Of one checkout, a later revision saw no less.                            *)
Ordered(snapshot, D, repo) ==
  /\ \A x \in Known(snapshot, D) : x.revision <= repo[x.checkout].revision /\ x.seen <= repo[x.checkout].version
  /\ \A x, y \in Known(snapshot, D) : x.checkout = y.checkout /\ x.revision <= y.revision => x.seen <= y.seen

(* What a command took and left is its checkout's.                           *)
Taken(D, scopes, repo) ==
  \A c \in D :
    /\ c.snap # NoSnapshot => c.op = "snapshot" /\ c.snap.checkout = scopes[c.scope].checkout
    /\ c.wrote # 0 =>
         /\ c.op \in {"mutate", "snapshot"}
         /\ c.wrote <= repo[scopes[c.scope].checkout].version
         /\ c.snap # NoSnapshot => c.snap.seen >= c.wrote

(* A trunk whose checkout never moved knows one checkout only, and has read *)
(* what it wrote.                                                           *)
Stayed(snapshot, lastRevision, scopes, home, written_, relinked_) ==
  /\ \A t \in Trunks : lastRevision[t] = snapshot[t].revision
  /\ \A t \in Trunks \ relinked_ :
       /\ \A s \in DOMAIN scopes : scopes[s].trunk = t => scopes[s].checkout = home[t]
       /\ snapshot[t] # NoSnapshot => snapshot[t].checkout = home[t]
       /\ snapshot[t].seen >= written_[t]

Settled(a, runs, shown, relinked_) ==
  LET D == DOMAIN a.calls
  IN  /\ Typed(a)
      /\ Scoped(a.project, a.native.scopes, D)
      /\ Watched(a.watch, a.native.subscribed, shown)
      /\ Hooked(D, a.native.subscribed, runs, shown, a.panel.mount)
      /\ Ordered(a.store.snapshot, D, a.native.repo)
      /\ Taken(D, a.native.scopes, a.native.repo)
      /\ Stayed(a.store.snapshot, a.store.lastRevision, a.native.scopes, a.project.home, a.written, relinked_)

Good(a, runs, shown, relinked_) ==
  Settled(a, runs, shown, relinked_) /\ Awaited(a.panel, a.store.loading, DOMAIN a.calls)

Counted == hookRuns \in [Scopes -> 0..2] /\ relinked \subseteq Trunks /\ gestures \in 0..MaxGestures

Invariant == Good(Now, hookRuns, ShownScope(Now), relinked) /\ Counted


-----------------------------------------------------------------------------
(* The calls that are awaited.                                              *)

LEMMA BagGains ==
  ASSUME NEW B, IsABag(B), NEW d
  PROVE  IsABag(B (+) SetToBag({d})) /\ DOMAIN (B (+) SetToBag({d})) = DOMAIN B \cup {d}
<1> DEFINE n(e) == (IF e \in DOMAIN B THEN B[e] ELSE 0) + (IF e \in {d} THEN 1 ELSE 0)
           C == B (+) SetToBag({d})
<1>1. C = [e \in DOMAIN B \cup {d} |-> n(e)]
  BY DEF (+), SetToBag
<1>2. \A e \in DOMAIN B : B[e] \in Nat /\ B[e] > 0
  BY DEF IsABag
<1>3. \A e \in DOMAIN B \cup {d} : n(e) \in {m \in Nat : m > 0}
  BY <1>2
<1> HIDE DEF n, C
<1>4. QED
  BY <1>1, <1>3 DEF IsABag, C

LEMMA BagLoses ==
  ASSUME NEW B, IsABag(B), NEW c
  PROVE  /\ IsABag(B (-) SetToBag({c}))
         /\ DOMAIN (B (-) SetToBag({c})) \subseteq DOMAIN B
         /\ DOMAIN B \ {c} \subseteq DOMAIN (B (-) SetToBag({c}))
<1> DEFINE n(e) == IF e \in {c} THEN B[e] - 1 ELSE B[e]
           A == [e \in DOMAIN B |-> n(e)]
           C == B (-) SetToBag({c})
<1>1. C = [e \in {x \in DOMAIN A : A[x] > 0} |-> A[e]]
  BY DEF (-), SetToBag
<1>2. \A e \in DOMAIN B : B[e] \in Nat /\ B[e] > 0
  BY DEF IsABag
<1>3. \A e \in DOMAIN B : n(e) \in Nat /\ (e # c => n(e) > 0)
  BY <1>2
<1> HIDE DEF n
<1>4. DOMAIN A = DOMAIN B /\ \A e \in DOMAIN B : A[e] = n(e)
  OBVIOUS
<1> HIDE DEF A, C
<1>5. DOMAIN C = {x \in DOMAIN B : n(x) > 0} /\ \A e \in DOMAIN C : C[e] = n(e)
  BY <1>1, <1>4
<1>6. C = [e \in DOMAIN C |-> C[e]]
  BY <1>1
<1>7. QED
  BY <1>3, <1>5, <1>6 DEF IsABag, C

Keeps(a, b, changed) ==
  DOMAIN a = Fields /\ DOMAIN b = Fields /\ \A x \in Fields \ changed : b[x] = a[x]

Since(a, op, then) ==
  IF op = "resolve" THEN a.project.generation
  ELSE IF then # "nothing" \/ op \in {"diff", "subscribe", "listen"} THEN a.panel.mount
  ELSE 0

(* The call that Send adds.                                                 *)
Sent(a, op, trunk, scope_, what, then) ==
  [op |-> op, trunk |-> trunk, scope |-> scope_, what |-> what, then |-> then, snap |-> NoSnapshot,
   wrote |-> 0, since |-> Since(a, op, then)]

Operations == {"resolve", "snapshot", "log", "mutate", "diff", "initialize", "subscribe", "listen"}
Whats == FileActions \cup PanelActions \cup DiffKinds \cup {"nothing"}

LEMMA TheBounds ==
  /\ MaxScopes \in Nat \ {0} /\ MaxVersion \in Nat /\ MaxRevision \in Nat /\ MaxCalls \in Nat
  /\ MaxMounts \in Nat /\ MaxRelinks \in Nat /\ MaxGestures \in Nat
BY PanelBounds, FirstScope

LEMMA SendCalls ==
  ASSUME NEW a, Typed(a), NEW op \in Operations, NEW trunk \in Trunks, NEW s \in 0..MaxScopes,
         NEW what \in Whats, NEW then \in {"file", "panel", "nothing"}
  PROVE  /\ Keeps(a, Send(a, op, trunk, s, what, then), {"calls"})
         /\ Typed(Send(a, op, trunk, s, what, then))
         /\ DOMAIN Send(a, op, trunk, s, what, then).calls
              = DOMAIN a.calls \cup {Sent(a, op, trunk, s, what, then)}
         /\ Sent(a, op, trunk, s, what, then) \in Call
<1> DEFINE d == Sent(a, op, trunk, s, what, then)
           B == a.calls (+) SetToBag({d})
           b == Send(a, op, trunk, s, what, then)
<1>1. b = [a EXCEPT !.calls = B]
  BY DEF Send, Sent, Since
<1>2. d \in Call
  <2>1. Since(a, op, then) \in 0..Larger(MaxMounts, MaxGestures)
    <3>1. a.project.generation \in 0..MaxGestures /\ a.panel.mount \in 0..MaxMounts
      BY DEF Typed, Project, Panel
    <3>2. QED
      BY <3>1, TheBounds DEF Since, Larger
  <2> HIDE DEF Since
  <2>2. 0 \in 0..MaxVersion
    BY TheBounds
  <2>3. QED
    BY <2>1, <2>2 DEF Sent, Call, Operations, Whats
<1>3. IsABag(a.calls) /\ DOMAIN a.calls \subseteq Call /\ DOMAIN a = Fields
  BY DEF Typed
<1> HIDE DEF d
<1>4. IsABag(B) /\ DOMAIN B = DOMAIN a.calls \cup {d}
  BY <1>3, BagGains
<1> HIDE DEF B
<1>5. b.calls = B /\ Keeps(a, b, {"calls"})
  BY <1>1, <1>3 DEF Keeps, Fields
<1> HIDE DEF b
<1>6. Typed(b)
  <2>1. /\ DOMAIN b = Fields
        /\ b.project = a.project /\ b.store = a.store /\ b.panel = a.panel /\ b.watch = a.watch
        /\ b.native = a.native /\ b.written = a.written
    BY <1>5 DEF Keeps, Fields
  <2>2. IsABag(b.calls) /\ DOMAIN b.calls \subseteq Call
    BY <1>2, <1>3, <1>4, <1>5
  <2>3. QED
    BY <2>1, <2>2 DEF Typed
<1>7. QED
  BY <1>2, <1>4, <1>5, <1>6 DEF b, d

LEMMA SentFields ==
  ASSUME NEW a, NEW op, NEW trunk, NEW s, NEW what, NEW then
  PROVE  LET d == Sent(a, op, trunk, s, what, then)
         IN  /\ d.op = op /\ d.trunk = trunk /\ d.scope = s /\ d.what = what /\ d.then = then
             /\ d.snap = NoSnapshot /\ d.wrote = 0 /\ d.since = Since(a, op, then)
BY DEF Sent

LEMMA RunningCalls ==
  ASSUME Typed(Now), NEW c
  PROVE  /\ Keeps(Now, Running(c), {"calls"}) /\ Typed(Running(c))
         /\ DOMAIN Running(c).calls \subseteq DOMAIN calls
         /\ DOMAIN calls \ {c} \subseteq DOMAIN Running(c).calls
<1> DEFINE B == calls (-) SetToBag({c})
           b == Running(c)
<1>1. b = [Now EXCEPT !.calls = B] /\ Now.calls = calls
  BY DEF Running, Now
<1>2. IsABag(calls) /\ DOMAIN calls \subseteq Call /\ DOMAIN Now = Fields
  BY <1>1 DEF Typed
<1>3. IsABag(B) /\ DOMAIN B \subseteq DOMAIN calls /\ DOMAIN calls \ {c} \subseteq DOMAIN B
  BY <1>2, BagLoses
<1> HIDE DEF B
<1>4. b.calls = B /\ Keeps(Now, b, {"calls"})
  BY <1>1, <1>2 DEF Keeps, Fields
<1> HIDE DEF b
<1>5. /\ DOMAIN b = Fields
      /\ b.project = Now.project /\ b.store = Now.store /\ b.panel = Now.panel /\ b.watch = Now.watch
      /\ b.native = Now.native /\ b.written = Now.written
  BY <1>4 DEF Keeps, Fields
<1>6. Typed(b)
  BY <1>2, <1>3, <1>4, <1>5 DEF Typed
<1>7. QED
  BY <1>3, <1>4, <1>6 DEF b

LEMMA ReplaceCalls ==
  ASSUME NEW a, Typed(a), NEW d \in Call
  PROVE  /\ Keeps(a, Replace(a, d), {"calls"}) /\ Typed(Replace(a, d))
         /\ DOMAIN Replace(a, d).calls = DOMAIN a.calls \cup {d}
<1> DEFINE B == a.calls (+) SetToBag({d})
           b == Replace(a, d)
<1>1. b = [a EXCEPT !.calls = B]
  BY DEF Replace
<1>2. IsABag(a.calls) /\ DOMAIN a.calls \subseteq Call /\ DOMAIN a = Fields
  BY DEF Typed
<1>3. IsABag(B) /\ DOMAIN B = DOMAIN a.calls \cup {d}
  BY <1>2, BagGains
<1> HIDE DEF B
<1>4. b.calls = B /\ Keeps(a, b, {"calls"})
  BY <1>1, <1>2 DEF Keeps, Fields
<1> HIDE DEF b
<1>5. /\ DOMAIN b = Fields
      /\ b.project = a.project /\ b.store = a.store /\ b.panel = a.panel /\ b.watch = a.watch
      /\ b.native = a.native /\ b.written = a.written
  BY <1>4 DEF Keeps, Fields
<1>6. Typed(b)
  BY <1>2, <1>3, <1>4, <1>5 DEF Typed
<1>7. QED
  BY <1>3, <1>4, <1>6 DEF b


\* The parts of the invariant that say what every call is.
Fresh(d, scopes) ==
  /\ d.snap = NoSnapshot /\ d.wrote = 0 /\ d.op # "subscribe"
  /\ d.op # "resolve" => d.scope \in DOMAIN scopes /\ scopes[d.scope].trunk = d.trunk
  /\ d.op = "diff" => d.what \in DiffKinds
  /\ d.then # "nothing" => d.op \in Finishing

LEMMA TakePart ==
  ASSUME NEW D, NEW E \in SUBSET D, NEW project_, NEW scopes, NEW subscribed, NEW runs, NEW shown, NEW mount,
         NEW snapshot, NEW repo
  PROVE  /\ Scoped(project_, scopes, D) => Scoped(project_, scopes, E)
         /\ Hooked(D, subscribed, runs, shown, mount) => Hooked(E, subscribed, runs, shown, mount)
         /\ Ordered(snapshot, D, repo) => Ordered(snapshot, E, repo)
         /\ Taken(D, scopes, repo) => Taken(E, scopes, repo)
<1>1. Scoped(project_, scopes, D) => Scoped(project_, scopes, E)
  BY DEF Scoped
<1>2. Hooked(D, subscribed, runs, shown, mount) => Hooked(E, subscribed, runs, shown, mount)
  BY DEF Hooked
<1>3. Known(snapshot, E) \subseteq Known(snapshot, D)
  BY DEF Known
<1>4. Ordered(snapshot, D, repo) => Ordered(snapshot, E, repo)
  BY <1>3 DEF Ordered
<1>5. Taken(D, scopes, repo) => Taken(E, scopes, repo)
  BY DEF Taken
<1>6. QED
  BY <1>1, <1>2, <1>4, <1>5

LEMMA GainPart ==
  ASSUME NEW D, NEW d, NEW project_, NEW scopes, NEW subscribed, NEW runs, NEW shown, NEW mount,
         NEW snapshot, NEW repo, Fresh(d, scopes)
  PROVE  /\ Scoped(project_, scopes, D) => Scoped(project_, scopes, D \cup {d})
         /\ Hooked(D, subscribed, runs, shown, mount) => Hooked(D \cup {d}, subscribed, runs, shown, mount)
         /\ Ordered(snapshot, D, repo) => Ordered(snapshot, D \cup {d}, repo)
         /\ Taken(D, scopes, repo) => Taken(D \cup {d}, scopes, repo)
<1>1. Scoped(project_, scopes, D) => Scoped(project_, scopes, D \cup {d})
  BY DEF Scoped, Fresh
<1>2. Hooked(D, subscribed, runs, shown, mount) => Hooked(D \cup {d}, subscribed, runs, shown, mount)
  BY DEF Hooked, Fresh
<1>3. Known(snapshot, D \cup {d}) = Known(snapshot, D)
  BY DEF Known, Fresh
<1>4. Ordered(snapshot, D, repo) => Ordered(snapshot, D \cup {d}, repo)
  BY <1>3 DEF Ordered
<1>5. Taken(D, scopes, repo) => Taken(D \cup {d}, scopes, repo)
  BY DEF Taken, Fresh
<1>6. QED
  BY <1>1, <1>2, <1>4, <1>5

\* Whoever waits goes on waiting when a call is added.
LEMMA AwaitedGains ==
  ASSUME NEW panel_, NEW loading, NEW D, NEW E, D \subseteq E, Awaited(panel_, loading, D)
  PROVE  Awaited(panel_, loading, E)
<1>1. panel_.busyAction => \E c \in E : c.then = "panel" /\ c.since = panel_.mount
  BY DEF Awaited
<1>2. panel_.busyFile => \E c \in E : c.then = "file" /\ c.since = panel_.mount
  BY DEF Awaited
<1>3. \A k \in DiffKinds : panel_.diffs[k] = "loading" =>
        \E c \in E : c.op = "diff" /\ c.what = k /\ c.since = panel_.mount
  BY DEF Awaited
<1>4. \A t \in Trunks : loading[t] => \E c \in E : c.op = "snapshot" /\ c.trunk = t
  BY DEF Awaited
<1>5. QED
  BY <1>1, <1>2, <1>3, <1>4 DEF Awaited

LEMMA SendSettled ==
  ASSUME NEW a, NEW runs, NEW shown, NEW relinked_, Settled(a, runs, shown, relinked_),
         NEW op \in Operations \ {"subscribe"}, NEW trunk \in Trunks, NEW s \in 0..MaxScopes, NEW what \in Whats,
         NEW then \in {"file", "panel", "nothing"},
         op # "resolve" => s \in DOMAIN a.native.scopes /\ a.native.scopes[s].trunk = trunk,
         op = "diff" => what \in DiffKinds, then # "nothing" => op \in Finishing
  PROVE  Settled(Send(a, op, trunk, s, what, then), runs, shown, relinked_)
<1> DEFINE b == Send(a, op, trunk, s, what, then)
           d == Sent(a, op, trunk, s, what, then)
           D == DOMAIN a.calls
<1>1. Typed(a)
  BY DEF Settled
<1>2. Keeps(a, b, {"calls"}) /\ Typed(b) /\ DOMAIN b.calls = D \cup {d}
  BY <1>1, SendCalls
<1>3. d.op = op /\ d.trunk = trunk /\ d.scope = s /\ d.what = what /\ d.then = then /\ d.snap = NoSnapshot /\ d.wrote = 0
  BY SentFields
<1>4. Fresh(d, a.native.scopes)
  BY <1>3 DEF Fresh
<1> HIDE DEF d, b
<1>5. /\ b.project = a.project /\ b.store = a.store /\ b.panel = a.panel /\ b.watch = a.watch
      /\ b.native = a.native /\ b.written = a.written
  BY <1>2 DEF Keeps, Fields
<1>6. QED
  BY <1>2, <1>4, <1>5, GainPart DEF Settled, b

LEMMA SendGood ==
  ASSUME NEW a, NEW runs, NEW shown, NEW relinked_, Good(a, runs, shown, relinked_),
         NEW op \in Operations \ {"subscribe"}, NEW trunk \in Trunks, NEW s \in 0..MaxScopes, NEW what \in Whats,
         NEW then \in {"file", "panel", "nothing"},
         op # "resolve" => s \in DOMAIN a.native.scopes /\ a.native.scopes[s].trunk = trunk,
         op = "diff" => what \in DiffKinds, then # "nothing" => op \in Finishing
  PROVE  Good(Send(a, op, trunk, s, what, then), runs, shown, relinked_)
<1> DEFINE b == Send(a, op, trunk, s, what, then)
           d == Sent(a, op, trunk, s, what, then)
           D == DOMAIN a.calls
<1>1. Settled(a, runs, shown, relinked_) /\ Typed(a) /\ Awaited(a.panel, a.store.loading, D)
  BY DEF Good, Settled
<1>2. Settled(b, runs, shown, relinked_)
  BY <1>1, SendSettled
<1>3. Keeps(a, b, {"calls"}) /\ DOMAIN b.calls = D \cup {d}
  BY <1>1, SendCalls
<1> HIDE DEF b, d
<1>4. b.store = a.store /\ b.panel = a.panel
  BY <1>3 DEF Keeps, Fields
<1>5. Awaited(b.panel, b.store.loading, DOMAIN b.calls)
  BY <1>1, <1>3, <1>4, AwaitedGains
<1>6. QED
  BY <1>2, <1>5 DEF Good, b

LEMMA RunningSettled ==
  ASSUME NEW runs, NEW shown, NEW relinked_, Settled(Now, runs, shown, relinked_), NEW c
  PROVE  Settled(Running(c), runs, shown, relinked_)
<1> DEFINE b == Running(c)
<1>1. Typed(Now) /\ Now.calls = calls
  BY DEF Settled, Now
<1>2. Keeps(Now, b, {"calls"}) /\ Typed(b) /\ DOMAIN b.calls \subseteq DOMAIN calls
  BY <1>1, RunningCalls
<1> HIDE DEF b
<1>3. /\ b.project = Now.project /\ b.store = Now.store /\ b.panel = Now.panel /\ b.watch = Now.watch
      /\ b.native = Now.native /\ b.written = Now.written
  BY <1>2 DEF Keeps, Fields
<1>4. QED
  BY <1>1, <1>2, <1>3, TakePart DEF Settled, b

-----------------------------------------------------------------------------
(* The checkout in view, and the effects when it changes.                   *)

LEMMA ShownIsScope ==
  ASSUME NEW a, Typed(a), NEW D, Scoped(a.project, a.native.scopes, D)
  PROVE  /\ ShownScope(a) \in 0..MaxScopes
         /\ ShownScope(a) # NoScope =>
              /\ ShownScope(a) \in Scopes /\ ShownScope(a) \in DOMAIN a.native.scopes
              /\ a.native.scopes[ShownScope(a)].trunk = a.project.active /\ a.panel.mounted
<1> DEFINE t == a.project.active
           r == a.project.runtime[t]
<1>1. t \in Trunks /\ r \in Runtime
  BY DEF Typed, Project
<1>2. r.status = "ready" => r.scope \in DOMAIN a.native.scopes /\ a.native.scopes[r.scope].trunk = t
  BY <1>1 DEF Scoped
<1>3. r.scope \in 0..MaxScopes
  BY <1>1 DEF Runtime
<1>4. ShownScope(a) = IF a.panel.mounted /\ r.status = "ready" THEN r.scope ELSE NoScope
  BY DEF ShownScope
<1>5. NoScope \in 0..MaxScopes /\ \A s \in 0..MaxScopes : s # NoScope => s \in Scopes
  BY TheBounds DEF NoScope, Scopes
<1> HIDE DEF r, t
<1>6. QED
  BY <1>2, <1>3, <1>4, <1>5 DEF t

LEMMA LoadSnapshotGood ==
  ASSUME NEW a, NEW runs, NEW shown, NEW relinked_, Good(a, runs, shown, relinked_),
         NEW s \in DOMAIN a.native.scopes, NEW trunk \in Trunks, a.native.scopes[s].trunk = trunk
  PROVE  /\ Good(loadSnapshot(a, trunk, s), runs, shown, relinked_)
         /\ Keeps(a, loadSnapshot(a, trunk, s), {"store", "calls"})
<1> DEFINE b == [a EXCEPT !.store.loading[trunk] = TRUE]
           e == Send(b, "snapshot", trunk, s, "nothing", "nothing")
           d == Sent(b, "snapshot", trunk, s, "nothing", "nothing")
           D == DOMAIN a.calls
<1>1. Settled(a, runs, shown, relinked_) /\ Typed(a) /\ Awaited(a.panel, a.store.loading, D)
  BY DEF Good, Settled
<1>2. a.store \in Store /\ DOMAIN a = Fields
  BY <1>1 DEF Typed
<1>3. /\ b.store = [a.store EXCEPT !.loading = [a.store.loading EXCEPT ![trunk] = TRUE]]
      /\ Keeps(a, b, {"store"})
  BY <1>2 DEF Keeps, Fields
<1> HIDE DEF b
<1>4. /\ b.store \in Store /\ b.store.snapshot = a.store.snapshot /\ b.store.lastRevision = a.store.lastRevision
      /\ b.store.loading[trunk] = TRUE
      /\ \A t \in Trunks \ {trunk} : b.store.loading[t] = a.store.loading[t]
  <2> DEFINE l == [a.store.loading EXCEPT ![trunk] = TRUE]
  <2>1. a.store.loading \in [Trunks -> BOOLEAN]
    BY <1>2 DEF Store
  <2>2. /\ l \in [Trunks -> BOOLEAN] /\ l[trunk] = TRUE
        /\ \A t \in Trunks \ {trunk} : l[t] = a.store.loading[t]
    BY <2>1
  <2> HIDE DEF l
  <2>3. b.store = [a.store EXCEPT !.loading = l]
    BY <1>3 DEF l
  <2>4. b.store \in Store
    BY <1>2, <2>2, <2>3 DEF Store
  <2>5. b.store.snapshot = a.store.snapshot /\ b.store.lastRevision = a.store.lastRevision /\ b.store.loading = l
    BY <1>2, <2>3 DEF Store
  <2>6. QED
    BY <2>2, <2>4, <2>5
<1>5. /\ DOMAIN b = Fields
      /\ b.project = a.project /\ b.panel = a.panel /\ b.watch = a.watch
      /\ b.native = a.native /\ b.calls = a.calls /\ b.written = a.written
  BY <1>3 DEF Keeps, Fields
<1>6. Typed(b)
  BY <1>1, <1>4, <1>5 DEF Typed
<1>7. Settled(b, runs, shown, relinked_)
  BY <1>1, <1>4, <1>5, <1>6 DEF Settled
<1>8. s \in 0..MaxScopes
  BY <1>1, TheBounds DEF Typed
<1>9. Settled(e, runs, shown, relinked_)
  BY <1>5, <1>7, <1>8, SendSettled DEF Operations, Whats
<1>10. Keeps(b, e, {"calls"}) /\ DOMAIN e.calls = D \cup {d}
  BY <1>5, <1>6, <1>8, SendCalls DEF Operations, Whats
<1>11. d.op = "snapshot" /\ d.trunk = trunk
  BY SentFields
<1>12. loadSnapshot(a, trunk, s) = e
  BY DEF loadSnapshot, b
<1> HIDE DEF d, e
<1>13. e.store = b.store /\ e.panel = a.panel /\ Keeps(a, e, {"store", "calls"})
  BY <1>3, <1>5, <1>10 DEF Keeps, Fields
<1>14. Awaited(e.panel, e.store.loading, DOMAIN e.calls)
  <2>1. \A t \in Trunks : e.store.loading[t] =>
          \E c \in DOMAIN e.calls : c.op = "snapshot" /\ c.trunk = t
    BY <1>1, <1>4, <1>10, <1>11, <1>13 DEF Awaited
  <2>2. Awaited(a.panel, a.store.loading, DOMAIN e.calls)
    BY <1>1, <1>10, AwaitedGains
  <2>3. QED
    BY <1>13, <2>1, <2>2 DEF Awaited
<1>15. QED
  BY <1>9, <1>12, <1>13, <1>14 DEF Good

LEMMA LeaveGood ==
  ASSUME NEW a, NEW runs, NEW shown \in 0..MaxScopes, NEW relinked_, Good(a, runs, shown, relinked_)
  PROVE  /\ Good(LeaveCheckout(a, shown), runs, NoScope, relinked_)
         /\ Keeps(a, LeaveCheckout(a, shown), {"watch", "native"})
         /\ LeaveCheckout(a, shown).native.scopes = a.native.scopes
<1> DEFINE b == LeaveCheckout(a, shown)
           D == DOMAIN a.calls
           none == [listening |-> NoScope, timer |-> NoScope]
           n == [a.native EXCEPT !.subscribed = @ \ {shown}]
<1>1. Typed(a) /\ Settled(a, runs, shown, relinked_) /\ Awaited(a.panel, a.store.loading, D)
  BY DEF Good, Settled
<1>2. /\ DOMAIN a = Fields /\ DOMAIN a.native = NativeFields /\ a.native.subscribed \subseteq Scopes
      /\ a.native.subscribed \subseteq {shown}
      /\ {a.watch.listening, a.watch.timer} \subseteq {NoScope, shown}
  BY <1>1 DEF Typed, Settled, Watched
<1>3. NoScope \notin Scopes /\ NoScope \in 0..MaxScopes
  BY TheBounds DEF NoScope, Scopes
<1>4. /\ \A s \in Scopes : runs[s] = 0 => \A c \in D : c.op = "subscribe" => c.scope # s
      /\ Hooked(D, {}, runs, NoScope, a.panel.mount)
  BY <1>1, <1>3 DEF Settled, Hooked
<1>5. CASE shown = NoScope
  <2>1. b = a /\ a.native.subscribed = {}
    BY <1>2, <1>3, <1>5 DEF LeaveCheckout
  <2>2. QED
    BY <1>1, <1>2, <1>5, <2>1 DEF Keeps
<1>6. CASE shown # NoScope
  <2>1. b = [a EXCEPT !.watch = none, !.native = n]
    BY <1>6 DEF LeaveCheckout
  <2>2. /\ DOMAIN n = NativeFields /\ n.subscribed = {} /\ n.scopes = a.native.scopes
        /\ n.events = a.native.events /\ n.repo = a.native.repo
    BY <1>2 DEF NativeFields
  <2> HIDE DEF n, b
  <2>3. b.watch = none /\ b.native = n /\ Keeps(a, b, {"watch", "native"})
    BY <1>2, <2>1 DEF Keeps, Fields
  <2>4. /\ DOMAIN b = Fields
        /\ b.project = a.project /\ b.store = a.store /\ b.panel = a.panel
        /\ b.calls = a.calls /\ b.written = a.written
    BY <2>3 DEF Keeps, Fields
  <2>5. none \in Watch
    BY <1>3 DEF Watch
  <2>6. Typed(b)
    BY <1>1, <2>2, <2>3, <2>4, <2>5 DEF Typed
  <2>7. Watched(b.watch, b.native.subscribed, NoScope)
    BY <2>2, <2>3 DEF Watched
  <2>8. Hooked(D, b.native.subscribed, runs, NoScope, b.panel.mount)
    BY <1>4, <2>2, <2>3, <2>4
  <2>9. Good(b, runs, NoScope, relinked_)
    BY <1>1, <2>2, <2>3, <2>4, <2>6, <2>7, <2>8 DEF Settled, Good
  <2>10. QED
    BY <2>2, <2>3, <2>9 DEF b
<1>7. QED
  BY <1>5, <1>6

\* How often the hook ran, when it runs once more for a scope.
Ran(runs, s) == IF runs[s] = 2 THEN runs ELSE [runs EXCEPT ![s] = @ + 1]

LEMMA EnterGood ==
  ASSUME NEW a, NEW runs \in [Scopes -> 0..2], NEW relinked_, Good(a, runs, NoScope, relinked_),
         NEW s \in Scopes, s \in DOMAIN a.native.scopes, a.native.scopes[s].trunk = a.project.active
  PROVE  /\ Good(EnterCheckout(a, s), Ran(runs, s), s, relinked_)
         /\ Ran(runs, s) \in [Scopes -> 0..2]
         /\ EnterCheckout(a, s).project = a.project /\ EnterCheckout(a, s).panel = a.panel
<1> DEFINE t == a.project.active
           loaded == loadSnapshot(a, t, s)
           logged == IF t \in a.store.log THEN loaded ELSE Send(loaded, "log", t, s, "nothing", "nothing")
           n == [logged.native EXCEPT !.subscribed = @ \cup {s}]
           b == [logged EXCEPT !.native = n]
           e == Send(b, "subscribe", t, s, "nothing", "nothing")
           d == Sent(b, "subscribe", t, s, "nothing", "nothing")
<1>1. s # NoScope /\ s \in 0..MaxScopes
  BY TheBounds DEF Scopes, NoScope
<1>2. EnterCheckout(a, s) = e
  BY <1>1 DEF EnterCheckout
<1>3. Typed(a) /\ t \in Trunks /\ DOMAIN a = Fields
  BY DEF Good, Settled, Typed, Project
<1>4. Good(loaded, runs, NoScope, relinked_) /\ Keeps(a, loaded, {"store", "calls"})
  BY <1>3, LoadSnapshotGood
<1>5. loaded.native = a.native
  BY <1>4 DEF Keeps, Fields
<1>6. Good(logged, runs, NoScope, relinked_) /\ Keeps(a, logged, {"store", "calls"})
  <2> HIDE DEF loaded
  <2>1. CASE t \in a.store.log
    BY <1>4, <2>1
  <2>2. CASE t \notin a.store.log
    <3> DEFINE g == Send(loaded, "log", t, s, "nothing", "nothing")
    <3>1. Good(g, runs, NoScope, relinked_)
      BY <1>1, <1>3, <1>4, <1>5, SendGood DEF Operations, Whats
    <3>2. Keeps(loaded, g, {"calls"})
      BY <1>1, <1>3, <1>4, SendCalls DEF Operations, Whats, Good, Settled
    <3> HIDE DEF g
    <3>3. Keeps(a, g, {"store", "calls"})
      BY <1>4, <3>2 DEF Keeps
    <3>4. QED
      BY <2>2, <3>1, <3>3 DEF g
  <2>3. QED
    BY <2>1, <2>2
<1> HIDE DEF loaded, logged
<1>7. /\ Typed(logged) /\ Settled(logged, runs, NoScope, relinked_)
      /\ Awaited(logged.panel, logged.store.loading, DOMAIN logged.calls)
      /\ logged.project = a.project /\ logged.native = a.native /\ logged.panel = a.panel
      /\ DOMAIN logged = Fields
  BY <1>6 DEF Good, Settled, Keeps, Fields
<1>8. /\ DOMAIN n = NativeFields /\ n.scopes = a.native.scopes /\ n.events = a.native.events
      /\ n.repo = a.native.repo /\ n.subscribed = {s}
  <2>1. DOMAIN logged.native = NativeFields
    BY <1>7 DEF Typed
  <2>2. logged.native.subscribed = {}
    <3>1. logged.native.subscribed \subseteq {NoScope} /\ logged.native.subscribed \subseteq Scopes
      BY <1>7 DEF Typed, Settled, Watched
    <3>2. NoScope \notin Scopes
      BY DEF NoScope, Scopes
    <3>3. QED
      BY <3>1, <3>2
  <2>3. QED
    BY <1>7, <2>1, <2>2 DEF NativeFields
<1> HIDE DEF n
<1>9. b.native = n /\ Keeps(logged, b, {"native"})
  BY <1>7 DEF Keeps, Fields
<1> HIDE DEF b
<1>10. /\ DOMAIN b = Fields
       /\ b.project = a.project /\ b.store = logged.store /\ b.panel = a.panel /\ b.watch = logged.watch
       /\ b.calls = logged.calls /\ b.written = logged.written
  BY <1>7, <1>9 DEF Keeps, Fields
<1>11. Typed(b)
  BY <1>7, <1>8, <1>9, <1>10 DEF Typed
<1>12. /\ Keeps(b, e, {"calls"}) /\ Typed(e) /\ DOMAIN e.calls = DOMAIN logged.calls \cup {d}
  BY <1>1, <1>3, <1>10, <1>11, SendCalls DEF Operations, Whats
<1>13. /\ d.op = "subscribe" /\ d.trunk = t /\ d.scope = s /\ d.then = "nothing" /\ d.snap = NoSnapshot /\ d.wrote = 0
       /\ d.since = a.panel.mount
  BY <1>10, SentFields DEF Since
<1> HIDE DEF e, d
<1> DEFINE D == DOMAIN logged.calls
<1>14. /\ e.project = a.project /\ e.store = logged.store /\ e.panel = a.panel /\ e.watch = logged.watch
       /\ e.native = n /\ e.written = logged.written
  BY <1>9, <1>10, <1>12 DEF Keeps, Fields
<1>15. Ran(runs, s) \in [Scopes -> 0..2] /\ Ran(runs, s)[s] # 0 /\ (Ran(runs, s)[s] = 1 => runs[s] = 0)
       /\ \A x \in Scopes \ {s} : Ran(runs, s)[x] = runs[x]
  BY DEF Ran
<1>16. Hooked(D \cup {d}, {s}, Ran(runs, s), s, a.panel.mount)
  <2>1. \A x \in Scopes : runs[x] = 0 => \A c \in D : c.op = "subscribe" => c.scope # x
    BY <1>7 DEF Settled, Hooked
  <2>2. \A x \in Scopes : Ran(runs, s)[x] = 0 =>
          x # s /\ \A c \in D \cup {d} : c.op = "subscribe" => c.scope # x
    BY <1>13, <1>15, <2>1
  <2>3. Ran(runs, s)[s] = 1 => \A c \in D \cup {d} : c.op = "subscribe" /\ c.scope = s => c.since = a.panel.mount
    BY <1>13, <1>15, <2>1
  <2>4. QED
    BY <2>2, <2>3 DEF Hooked
<1>17. Watched(e.watch, {s}, s)
  BY <1>7, <1>14 DEF Settled, Watched
<1>18. Scoped(e.project, n.scopes, D \cup {d})
  <2>1. e.project = a.project /\ n.scopes = a.native.scopes
    BY <1>8, <1>14
  <2>2. Scoped(a.project, a.native.scopes, D)
    BY <1>7 DEF Settled
  <2>3. d.op = "subscribe" /\ d.scope \in DOMAIN a.native.scopes /\ a.native.scopes[d.scope].trunk = d.trunk
        /\ d.then = "nothing"
    BY <1>13
  <2> HIDE DEF D
  <2>4. Scoped(a.project, a.native.scopes, D \cup {d})
    BY <2>2, <2>3 DEF Scoped
  <2>5. QED
    BY <2>1, <2>4
<1>19. Ordered(e.store.snapshot, D \cup {d}, n.repo)
  <2>1. Known(e.store.snapshot, D \cup {d}) = Known(e.store.snapshot, D)
    BY <1>13 DEF Known
  <2>2. QED
    BY <1>7, <1>8, <1>14, <2>1 DEF Settled, Ordered
<1>20. Taken(D \cup {d}, n.scopes, n.repo)
  BY <1>7, <1>8, <1>13, <1>14 DEF Settled, Taken
<1>21. Stayed(e.store.snapshot, e.store.lastRevision, n.scopes, e.project.home, e.written, relinked_)
  BY <1>7, <1>8, <1>14 DEF Settled
<1>22. Awaited(e.panel, e.store.loading, D \cup {d})
  BY <1>7, <1>14, AwaitedGains
<1>23. Good(e, Ran(runs, s), s, relinked_)
  BY <1>8, <1>12, <1>14, <1>16, <1>17, <1>18, <1>19, <1>20, <1>21, <1>22 DEF Good, Settled
<1>24. QED
  BY <1>2, <1>14, <1>15, <1>23

\* A diff that is closed waits for nothing.
LEMMA CloseGood ==
  ASSUME NEW a, NEW runs, NEW shown, NEW relinked_, Good(a, runs, shown, relinked_),
         NEW diffs_ \in [DiffKinds -> Checkouts \cup {"none", "loading", "error"}],
         \A k \in DiffKinds : diffs_[k] = "loading" => a.panel.diffs[k] = "loading"
  PROVE  LET b == [a EXCEPT !.panel.expanded = "none", !.panel.diffs = diffs_]
         IN  /\ Good(b, runs, shown, relinked_) /\ Keeps(a, b, {"panel"})
             /\ b.panel.mounted = a.panel.mounted /\ b.panel.expanded = "none"
<1> DEFINE p == [a.panel EXCEPT !.expanded = "none", !.diffs = diffs_]
           b == [a EXCEPT !.panel.expanded = "none", !.panel.diffs = diffs_]
<1>1. /\ Typed(a) /\ Settled(a, runs, shown, relinked_) /\ Awaited(a.panel, a.store.loading, DOMAIN a.calls)
      /\ DOMAIN a = Fields /\ a.panel \in Panel
  BY DEF Good, Settled, Typed
<1>2. /\ p \in Panel /\ p.mounted = a.panel.mounted /\ p.mount = a.panel.mount /\ p.expanded = "none"
      /\ p.busyAction = a.panel.busyAction /\ p.busyFile = a.panel.busyFile /\ p.diffs = diffs_
  BY <1>1 DEF Panel
<1>3. b.panel = p /\ Keeps(a, b, {"panel"})
  BY <1>1 DEF Keeps, Fields
<1> HIDE DEF p, b
<1>4. /\ DOMAIN b = Fields
      /\ b.project = a.project /\ b.store = a.store /\ b.watch = a.watch
      /\ b.native = a.native /\ b.calls = a.calls /\ b.written = a.written
  BY <1>3 DEF Keeps, Fields
<1>5. Typed(b)
  BY <1>1, <1>2, <1>3, <1>4 DEF Typed
<1>6. Settled(b, runs, shown, relinked_)
  BY <1>1, <1>2, <1>3, <1>4, <1>5 DEF Settled
<1>7. Awaited(b.panel, b.store.loading, DOMAIN b.calls)
  BY <1>1, <1>2, <1>3, <1>4 DEF Awaited
<1>8. QED
  BY <1>2, <1>3, <1>6, <1>7 DEF b, Good

LEMMA ShownSame ==
  ASSUME NEW a, NEW b, b.project = a.project, b.panel.mounted = a.panel.mounted
  PROVE  ShownScope(b) = ShownScope(a)
BY DEF ShownScope

LEMMA GoneGood ==
  ASSUME NEW a, NEW runs, NEW shown, NEW relinked_, Good(a, runs, shown, relinked_)
  PROVE  /\ Good(CloseGoneDiff(a), runs, shown, relinked_)
         /\ CloseGoneDiff(a).project = a.project /\ CloseGoneDiff(a).panel.mounted = a.panel.mounted
<1> DEFINE k == a.panel.expanded
           diffs_ == [a.panel.diffs EXCEPT ![k] = "none"]
           b == [a EXCEPT !.panel.expanded = "none", !.panel.diffs = diffs_]
<1>1. CloseGoneDiff(a) = IF k \in DiffKinds /\ k \notin ShownSnapshot(a).files THEN b ELSE a
  BY DEF CloseGoneDiff
<1>2. CASE k \in DiffKinds
  <2>1. a.panel.diffs \in [DiffKinds -> Checkouts \cup {"none", "loading", "error"}]
    BY DEF Good, Settled, Typed, Panel
  <2> HIDE DEF k
  <2>2. /\ diffs_ \in [DiffKinds -> Checkouts \cup {"none", "loading", "error"}]
        /\ \A x \in DiffKinds : diffs_[x] = "loading" => a.panel.diffs[x] = "loading"
    BY <1>2, <2>1
  <2> HIDE DEF diffs_
  <2>3. Good(b, runs, shown, relinked_) /\ Keeps(a, b, {"panel"}) /\ b.panel.mounted = a.panel.mounted
    BY <2>2, CloseGood
  <2> HIDE DEF b
  <2>4. b.project = a.project
    BY <2>3 DEF Keeps, Fields
  <2>5. QED
    BY <1>1, <2>3, <2>4
<1>3. CASE k \notin DiffKinds
  BY <1>1, <1>3
<1>4. QED
  BY <1>2, <1>3

LEMMA EffectsGood ==
  ASSUME Invariant, NEW a, Good(a, hookRuns, ShownScope(Now), relinked)
  PROVE  LET b == Effects(Now, a)
             s == ShownScope(b)
             runs == IF s \in {NoScope, ShownScope(Now)} \/ hookRuns[s] = 2 THEN hookRuns
                     ELSE [hookRuns EXCEPT ![s] = @ + 1]
         IN  Good(b, runs, s, relinked) /\ runs \in [Scopes -> 0..2]
<1> DEFINE was == ShownScope(Now)
           is == ShownScope(a)
           left == LeaveCheckout(a, was)
           moved == EnterCheckout(left, is)
           cleared == [moved EXCEPT !.panel.expanded = "none", !.panel.diffs = noDiffs]
           b == Effects(Now, a)
           s == ShownScope(b)
           runs == IF s \in {NoScope, was} \/ hookRuns[s] = 2 THEN hookRuns ELSE [hookRuns EXCEPT ![s] = @ + 1]
<1>1. hookRuns \in [Scopes -> 0..2]
  BY DEF Invariant, Counted
<1>2. was \in 0..MaxScopes
  BY ShownIsScope DEF Invariant, Good, Settled
<1>3. /\ is \in 0..MaxScopes
      /\ is # NoScope => is \in Scopes /\ is \in DOMAIN a.native.scopes /\ a.native.scopes[is].trunk = a.project.active
  BY ShownIsScope DEF Good, Settled
<1>4. b = CloseGoneDiff(IF was = is THEN a ELSE cleared)
  BY DEF Effects
<1>5. CASE was = is
  <2>1. b = CloseGoneDiff(a)
    BY <1>4, <1>5
  <2>2. Good(b, hookRuns, was, relinked) /\ s = is
    BY <2>1, GoneGood, ShownSame
  <2> HIDE DEF b, was, is
  <2>3. s = was
    BY <1>5, <2>2
  <2>4. runs = hookRuns
    BY <2>3
  <2>5. QED
    BY <1>1, <2>2, <2>3, <2>4 DEF b, was
<1>6. CASE was # is
  <2>1. /\ Good(left, hookRuns, NoScope, relinked)
        /\ Keeps(a, left, {"watch", "native"}) /\ left.native.scopes = a.native.scopes
    BY <1>2, LeaveGood
  <2> HIDE DEF left
  <2>2. left.project = a.project /\ left.panel = a.panel
    BY <2>1 DEF Keeps, Fields
  <2> DEFINE ran == IF is = NoScope THEN hookRuns ELSE Ran(hookRuns, is)
  <2>3. /\ Good(moved, ran, is, relinked) /\ ran \in [Scopes -> 0..2]
        /\ moved.project = a.project /\ moved.panel = a.panel
    <3> HIDE DEF is
    <3>1. CASE is = NoScope
      <4>1. moved = left
        BY <3>1 DEF EnterCheckout
      <4>2. QED
        BY <1>1, <2>1, <2>2, <3>1, <4>1
    <3>2. CASE is # NoScope
      <4>1. is \in Scopes /\ is \in DOMAIN left.native.scopes /\ left.native.scopes[is].trunk = left.project.active
        BY <1>3, <2>1, <2>2, <3>2
      <4>2. /\ Good(moved, Ran(hookRuns, is), is, relinked) /\ Ran(hookRuns, is) \in [Scopes -> 0..2]
            /\ moved.project = left.project /\ moved.panel = left.panel
        BY <1>1, <2>1, <4>1, EnterGood
      <4>3. QED
        BY <2>2, <3>2, <4>2
    <3>3. QED
      BY <3>1, <3>2
  <2> HIDE DEF moved, ran
  <2>4. noDiffs \in [DiffKinds -> Checkouts \cup {"none", "loading", "error"}] /\ \A k \in DiffKinds : noDiffs[k] # "loading"
    BY DEF noDiffs
  <2>5. /\ Good(cleared, ran, is, relinked) /\ Keeps(moved, cleared, {"panel"})
        /\ cleared.panel.mounted = moved.panel.mounted
    BY <2>3, <2>4, CloseGood
  <2> HIDE DEF cleared
  <2>6. cleared.project = a.project /\ cleared.panel.mounted = a.panel.mounted
    BY <2>3, <2>5 DEF Keeps, Fields
  <2>7. b = CloseGoneDiff(cleared)
    BY <1>4, <1>6
  <2>8. Good(b, ran, is, relinked) /\ b.project = cleared.project /\ b.panel.mounted = cleared.panel.mounted
    BY <2>5, <2>7, GoneGood
  <2> HIDE DEF b
  <2>9. s = is
    BY <2>6, <2>8, ShownSame
  <2> HIDE DEF is, s, was
  <2>10. runs = ran
    <3>1. CASE is = NoScope
      BY <2>9, <3>1 DEF ran
    <3>2. CASE is # NoScope
      BY <1>6, <2>9, <3>2 DEF ran, Ran
    <3>3. QED
      BY <3>1, <3>2
  <2> HIDE DEF runs
  <2>11. QED
    BY <2>3, <2>8, <2>9, <2>10 DEF runs, b, s, was
<1>7. QED
  BY <1>5, <1>6

\* A step: what the handler made is brought to rest by the effects.
LEMMA BecomeGood ==
  ASSUME Invariant, NEW a, Good(a, hookRuns, ShownScope(Now), relinked), Become(a), gestures' \in 0..MaxGestures
  PROVE  Invariant'
<1> DEFINE b == Effects(Now, a)
           s == ShownScope(b)
           runs == IF s \in {NoScope, ShownScope(Now)} \/ hookRuns[s] = 2 THEN hookRuns
                   ELSE [hookRuns EXCEPT ![s] = @ + 1]
<1>1. Good(b, runs, s, relinked) /\ runs \in [Scopes -> 0..2]
  BY EffectsGood
<1>2. /\ project' = b.project /\ store' = b.store /\ panel' = b.panel /\ watch' = b.watch
      /\ native' = b.native /\ calls' = b.calls /\ written' = b.written
      /\ hookRuns' = runs /\ relinked' = relinked
  BY DEF Become
<1> HIDE DEF b, runs
<1> DEFINE n == Now'
<1>3. /\ DOMAIN n = Fields
      /\ n.project = b.project /\ n.store = b.store /\ n.panel = b.panel /\ n.watch = b.watch
      /\ n.native = b.native /\ n.calls = b.calls /\ n.written = b.written
  BY <1>2 DEF Now, Fields
<1> HIDE DEF n
<1>4. Typed(n)
  BY <1>1, <1>3 DEF Good, Settled, Typed
<1>5. Good(n, runs, s, relinked)
  BY <1>1, <1>3, <1>4 DEF Good, Settled
<1>6. ShownScope(n) = s
  BY <1>3, ShownSame
<1>7. Good(Now', hookRuns', ShownScope(Now'), relinked')
  BY <1>2, <1>5, <1>6 DEF n
<1>8. Counted'
  BY <1>1, <1>2 DEF Invariant, Counted
<1>9. QED
  BY <1>7, <1>8 DEF Invariant

-----------------------------------------------------------------------------
(* A change of one field.                                                   *)

LEMMA PanelSettled ==
  ASSUME NEW a, NEW b, NEW runs, NEW shown, NEW relinked_, Settled(a, runs, shown, relinked_),
         Keeps(a, b, {"panel"}), b.panel \in Panel, b.panel.mount = a.panel.mount \/ shown = NoScope
  PROVE  Settled(b, runs, shown, relinked_)
<1>1. /\ DOMAIN b = Fields
      /\ b.project = a.project /\ b.store = a.store /\ b.watch = a.watch
      /\ b.native = a.native /\ b.calls = a.calls /\ b.written = a.written
  BY DEF Keeps, Fields
<1>2. Typed(b)
  BY <1>1 DEF Settled, Typed
<1>3. Hooked(DOMAIN a.calls, a.native.subscribed, runs, shown, b.panel.mount)
  <2>1. NoScope \notin Scopes
    BY DEF NoScope, Scopes
  <2>2. QED
    BY <2>1 DEF Settled, Hooked
<1>4. QED
  BY <1>1, <1>2, <1>3 DEF Settled

LEMMA PanelGood ==
  ASSUME NEW a, NEW b, NEW runs, NEW shown, NEW relinked_, Good(a, runs, shown, relinked_),
         Keeps(a, b, {"panel"}), b.panel \in Panel, b.panel.mount = a.panel.mount \/ shown = NoScope,
         Awaited(b.panel, a.store.loading, DOMAIN a.calls)
  PROVE  Good(b, runs, shown, relinked_)
<1>1. Settled(b, runs, shown, relinked_)
  BY PanelSettled DEF Good
<1>2. b.store = a.store /\ b.calls = a.calls
  BY DEF Keeps, Fields
<1>3. QED
  BY <1>1, <1>2 DEF Good

LEMMA ProjectSettled ==
  ASSUME NEW a, NEW b, NEW runs, NEW shown, NEW relinked_, Settled(a, runs, shown, relinked_),
         Keeps(a, b, {"project"}), b.project \in Project, b.project.home = a.project.home,
         \A t \in Trunks : b.project.runtime[t].status = "ready" =>
           /\ b.project.runtime[t].scope \in DOMAIN a.native.scopes
           /\ a.native.scopes[b.project.runtime[t].scope].trunk = t
  PROVE  Settled(b, runs, shown, relinked_)
<1>1. /\ DOMAIN b = Fields
      /\ b.panel = a.panel /\ b.store = a.store /\ b.watch = a.watch
      /\ b.native = a.native /\ b.calls = a.calls /\ b.written = a.written
  BY DEF Keeps, Fields
<1>2. Typed(b)
  BY <1>1 DEF Settled, Typed
<1>3. Scoped(b.project, b.native.scopes, DOMAIN b.calls)
  BY <1>1 DEF Settled, Scoped
<1>4. QED
  BY <1>1, <1>2, <1>3 DEF Settled

\* A trunk's checkout that is not ready.
LEMMA UnreadySettled ==
  ASSUME NEW a, NEW b, NEW runs, NEW shown, NEW relinked_, Settled(a, runs, shown, relinked_),
         NEW t \in Trunks, NEW status \in {"resolving", "invalid"},
         b = [a EXCEPT !.project.runtime[t] = [status |-> status, scope |-> NoScope]]
  PROVE  /\ Settled(b, runs, shown, relinked_) /\ Keeps(a, b, {"project"})
         /\ b.project.active = a.project.active
<1> DEFINE r == [status |-> status, scope |-> NoScope]
           runtime == [a.project.runtime EXCEPT ![t] = r]
           p == [a.project EXCEPT !.runtime = runtime]
<1>1. a.project \in Project /\ DOMAIN a = Fields /\ Scoped(a.project, a.native.scopes, DOMAIN a.calls)
  BY DEF Settled, Typed
<1>2. r \in Runtime
  BY TheBounds DEF Runtime, NoScope
<1>3. a.project.runtime \in [Trunks -> Runtime]
  BY <1>1 DEF Project
<1>4. r.status # "ready"
  OBVIOUS
<1> HIDE DEF r
<1>5. /\ runtime \in [Trunks -> Runtime] /\ runtime[t] = r
      /\ \A x \in Trunks \ {t} : runtime[x] = a.project.runtime[x]
  BY <1>2, <1>3
<1>6. b.project = p /\ Keeps(a, b, {"project"})
  BY <1>1 DEF Keeps, Fields, r
<1> HIDE DEF runtime
<1>7. p \in Project /\ p.home = a.project.home /\ p.active = a.project.active /\ p.runtime = runtime
  BY <1>1, <1>5 DEF Project
<1>8. \A x \in Trunks : runtime[x].status = "ready" =>
        runtime[x].scope \in DOMAIN a.native.scopes /\ a.native.scopes[runtime[x].scope].trunk = x
  BY <1>1, <1>4, <1>5 DEF Scoped
<1> HIDE DEF p
<1>9. QED
  BY <1>6, <1>7, <1>8, ProjectSettled

-----------------------------------------------------------------------------
(* What the user does.                                                      *)

LEMMA NowFacts ==
  ASSUME Invariant
  PROVE  /\ Good(Now, hookRuns, scope, relinked) /\ Settled(Now, hookRuns, scope, relinked) /\ Typed(Now)
         /\ Awaited(panel, store.loading, DOMAIN calls)
         /\ project \in Project /\ store \in Store /\ panel \in Panel /\ active \in Trunks
         /\ Now.project = project /\ Now.store = store /\ Now.panel = panel /\ Now.watch = watch
         /\ Now.native = native /\ Now.calls = calls /\ Now.written = written /\ DOMAIN Now = Fields
         /\ scope \in 0..MaxScopes
         /\ scope # NoScope => /\ scope \in Scopes /\ scope \in DOMAIN native.scopes
                               /\ native.scopes[scope].trunk = active /\ panel.mounted
<1>1. /\ Now.project = project /\ Now.store = store /\ Now.panel = panel /\ Now.watch = watch
      /\ Now.native = native /\ Now.calls = calls /\ Now.written = written /\ DOMAIN Now = Fields
  BY DEF Now, Fields
<1>2. Good(Now, hookRuns, scope, relinked) /\ Settled(Now, hookRuns, scope, relinked) /\ Typed(Now)
  BY DEF Invariant, Good, Settled, scope
<1>3. Awaited(panel, store.loading, DOMAIN calls)
  BY <1>1, <1>2 DEF Good
<1>4. project \in Project /\ store \in Store /\ panel \in Panel
  BY <1>1, <1>2 DEF Typed
<1>5. active \in Trunks
  BY <1>4 DEF active, Project
<1>6. /\ scope \in 0..MaxScopes
      /\ scope # NoScope => /\ scope \in Scopes /\ scope \in DOMAIN native.scopes
                            /\ native.scopes[scope].trunk = active /\ panel.mounted
  <2>1. Scoped(Now.project, Now.native.scopes, DOMAIN calls)
    BY <1>1, <1>2 DEF Settled
  <2>2. QED
    BY <1>1, <1>2, <2>1, ShownIsScope DEF scope, active
<1>7. QED
  BY <1>1, <1>2, <1>3, <1>4, <1>5, <1>6

LEMMA MoveKeeps ==
  ASSUME Invariant, NEW a, Good(a, hookRuns, scope, relinked), Move(a)
  PROVE  Invariant'
BY BecomeGood DEF Move, Invariant, Counted, scope

LEMMA HandleKeeps ==
  ASSUME Invariant, NEW a, Good(a, hookRuns, scope, relinked), Gesture, Become(a)
  PROVE  Invariant'
<1>1. gestures' \in 0..MaxGestures
  BY TheBounds DEF Gesture, Invariant, Counted
<1>2. QED
  BY <1>1, BecomeGood DEF scope

\* A command of the panel is sent, and the panel is busy until it ends.
LEMMA ActionGood ==
  ASSUME Invariant, scope # NoScope, NEW op \in {"mutate", "log"}, NEW action \in PanelActions
  PROVE  Good(Send([Now EXCEPT !.panel.busyAction = TRUE], op, active, scope, action, "panel"),
              hookRuns, scope, relinked)
<1> DEFINE a == [Now EXCEPT !.panel.busyAction = TRUE]
           p == [panel EXCEPT !.busyAction = TRUE]
           b == Send(a, op, active, scope, action, "panel")
           d == Sent(a, op, active, scope, action, "panel")
<1>1. /\ Settled(Now, hookRuns, scope, relinked) /\ Awaited(panel, store.loading, DOMAIN calls)
      /\ panel \in Panel /\ active \in Trunks /\ DOMAIN Now = Fields
      /\ Now.panel = panel /\ Now.store = store /\ Now.native = native /\ Now.calls = calls
      /\ scope \in 0..MaxScopes /\ scope \in DOMAIN native.scopes
      /\ native.scopes[scope].trunk = active /\ panel.mounted
  BY NowFacts
<1>2. a.panel = p /\ Keeps(Now, a, {"panel"})
  BY <1>1 DEF Keeps, Fields
<1>3. /\ p \in Panel /\ p.busyAction = TRUE /\ p.mounted = panel.mounted /\ p.mount = panel.mount
      /\ p.busyFile = panel.busyFile /\ p.diffs = panel.diffs
  BY <1>1 DEF Panel
<1> HIDE DEF a, p
<1>4. Settled(a, hookRuns, scope, relinked)
  BY <1>1, <1>2, <1>3, PanelSettled
<1>5. a.store = store /\ a.native = native /\ a.calls = calls /\ Typed(a)
  BY <1>1, <1>2, <1>4 DEF Keeps, Fields, Settled
<1>6. op \in Operations \ {"subscribe"} /\ action \in Whats /\ op \in Finishing
  BY DEF Operations, Whats, Finishing
<1>7. Settled(b, hookRuns, scope, relinked)
  BY <1>1, <1>4, <1>5, <1>6, SendSettled
<1>8. Keeps(a, b, {"calls"}) /\ DOMAIN b.calls = DOMAIN calls \cup {d}
  BY <1>1, <1>5, <1>6, SendCalls
<1>9. d.then = "panel" /\ d.since = p.mount
  BY <1>2, SentFields DEF Since
<1> HIDE DEF b, d
<1>10. b.panel = p /\ b.store = store
  BY <1>2, <1>5, <1>8 DEF Keeps, Fields
<1>11. Awaited(b.panel, b.store.loading, DOMAIN b.calls)
  <2>1. Awaited(panel, store.loading, DOMAIN b.calls)
    BY <1>1, <1>8, AwaitedGains
  <2>2. p.busyAction => \E c \in DOMAIN b.calls : c.then = "panel" /\ c.since = p.mount
    BY <1>8, <1>9
  <2>3. p.busyFile => \E c \in DOMAIN b.calls : c.then = "file" /\ c.since = p.mount
    BY <1>3, <2>1 DEF Awaited
  <2>4. \A k \in DiffKinds : p.diffs[k] = "loading" =>
          \E c \in DOMAIN b.calls : c.op = "diff" /\ c.what = k /\ c.since = p.mount
    BY <1>3, <2>1 DEF Awaited
  <2>5. \A t \in Trunks : store.loading[t] => \E c \in DOMAIN b.calls : c.op = "snapshot" /\ c.trunk = t
    BY <2>1 DEF Awaited
  <2>6. p.mounted
    BY <1>1, <1>3
  <2>7. QED
    BY <1>10, <2>2, <2>3, <2>4, <2>5, <2>6 DEF Awaited
<1>12. QED
  BY <1>7, <1>11 DEF Good, b, a

LEMMA FileActionGood ==
  ASSUME Invariant, scope # NoScope, NEW a, Good(a, hookRuns, scope, relinked), NEW kind \in FileActions,
         a.native = native, a.panel.mounted
  PROVE  Good(FileAction(a, kind), hookRuns, scope, relinked)
<1> DEFINE n == [a EXCEPT !.panel.busyFile = TRUE]
           p == [a.panel EXCEPT !.busyFile = TRUE]
           b == Send(n, "mutate", active, scope, kind, "file")
           d == Sent(n, "mutate", active, scope, kind, "file")
<1>1. /\ active \in Trunks
      /\ scope \in 0..MaxScopes /\ scope \in DOMAIN native.scopes /\ native.scopes[scope].trunk = active
  BY NowFacts
<1>2. /\ Settled(a, hookRuns, scope, relinked) /\ Awaited(a.panel, a.store.loading, DOMAIN a.calls)
      /\ a.panel \in Panel /\ DOMAIN a = Fields
  BY DEF Good, Settled, Typed
<1>3. n.panel = p /\ Keeps(a, n, {"panel"})
  BY <1>2 DEF Keeps, Fields
<1>4. /\ p \in Panel /\ p.busyFile = TRUE /\ p.mounted = a.panel.mounted /\ p.mount = a.panel.mount
      /\ p.busyAction = a.panel.busyAction /\ p.diffs = a.panel.diffs
  BY <1>2 DEF Panel
<1>5. FileAction(a, kind) = IF a.panel.busyFile THEN a ELSE b
  BY DEF FileAction
<1> HIDE DEF n, p
<1>6. Settled(n, hookRuns, scope, relinked)
  BY <1>2, <1>3, <1>4, PanelSettled
<1>7. n.store = a.store /\ n.native = native /\ n.calls = a.calls /\ Typed(n)
  BY <1>3, <1>6 DEF Keeps, Fields, Settled
<1>8. "mutate" \in Operations \ {"subscribe"} /\ kind \in Whats /\ "mutate" \in Finishing
  BY DEF Operations, Whats, Finishing
<1>9. Settled(b, hookRuns, scope, relinked)
  BY <1>1, <1>6, <1>7, <1>8, SendSettled
<1>10. Keeps(n, b, {"calls"}) /\ DOMAIN b.calls = DOMAIN a.calls \cup {d}
  BY <1>1, <1>7, <1>8, SendCalls
<1>11. d.then = "file" /\ d.since = p.mount
  BY <1>3, SentFields DEF Since
<1> HIDE DEF b, d
<1>12. b.panel = p /\ b.store = a.store
  BY <1>3, <1>7, <1>10 DEF Keeps, Fields
<1>13. Awaited(b.panel, b.store.loading, DOMAIN b.calls)
  <2>1. Awaited(a.panel, a.store.loading, DOMAIN b.calls)
    BY <1>2, <1>10, AwaitedGains
  <2>2. p.busyAction => \E c \in DOMAIN b.calls : c.then = "panel" /\ c.since = p.mount
    BY <1>4, <2>1 DEF Awaited
  <2>3. p.busyFile => \E c \in DOMAIN b.calls : c.then = "file" /\ c.since = p.mount
    BY <1>10, <1>11
  <2>4. \A k \in DiffKinds : p.diffs[k] = "loading" =>
          \E c \in DOMAIN b.calls : c.op = "diff" /\ c.what = k /\ c.since = p.mount
    BY <1>4, <2>1 DEF Awaited
  <2>5. \A t \in Trunks : a.store.loading[t] => \E c \in DOMAIN b.calls : c.op = "snapshot" /\ c.trunk = t
    BY <2>1 DEF Awaited
  <2>6. QED
    BY <1>4, <1>12, <2>2, <2>3, <2>4, <2>5 DEF Awaited
<1>14. QED
  BY <1>5, <1>9, <1>13 DEF Good

\* The dialog is opened or closed.
LEMMA TargetGood ==
  ASSUME Invariant, NEW x \in Checkouts \cup {NoCheckout}
  PROVE  /\ Good([Now EXCEPT !.panel.discardTarget = x], hookRuns, scope, relinked)
         /\ [Now EXCEPT !.panel.discardTarget = x].native = native
         /\ [Now EXCEPT !.panel.discardTarget = x].panel.mounted = panel.mounted
<1> DEFINE a == [Now EXCEPT !.panel.discardTarget = x]
           p == [panel EXCEPT !.discardTarget = x]
<1>1. /\ Good(Now, hookRuns, scope, relinked) /\ Awaited(panel, store.loading, DOMAIN calls) /\ panel \in Panel
      /\ DOMAIN Now = Fields /\ Now.panel = panel /\ Now.native = native /\ Now.store = store /\ Now.calls = calls
  BY NowFacts
<1>2. a.panel = p /\ Keeps(Now, a, {"panel"})
  BY <1>1 DEF Keeps, Fields
<1>3. /\ p \in Panel /\ p.mounted = panel.mounted /\ p.mount = panel.mount
      /\ p.busyAction = panel.busyAction /\ p.busyFile = panel.busyFile /\ p.diffs = panel.diffs
  BY <1>1 DEF Panel
<1> HIDE DEF a, p
<1>4. Awaited(p, store.loading, DOMAIN calls)
  BY <1>1, <1>3 DEF Awaited
<1>5. Good(a, hookRuns, scope, relinked)
  BY <1>1, <1>2, <1>3, <1>4, PanelGood
<1>6. a.native = native
  BY <1>1, <1>2 DEF Keeps, Fields
<1>7. QED
  BY <1>2, <1>3, <1>5, <1>6 DEF a

\* A panel that shows no spinner.
LEMMA QuietGood ==
  ASSUME Invariant, NEW a, NEW p \in Panel, a.panel = p, Keeps(Now, a, {"panel"}),
         ~p.busyAction, ~p.busyFile, \A k \in DiffKinds : p.diffs[k] # "loading",
         p.mount = panel.mount \/ scope = NoScope
  PROVE  Good(a, hookRuns, scope, relinked)
<1>1. /\ Good(Now, hookRuns, scope, relinked) /\ Awaited(panel, store.loading, DOMAIN calls)
      /\ Now.panel = panel /\ Now.store = store /\ Now.calls = calls
  BY NowFacts
<1>2. Awaited(p, store.loading, DOMAIN calls)
  BY <1>1 DEF Awaited
<1>3. QED
  BY <1>1, <1>2, PanelGood

LEMMA ShowPanelKeeps ==
  ASSUME Invariant, ShowPanel
  PROVE  Invariant'
<1> DEFINE a == [Now EXCEPT !.panel.mounted = TRUE, !.panel.mount = @ + 1]
           p == [panel EXCEPT !.mounted = TRUE, !.mount = @ + 1]
<1>1. /\ Awaited(panel, store.loading, DOMAIN calls) /\ panel \in Panel /\ DOMAIN Now = Fields /\ Now.panel = panel
      /\ (scope # NoScope => panel.mounted)
  BY NowFacts
<1>2. ~panel.mounted /\ panel.mount < MaxMounts /\ Gesture /\ Become(a)
  BY DEF ShowPanel
<1>3. a.panel = p /\ Keeps(Now, a, {"panel"})
  BY <1>1 DEF Keeps, Fields
<1>4. panel.mount + 1 \in 0..MaxMounts
  BY <1>1, <1>2, TheBounds DEF Panel
<1>5. /\ p \in Panel
      /\ p.busyAction = panel.busyAction /\ p.busyFile = panel.busyFile /\ p.diffs = panel.diffs
  BY <1>1, <1>4 DEF Panel
<1>6. ~panel.busyAction /\ ~panel.busyFile /\ \A k \in DiffKinds : panel.diffs[k] # "loading"
  BY <1>1, <1>2 DEF Awaited
<1> HIDE DEF a, p
<1>7. Good(a, hookRuns, scope, relinked)
  BY <1>1, <1>2, <1>3, <1>5, <1>6, QuietGood
<1>8. QED
  BY <1>2, <1>7, HandleKeeps

LEMMA HidePanelKeeps ==
  ASSUME Invariant, HidePanel
  PROVE  Invariant'
<1> DEFINE p == [closedPanel EXCEPT !.mount = panel.mount]
           a == [Now EXCEPT !.panel = p]
<1>1. panel \in Panel /\ DOMAIN Now = Fields
  BY NowFacts
<1>2. a.panel = p /\ Keeps(Now, a, {"panel"})
  BY <1>1 DEF Keeps, Fields
<1>3. noDiffs \in [DiffKinds -> Checkouts \cup {"none", "loading", "error"}] /\ \A k \in DiffKinds : noDiffs[k] # "loading"
  BY DEF noDiffs
<1>4. panel.mount \in 0..MaxMounts
  BY <1>1 DEF Panel
<1> HIDE DEF noDiffs
<1>5. p \in Panel /\ p.mount = panel.mount /\ p.busyAction = FALSE /\ p.busyFile = FALSE /\ p.diffs = noDiffs
  BY <1>3, <1>4 DEF closedPanel, Panel
<1> HIDE DEF p
<1>6. Move(a)
  BY DEF HidePanel, p
<1> HIDE DEF a
<1>7. Good(a, hookRuns, scope, relinked)
  BY <1>2, <1>3, <1>5, QuietGood
<1>8. QED
  BY <1>6, <1>7, MoveKeeps

LEMMA ExpandGood ==
  ASSUME Invariant, NEW x \in DiffKinds \cup {"none"}
  PROVE  Good([Now EXCEPT !.panel.expanded = x], hookRuns, scope, relinked)
<1> DEFINE a == [Now EXCEPT !.panel.expanded = x]
           p == [panel EXCEPT !.expanded = x]
<1>1. /\ Good(Now, hookRuns, scope, relinked) /\ Awaited(panel, store.loading, DOMAIN calls) /\ panel \in Panel
      /\ DOMAIN Now = Fields /\ Now.panel = panel /\ Now.store = store /\ Now.calls = calls
  BY NowFacts
<1>2. a.panel = p /\ Keeps(Now, a, {"panel"})
  BY <1>1 DEF Keeps, Fields
<1>3. /\ p \in Panel /\ p.mounted = panel.mounted /\ p.mount = panel.mount
      /\ p.busyAction = panel.busyAction /\ p.busyFile = panel.busyFile /\ p.diffs = panel.diffs
  BY <1>1 DEF Panel
<1> HIDE DEF a, p
<1>4. Awaited(p, store.loading, DOMAIN calls)
  BY <1>1, <1>3 DEF Awaited
<1>5. QED
  BY <1>1, <1>2, <1>3, <1>4, PanelGood DEF a

\* A diff is loaded: the panel waits for it.
LEMMA LoadDiffGood ==
  ASSUME Invariant, scope # NoScope, NEW k \in DiffKinds
  PROVE  Good(Send([Now EXCEPT !.panel.expanded = k, !.panel.diffs[k] = "loading"], "diff", active, scope, k, "nothing"),
              hookRuns, scope, relinked)
<1> DEFINE f == [panel.diffs EXCEPT ![k] = "loading"]
           p == [panel EXCEPT !.expanded = k, !.diffs = f]
           a == [Now EXCEPT !.panel.expanded = k, !.panel.diffs[k] = "loading"]
           b == Send(a, "diff", active, scope, k, "nothing")
           d == Sent(a, "diff", active, scope, k, "nothing")
<1>1. /\ Settled(Now, hookRuns, scope, relinked) /\ Awaited(panel, store.loading, DOMAIN calls)
      /\ panel \in Panel /\ active \in Trunks /\ DOMAIN Now = Fields
      /\ Now.panel = panel /\ Now.store = store /\ Now.native = native /\ Now.calls = calls
      /\ scope \in 0..MaxScopes /\ scope \in DOMAIN native.scopes
      /\ native.scopes[scope].trunk = active /\ panel.mounted
  BY NowFacts
<1>2. a.panel = p /\ Keeps(Now, a, {"panel"})
  BY <1>1 DEF Keeps, Fields
<1>3. panel.diffs \in [DiffKinds -> Checkouts \cup {"none", "loading", "error"}]
  BY <1>1 DEF Panel
<1>4. /\ f \in [DiffKinds -> Checkouts \cup {"none", "loading", "error"}]
      /\ \A x \in DiffKinds \ {k} : f[x] = panel.diffs[x]
  BY <1>3
<1> HIDE DEF f
<1>5. /\ p \in Panel /\ p.mounted = panel.mounted /\ p.mount = panel.mount
      /\ p.busyAction = panel.busyAction /\ p.busyFile = panel.busyFile /\ p.diffs = f
  BY <1>1, <1>4 DEF Panel
<1> HIDE DEF a, p
<1>6. Settled(a, hookRuns, scope, relinked)
  BY <1>1, <1>2, <1>5, PanelSettled
<1>7. a.store = store /\ a.native = native /\ a.calls = calls /\ Typed(a)
  BY <1>1, <1>2, <1>6 DEF Keeps, Fields, Settled
<1>8. "diff" \in Operations \ {"subscribe"} /\ k \in Whats
  BY DEF Operations, Whats
<1>9. Settled(b, hookRuns, scope, relinked)
  BY <1>1, <1>6, <1>7, <1>8, SendSettled
<1>10. Keeps(a, b, {"calls"}) /\ DOMAIN b.calls = DOMAIN calls \cup {d}
  BY <1>1, <1>7, <1>8, SendCalls
<1>11. d.op = "diff" /\ d.what = k /\ d.since = p.mount
  BY <1>2, SentFields DEF Since
<1> HIDE DEF b, d
<1>12. b.panel = p /\ b.store = store
  BY <1>2, <1>7, <1>10 DEF Keeps, Fields
<1>13. Awaited(b.panel, b.store.loading, DOMAIN b.calls)
  <2>1. Awaited(panel, store.loading, DOMAIN b.calls)
    BY <1>1, <1>10, AwaitedGains
  <2>2. p.busyAction => \E c \in DOMAIN b.calls : c.then = "panel" /\ c.since = p.mount
    BY <1>5, <2>1 DEF Awaited
  <2>3. p.busyFile => \E c \in DOMAIN b.calls : c.then = "file" /\ c.since = p.mount
    BY <1>5, <2>1 DEF Awaited
  <2>4. \A x \in DiffKinds : p.diffs[x] = "loading" =>
          \E c \in DOMAIN b.calls : c.op = "diff" /\ c.what = x /\ c.since = p.mount
    <3> SUFFICES ASSUME NEW x \in DiffKinds, p.diffs[x] = "loading"
                 PROVE  \E c \in DOMAIN b.calls : c.op = "diff" /\ c.what = x /\ c.since = p.mount
      OBVIOUS
    <3>1. CASE x = k
      BY <1>10, <1>11, <3>1
    <3>2. CASE x # k
      BY <1>4, <1>5, <2>1, <3>2 DEF Awaited
    <3>3. QED
      BY <3>1, <3>2
  <2>5. \A t \in Trunks : store.loading[t] => \E c \in DOMAIN b.calls : c.op = "snapshot" /\ c.trunk = t
    BY <2>1 DEF Awaited
  <2>6. p.mounted
    BY <1>1, <1>5
  <2>7. QED
    BY <1>12, <2>2, <2>3, <2>4, <2>5, <2>6 DEF Awaited
<1>14. QED
  BY <1>9, <1>13 DEF Good, b, a

LEMMA ToggleKeeps ==
  ASSUME Invariant, NEW k \in Opened, toggleDiff(k)
  PROVE  Invariant'
<1> DEFINE shown == [Now EXCEPT !.panel.expanded = k]
           closed == [Now EXCEPT !.panel.expanded = "none"]
           loads == Send([shown EXCEPT !.panel.diffs[k] = "loading"], "diff", active, scope, k, "nothing")
           a == IF panel.expanded = k THEN closed ELSE IF panel.diffs[k] # "none" THEN shown ELSE loads
<1>1. scope # NoScope /\ Gesture /\ Become(a)
  BY DEF toggleDiff, Handle
<1>2. k \in DiffKinds
  BY RemoteAssumption DEF DiffKinds
<1>3. Good(shown, hookRuns, scope, relinked) /\ Good(closed, hookRuns, scope, relinked)
  BY <1>2, ExpandGood
<1>4. Good(loads, hookRuns, scope, relinked)
  <2>1. DOMAIN Now = Fields /\ panel \in Panel /\ Now.panel = panel
    BY NowFacts
  <2>2. [shown EXCEPT !.panel.diffs[k] = "loading"] = [Now EXCEPT !.panel.expanded = k, !.panel.diffs[k] = "loading"]
    BY <2>1
  <2>3. QED
    BY <1>1, <1>2, <2>2, LoadDiffGood
<1> HIDE DEF shown, closed, loads
<1>5. Good(a, hookRuns, scope, relinked)
  BY <1>3, <1>4
<1>6. QED
  BY <1>1, <1>5, HandleKeeps

LEMMA ActionKeeps ==
  ASSUME Invariant, NEW action \in PanelActions, NEW op \in {"mutate", "log"}, runPanelAction(action, op)
  PROVE  Invariant'
BY ActionGood, HandleKeeps DEF runPanelAction, Handle

LEMMA FileActionKeeps ==
  ASSUME Invariant, scope # NoScope, NEW kind \in FileActions, Handle(FileAction(Now, kind))
  PROVE  Invariant'
<1>1. /\ Good(Now, hookRuns, scope, relinked) /\ Now.panel = panel /\ Now.native = native /\ panel.mounted
  BY NowFacts
<1>2. Good(FileAction(Now, kind), hookRuns, scope, relinked)
  BY <1>1, FileActionGood
<1>3. QED
  BY <1>2, HandleKeeps DEF Handle

LEMMA DiscardKeeps ==
  ASSUME Invariant, AskDiscard \/ ConfirmDiscard \/ CancelDiscard
  PROVE  Invariant'
<1>1. /\ Now.panel = panel /\ store \in Store /\ Now.store = store /\ Now.project = project /\ active \in Trunks
      /\ (scope # NoScope => panel.mounted)
  BY NowFacts
<1> DEFINE closed == [Now EXCEPT !.panel.discardTarget = NoCheckout]
<1>2. /\ Good(closed, hookRuns, scope, relinked) /\ closed.native = native /\ closed.panel.mounted = panel.mounted
  BY TargetGood
<1>3. CASE AskDiscard
  <2> DEFINE x == ShownSnapshot(Now).checkout
             a == [Now EXCEPT !.panel.discardTarget = x]
  <2>1. x \in Checkouts \cup {NoCheckout}
    <3>1. store.snapshot[active] \in Snapshot \cup {NoSnapshot}
      BY <1>1 DEF Store
    <3>2. x = store.snapshot[active].checkout
      BY <1>1 DEF ShownSnapshot, active
    <3>3. QED
      BY <3>1, <3>2 DEF Snapshot, NoSnapshot
  <2>2. Gesture /\ Become(a)
    BY <1>3 DEF AskDiscard, Handle
  <2> HIDE DEF x
  <2>3. Good(a, hookRuns, scope, relinked)
    BY <2>1, TargetGood
  <2> HIDE DEF a
  <2>4. QED
    BY <2>2, <2>3, HandleKeeps
<1>4. CASE ConfirmDiscard
  <2>1. scope # NoScope /\ Move(FileAction(closed, "discard"))
    BY <1>4 DEF ConfirmDiscard
  <2> HIDE DEF closed
  <2>2. "discard" \in FileActions
    BY DEF FileActions
  <2>3. Good(FileAction(closed, "discard"), hookRuns, scope, relinked)
    BY <1>1, <1>2, <2>1, <2>2, FileActionGood
  <2>4. QED
    BY <2>1, <2>3, MoveKeeps
<1>5. CASE CancelDiscard
  <2>1. Move(closed)
    BY <1>5 DEF CancelDiscard
  <2>2. QED
    BY <1>2, <2>1, MoveKeeps
<1>6. QED
  BY <1>3, <1>4, <1>5

LEMMA InitializeKeeps ==
  ASSUME Invariant, Initialize
  PROVE  Invariant'
<1>1. /\ Good(Now, hookRuns, scope, relinked) /\ active \in Trunks /\ scope \in 0..MaxScopes /\ Now.native = native
      /\ (scope # NoScope => scope \in DOMAIN native.scopes /\ native.scopes[scope].trunk = active)
  BY NowFacts
<1> DEFINE a == Send(Now, "initialize", active, scope, "nothing", "nothing")
<1>2. scope # NoScope /\ Move(a)
  BY DEF Initialize
<1>3. "initialize" \in Operations \ {"subscribe"} /\ "nothing" \in Whats
  BY DEF Operations, Whats
<1>4. Good(a, hookRuns, scope, relinked)
  BY <1>1, <1>2, <1>3, SendGood
<1>5. QED
  BY <1>2, <1>4, MoveKeeps

LEMMA ActivateKeeps ==
  ASSUME Invariant, NEW t \in Trunks, Activate(t)
  PROVE  Invariant'
<1> DEFINE r == [status |-> "resolving", scope |-> NoScope]
           runtime == [project.runtime EXCEPT ![t] = r]
           p == [project EXCEPT !.active = t, !.generation = gestures + 1, !.runtime = runtime]
           a == [Now EXCEPT !.project.active = t, !.project.generation = gestures + 1, !.project.runtime[t] = r]
           b == Send(a, "resolve", t, NoScope, "nothing", "nothing")
<1>1. /\ Settled(Now, hookRuns, scope, relinked) /\ project \in Project /\ DOMAIN Now = Fields
      /\ Awaited(panel, store.loading, DOMAIN calls)
      /\ Now.project = project /\ Now.native = native /\ Now.panel = panel /\ Now.store = store /\ Now.calls = calls
  BY NowFacts
<1>2. Gesture /\ Become(b)
  BY DEF Activate
<1>3. gestures + 1 \in 0..MaxGestures
  BY <1>2, TheBounds DEF Gesture, Invariant, Counted
<1>4. a.project = p /\ Keeps(Now, a, {"project"})
  BY <1>1 DEF Keeps, Fields
<1>5. r \in Runtime /\ r.status # "ready"
  BY TheBounds DEF Runtime, NoScope
<1>6. project.runtime \in [Trunks -> Runtime]
  BY <1>1 DEF Project
<1> HIDE DEF r
<1>7. /\ runtime \in [Trunks -> Runtime] /\ runtime[t] = r
      /\ \A x \in Trunks \ {t} : runtime[x] = project.runtime[x]
  BY <1>5, <1>6
<1> HIDE DEF runtime
<1>8. p \in Project /\ p.home = project.home /\ p.runtime = runtime
  BY <1>1, <1>3, <1>7 DEF Project
<1>9. \A x \in Trunks : runtime[x].status = "ready" =>
        runtime[x].scope \in DOMAIN native.scopes /\ native.scopes[runtime[x].scope].trunk = x
  <2>1. Scoped(project, native.scopes, DOMAIN calls)
    BY <1>1 DEF Settled
  <2>2. QED
    BY <1>5, <1>7, <2>1 DEF Scoped
<1> HIDE DEF p, a
<1>10. Settled(a, hookRuns, scope, relinked)
  BY <1>1, <1>4, <1>8, <1>9, ProjectSettled
<1>11. a.panel = panel /\ a.store = store /\ a.calls = calls
  BY <1>1, <1>4 DEF Keeps, Fields
<1>12. Good(a, hookRuns, scope, relinked)
  BY <1>1, <1>10, <1>11 DEF Good
<1>13. "resolve" \in Operations \ {"subscribe"} /\ "nothing" \in Whats /\ NoScope \in 0..MaxScopes
  BY TheBounds DEF Operations, Whats, NoScope
<1>14. Good(b, hookRuns, scope, relinked)
  BY <1>12, <1>13, SendGood
<1> HIDE DEF b
<1>15. QED
  BY <1>2, <1>14, HandleKeeps

LEMMA RelinkKeeps ==
  ASSUME Invariant, NEW t \in Trunks, NEW c \in Checkouts, Relink(t, c)
  PROVE  Invariant'
<1> DEFINE home == [project.home EXCEPT ![t] = c]
           p == [project EXCEPT !.home = home]
           n == Now'
<1>1. /\ Good(Now, hookRuns, scope, relinked) /\ project \in Project /\ DOMAIN Now = Fields
      /\ Now.project = project /\ Now.store = store /\ Now.panel = panel /\ Now.watch = watch
      /\ Now.native = native /\ Now.calls = calls /\ Now.written = written
  BY NowFacts
<1>2. /\ project' = p /\ relinked' = relinked \cup {t}
      /\ store' = store /\ panel' = panel /\ watch' = watch /\ native' = native /\ calls' = calls
      /\ written' = written /\ gestures' = gestures /\ hookRuns' = hookRuns
  BY DEF Relink
<1>3. /\ p \in Project /\ p.active = project.active /\ p.runtime = project.runtime
      /\ \A x \in Trunks \ {t} : p.home[x] = project.home[x]
  <2>1. project.home \in [Trunks -> Checkouts]
    BY <1>1 DEF Project
  <2>2. home \in [Trunks -> Checkouts] /\ \A x \in Trunks \ {t} : home[x] = project.home[x]
    BY <2>1
  <2> HIDE DEF home
  <2>3. QED
    BY <1>1, <2>2 DEF Project
<1> HIDE DEF p
<1>4. /\ DOMAIN n = Fields
      /\ n.project = p /\ n.store = store /\ n.panel = panel /\ n.watch = watch
      /\ n.native = native /\ n.calls = calls /\ n.written = written
  BY <1>2 DEF Now, Fields
<1> HIDE DEF n
<1>5. ShownScope(n) = scope
  BY <1>1, <1>3, <1>4 DEF ShownScope, scope
<1>6. Settled(Now, hookRuns, scope, relinked) /\ Awaited(panel, store.loading, DOMAIN calls)
  BY <1>1 DEF Good
<1>7. Typed(n)
  BY <1>1, <1>3, <1>4, <1>6 DEF Settled, Typed
<1>8. Scoped(n.project, n.native.scopes, DOMAIN n.calls)
  BY <1>1, <1>3, <1>4, <1>6 DEF Settled, Scoped
<1>9. Stayed(n.store.snapshot, n.store.lastRevision, n.native.scopes, n.project.home, n.written, relinked')
  <2>1. Stayed(store.snapshot, store.lastRevision, native.scopes, project.home, written, relinked)
    BY <1>1, <1>6 DEF Settled
  <2>2. \A x \in Trunks \ relinked' : x \in Trunks \ relinked /\ p.home[x] = project.home[x]
    BY <1>2, <1>3
  <2>3. Stayed(store.snapshot, store.lastRevision, native.scopes, p.home, written, relinked')
    BY <2>1, <2>2 DEF Stayed
  <2>4. QED
    BY <1>4, <2>3
<1>10. Settled(n, hookRuns, scope, relinked')
  BY <1>1, <1>4, <1>6, <1>7, <1>8, <1>9 DEF Settled
<1>11. Good(n, hookRuns', ShownScope(n), relinked')
  BY <1>2, <1>4, <1>5, <1>6, <1>10 DEF Good
<1>12. Counted'
  BY <1>2 DEF Invariant, Counted
<1>13. QED
  BY <1>11, <1>12 DEF Invariant, n

-----------------------------------------------------------------------------
(* The native side.                                                         *)

\* Checkouts change, events come and go, subscriptions end.
LEMMA NativeSettled ==
  ASSUME NEW a, NEW b, NEW runs, NEW shown, NEW relinked_, Settled(a, runs, shown, relinked_),
         Keeps(a, b, {"native", "watch"}), b.watch \in Watch, DOMAIN b.native = NativeFields,
         b.native.scopes = a.native.scopes, b.native.subscribed \subseteq Scopes, b.native.events \subseteq Checkouts,
         b.native.repo \in [Checkouts -> Repository],
         \A c \in Checkouts : /\ b.native.repo[c].version >= a.native.repo[c].version
                              /\ b.native.repo[c].revision >= a.native.repo[c].revision,
         Watched(b.watch, b.native.subscribed, shown),
         Hooked(DOMAIN a.calls, b.native.subscribed, runs, shown, a.panel.mount)
  PROVE  Settled(b, runs, shown, relinked_)
<1> DEFINE D == DOMAIN a.calls
<1>1. /\ DOMAIN b = Fields
      /\ b.project = a.project /\ b.panel = a.panel /\ b.store = a.store
      /\ b.calls = a.calls /\ b.written = a.written
  BY DEF Keeps, Fields
<1>2. Typed(a) /\ Ordered(a.store.snapshot, D, a.native.repo) /\ Taken(D, a.native.scopes, a.native.repo)
      /\ Scoped(a.project, a.native.scopes, D)
  BY DEF Settled
<1>3. Typed(b)
  BY <1>1, <1>2 DEF Typed
<1>4. Known(a.store.snapshot, D) \subseteq Snapshot /\ D \subseteq Call
  <2>1. D \subseteq Call /\ \A t \in Trunks : a.store.snapshot[t] \in Snapshot \cup {NoSnapshot}
    BY <1>2 DEF Typed, Store
  <2>2. QED
    BY <2>1 DEF Known, Call
<1>5. /\ a.native.repo \in [Checkouts -> Repository]
      /\ \A c \in Checkouts : a.native.repo[c].version \in Nat /\ a.native.repo[c].revision \in Nat
                           /\ b.native.repo[c].version \in Nat /\ b.native.repo[c].revision \in Nat
  BY <1>2, TheBounds DEF Typed, Repository
<1>6. Ordered(a.store.snapshot, D, b.native.repo)
  <2> HIDE DEF D
  <2>1. \A x \in Known(a.store.snapshot, D) : x.checkout \in Checkouts /\ x.revision \in Nat /\ x.seen \in Nat
    BY <1>4, TheBounds DEF Snapshot
  <2>2. QED
    BY <1>2, <1>5, <2>1 DEF Ordered
<1>7. Taken(D, a.native.scopes, b.native.repo)
  <2>1. \A c \in D : c.wrote # 0 => c.wrote \in Nat /\ a.native.scopes[c.scope].checkout \in Checkouts
    <3> SUFFICES ASSUME NEW c \in D, c.wrote # 0
                 PROVE  c.wrote \in Nat /\ a.native.scopes[c.scope].checkout \in Checkouts
      OBVIOUS
    <3>1. c.scope \in DOMAIN a.native.scopes
      BY <1>2 DEF Taken, Scoped
    <3>2. a.native.scopes \in Seq(Scope)
      BY <1>2 DEF Typed
    <3>3. a.native.scopes[c.scope] \in Scope
      BY <3>1, <3>2
    <3>4. c.wrote \in Nat
      BY <1>4, TheBounds DEF Call
    <3>5. QED
      BY <3>3, <3>4 DEF Scope
  <2>2. \A c \in D : c.wrote # 0 => c.wrote <= b.native.repo[a.native.scopes[c.scope].checkout].version
    BY <1>2, <1>5, <2>1 DEF Taken
  <2>3. QED
    BY <1>2, <2>2 DEF Taken
<1>8. QED
  BY <1>1, <1>2, <1>3, <1>6, <1>7 DEF Settled

LEMMA ChangedSettled ==
  ASSUME NEW a, NEW runs, NEW shown, NEW relinked_, Settled(a, runs, shown, relinked_),
         NEW c \in Checkouts, NEW files \in SUBSET DiffKinds, a.native.repo[c].version < MaxVersion
  PROVE  LET b == Changed(a, c, files)
         IN  /\ Settled(b, runs, shown, relinked_) /\ Keeps(a, b, {"native"})
             /\ b.native.scopes = a.native.scopes
             /\ b.native.repo[c].version = a.native.repo[c].version + 1
<1> DEFINE watched == \E s \in a.native.subscribed : CheckoutOf(a, s) = c
           g == [a.native.repo[c] EXCEPT !.version = @ + 1, !.files = files]
           repo == [a.native.repo EXCEPT ![c] = g]
           events == IF watched THEN a.native.events \cup {c} ELSE a.native.events
           n == [a.native EXCEPT !.repo = repo, !.events = events]
           b == Changed(a, c, files)
<1>1. /\ DOMAIN a = Fields /\ DOMAIN a.native = NativeFields /\ a.native.repo \in [Checkouts -> Repository]
      /\ a.native.events \subseteq Checkouts /\ a.native.subscribed \subseteq Scopes
      /\ a.watch \in Watch
  BY DEF Settled, Typed
<1>2. b = [a EXCEPT !.native.repo[c].version = @ + 1, !.native.repo[c].files = files, !.native.events = events]
  <2>1. events = IF watched THEN a.native.events \cup {c} ELSE a.native.events
    OBVIOUS
  <2> HIDE DEF events
  <2>2. QED
    BY <2>1, <1>1, Zenon DEF Changed, NativeFields, Fields
<1>3. events \subseteq Checkouts
  BY <1>1
<1> HIDE DEF events
<1>4. a.native.repo[c] \in Repository
  BY <1>1
<1>5. /\ g \in Repository /\ g.version = a.native.repo[c].version + 1 /\ g.revision = a.native.repo[c].revision
  <2>1. a.native.repo[c].version + 1 \in 0..MaxVersion
    BY <1>4, TheBounds DEF Repository
  <2>2. QED
    BY <1>4, <2>1 DEF Repository
<1>6. b.native = n /\ Keeps(a, b, {"native"})
  <2> DEFINE v == a.native.repo[c].version + 1
             g1 == [a.native.repo[c] EXCEPT !.version = v]
             r1 == [a.native.repo EXCEPT ![c] = g1]
             n1 == [a.native EXCEPT !.repo = r1]
             x1 == [a EXCEPT !.native = n1]
             r2 == [r1 EXCEPT ![c] = [r1[c] EXCEPT !.files = files]]
             n2 == [n1 EXCEPT !.repo = r2]
             x2 == [x1 EXCEPT !.native = n2]
  <2>1. b = [[[a EXCEPT !.native.repo[c].version = v] EXCEPT !.native.repo[c].files = files] EXCEPT !.native.events = events]
    BY <1>2
  <2>2. [a EXCEPT !.native.repo[c].version = v] = x1
    OBVIOUS
  <2> HIDE DEF v, g1, r1, n1
  <2>3. DOMAIN x1 = Fields /\ x1.native = n1 /\ \A x \in Fields \ {"native"} : x1[x] = a[x]
    BY <1>1 DEF Fields
  <2>4. n1.repo = r1 /\ DOMAIN n1 = NativeFields
    BY <1>1 DEF n1, NativeFields
  <2> HIDE DEF x1
  <2>5. [x1 EXCEPT !.native.repo[c].files = files] = x2
    BY <2>3, <2>4
  <2>6. r1[c] = g1
    BY <1>1 DEF r1
  <2>7. r2 = repo
    <3>1. [g1 EXCEPT !.files = files] = g
      BY DEF g1, v
    <3> HIDE DEF g
    <3>2. r2 = [r1 EXCEPT ![c] = g]
      BY <2>6, <3>1
    <3>3. QED
      BY <1>1, <3>2 DEF r1
  <2> HIDE DEF g, r2, repo
  <2>8. n2 = [a.native EXCEPT !.repo = repo]
    BY <1>1, <2>7 DEF n1, NativeFields
  <2> HIDE DEF n2
  <2>9. DOMAIN x2 = Fields /\ x2.native = n2 /\ \A x \in Fields \ {"native"} : x2[x] = a[x]
    BY <2>3 DEF Fields
  <2> HIDE DEF x2
  <2>10. b = [x2 EXCEPT !.native = [n2 EXCEPT !.events = events]]
    BY <2>1, <2>2, <2>5, <2>9
  <2>11. [n2 EXCEPT !.events = events] = n
    BY <2>8
  <2> HIDE DEF n, b
  <2>12. QED
    BY <1>1, <2>9, <2>10, <2>11 DEF Keeps, Fields
<1> HIDE DEF g, b
<1>7. repo \in [Checkouts -> Repository] /\ repo[c] = g /\ \A x \in Checkouts \ {c} : repo[x] = a.native.repo[x]
  BY <1>1, <1>5
<1> HIDE DEF repo
<1>8. /\ DOMAIN n = NativeFields /\ n.scopes = a.native.scopes /\ n.subscribed = a.native.subscribed
      /\ n.events = events /\ n.repo = repo
  BY <1>1 DEF NativeFields
<1> HIDE DEF n
<1>9. b.watch = a.watch
  BY <1>6 DEF Keeps, Fields
<1>10. Watched(a.watch, a.native.subscribed, shown) /\ Hooked(DOMAIN a.calls, a.native.subscribed, runs, shown, a.panel.mount)
  BY DEF Settled
<1>11. \A x \in Checkouts : repo[x].version >= a.native.repo[x].version /\ repo[x].revision >= a.native.repo[x].revision
  <2> SUFFICES ASSUME NEW x \in Checkouts
               PROVE  repo[x].version >= a.native.repo[x].version /\ repo[x].revision >= a.native.repo[x].revision
    OBVIOUS
  <2>1. a.native.repo[x].version \in Nat /\ a.native.repo[x].revision \in Nat
    BY <1>1, TheBounds DEF Repository
  <2>2. CASE x = c
    BY <1>5, <1>7, <2>1, <2>2
  <2>3. CASE x # c
    BY <1>7, <2>1, <2>3
  <2>4. QED
    BY <2>2, <2>3
<1>12. Keeps(a, b, {"native", "watch"})
  BY <1>6 DEF Keeps
<1>13. Settled(b, runs, shown, relinked_)
  BY <1>1, <1>3, <1>6, <1>7, <1>8, <1>9, <1>10, <1>11, <1>12, NativeSettled
<1>14. QED
  BY <1>5, <1>6, <1>7, <1>8, <1>13 DEF b

LEMMA EditOutsideKeeps ==
  ASSUME Invariant, NEW c \in Checkouts, EditOutside(c)
  PROVE  Invariant'
<1> DEFINE f == native.repo[c].files
           files == IF "working-tree" \in f THEN {} ELSE f \cup {"working-tree"}
           a == Changed(Now, c, files)
<1>1. /\ Settled(Now, hookRuns, scope, relinked) /\ Awaited(panel, store.loading, DOMAIN calls)
      /\ Now.panel = panel /\ Now.store = store /\ Now.native = native /\ Now.calls = calls
  BY NowFacts
<1>2. Move(a) /\ native.repo[c].version < MaxVersion
  BY DEF EditOutside
<1>3. f \in SUBSET DiffKinds
  BY <1>1 DEF Settled, Typed, Repository
<1> HIDE DEF f
<1>4. files \in SUBSET DiffKinds
  BY <1>3 DEF DiffKinds
<1> HIDE DEF files
<1>5. Settled(a, hookRuns, scope, relinked) /\ Keeps(Now, a, {"native"})
  BY <1>1, <1>2, <1>4, ChangedSettled
<1> HIDE DEF a
<1>6. Good(a, hookRuns, scope, relinked)
  BY <1>1, <1>5 DEF Good, Keeps, Fields
<1>7. QED
  BY <1>2, <1>6, MoveKeeps

LEMMA WatchEventKeeps ==
  ASSUME Invariant, NEW c \in Checkouts, WatchEvent(c)
  PROVE  Invariant'
<1> DEFINE heard == watch.listening # NoScope /\ CheckoutOf(Now, watch.listening) = c
           timer == IF heard THEN watch.listening ELSE watch.timer
           n == [native EXCEPT !.events = @ \ {c}]
           w == [watch EXCEPT !.timer = timer]
           a == [Now EXCEPT !.native.events = @ \ {c}, !.watch.timer = IF heard THEN watch.listening ELSE @]
<1>1. /\ Settled(Now, hookRuns, scope, relinked) /\ Awaited(panel, store.loading, DOMAIN calls) /\ DOMAIN Now = Fields
      /\ Now.panel = panel /\ Now.store = store /\ Now.native = native /\ Now.calls = calls /\ Now.watch = watch
  BY NowFacts
<1>2. Move(a)
  BY DEF WatchEvent
<1>3. /\ watch \in Watch /\ DOMAIN native = NativeFields /\ native.subscribed \subseteq Scopes
      /\ native.events \subseteq Checkouts /\ native.repo \in [Checkouts -> Repository]
      /\ Watched(watch, native.subscribed, scope)
      /\ Hooked(DOMAIN calls, native.subscribed, hookRuns, scope, panel.mount)
  BY <1>1 DEF Settled, Typed
<1>4. timer \in {watch.listening, watch.timer}
  OBVIOUS
<1>5. a.native = n /\ a.watch = w /\ Keeps(Now, a, {"native", "watch"})
  BY <1>1 DEF Keeps, Fields
<1> HIDE DEF heard, timer
<1>6. w \in Watch /\ w.listening = watch.listening /\ w.timer = timer
  BY <1>3, <1>4 DEF Watch
<1>7. /\ DOMAIN n = NativeFields /\ n.subscribed = native.subscribed /\ n.scopes = native.scopes
      /\ n.repo = native.repo /\ n.events \subseteq Checkouts
  BY <1>3 DEF NativeFields
<1> HIDE DEF n, w, a
<1>8. Watched(w, native.subscribed, scope)
  BY <1>3, <1>4, <1>6 DEF Watched
<1>9. \A x \in Checkouts : native.repo[x].version >= native.repo[x].version /\ native.repo[x].revision >= native.repo[x].revision
  BY <1>3, TheBounds DEF Repository
<1>10. Settled(a, hookRuns, scope, relinked)
  BY <1>1, <1>3, <1>5, <1>6, <1>7, <1>8, <1>9, NativeSettled
<1>11. Good(a, hookRuns, scope, relinked)
  BY <1>1, <1>5, <1>10 DEF Good, Keeps, Fields
<1>12. QED
  BY <1>2, <1>11, MoveKeeps DEF a

LEMMA RefreshTimerKeeps ==
  ASSUME Invariant, RefreshTimer
  PROVE  Invariant'
<1> DEFINE s == watch.timer
           w == [watch EXCEPT !.timer = NoScope]
           a == [Now EXCEPT !.watch.timer = NoScope]
<1>1. /\ Settled(Now, hookRuns, scope, relinked) /\ Awaited(panel, store.loading, DOMAIN calls) /\ DOMAIN Now = Fields
      /\ Now.panel = panel /\ Now.store = store /\ Now.native = native /\ Now.calls = calls /\ Now.watch = watch
      /\ active \in Trunks
      /\ (scope # NoScope => scope \in DOMAIN native.scopes /\ native.scopes[scope].trunk = active)
  BY NowFacts
<1>2. s # NoScope /\ Move(loadSnapshot(a, native.scopes[s].trunk, s))
  BY DEF RefreshTimer
<1>3. /\ watch \in Watch /\ DOMAIN native = NativeFields /\ native.subscribed \subseteq Scopes
      /\ native.events \subseteq Checkouts /\ native.repo \in [Checkouts -> Repository]
      /\ Watched(watch, native.subscribed, scope)
      /\ Hooked(DOMAIN calls, native.subscribed, hookRuns, scope, panel.mount)
  BY <1>1 DEF Settled, Typed
<1>4. a.watch = w /\ a.native = native /\ Keeps(Now, a, {"native", "watch"})
  BY <1>1 DEF Keeps, Fields
<1>5. w \in Watch /\ w.listening = watch.listening /\ w.timer = NoScope
  BY <1>3, TheBounds DEF Watch, NoScope
<1>6. s = scope
  BY <1>2, <1>3 DEF Watched
<1> HIDE DEF s, w, a
<1>7. Watched(w, native.subscribed, scope)
  BY <1>3, <1>5 DEF Watched
<1>8. \A x \in Checkouts : native.repo[x].version >= native.repo[x].version /\ native.repo[x].revision >= native.repo[x].revision
  BY <1>3, TheBounds DEF Repository
<1>9. Settled(a, hookRuns, scope, relinked)
  BY <1>1, <1>3, <1>4, <1>5, <1>7, <1>8, NativeSettled
<1>10. Good(a, hookRuns, scope, relinked)
  BY <1>1, <1>4, <1>9 DEF Good, Keeps, Fields
<1>11. Good(loadSnapshot(a, native.scopes[s].trunk, s), hookRuns, scope, relinked)
  BY <1>1, <1>2, <1>4, <1>6, <1>10, LoadSnapshotGood
<1>12. QED
  BY <1>2, <1>11, MoveKeeps

\* A call that takes the place of another.
LEMMA AwaitedReplaces ==
  ASSUME NEW panel_, NEW loading, NEW D, NEW E, NEW c, NEW d, Awaited(panel_, loading, D),
         D \ {c} \subseteq E, d \in E, d.then = c.then, d.since = c.since, c.op # "diff",
         c.op = "snapshot" => d.op = "snapshot" /\ d.trunk = c.trunk
  PROVE  Awaited(panel_, loading, E)
<1>1. panel_.busyAction => \E x \in E : x.then = "panel" /\ x.since = panel_.mount
  BY DEF Awaited
<1>2. panel_.busyFile => \E x \in E : x.then = "file" /\ x.since = panel_.mount
  BY DEF Awaited
<1>3. \A k \in DiffKinds : panel_.diffs[k] = "loading" =>
        \E x \in E : x.op = "diff" /\ x.what = k /\ x.since = panel_.mount
  BY DEF Awaited
<1>4. \A t \in Trunks : loading[t] => \E x \in E : x.op = "snapshot" /\ x.trunk = t
  BY DEF Awaited
<1>5. QED
  BY <1>1, <1>2, <1>3, <1>4 DEF Awaited

LEMMA ReplaceSettled ==
  ASSUME NEW a, NEW runs, NEW shown, NEW relinked_, Settled(a, runs, shown, relinked_), NEW d \in Call,
         d.op \notin {"resolve", "subscribe", "diff"}, d.then # "nothing" => d.op \in Finishing,
         d.scope \in DOMAIN a.native.scopes, a.native.scopes[d.scope].trunk = d.trunk,
         Ordered(a.store.snapshot, DOMAIN a.calls \cup {d}, a.native.repo),
         Taken({d}, a.native.scopes, a.native.repo)
  PROVE  /\ Settled(Replace(a, d), runs, shown, relinked_) /\ Keeps(a, Replace(a, d), {"calls"})
         /\ DOMAIN Replace(a, d).calls = DOMAIN a.calls \cup {d}
<1> DEFINE b == Replace(a, d)
           D == DOMAIN a.calls
<1>1. Typed(a) /\ Scoped(a.project, a.native.scopes, D) /\ Taken(D, a.native.scopes, a.native.repo)
      /\ Hooked(D, a.native.subscribed, runs, shown, a.panel.mount)
  BY DEF Settled
<1>2. Keeps(a, b, {"calls"}) /\ Typed(b) /\ DOMAIN b.calls = D \cup {d}
  BY <1>1, ReplaceCalls
<1> HIDE DEF b, D
<1>3. /\ b.project = a.project /\ b.panel = a.panel /\ b.store = a.store /\ b.watch = a.watch
      /\ b.native = a.native /\ b.written = a.written
  BY <1>2 DEF Keeps, Fields
<1>4. Scoped(a.project, a.native.scopes, D \cup {d})
  BY <1>1 DEF Scoped
<1>5. Hooked(D \cup {d}, a.native.subscribed, runs, shown, a.panel.mount)
  BY <1>1 DEF Hooked
<1>6. Taken(D \cup {d}, a.native.scopes, a.native.repo)
  BY <1>1 DEF Taken
<1>7. Settled(b, runs, shown, relinked_)
  BY <1>2, <1>3, <1>4, <1>5, <1>6 DEF Settled, D
<1>8. QED
  BY <1>2, <1>7 DEF b, D

LEMMA CallFacts ==
  ASSUME Invariant, NEW c \in DOMAIN calls
  PROVE  /\ c \in Call /\ c.trunk \in Trunks /\ c.then \in {"file", "panel", "nothing"} /\ c.scope \in 0..MaxScopes
         /\ c.op # "resolve" =>
              /\ c.scope \in DOMAIN native.scopes /\ native.scopes[c.scope].trunk = c.trunk
              /\ CheckoutOf(Now, c.scope) \in Checkouts
         /\ CheckoutOf(Now, c.scope) = native.scopes[c.scope].checkout
         /\ c.then # "nothing" => c.op \in Finishing
         /\ c.op = "diff" => c.what \in DiffKinds
         /\ c.snap # NoSnapshot => c.op = "snapshot" /\ c.snap.checkout = native.scopes[c.scope].checkout
         /\ c.wrote # 0 =>
              /\ c.op \in {"mutate", "snapshot"} /\ c.wrote <= native.repo[native.scopes[c.scope].checkout].version
              /\ c.snap # NoSnapshot => c.snap.seen >= c.wrote
<1>1. Settled(Now, hookRuns, scope, relinked) /\ Typed(Now) /\ Now.native = native /\ Now.calls = calls /\ Now.project = project
  BY NowFacts
<1>2. c \in Call /\ native.scopes \in Seq(Scope)
  BY <1>1 DEF Typed
<1>3. c.trunk \in Trunks /\ c.then \in {"file", "panel", "nothing"} /\ c.scope \in 0..MaxScopes
  BY <1>2 DEF Call
<1>4. Scoped(project, native.scopes, DOMAIN calls) /\ Taken(DOMAIN calls, native.scopes, native.repo)
  BY <1>1 DEF Settled
<1>5. c.op # "resolve" => c.scope \in DOMAIN native.scopes /\ native.scopes[c.scope].trunk = c.trunk
  BY <1>4 DEF Scoped
<1>6. CheckoutOf(Now, c.scope) = native.scopes[c.scope].checkout
  BY <1>1 DEF CheckoutOf
<1>7. ASSUME c.op # "resolve" PROVE CheckoutOf(Now, c.scope) \in Checkouts
  <2>1. native.scopes[c.scope] \in Scope
    BY <1>2, <1>5, <1>7
  <2>2. QED
    BY <1>6, <2>1 DEF Scope
<1>8. (c.then # "nothing" => c.op \in Finishing) /\ (c.op = "diff" => c.what \in DiffKinds)
  BY <1>4 DEF Scoped
<1>9. /\ c.snap # NoSnapshot => c.op = "snapshot" /\ c.snap.checkout = native.scopes[c.scope].checkout
      /\ c.wrote # 0 =>
           /\ c.op \in {"mutate", "snapshot"} /\ c.wrote <= native.repo[native.scopes[c.scope].checkout].version
           /\ c.snap # NoSnapshot => c.snap.seen >= c.wrote
  BY <1>4 DEF Taken
<1>10. QED
  BY <1>2, <1>3, <1>5, <1>6, <1>7, <1>8, <1>9

\* The state in which an answer is handled: the call is no longer awaited.
LEMMA RunningFacts ==
  ASSUME Invariant, NEW c \in DOMAIN calls
  PROVE  /\ Settled(Running(c), hookRuns, scope, relinked) /\ Typed(Running(c)) /\ DOMAIN Running(c) = Fields
         /\ Running(c).project = project /\ Running(c).store = store /\ Running(c).panel = panel
         /\ Running(c).watch = watch /\ Running(c).native = native /\ Running(c).written = written
         /\ DOMAIN Running(c).calls \subseteq DOMAIN calls /\ DOMAIN calls \ {c} \subseteq DOMAIN Running(c).calls
<1>1. /\ Settled(Now, hookRuns, scope, relinked) /\ Typed(Now)
      /\ Now.project = project /\ Now.store = store /\ Now.panel = panel /\ Now.watch = watch
      /\ Now.native = native /\ Now.written = written
  BY NowFacts
<1>2. Settled(Running(c), hookRuns, scope, relinked)
  BY <1>1, RunningSettled
<1>3. /\ Keeps(Now, Running(c), {"calls"}) /\ Typed(Running(c))
      /\ DOMAIN Running(c).calls \subseteq DOMAIN calls /\ DOMAIN calls \ {c} \subseteq DOMAIN Running(c).calls
  BY <1>1, RunningCalls
<1>4. QED
  BY <1>1, <1>2, <1>3 DEF Keeps, Fields

LEMMA KnownAreSnapshots ==
  ASSUME NEW a, Typed(a)
  PROVE  Known(a.store.snapshot, DOMAIN a.calls) \subseteq Snapshot
<1>1. DOMAIN a.calls \subseteq Call /\ \A t \in Trunks : a.store.snapshot[t] \in Snapshot \cup {NoSnapshot}
  BY DEF Typed, Store
<1>2. QED
  BY <1>1 DEF Known, Call

\* A snapshot that is taken now saw no less than any before.
LEMMA OrderedGains ==
  ASSUME NEW snapshot, NEW D, NEW repo, Ordered(snapshot, D, repo), NEW d, NEW x \in Snapshot, d.snap = x,
         Known(snapshot, D) \subseteq Snapshot,
         x.revision <= repo[x.checkout].revision, x.seen <= repo[x.checkout].version,
         \A y \in Known(snapshot, D) : y.checkout = x.checkout => y.revision < x.revision /\ y.seen <= x.seen
  PROVE  Ordered(snapshot, D \cup {d}, repo)
<1>1. Known(snapshot, D \cup {d}) \subseteq Known(snapshot, D) \cup {x}
  BY DEF Known
<1> DEFINE K == Known(snapshot, D)
<1>2. /\ \A y \in K : y.revision <= repo[y.checkout].revision /\ y.seen <= repo[y.checkout].version
      /\ \A y, z \in K : y.checkout = z.checkout /\ y.revision <= z.revision => y.seen <= z.seen
  BY DEF Ordered
<1>3. x.revision \in Nat /\ x.seen \in Nat /\ \A y \in K : y.revision \in Nat /\ y.seen \in Nat
  BY TheBounds DEF Snapshot
<1> HIDE DEF K
<1>4. \A y \in K \cup {x} : y.revision <= repo[y.checkout].revision /\ y.seen <= repo[y.checkout].version
  BY <1>2
<1>5. \A y, z \in K \cup {x} : y.checkout = z.checkout /\ y.revision <= z.revision => y.seen <= z.seen
  <2> SUFFICES ASSUME NEW y \in K \cup {x}, NEW z \in K \cup {x}, y.checkout = z.checkout, y.revision <= z.revision
               PROVE  y.seen <= z.seen
    OBVIOUS
  <2>1. CASE y \in K /\ z \in K
    BY <1>2, <2>1
  <2>2. CASE y = x /\ z \in K
    <3>1. z.revision < x.revision
      BY <2>2 DEF K
    <3>2. QED
      BY <1>3, <2>2, <3>1
  <2>3. CASE y \in K /\ z = x
    BY <2>3 DEF K
  <2>4. CASE y = x /\ z = x
    BY <1>3, <2>4
  <2>5. QED
    BY <2>1, <2>2, <2>3, <2>4
<1>6. QED
  BY <1>1, <1>4, <1>5 DEF Ordered, K

LEMMA TakeSnapshotKeeps ==
  ASSUME Invariant, NEW c \in DOMAIN calls, TakeSnapshot(c)
  PROVE  Invariant'
<1> DEFINE at == CheckoutOf(Now, c.scope)
           git == native.repo[at]
           r == git.revision + 1
           x == [checkout |-> at, revision |-> r, seen |-> git.version, isRepo |-> git.isRepo, files |-> git.files]
           d == [c EXCEPT !.snap = x]
           g == [git EXCEPT !.revision = r]
           repo == [native.repo EXCEPT ![at] = g]
           n == [native EXCEPT !.repo = repo]
           o == Running(c)
           a == [o EXCEPT !.native.repo[at].revision = r]
           b == Replace(a, d)
<1>1. c.op = "snapshot" /\ c.snap = NoSnapshot /\ r <= MaxRevision /\ Move(b)
  BY DEF TakeSnapshot
<1>2. /\ c \in Call /\ c.scope \in DOMAIN native.scopes /\ native.scopes[c.scope].trunk = c.trunk
      /\ at \in Checkouts /\ at = native.scopes[c.scope].checkout
      /\ (c.then # "nothing" => c.op \in Finishing)
      /\ (c.wrote # 0 => c.wrote <= native.repo[at].version)
  BY <1>1, CallFacts
<1>3. /\ Settled(Now, hookRuns, scope, relinked) /\ Awaited(panel, store.loading, DOMAIN calls)
      /\ Now.native = native /\ Now.calls = calls /\ Now.store = store /\ Now.watch = watch /\ Now.panel = panel
  BY NowFacts
<1>4. /\ Settled(o, hookRuns, scope, relinked) /\ Typed(o) /\ DOMAIN o = Fields
      /\ o.store = store /\ o.panel = panel /\ o.native = native /\ o.watch = watch
      /\ DOMAIN o.calls \subseteq DOMAIN calls /\ DOMAIN calls \ {c} \subseteq DOMAIN o.calls
  BY RunningFacts
<1> HIDE DEF o, at
<1>5. /\ watch \in Watch /\ DOMAIN native = NativeFields /\ native.subscribed \subseteq Scopes
      /\ native.events \subseteq Checkouts /\ native.repo \in [Checkouts -> Repository]
      /\ Watched(watch, native.subscribed, scope)
      /\ Hooked(DOMAIN o.calls, native.subscribed, hookRuns, scope, panel.mount)
      /\ Ordered(store.snapshot, DOMAIN calls, native.repo)
  BY <1>3, <1>4 DEF Settled, Typed
<1>6. git \in Repository
  BY <1>2, <1>5
<1> HIDE DEF git
<1>7. /\ git.revision \in Nat /\ git.version \in 0..MaxVersion /\ r \in 1..MaxRevision /\ r \in 0..MaxRevision
      /\ git.version \in Nat /\ git.files \in SUBSET DiffKinds /\ git.isRepo \in BOOLEAN
  BY <1>1, <1>6, TheBounds DEF Repository
<1>8. r > git.revision
  BY <1>7
<1> HIDE DEF r
<1>9. x \in Snapshot /\ x.checkout = at /\ x.revision = r /\ x.seen = git.version
  BY <1>2, <1>7 DEF Snapshot
<1>10. x # NoSnapshot
  <2>1. NoSnapshot.checkout = NoCheckout
    BY DEF NoSnapshot
  <2>2. QED
    BY <1>2, <1>9, <2>1, PanelNames
<1> HIDE DEF x
<1>11. /\ d \in Call /\ d.op = "snapshot" /\ d.trunk = c.trunk /\ d.then = c.then /\ d.since = c.since
       /\ d.scope = c.scope /\ d.snap = x /\ d.wrote = c.wrote
  BY <1>1, <1>2, <1>9 DEF Call
<1> HIDE DEF d
<1>12. g \in Repository /\ g.revision = r /\ g.version = git.version
  BY <1>6, <1>7 DEF Repository
<1>13. a.native = n /\ Keeps(o, a, {"native"})
  BY <1>4, <1>5 DEF Keeps, Fields, NativeFields, git
<1> HIDE DEF g, a
<1>14. repo \in [Checkouts -> Repository] /\ repo[at] = g /\ \A y \in Checkouts \ {at} : repo[y] = native.repo[y]
  BY <1>2, <1>5, <1>12
<1> HIDE DEF repo
<1>15. /\ DOMAIN n = NativeFields /\ n.scopes = native.scopes /\ n.subscribed = native.subscribed
       /\ n.events = native.events /\ n.repo = repo
  BY <1>5 DEF NativeFields
<1> HIDE DEF n
<1>16. \A y \in Checkouts : repo[y].version >= native.repo[y].version /\ repo[y].revision >= native.repo[y].revision
  <2> SUFFICES ASSUME NEW y \in Checkouts
               PROVE  repo[y].version >= native.repo[y].version /\ repo[y].revision >= native.repo[y].revision
    OBVIOUS
  <2>1. native.repo[y].version \in Nat /\ native.repo[y].revision \in Nat
    BY <1>5, TheBounds DEF Repository
  <2>2. CASE y = at
    BY <1>7, <1>8, <1>12, <1>14, <2>2 DEF git
  <2>3. CASE y # at
    BY <1>14, <2>1, <2>3
  <2>4. QED
    BY <2>2, <2>3
<1>17. Settled(a, hookRuns, scope, relinked)
  <2>1. Keeps(o, a, {"native", "watch"}) /\ a.watch = watch
    BY <1>4, <1>13 DEF Keeps, Fields
  <2>2. QED
    BY <1>4, <1>5, <1>13, <1>14, <1>15, <1>16, <2>1, NativeSettled
<1>18. a.store = store /\ a.calls = o.calls /\ a.panel = panel
  BY <1>4, <1>13 DEF Keeps, Fields
<1>19. Ordered(store.snapshot, DOMAIN o.calls \cup {d}, repo)
  <2> DEFINE K == Known(store.snapshot, DOMAIN o.calls)
  <2>1. Ordered(store.snapshot, DOMAIN o.calls, repo) /\ Typed(a)
    BY <1>13, <1>15, <1>17, <1>18 DEF Settled
  <2>2. K \subseteq Snapshot
    BY <1>18, <2>1, KnownAreSnapshots
  <2>3. K \subseteq Known(store.snapshot, DOMAIN calls)
    BY <1>4 DEF Known
  <2>4. \A y \in K : y.checkout = at => y.revision <= git.revision /\ y.seen <= git.version
    BY <1>5, <2>3 DEF Ordered, git
  <2>5. \A y \in K : y.revision \in Nat
    BY <2>2, TheBounds DEF Snapshot
  <2>6. \A y \in K : y.checkout = x.checkout => y.revision < x.revision /\ y.seen <= x.seen
    BY <1>7, <1>8, <1>9, <2>4, <2>5
  <2>7. x.revision <= repo[x.checkout].revision /\ x.seen <= repo[x.checkout].version
    BY <1>7, <1>9, <1>12, <1>14
  <2> HIDE DEF K
  <2>8. QED
    BY <1>9, <1>11, <2>1, <2>2, <2>6, <2>7, OrderedGains DEF K
<1>20. Taken({d}, native.scopes, repo)
  <2>1. x.checkout = native.scopes[d.scope].checkout
    BY <1>2, <1>9, <1>11
  <2>2. d.wrote # 0 => d.wrote <= repo[native.scopes[d.scope].checkout].version /\ x.seen >= d.wrote
    <3>1. c.wrote \in Nat
      BY <1>2, TheBounds DEF Call
    <3>2. QED
      BY <1>2, <1>7, <1>9, <1>11, <1>12, <1>14, <3>1 DEF git
  <2>3. QED
    BY <1>11, <2>1, <2>2 DEF Taken
<1>21. Settled(b, hookRuns, scope, relinked) /\ Keeps(a, b, {"calls"}) /\ DOMAIN b.calls = DOMAIN o.calls \cup {d}
  <2>1. d.then # "nothing" => d.op \in Finishing
    BY <1>1, <1>2, <1>11
  <2>2. Ordered(a.store.snapshot, DOMAIN a.calls \cup {d}, a.native.repo)
    BY <1>13, <1>15, <1>18, <1>19
  <2>3. Taken({d}, a.native.scopes, a.native.repo)
    BY <1>13, <1>15, <1>20
  <2>4. d.scope \in DOMAIN a.native.scopes /\ a.native.scopes[d.scope].trunk = d.trunk
    BY <1>2, <1>11, <1>13, <1>15
  <2>5. d.op \notin {"resolve", "subscribe", "diff"}
    BY <1>11
  <2>6. QED
    BY <1>11, <1>17, <1>18, <2>1, <2>2, <2>3, <2>4, <2>5, ReplaceSettled
<1> HIDE DEF b
<1>22. b.panel = panel /\ b.store = store
  BY <1>18, <1>21 DEF Keeps, Fields
<1>23. Awaited(panel, store.loading, DOMAIN b.calls)
  <2>1. DOMAIN calls \ {c} \subseteq DOMAIN b.calls /\ d \in DOMAIN b.calls
    BY <1>4, <1>21
  <2>2. QED
    BY <1>1, <1>3, <1>11, <2>1, AwaitedReplaces
<1>24. Good(b, hookRuns, scope, relinked)
  BY <1>21, <1>22, <1>23 DEF Good
<1>25. QED
  BY <1>1, <1>24, MoveKeeps

\* A call without a snapshot adds none.
LEMMA OrderedSame ==
  ASSUME NEW snapshot, NEW D, NEW repo, Ordered(snapshot, D, repo), NEW d, d.snap = NoSnapshot
  PROVE  Ordered(snapshot, D \cup {d}, repo)
<1>1. Known(snapshot, D \cup {d}) = Known(snapshot, D)
  BY DEF Known
<1>2. QED
  BY <1>1 DEF Ordered

LEMMA RunMutationKeeps ==
  ASSUME Invariant, NEW c \in DOMAIN calls, RunMutation(c)
  PROVE  Invariant'
<1> DEFINE at == CheckoutOf(Now, c.scope)
           v == native.repo[at].version + 1
           files == After(c.what, native.repo[at].files)
           d == [c EXCEPT !.wrote = v, !.what = "nothing"]
           o == Running(c)
           a == Changed(o, at, files)
           b == Replace(a, d)
<1>1. c.op = "mutate" /\ c.wrote = 0 /\ v <= MaxVersion /\ Move(b)
  BY DEF RunMutation
<1>2. /\ c \in Call /\ c.scope \in DOMAIN native.scopes /\ native.scopes[c.scope].trunk = c.trunk
      /\ at \in Checkouts /\ at = native.scopes[c.scope].checkout /\ c.snap = NoSnapshot
  BY <1>1, CallFacts
<1>3. /\ Settled(Now, hookRuns, scope, relinked) /\ Awaited(panel, store.loading, DOMAIN calls)
      /\ Now.native = native /\ Now.calls = calls /\ Now.store = store /\ Now.panel = panel
  BY NowFacts
<1>4. /\ Settled(o, hookRuns, scope, relinked) /\ DOMAIN o = Fields
      /\ o.store = store /\ o.panel = panel /\ o.native = native
      /\ DOMAIN calls \ {c} \subseteq DOMAIN o.calls
  BY RunningFacts
<1> HIDE DEF o, at
<1>5. native.repo[at] \in Repository
  BY <1>2, <1>3 DEF Settled, Typed
<1>6. files \in SUBSET DiffKinds
  <2>1. native.repo[at].files \in SUBSET DiffKinds
    BY <1>5 DEF Repository
  <2>2. QED
    BY <2>1 DEF After, DiffKinds
<1> HIDE DEF files
<1>7. /\ native.repo[at].version < MaxVersion /\ v \in 0..MaxVersion /\ v # 0 /\ v \in Nat
  BY <1>1, <1>5, TheBounds DEF Repository
<1>8. /\ Settled(a, hookRuns, scope, relinked) /\ Keeps(o, a, {"native"})
      /\ a.native.scopes = native.scopes /\ a.native.repo[at].version = v
  BY <1>2, <1>4, <1>6, <1>7, ChangedSettled
<1> HIDE DEF v, a
<1>9. a.store = store /\ a.calls = o.calls /\ a.panel = panel
  BY <1>4, <1>8 DEF Keeps, Fields
<1>10. /\ d \in Call /\ d.op = "mutate" /\ d.trunk = c.trunk /\ d.then = c.then /\ d.since = c.since
       /\ d.scope = c.scope /\ d.snap = NoSnapshot /\ d.wrote = v
  BY <1>1, <1>2, <1>7 DEF Call
<1> HIDE DEF d
<1>11. Settled(b, hookRuns, scope, relinked) /\ Keeps(a, b, {"calls"}) /\ DOMAIN b.calls = DOMAIN o.calls \cup {d}
  <2>1. d.then # "nothing" => d.op \in Finishing
    BY <1>10 DEF Finishing
  <2>2. Ordered(a.store.snapshot, DOMAIN a.calls \cup {d}, a.native.repo)
    BY <1>8, <1>10, OrderedSame DEF Settled
  <2>3. Taken({d}, a.native.scopes, a.native.repo)
    <3>1. d.wrote <= a.native.repo[a.native.scopes[d.scope].checkout].version
      BY <1>2, <1>7, <1>8, <1>10
    <3>2. QED
      BY <1>10, <3>1 DEF Taken
  <2>4. d.scope \in DOMAIN a.native.scopes /\ a.native.scopes[d.scope].trunk = d.trunk
    BY <1>2, <1>8, <1>10
  <2>5. d.op \notin {"resolve", "subscribe", "diff"}
    BY <1>10
  <2>6. Settled(a, hookRuns, scope, relinked) /\ d \in Call
    BY <1>8, <1>10
  <2>7. Settled(b, hookRuns, scope, relinked) /\ Keeps(a, b, {"calls"}) /\ DOMAIN b.calls = DOMAIN a.calls \cup {d}
    BY <2>1, <2>2, <2>3, <2>4, <2>5, <2>6, ReplaceSettled
  <2>8. QED
    BY <1>9, <2>7
<1> HIDE DEF b
<1>12. b.panel = panel /\ b.store = store
  BY <1>9, <1>11 DEF Keeps, Fields
<1>13. Awaited(panel, store.loading, DOMAIN b.calls)
  <2>1. DOMAIN calls \ {c} \subseteq DOMAIN b.calls /\ d \in DOMAIN b.calls
    BY <1>4, <1>11
  <2>2. QED
    BY <1>1, <1>3, <1>10, <2>1, AwaitedReplaces
<1>14. Good(b, hookRuns, scope, relinked)
  BY <1>11, <1>12, <1>13 DEF Good
<1>15. QED
  BY <1>1, <1>14, MoveKeeps

-----------------------------------------------------------------------------
(* A change of the store.                                                   *)

LEMMA StoreSettled ==
  ASSUME NEW a, NEW b, NEW runs, NEW shown, NEW relinked_, Settled(a, runs, shown, relinked_),
         Keeps(a, b, {"store"}), b.store \in Store,
         b.store.snapshot = a.store.snapshot, b.store.lastRevision = a.store.lastRevision
  PROVE  Settled(b, runs, shown, relinked_)
<1>1. /\ DOMAIN b = Fields
      /\ b.project = a.project /\ b.panel = a.panel /\ b.watch = a.watch
      /\ b.native = a.native /\ b.calls = a.calls /\ b.written = a.written
  BY DEF Keeps, Fields
<1>2. Typed(b)
  BY <1>1 DEF Settled, Typed
<1>3. QED
  BY <1>1, <1>2 DEF Settled

\* The spinner of a trunk's snapshot is set or cleared.
LEMMA LoadingSettled ==
  ASSUME NEW a, NEW runs, NEW shown, NEW relinked_, Settled(a, runs, shown, relinked_),
         NEW t \in Trunks, NEW on \in BOOLEAN
  PROVE  LET b == [a EXCEPT !.store.loading[t] = on]
         IN  /\ Settled(b, runs, shown, relinked_) /\ Keeps(a, b, {"store"})
             /\ b.store.loading[t] = on /\ \A x \in Trunks \ {t} : b.store.loading[x] = a.store.loading[x]
<1> DEFINE l == [a.store.loading EXCEPT ![t] = on]
           s == [a.store EXCEPT !.loading = l]
           b == [a EXCEPT !.store.loading[t] = on]
<1>1. a.store \in Store /\ DOMAIN a = Fields
  BY DEF Settled, Typed
<1>2. b.store = s /\ Keeps(a, b, {"store"})
  BY <1>1 DEF Keeps, Fields
<1>3. a.store.loading \in [Trunks -> BOOLEAN]
  BY <1>1 DEF Store
<1>4. l \in [Trunks -> BOOLEAN] /\ l[t] = on /\ \A x \in Trunks \ {t} : l[x] = a.store.loading[x]
  BY <1>3
<1> HIDE DEF l, b
<1>5. s \in Store /\ s.snapshot = a.store.snapshot /\ s.lastRevision = a.store.lastRevision /\ s.loading = l
  BY <1>1, <1>4 DEF Store
<1> HIDE DEF s
<1>6. Settled(b, runs, shown, relinked_)
  BY <1>2, <1>5, StoreSettled
<1>7. QED
  BY <1>2, <1>4, <1>5, <1>6 DEF b

LEMMA MutationAnsweredKeeps ==
  ASSUME Invariant, NEW c \in DOMAIN calls, MutationAnswered(c)
  PROVE  Invariant'
<1> DEFINE d == [c EXCEPT !.op = "snapshot"]
           o == Running(c)
           a == [o EXCEPT !.store.loading[c.trunk] = TRUE]
           b == Replace(a, d)
<1>1. c.op = "mutate" /\ c.wrote # 0 /\ Move(b)
  BY DEF MutationAnswered, refresh
<1>2. /\ c \in Call /\ c.scope \in DOMAIN native.scopes /\ native.scopes[c.scope].trunk = c.trunk /\ c.trunk \in Trunks
      /\ c.snap = NoSnapshot /\ c.wrote <= native.repo[native.scopes[c.scope].checkout].version
  BY <1>1, CallFacts
<1>3. Awaited(panel, store.loading, DOMAIN calls)
  BY NowFacts
<1>4. /\ Settled(o, hookRuns, scope, relinked) /\ DOMAIN o = Fields
      /\ o.store = store /\ o.panel = panel /\ o.native = native
      /\ DOMAIN calls \ {c} \subseteq DOMAIN o.calls
  BY RunningFacts
<1> HIDE DEF o
<1>5. /\ Settled(a, hookRuns, scope, relinked) /\ Keeps(o, a, {"store"})
      /\ \A x \in Trunks \ {c.trunk} : a.store.loading[x] = store.loading[x]
  <2>1. c.trunk \in Trunks /\ Settled(o, hookRuns, scope, relinked) /\ TRUE \in BOOLEAN
    BY <1>2, <1>4
  <2>2. /\ Settled(a, hookRuns, scope, relinked) /\ Keeps(o, a, {"store"})
        /\ \A x \in Trunks \ {c.trunk} : a.store.loading[x] = o.store.loading[x]
    BY <2>1, LoadingSettled
  <2>3. QED
    BY <1>4, <2>2
<1> HIDE DEF a
<1>6. a.native = native /\ a.calls = o.calls /\ a.panel = panel
  BY <1>4, <1>5 DEF Keeps, Fields
<1>7. /\ d \in Call /\ d.op = "snapshot" /\ d.trunk = c.trunk /\ d.then = c.then /\ d.since = c.since
      /\ d.scope = c.scope /\ d.snap = NoSnapshot /\ d.wrote = c.wrote
  BY <1>2 DEF Call
<1> HIDE DEF d
<1>8. Settled(b, hookRuns, scope, relinked) /\ Keeps(a, b, {"calls"}) /\ DOMAIN b.calls = DOMAIN o.calls \cup {d}
  <2>1. d.then # "nothing" => d.op \in Finishing
    BY <1>7 DEF Finishing
  <2>2. Ordered(a.store.snapshot, DOMAIN a.calls \cup {d}, a.native.repo)
    BY <1>5, <1>7, OrderedSame DEF Settled
  <2>3. Taken({d}, a.native.scopes, a.native.repo)
    BY <1>2, <1>6, <1>7 DEF Taken
  <2>4. d.scope \in DOMAIN a.native.scopes /\ a.native.scopes[d.scope].trunk = d.trunk
    BY <1>2, <1>6, <1>7
  <2>5. d.op \notin {"resolve", "subscribe", "diff"}
    BY <1>7
  <2>6. Settled(a, hookRuns, scope, relinked) /\ d \in Call
    BY <1>5, <1>7
  <2>7. Settled(b, hookRuns, scope, relinked) /\ Keeps(a, b, {"calls"}) /\ DOMAIN b.calls = DOMAIN a.calls \cup {d}
    BY <2>1, <2>2, <2>3, <2>4, <2>5, <2>6, ReplaceSettled
  <2>8. QED
    BY <1>6, <2>7
<1> HIDE DEF b
<1>9. b.panel = panel /\ b.store = a.store
  BY <1>6, <1>8 DEF Keeps, Fields
<1>10. Awaited(panel, a.store.loading, DOMAIN b.calls)
  <2>1. DOMAIN calls \ {c} \subseteq DOMAIN b.calls /\ d \in DOMAIN b.calls
    BY <1>4, <1>8
  <2>2. Awaited(panel, store.loading, DOMAIN b.calls)
    BY <1>1, <1>3, <1>7, <2>1, AwaitedReplaces
  <2>3. \A t \in Trunks : a.store.loading[t] => \E x \in DOMAIN b.calls : x.op = "snapshot" /\ x.trunk = t
    <3> SUFFICES ASSUME NEW t \in Trunks, a.store.loading[t]
                 PROVE  \E x \in DOMAIN b.calls : x.op = "snapshot" /\ x.trunk = t
      OBVIOUS
    <3>1. CASE t = c.trunk
      BY <1>7, <2>1, <3>1
    <3>2. CASE t # c.trunk
      BY <1>5, <2>2, <3>2 DEF Awaited
    <3>3. QED
      BY <3>1, <3>2
  <2>4. QED
    BY <2>2, <2>3 DEF Awaited
<1>11. Good(b, hookRuns, scope, relinked)
  BY <1>8, <1>9, <1>10 DEF Good
<1>12. QED
  BY <1>1, <1>11, MoveKeeps

-----------------------------------------------------------------------------
(* What follows the answer of a command.                                    *)

\* A call that ends: what waited for it is told, and the rest waits for others.
LEMMA FinishGood ==
  ASSUME Invariant, NEW c \in DOMAIN calls, c.op # "diff", NEW a, Settled(a, hookRuns, scope, relinked), a.panel = panel,
         DOMAIN calls \ {c} \subseteq DOMAIN a.calls,
         \A t \in Trunks : a.store.loading[t] => store.loading[t] /\ ~(c.op = "snapshot" /\ c.trunk = t),
         NEW ok
  PROVE  Good(Finished(a, c, ok), hookRuns, scope, relinked)
<1> DEFINE E == DOMAIN a.calls
           b == Finished(a, c, ok)
           pf == [panel EXCEPT !.busyFile = FALSE]
           pa == [panel EXCEPT !.busyAction = FALSE]
           file == [a EXCEPT !.panel.busyFile = FALSE]
           action == [a EXCEPT !.panel.busyAction = FALSE]
<1>1. Awaited(panel, store.loading, DOMAIN calls) /\ panel \in Panel
  BY NowFacts
<1>2. c.then \in {"file", "panel", "nothing"}
  BY CallFacts
<1>3. DOMAIN a = Fields
  BY DEF Settled, Typed
<1>4. \A t \in Trunks : a.store.loading[t] => \E x \in E : x.op = "snapshot" /\ x.trunk = t
  BY <1>1 DEF Awaited
<1>5. \A k \in DiffKinds : panel.diffs[k] = "loading" => \E x \in E : x.op = "diff" /\ x.what = k /\ x.since = panel.mount
  BY <1>1 DEF Awaited
<1>6. ~panel.mounted =>
        ~panel.busyAction /\ ~panel.busyFile /\ \A k \in DiffKinds : panel.diffs[k] # "loading"
  BY <1>1 DEF Awaited
<1>7. /\ panel.busyAction => \E x \in DOMAIN calls : x.then = "panel" /\ x.since = panel.mount
      /\ panel.busyFile => \E x \in DOMAIN calls : x.then = "file" /\ x.since = panel.mount
  BY <1>1 DEF Awaited
<1>8. CASE c.then = "nothing" \/ ~Mounted(c)
  <2>1. b = a
    BY <1>8 DEF Finished
  <2>2. c.then = "nothing" \/ ~panel.mounted \/ c.since # panel.mount
    BY <1>8 DEF Mounted
  <2>3. panel.busyAction => \E x \in E : x.then = "panel" /\ x.since = panel.mount
    BY <1>6, <1>7, <2>2
  <2>4. panel.busyFile => \E x \in E : x.then = "file" /\ x.since = panel.mount
    BY <1>6, <1>7, <2>2
  <2> HIDE DEF b, E
  <2>5. Awaited(panel, a.store.loading, E)
    BY <1>4, <1>5, <1>6, <2>3, <2>4 DEF Awaited
  <2>6. Good(a, hookRuns, scope, relinked)
    BY <2>5 DEF Good, E
  <2>7. QED
    BY <2>1, <2>6 DEF b
<1>9. CASE c.then = "file" /\ Mounted(c)
  <2>1. b = file /\ panel.mounted
    BY <1>9 DEF Finished, Mounted
  <2>2. file.panel = pf /\ Keeps(a, file, {"panel"})
    BY <1>3 DEF Keeps, Fields
  <2>3. /\ pf \in Panel /\ pf.busyFile = FALSE /\ pf.mounted = panel.mounted /\ pf.mount = panel.mount
        /\ pf.busyAction = panel.busyAction /\ pf.diffs = panel.diffs
    BY <1>1 DEF Panel
  <2>4. panel.busyAction => \E x \in E : x.then = "panel" /\ x.since = panel.mount
    BY <1>7, <1>9
  <2> HIDE DEF b, E, pf, file
  <2>5. Awaited(pf, a.store.loading, E)
    BY <1>4, <1>5, <2>1, <2>3, <2>4 DEF Awaited
  <2>6. Settled(file, hookRuns, scope, relinked)
    BY <2>2, <2>3, PanelSettled
  <2>7. file.store = a.store /\ file.calls = a.calls
    BY <2>2 DEF Keeps, Fields
  <2>8. Good(file, hookRuns, scope, relinked)
    BY <2>2, <2>5, <2>6, <2>7 DEF Good, E
  <2>9. QED
    BY <2>1, <2>8 DEF b
<1>10. CASE c.then = "panel" /\ Mounted(c)
  <2>1. b = action /\ panel.mounted
    BY <1>10 DEF Finished, Mounted
  <2>2. action.panel = pa /\ Keeps(a, action, {"panel"})
    BY <1>3 DEF Keeps, Fields
  <2>3. /\ pa \in Panel /\ pa.busyAction = FALSE /\ pa.mounted = panel.mounted /\ pa.mount = panel.mount
        /\ pa.busyFile = panel.busyFile /\ pa.diffs = panel.diffs
    BY <1>1 DEF Panel
  <2>4. panel.busyFile => \E x \in E : x.then = "file" /\ x.since = panel.mount
    BY <1>7, <1>10
  <2> HIDE DEF b, E, pa, action
  <2>5. Awaited(pa, a.store.loading, E)
    BY <1>4, <1>5, <2>1, <2>3, <2>4 DEF Awaited
  <2>6. Settled(action, hookRuns, scope, relinked)
    BY <2>2, <2>3, PanelSettled
  <2>7. action.store = a.store /\ action.calls = a.calls
    BY <2>2 DEF Keeps, Fields
  <2>8. Good(action, hookRuns, scope, relinked)
    BY <2>2, <2>5, <2>6, <2>7 DEF Good, E
  <2>9. QED
    BY <2>1, <2>8 DEF b
<1>11. QED
  BY <1>2, <1>8, <1>9, <1>10

\* The end of a call that nothing in the panel follows.
LEMMA DropGood ==
  ASSUME Invariant, NEW c \in DOMAIN calls, c.op \notin {"snapshot", "mutate", "log", "diff"},
         NEW a, Settled(a, hookRuns, scope, relinked), a.panel = panel, a.store = store,
         DOMAIN calls \ {c} \subseteq DOMAIN a.calls
  PROVE  Good(a, hookRuns, scope, relinked)
<1>1. c.then = "nothing"
  BY CallFacts DEF Finishing
<1>2. Finished(a, c, TRUE) = a
  BY <1>1 DEF Finished
<1>3. Good(Finished(a, c, TRUE), hookRuns, scope, relinked)
  BY FinishGood
<1>4. QED
  BY <1>2, <1>3

LEMMA SetErrorSettled ==
  ASSUME NEW a, NEW runs, NEW shown, NEW relinked_, Settled(a, runs, shown, relinked_),
         NEW t \in Trunks, NEW invalid
  PROVE  Settled(setError(a, t, invalid), runs, shown, relinked_) /\ Keeps(a, setError(a, t, invalid), {"project"})
<1> DEFINE b == [a EXCEPT !.project.runtime[t] = [status |-> "invalid", scope |-> NoScope]]
<1>1. Settled(b, runs, shown, relinked_) /\ Keeps(a, b, {"project"})
  BY UnreadySettled
<1>2. setError(a, t, invalid) = IF invalid THEN b ELSE a
  BY DEF setError
<1>3. Keeps(a, a, {"project"})
  BY DEF Settled, Typed, Keeps
<1> HIDE DEF b
<1>4. QED
  BY <1>1, <1>2, <1>3

LEMMA SnapshotFailedKeeps ==
  ASSUME Invariant, NEW c \in DOMAIN calls, SnapshotFailed(c)
  PROVE  Invariant'
<1> DEFINE o == Running(c)
           a == setError(o, c.trunk, Moved(c))
           b == [a EXCEPT !.store.loading[c.trunk] = FALSE]
           e == Finished(b, c, TRUE)
<1>1. c.op = "snapshot" /\ Move(e)
  BY DEF SnapshotFailed
<1>2. c.trunk \in Trunks
  BY CallFacts
<1>3. /\ Settled(o, hookRuns, scope, relinked) /\ DOMAIN o = Fields
      /\ o.store = store /\ o.panel = panel
      /\ DOMAIN calls \ {c} \subseteq DOMAIN o.calls
  BY RunningFacts
<1> HIDE DEF o
<1>4. Settled(a, hookRuns, scope, relinked) /\ Keeps(o, a, {"project"})
  BY <1>2, <1>3, SetErrorSettled
<1> HIDE DEF a
<1>5. FALSE \in BOOLEAN
  OBVIOUS
<1>6. /\ Settled(b, hookRuns, scope, relinked) /\ Keeps(a, b, {"store"})
      /\ b.store.loading[c.trunk] = FALSE /\ \A x \in Trunks \ {c.trunk} : b.store.loading[x] = a.store.loading[x]
  BY <1>2, <1>4, <1>5, LoadingSettled
<1> HIDE DEF b
<1>7. b.panel = panel /\ b.calls = o.calls /\ a.store = store
  BY <1>3, <1>4, <1>6 DEF Keeps, Fields
<1>8. \A t \in Trunks : b.store.loading[t] => store.loading[t] /\ ~(c.op = "snapshot" /\ c.trunk = t)
  BY <1>6, <1>7
<1>9. c.op # "diff"
  BY <1>1
<1>10. Good(e, hookRuns, scope, relinked)
  BY <1>3, <1>6, <1>7, <1>8, <1>9, FinishGood
<1>11. QED
  BY <1>1, <1>10, MoveKeeps

LEMMA FailedKeeps ==
  ASSUME Invariant, NEW c \in DOMAIN calls, MutationFailed(c) \/ LogFailed(c)
  PROVE  Invariant'
<1> DEFINE o == Running(c)
           a == setError(o, c.trunk, Moved(c))
           e == Finished(a, c, FALSE)
<1>1. c.op \in {"mutate", "log"} /\ Move(e)
  BY DEF MutationFailed, LogFailed
<1>2. c.trunk \in Trunks
  BY CallFacts
<1>3. /\ Settled(o, hookRuns, scope, relinked) /\ DOMAIN o = Fields
      /\ o.store = store /\ o.panel = panel
      /\ DOMAIN calls \ {c} \subseteq DOMAIN o.calls
  BY RunningFacts
<1> HIDE DEF o
<1>4. Settled(a, hookRuns, scope, relinked) /\ Keeps(o, a, {"project"})
  BY <1>2, <1>3, SetErrorSettled
<1> HIDE DEF a
<1>5. a.panel = panel /\ a.calls = o.calls /\ a.store = store
  BY <1>3, <1>4 DEF Keeps, Fields
<1>6. c.op # "diff" /\ c.op # "snapshot"
  BY <1>1
<1>7. Good(e, hookRuns, scope, relinked)
  BY <1>3, <1>4, <1>5, <1>6, FinishGood
<1>8. QED
  BY <1>1, <1>7, MoveKeeps

LEMMA LogAnsweredKeeps ==
  ASSUME Invariant, NEW c \in DOMAIN calls, LogAnswered(c)
  PROVE  Invariant'
<1> DEFINE o == Running(c)
           s == [store EXCEPT !.log = @ \cup {c.trunk}]
           a == [o EXCEPT !.store.log = @ \cup {c.trunk}]
           e == Finished(a, c, TRUE)
<1>1. c.op = "log" /\ Move(e)
  BY DEF LogAnswered
<1>2. c.trunk \in Trunks /\ store \in Store
  BY CallFacts, NowFacts
<1>3. /\ Settled(o, hookRuns, scope, relinked) /\ DOMAIN o = Fields
      /\ o.store = store /\ o.panel = panel
      /\ DOMAIN calls \ {c} \subseteq DOMAIN o.calls
  BY RunningFacts
<1> HIDE DEF o
<1>4. a.store = s /\ Keeps(o, a, {"store"})
  BY <1>3 DEF Keeps, Fields
<1>5. s \in Store /\ s.snapshot = store.snapshot /\ s.lastRevision = store.lastRevision /\ s.loading = store.loading
  BY <1>2 DEF Store
<1> HIDE DEF a, s
<1>6. Settled(a, hookRuns, scope, relinked)
  BY <1>3, <1>4, <1>5, StoreSettled
<1>7. a.panel = panel /\ a.calls = o.calls
  BY <1>3, <1>4 DEF Keeps, Fields
<1>8. c.op # "diff" /\ c.op # "snapshot" /\ a.store.loading = store.loading
  BY <1>1, <1>4, <1>5
<1>9. Good(e, hookRuns, scope, relinked)
  BY <1>3, <1>6, <1>7, <1>8, FinishGood
<1>10. QED
  BY <1>1, <1>9, MoveKeeps

\* The answer of a diff ends the spinner of its kind, if it is still awaited.
LEMMA DiffGood ==
  ASSUME Invariant, NEW c \in DOMAIN calls, c.op = "diff", NEW v \in Checkouts \cup {"error"},
         NEW a, Settled(a, hookRuns, scope, relinked), a.panel = panel, a.store = store,
         DOMAIN calls \ {c} \subseteq DOMAIN a.calls
  PROVE  Good(IF Mounted(c) THEN [a EXCEPT !.panel.diffs[c.what] = v] ELSE a, hookRuns, scope, relinked)
<1> DEFINE E == DOMAIN a.calls
           f == [panel.diffs EXCEPT ![c.what] = v]
           p == [panel EXCEPT !.diffs = f]
           b == [a EXCEPT !.panel.diffs[c.what] = v]
<1>1. Awaited(panel, store.loading, DOMAIN calls) /\ panel \in Panel
  BY NowFacts
<1>2. c.what \in DiffKinds /\ c.then = "nothing"
  BY CallFacts DEF Finishing
<1>3. DOMAIN a = Fields
  BY DEF Settled, Typed
<1>4. /\ panel.busyAction => \E x \in E : x.then = "panel" /\ x.since = panel.mount
      /\ panel.busyFile => \E x \in E : x.then = "file" /\ x.since = panel.mount
  BY <1>1, <1>2 DEF Awaited
<1>5. \A t \in Trunks : store.loading[t] => \E x \in E : x.op = "snapshot" /\ x.trunk = t
  BY <1>1 DEF Awaited
<1>6. ~panel.mounted =>
        ~panel.busyAction /\ ~panel.busyFile /\ \A k \in DiffKinds : panel.diffs[k] # "loading"
  BY <1>1 DEF Awaited
<1>7. \A k \in DiffKinds : panel.diffs[k] = "loading" =>
        \E x \in DOMAIN calls : x.op = "diff" /\ x.what = k /\ x.since = panel.mount
  BY <1>1 DEF Awaited
<1>8. CASE Mounted(c)
  <2>1. panel.diffs \in [DiffKinds -> Checkouts \cup {"none", "loading", "error"}]
    BY <1>1 DEF Panel
  <2>2. v # "loading"
    BY PanelNames
  <2>3. /\ f \in [DiffKinds -> Checkouts \cup {"none", "loading", "error"}] /\ f[c.what] = v
        /\ \A k \in DiffKinds \ {c.what} : f[k] = panel.diffs[k]
    BY <1>2, <2>1
  <2>4. b.panel = p /\ Keeps(a, b, {"panel"})
    BY <1>3 DEF Keeps, Fields
  <2> HIDE DEF f, b
  <2>5. /\ p \in Panel /\ p.mounted = panel.mounted /\ p.mount = panel.mount
        /\ p.busyAction = panel.busyAction /\ p.busyFile = panel.busyFile /\ p.diffs = f
    BY <1>1, <2>3 DEF Panel
  <2> HIDE DEF p
  <2>6. panel.mounted
    BY <1>8 DEF Mounted
  <2>7. \A k \in DiffKinds : f[k] = "loading" => \E x \in E : x.op = "diff" /\ x.what = k /\ x.since = panel.mount
    <3> SUFFICES ASSUME NEW k \in DiffKinds, f[k] = "loading"
                 PROVE  \E x \in E : x.op = "diff" /\ x.what = k /\ x.since = panel.mount
      OBVIOUS
    <3>1. k # c.what /\ panel.diffs[k] = "loading"
      BY <2>2, <2>3
    <3>2. QED
      BY <1>7, <3>1
  <2> HIDE DEF E
  <2>8. Awaited(p, store.loading, E)
    BY <1>4, <1>5, <2>5, <2>6, <2>7 DEF Awaited
  <2>9. Settled(b, hookRuns, scope, relinked)
    BY <2>4, <2>5, PanelSettled
  <2>10. b.store = store /\ b.calls = a.calls
    BY <2>4 DEF Keeps, Fields
  <2>11. Good(b, hookRuns, scope, relinked)
    BY <2>4, <2>8, <2>9, <2>10 DEF Good, E
  <2>12. QED
    BY <1>8, <2>11 DEF b
<1>9. CASE ~Mounted(c)
  <2>1. \A k \in DiffKinds : panel.diffs[k] = "loading" =>
          \E x \in E : x.op = "diff" /\ x.what = k /\ x.since = panel.mount
    <3>1. ~panel.mounted \/ c.since # panel.mount
      BY <1>9 DEF Mounted
    <3>2. QED
      BY <1>6, <1>7, <3>1
  <2> HIDE DEF E, b
  <2>2. Awaited(panel, store.loading, E)
    BY <1>4, <1>5, <1>6, <2>1 DEF Awaited
  <2>3. Good(a, hookRuns, scope, relinked)
    BY <2>2 DEF Good, E
  <2>4. QED
    BY <1>9, <2>3 DEF b
<1>10. QED
  BY <1>8, <1>9

LEMMA DiffKeeps ==
  ASSUME Invariant, NEW c \in DOMAIN calls, DiffAnswered(c) \/ DiffFailed(c)
  PROVE  Invariant'
<1> DEFINE o == Running(c)
           a == [o EXCEPT !.project.runtime[c.trunk] = [status |-> "invalid", scope |-> NoScope]]
           failed == IF Moved(c) THEN a ELSE o
           at == CheckoutOf(Now, c.scope)
           shows(b, v) == IF Mounted(c) THEN [b EXCEPT !.panel.diffs[c.what] = v] ELSE b
<1>1. c.op = "diff" /\ (Move(shows(o, at)) \/ Move(shows(failed, "error")))
  BY DEF DiffAnswered, DiffFailed
<1>2. c.trunk \in Trunks /\ at \in Checkouts
  BY <1>1, CallFacts
<1>3. /\ Settled(o, hookRuns, scope, relinked) /\ DOMAIN o = Fields
      /\ o.store = store /\ o.panel = panel
      /\ DOMAIN calls \ {c} \subseteq DOMAIN o.calls
  BY RunningFacts
<1> HIDE DEF o, at
<1>4. Settled(a, hookRuns, scope, relinked) /\ Keeps(o, a, {"project"})
  BY <1>2, <1>3, UnreadySettled
<1> HIDE DEF a
<1>5. a.panel = panel /\ a.calls = o.calls /\ a.store = store
  BY <1>3, <1>4 DEF Keeps, Fields
<1>6. /\ Settled(failed, hookRuns, scope, relinked) /\ failed.panel = panel /\ failed.store = store
      /\ DOMAIN calls \ {c} \subseteq DOMAIN failed.calls
  BY <1>3, <1>4, <1>5
<1> HIDE DEF failed
<1>7. Good(shows(o, at), hookRuns, scope, relinked)
  BY <1>1, <1>2, <1>3, DiffGood
<1>8. Good(shows(failed, "error"), hookRuns, scope, relinked)
  BY <1>1, <1>6, DiffGood
<1> HIDE DEF shows
<1>9. QED
  BY <1>1, <1>7, <1>8, MoveKeeps

LEMMA ResolveInvalidKeeps ==
  ASSUME Invariant, NEW c \in DOMAIN calls, ResolveInvalid(c)
  PROVE  Invariant'
<1> DEFINE o == Running(c)
           a == [o EXCEPT !.project.runtime[c.trunk] = [status |-> "invalid", scope |-> NoScope]]
<1>1. c.op = "resolve" /\ (Move(o) \/ Move(a))
  BY DEF ResolveInvalid
<1>2. c.trunk \in Trunks
  BY CallFacts
<1>3. /\ Settled(o, hookRuns, scope, relinked) /\ DOMAIN o = Fields
      /\ o.store = store /\ o.panel = panel
      /\ DOMAIN calls \ {c} \subseteq DOMAIN o.calls
  BY RunningFacts
<1> HIDE DEF o
<1>4. Settled(a, hookRuns, scope, relinked) /\ Keeps(o, a, {"project"})
  BY <1>2, <1>3, UnreadySettled
<1> HIDE DEF a
<1>5. a.panel = panel /\ a.calls = o.calls /\ a.store = store
  BY <1>3, <1>4 DEF Keeps, Fields
<1>6. c.op \notin {"snapshot", "mutate", "log", "diff"}
  BY <1>1
<1>7. Good(o, hookRuns, scope, relinked)
  BY <1>3, <1>6, DropGood
<1>8. Good(a, hookRuns, scope, relinked)
  BY <1>3, <1>4, <1>5, <1>6, DropGood
<1>9. QED
  BY <1>1, <1>7, <1>8, MoveKeeps

LEMMA InitializeAnsweredKeeps ==
  ASSUME Invariant, NEW c \in DOMAIN calls, InitializeAnswered(c) \/ InitializeFailed(c)
  PROVE  Invariant'
<1> DEFINE o == Running(c)
           at == CheckoutOf(Now, c.scope)
           g == [native.repo[at] EXCEPT !.isRepo = TRUE]
           repo == [native.repo EXCEPT ![at] = g]
           n == [native EXCEPT !.repo = repo]
           a == [o EXCEPT !.native.repo[at].isRepo = TRUE]
           b == loadSnapshot(a, c.trunk, c.scope)
<1>1. c.op = "initialize" /\ (Move(o) \/ Move(b))
  BY DEF InitializeAnswered, InitializeFailed
<1>2. c.trunk \in Trunks /\ at \in Checkouts /\ c.scope \in DOMAIN native.scopes /\ native.scopes[c.scope].trunk = c.trunk
  BY <1>1, CallFacts
<1>3. /\ Settled(o, hookRuns, scope, relinked) /\ DOMAIN o = Fields
      /\ o.store = store /\ o.panel = panel /\ o.native = native /\ o.watch = watch
      /\ DOMAIN calls \ {c} \subseteq DOMAIN o.calls
  BY RunningFacts
<1> HIDE DEF o, at
<1>4. /\ watch \in Watch /\ DOMAIN native = NativeFields /\ native.subscribed \subseteq Scopes
      /\ native.events \subseteq Checkouts /\ native.repo \in [Checkouts -> Repository]
      /\ Watched(watch, native.subscribed, scope)
      /\ Hooked(DOMAIN o.calls, native.subscribed, hookRuns, scope, panel.mount)
  BY <1>3 DEF Settled, Typed
<1>5. native.repo[at] \in Repository
  BY <1>2, <1>4
<1>6. g \in Repository /\ g.version = native.repo[at].version /\ g.revision = native.repo[at].revision
  BY <1>5 DEF Repository
<1>7. a.native = n /\ Keeps(o, a, {"native"})
  BY <1>3, <1>4 DEF Keeps, Fields, NativeFields
<1> HIDE DEF g, a
<1>8. repo \in [Checkouts -> Repository] /\ repo[at] = g /\ \A y \in Checkouts \ {at} : repo[y] = native.repo[y]
  BY <1>2, <1>4, <1>6
<1> HIDE DEF repo
<1>9. /\ DOMAIN n = NativeFields /\ n.scopes = native.scopes /\ n.subscribed = native.subscribed
      /\ n.events = native.events /\ n.repo = repo
  BY <1>4 DEF NativeFields
<1> HIDE DEF n
<1>10. \A y \in Checkouts : repo[y].version >= native.repo[y].version /\ repo[y].revision >= native.repo[y].revision
  <2> SUFFICES ASSUME NEW y \in Checkouts
               PROVE  repo[y].version >= native.repo[y].version /\ repo[y].revision >= native.repo[y].revision
    OBVIOUS
  <2>1. native.repo[y].version \in Nat /\ native.repo[y].revision \in Nat
    BY <1>4, TheBounds DEF Repository
  <2>2. CASE y = at
    BY <1>6, <1>8, <2>1, <2>2
  <2>3. CASE y # at
    BY <1>8, <2>1, <2>3
  <2>4. QED
    BY <2>2, <2>3
<1>11. Settled(a, hookRuns, scope, relinked)
  <2>1. Keeps(o, a, {"native", "watch"}) /\ a.watch = watch
    BY <1>3, <1>7 DEF Keeps, Fields
  <2>2. QED
    BY <1>3, <1>4, <1>7, <1>8, <1>9, <1>10, <2>1, NativeSettled
<1>12. a.store = store /\ a.calls = o.calls /\ a.panel = panel
  BY <1>3, <1>7 DEF Keeps, Fields
<1>13. c.op \notin {"snapshot", "mutate", "log", "diff"}
  BY <1>1
<1>14. Good(o, hookRuns, scope, relinked)
  BY <1>3, <1>13, DropGood
<1>15. Good(a, hookRuns, scope, relinked)
  BY <1>3, <1>11, <1>12, <1>13, DropGood
<1>16. c.scope \in DOMAIN a.native.scopes /\ a.native.scopes[c.scope].trunk = c.trunk
  BY <1>2, <1>7, <1>9
<1>17. Good(b, hookRuns, scope, relinked)
  BY <1>2, <1>15, <1>16, LoadSnapshotGood
<1> HIDE DEF b
<1>18. QED
  BY <1>1, <1>14, <1>17, MoveKeeps

LEMMA SubscribeAnsweredKeeps ==
  ASSUME Invariant, NEW c \in DOMAIN calls, SubscribeAnswered(c)
  PROVE  Invariant'
<1> DEFINE o == Running(c)
           n == [native EXCEPT !.subscribed = @ \ {c.scope}]
           a == [o EXCEPT !.native.subscribed = @ \ {c.scope}]
           b == Send(o, "listen", c.trunk, c.scope, "nothing", "nothing")
<1>1. c.op = "subscribe" /\ ((Cancelled(c) /\ Move(a)) \/ Move(b))
  BY DEF SubscribeAnswered
<1>2. c.trunk \in Trunks /\ c.scope \in DOMAIN native.scopes /\ native.scopes[c.scope].trunk = c.trunk /\ c.scope \in 0..MaxScopes
  BY <1>1, CallFacts
<1>3. /\ Settled(o, hookRuns, scope, relinked) /\ DOMAIN o = Fields
      /\ o.store = store /\ o.panel = panel /\ o.native = native /\ o.watch = watch
      /\ DOMAIN o.calls \subseteq DOMAIN calls /\ DOMAIN calls \ {c} \subseteq DOMAIN o.calls
  BY RunningFacts
<1>4. /\ Settled(Now, hookRuns, scope, relinked) /\ Now.native = native /\ Now.calls = calls /\ Now.panel = panel
      /\ (scope # NoScope => panel.mounted)
  BY NowFacts
<1>5. Good(b, hookRuns, scope, relinked)
  <2>1. c.op \notin {"snapshot", "mutate", "log", "diff"}
    BY <1>1
  <2>2. Good(o, hookRuns, scope, relinked)
    BY <1>3, <2>1, DropGood
  <2>3. "listen" \in Operations \ {"subscribe"} /\ "nothing" \in Whats
    BY DEF Operations, Whats
  <2> HIDE DEF o
  <2>4. QED
    BY <1>2, <1>3, <2>2, <2>3, SendGood
<1>6. ASSUME Cancelled(c) PROVE Good(a, hookRuns, scope, relinked)
  <2> HIDE DEF o
  <2>1. /\ watch \in Watch /\ DOMAIN native = NativeFields /\ native.subscribed \subseteq Scopes
        /\ native.events \subseteq Checkouts /\ native.repo \in [Checkouts -> Repository]
        /\ Watched(watch, native.subscribed, scope)
        /\ Hooked(DOMAIN o.calls, native.subscribed, hookRuns, scope, panel.mount)
    BY <1>3 DEF Settled, Typed
  <2>2. Hooked(DOMAIN calls, native.subscribed, hookRuns, scope, panel.mount)
    BY <1>4 DEF Settled
  <2>3. a.native = n /\ Keeps(o, a, {"native"})
    BY <1>3 DEF Keeps, Fields
  <2>4. /\ DOMAIN n = NativeFields /\ n.scopes = native.scopes /\ n.subscribed = native.subscribed \ {c.scope}
        /\ n.events = native.events /\ n.repo = native.repo
    BY <2>1 DEF NativeFields
  <2> HIDE DEF n, a
  <2>5. Watched(watch, n.subscribed, scope)
    BY <2>1, <2>4 DEF Watched
  <2>6. Hooked(DOMAIN o.calls, n.subscribed, hookRuns, scope, panel.mount)
    <3>1. \A s \in Scopes : hookRuns[s] = 0 => s # scope /\ \A x \in DOMAIN o.calls : x.op = "subscribe" => x.scope # s
      BY <2>1 DEF Hooked
    <3>2. \A s \in Scopes : hookRuns[s] = 1 /\ s = scope =>
            /\ s \in native.subscribed
            /\ \A x \in DOMAIN o.calls : x.op = "subscribe" /\ x.scope = s => x.since = panel.mount
      BY <2>1 DEF Hooked
    <3>3. \A s \in Scopes : hookRuns[s] = 1 /\ s = scope => s # c.scope
      <4> SUFFICES ASSUME NEW s \in Scopes, hookRuns[s] = 1, s = scope, s = c.scope
                   PROVE  FALSE
        OBVIOUS
      <4>1. c.since = panel.mount
        BY <1>1, <2>2 DEF Hooked
      <4>2. panel.mounted
        BY <1>4 DEF Scopes, NoScope
      <4>3. QED
        BY <1>6, <4>1, <4>2 DEF Cancelled, Mounted, scope
    <3>4. QED
      BY <2>4, <3>1, <3>2, <3>3 DEF Hooked
  <2>7. \A x \in Checkouts : native.repo[x].version >= native.repo[x].version /\ native.repo[x].revision >= native.repo[x].revision
    BY <2>1, TheBounds DEF Repository
  <2>8. Keeps(o, a, {"native", "watch"}) /\ a.watch = watch /\ a.panel = panel /\ a.store = store /\ a.calls = o.calls
    BY <1>3, <2>3 DEF Keeps, Fields
  <2>9. n.subscribed \subseteq Scopes
    BY <2>1, <2>4
  <2>10. Settled(a, hookRuns, scope, relinked)
    BY <1>3, <2>1, <2>3, <2>4, <2>5, <2>6, <2>7, <2>8, <2>9, NativeSettled
  <2>11. c.op \notin {"snapshot", "mutate", "log", "diff"}
    BY <1>1
  <2>12. QED
    BY <1>3, <2>8, <2>10, <2>11, DropGood
<1> HIDE DEF a, b
<1>7. QED
  BY <1>1, <1>5, <1>6, MoveKeeps

LEMMA ListenAnsweredKeeps ==
  ASSUME Invariant, NEW c \in DOMAIN calls, ListenAnswered(c)
  PROVE  Invariant'
<1> DEFINE o == Running(c)
           w == [watch EXCEPT !.listening = c.scope]
           a == [o EXCEPT !.watch.listening = c.scope]
<1>1. c.op = "listen" /\ ((~Cancelled(c) /\ Move(a)) \/ Move(o))
  BY DEF ListenAnswered
<1>2. c.scope \in 0..MaxScopes
  BY CallFacts
<1>3. /\ Settled(o, hookRuns, scope, relinked) /\ DOMAIN o = Fields
      /\ o.store = store /\ o.panel = panel /\ o.native = native /\ o.watch = watch
      /\ DOMAIN o.calls \subseteq DOMAIN calls /\ DOMAIN calls \ {c} \subseteq DOMAIN o.calls
  BY RunningFacts
<1> HIDE DEF o
<1>4. c.op \notin {"snapshot", "mutate", "log", "diff"}
  BY <1>1
<1>5. Good(o, hookRuns, scope, relinked)
  BY <1>3, <1>4, DropGood
<1>6. ASSUME ~Cancelled(c) PROVE Good(a, hookRuns, scope, relinked)
  <2>1. /\ watch \in Watch /\ DOMAIN native = NativeFields /\ native.subscribed \subseteq Scopes
        /\ native.events \subseteq Checkouts /\ native.repo \in [Checkouts -> Repository]
        /\ Watched(watch, native.subscribed, scope)
        /\ Hooked(DOMAIN o.calls, native.subscribed, hookRuns, scope, panel.mount)
    BY <1>3 DEF Settled, Typed
  <2>2. a.watch = w /\ Keeps(o, a, {"native", "watch"})
    BY <1>3 DEF Keeps, Fields
  <2>3. w \in Watch /\ w.listening = c.scope /\ w.timer = watch.timer
    BY <1>2, <2>1 DEF Watch
  <2>4. c.scope = scope
    BY <1>6 DEF Cancelled, scope
  <2> HIDE DEF w, a
  <2>5. Watched(w, native.subscribed, scope)
    BY <2>1, <2>3, <2>4 DEF Watched
  <2>6. \A x \in Checkouts : native.repo[x].version >= native.repo[x].version /\ native.repo[x].revision >= native.repo[x].revision
    BY <2>1, TheBounds DEF Repository
  <2>7. DOMAIN a = Fields /\ a.native = native /\ a.panel = panel /\ a.store = store /\ a.calls = o.calls
    <3>1. Fields \ {"native", "watch"} = {"project", "store", "panel", "calls", "written"}
      BY DEF Fields
    <3>2. a.native = o.native
      BY <1>3 DEF a, Fields
    <3>3. QED
      BY <1>3, <2>2, <3>1, <3>2 DEF Keeps
  <2>8. Settled(a, hookRuns, scope, relinked)
    BY <1>3, <2>1, <2>2, <2>3, <2>5, <2>6, <2>7, NativeSettled
  <2>9. QED
    BY <1>3, <1>4, <2>7, <2>8, DropGood
<1> HIDE DEF a
<1>7. QED
  BY <1>1, <1>5, <1>6, MoveKeeps

\* A checkout is resolved: it becomes a scope, and the one that the trunk is at
\* if the trunk is still the last that was activated.
LEMMA ResolveReadyKeeps ==
  ASSUME Invariant, NEW c \in DOMAIN calls, ResolveReady(c)
  PROVE  Invariant'
<1> DEFINE s == Len(native.scopes) + 1
           new == [trunk |-> c.trunk, checkout |-> project.home[c.trunk]]
           S == Append(native.scopes, new)
           n == [native EXCEPT !.scopes = S]
           o == Running(c)
           a == [o EXCEPT !.native.scopes = S]
           r == [status |-> "ready", scope |-> s]
           runtime == [project.runtime EXCEPT ![c.trunk] = r]
           p == [project EXCEPT !.runtime = runtime]
           b == [a EXCEPT !.project.runtime[c.trunk] = r]
<1>1. /\ Settled(o, hookRuns, scope, relinked) /\ Typed(o) /\ DOMAIN o = Fields
      /\ o.store = store /\ o.panel = panel /\ o.native = native /\ o.watch = watch /\ o.project = project
      /\ o.written = written
      /\ DOMAIN calls \ {c} \subseteq DOMAIN o.calls
  BY RunningFacts
<1>2. c.op = "resolve" /\ s <= MaxScopes /\ (Move(a) \/ Move(b))
  <2>1. [o EXCEPT !.native.scopes = Append(@, new)] = a
    BY <1>1 DEF Fields
  <2>2. QED
    BY <2>1 DEF ResolveReady
<1>3. c.trunk \in Trunks /\ project \in Project
  BY CallFacts, NowFacts
<1> HIDE DEF o
<1>4. /\ DOMAIN native = NativeFields /\ native.scopes \in Seq(Scope)
      /\ Scoped(project, native.scopes, DOMAIN o.calls) /\ Taken(DOMAIN o.calls, native.scopes, native.repo)
      /\ Stayed(store.snapshot, store.lastRevision, native.scopes, project.home, written, relinked)
      /\ Ordered(store.snapshot, DOMAIN o.calls, native.repo)
  BY <1>1 DEF Settled, Typed
<1>5. project.home \in [Trunks -> Checkouts] /\ project.runtime \in [Trunks -> Runtime]
  BY <1>3 DEF Project
<1>6. new \in Scope /\ new.trunk = c.trunk /\ new.checkout = project.home[c.trunk]
  BY <1>3, <1>5 DEF Scope
<1> HIDE DEF new
<1>7. /\ S \in Seq(Scope) /\ Len(S) = s /\ Len(native.scopes) \in Nat /\ DOMAIN native.scopes = 1..Len(native.scopes)
      /\ DOMAIN S = DOMAIN native.scopes \cup {s} /\ s \in 1..MaxScopes
      /\ S[s] = new /\ \A x \in DOMAIN native.scopes : S[x] = native.scopes[x]
  <2>1. Len(native.scopes) \in Nat /\ DOMAIN native.scopes = 1..Len(native.scopes)
    BY <1>4
  <2>2. S \in Seq(Scope) /\ Len(S) = s /\ S[s] = new /\ \A x \in 1..Len(native.scopes) : S[x] = native.scopes[x]
    BY <1>4, <1>6, AppendProperties
  <2>3. DOMAIN S = 1..s
    BY <2>2
  <2> HIDE DEF S
  <2>4. 1..s = (1..Len(native.scopes)) \cup {s} /\ s \in 1..MaxScopes
    BY <1>2, <2>1, TheBounds
  <2>5. QED
    BY <2>1, <2>2, <2>3, <2>4
<1>8. a.native = n /\ Keeps(o, a, {"native"})
  BY <1>1 DEF Keeps, Fields
<1> HIDE DEF S, s
<1>9. /\ DOMAIN n = NativeFields /\ n.scopes = S /\ n.subscribed = native.subscribed
      /\ n.events = native.events /\ n.repo = native.repo
  BY <1>4 DEF NativeFields
<1> HIDE DEF n, a
<1>10. /\ DOMAIN a = Fields
       /\ a.project = project /\ a.panel = panel /\ a.store = store /\ a.watch = watch
       /\ a.calls = o.calls /\ a.written = written
  BY <1>1, <1>8 DEF Keeps, Fields
<1>11. Typed(a)
  <2>1. Len(S) <= MaxScopes
    BY <1>2, <1>7
  <2>2. QED
    BY <1>1, <1>7, <1>8, <1>9, <1>10, <2>1 DEF Typed
<1>12. Scoped(project, S, DOMAIN o.calls)
  BY <1>4, <1>7 DEF Scoped
<1>13. Taken(DOMAIN o.calls, S, native.repo)
  <2>1. \A d \in DOMAIN o.calls : d.snap # NoSnapshot \/ d.wrote # 0 =>
          d.scope \in DOMAIN native.scopes /\ S[d.scope] = native.scopes[d.scope]
    BY <1>4, <1>7 DEF Taken, Scoped
  <2>2. QED
    BY <1>4, <2>1 DEF Taken
<1>14. Stayed(store.snapshot, store.lastRevision, S, project.home, written, relinked)
  <2>1. \A t \in Trunks \ relinked : \A x \in DOMAIN S : S[x].trunk = t => S[x].checkout = project.home[t]
    BY <1>4, <1>6, <1>7 DEF Stayed
  <2>2. QED
    BY <1>4, <2>1 DEF Stayed
<1>15. Settled(a, hookRuns, scope, relinked)
  BY <1>1, <1>4, <1>8, <1>9, <1>10, <1>11, <1>12, <1>13, <1>14 DEF Settled
<1>16. r \in Runtime /\ r.status = "ready" /\ r.scope = s
  BY <1>7, TheBounds DEF Runtime
<1> HIDE DEF r
<1>17. /\ runtime \in [Trunks -> Runtime] /\ runtime[c.trunk] = r
       /\ \A t \in Trunks \ {c.trunk} : runtime[t] = project.runtime[t]
  BY <1>3, <1>5, <1>16
<1>18. b.project = p /\ Keeps(a, b, {"project"})
  BY <1>10 DEF Keeps, Fields
<1> HIDE DEF runtime, b
<1>19. p \in Project /\ p.home = project.home /\ p.runtime = runtime
  BY <1>3, <1>17 DEF Project
<1> HIDE DEF p
<1>20. \A t \in Trunks : runtime[t].status = "ready" => runtime[t].scope \in DOMAIN S /\ S[runtime[t].scope].trunk = t
  <2> SUFFICES ASSUME NEW t \in Trunks, runtime[t].status = "ready"
               PROVE  runtime[t].scope \in DOMAIN S /\ S[runtime[t].scope].trunk = t
    OBVIOUS
  <2>1. CASE t = c.trunk
    BY <1>6, <1>7, <1>16, <1>17, <2>1
  <2>2. CASE t # c.trunk
    BY <1>12, <1>17, <2>2 DEF Scoped
  <2>3. QED
    BY <2>1, <2>2
<1>21. Settled(b, hookRuns, scope, relinked)
  BY <1>8, <1>9, <1>10, <1>15, <1>18, <1>19, <1>20, ProjectSettled
<1>22. b.panel = panel /\ b.store = store /\ b.calls = o.calls
  BY <1>10, <1>18 DEF Keeps, Fields
<1>23. c.op \notin {"snapshot", "mutate", "log", "diff"}
  BY <1>2
<1>24. Good(a, hookRuns, scope, relinked)
  BY <1>1, <1>10, <1>15, <1>23, DropGood
<1>25. Good(b, hookRuns, scope, relinked)
  BY <1>1, <1>21, <1>22, <1>23, DropGood
<1>26. QED
  BY <1>2, <1>24, <1>25, MoveKeeps

\* An answer shows no less than what was shown, of a checkout that never moved.
LEMMA AppliedSettled ==
  ASSUME Invariant, NEW c \in DOMAIN calls, c.op = "snapshot", c.snap # NoSnapshot
  PROVE  LET a == applySnapshot(Running(c), c.trunk, c.snap)
         IN  /\ Settled(a, hookRuns, scope, relinked) /\ Keeps(Running(c), a, {"store"})
             /\ a.store.loading = store.loading
             /\ c.trunk \notin relinked => a.store.snapshot[c.trunk].seen >= c.snap.seen
<1> DEFINE o == Running(c)
           t == c.trunk
           x == c.snap
           y == store.snapshot[t]
           f == [store.snapshot EXCEPT ![t] = x]
           l == [store.lastRevision EXCEPT ![t] = x.revision]
           s == [store EXCEPT !.snapshot = f, !.lastRevision = l]
           b == [o EXCEPT !.store.snapshot[t] = x, !.store.lastRevision[t] = x.revision]
           a == applySnapshot(o, t, x)
<1>1. /\ c \in Call /\ t \in Trunks /\ c.scope \in DOMAIN native.scopes /\ native.scopes[c.scope].trunk = t
      /\ x.checkout = native.scopes[c.scope].checkout
  BY CallFacts
<1>2. /\ Settled(o, hookRuns, scope, relinked) /\ Typed(o) /\ DOMAIN o = Fields
      /\ o.project = project /\ o.store = store /\ o.panel = panel /\ o.watch = watch /\ o.native = native
      /\ o.written = written
      /\ DOMAIN o.calls \subseteq DOMAIN calls
  BY RunningFacts
<1>3. /\ Settled(Now, hookRuns, scope, relinked) /\ Typed(Now) /\ store \in Store
      /\ Now.project = project /\ Now.store = store /\ Now.native = native /\ Now.calls = calls /\ Now.written = written
  BY NowFacts
<1>4. /\ Ordered(store.snapshot, DOMAIN calls, native.repo)
      /\ Stayed(store.snapshot, store.lastRevision, native.scopes, project.home, written, relinked)
      /\ written \in [Trunks -> 0..MaxVersion]
  BY <1>3 DEF Settled, Typed
<1>5. /\ store.snapshot \in [Trunks -> Snapshot \cup {NoSnapshot}] /\ store.lastRevision \in [Trunks -> 0..MaxRevision]
  BY <1>3 DEF Store
<1>6. x \in Snapshot
  BY <1>1 DEF Call
<1>7. x.revision \in 1..MaxRevision /\ x.revision \in 0..MaxRevision /\ x.revision \in Nat /\ x.seen \in Nat /\ x.revision > 0
  BY <1>6, TheBounds DEF Snapshot
<1>8. y \in Snapshot \cup {NoSnapshot} /\ store.lastRevision[t] = y.revision /\ y.revision \in Nat /\ y.seen \in Nat
  <2>1. y \in Snapshot \cup {NoSnapshot} /\ store.lastRevision[t] = y.revision
    BY <1>1, <1>4, <1>5 DEF Stayed
  <2>2. QED
    BY <2>1, TheBounds DEF Snapshot, NoSnapshot
<1>9. x \in Known(store.snapshot, DOMAIN calls) /\ (y # NoSnapshot => y \in Known(store.snapshot, DOMAIN calls))
  BY <1>1 DEF Known
<1>10. ASSUME t \notin relinked
       PROVE  /\ x.checkout = project.home[t] /\ (y # NoSnapshot => y.checkout = project.home[t])
              /\ y.seen >= written[t]
  BY <1>1, <1>4, <1>10 DEF Stayed
<1>11. a = IF x.revision < y.revision THEN o ELSE b
  BY <1>2, <1>8 DEF applySnapshot
<1> HIDE DEF o, x, y
<1>12. CASE x.revision < y.revision
  <2>1. a = o
    BY <1>11, <1>12
  <2>2. y # NoSnapshot
    BY <1>7, <1>12 DEF NoSnapshot
  <2>3. t \notin relinked => x.seen <= y.seen
    BY <1>4, <1>7, <1>8, <1>9, <1>10, <1>12, <2>2 DEF Ordered
  <2>4. t \notin relinked => store.snapshot[t].seen >= x.seen
    BY <1>7, <1>8, <2>3 DEF y
  <2>5. Keeps(o, o, {"store"})
    BY <1>2 DEF Keeps
  <2> HIDE DEF a
  <2>6. QED
    BY <1>2, <2>1, <2>4, <2>5 DEF a, o, x, t
<1>13. CASE ~(x.revision < y.revision)
  <2>1. a = b /\ y.revision <= x.revision
    BY <1>7, <1>8, <1>11, <1>13
  <2>2. b.store = s /\ Keeps(o, b, {"store"})
    BY <1>2, <1>3 DEF Keeps, Fields, Store
  <2>3. /\ f \in [Trunks -> Snapshot \cup {NoSnapshot}] /\ f[t] = x
        /\ \A u \in Trunks \ {t} : f[u] = store.snapshot[u]
    BY <1>1, <1>5, <1>6
  <2>4. /\ l \in [Trunks -> 0..MaxRevision] /\ l[t] = x.revision
        /\ \A u \in Trunks \ {t} : l[u] = store.lastRevision[u]
    BY <1>1, <1>5, <1>7
  <2> HIDE DEF a, b, f, l
  <2>5. s \in Store /\ s.snapshot = f /\ s.lastRevision = l /\ s.loading = store.loading
    BY <1>3, <2>3, <2>4 DEF Store
  <2> HIDE DEF s
  <2>6. /\ DOMAIN b = Fields
        /\ b.project = project /\ b.panel = panel /\ b.watch = watch /\ b.native = native
        /\ b.calls = o.calls /\ b.written = written
    BY <1>2, <2>2 DEF Keeps, Fields
  <2>7. Typed(b)
    BY <1>2, <2>2, <2>5, <2>6 DEF Typed
  <2>8. Known(f, DOMAIN o.calls) \subseteq Known(store.snapshot, DOMAIN calls)
    <3>1. \A u \in Trunks : f[u] \in {store.snapshot[v] : v \in Trunks} \cup {d.snap : d \in DOMAIN calls}
      <4> SUFFICES ASSUME NEW u \in Trunks
                   PROVE  f[u] \in {store.snapshot[v] : v \in Trunks} \cup {d.snap : d \in DOMAIN calls}
        OBVIOUS
      <4>1. CASE u = t
        BY <2>3, <4>1 DEF x
      <4>2. CASE u # t
        BY <2>3, <4>2
      <4>3. QED
        BY <4>1, <4>2
    <3>2. QED
      BY <1>2, <3>1 DEF Known
  <2>9. Ordered(f, DOMAIN o.calls, native.repo)
    BY <1>4, <2>8 DEF Ordered
  <2>10. t \notin relinked => x.seen >= written[t]
    <3> SUFFICES ASSUME t \notin relinked PROVE x.seen >= written[t]
      OBVIOUS
    <3>1. written[t] \in Nat /\ y.seen >= written[t]
      BY <1>1, <1>4, <1>10, TheBounds
    <3>2. CASE y = NoSnapshot
      BY <1>7, <3>1, <3>2 DEF NoSnapshot
    <3>3. CASE y # NoSnapshot
      <4>1. y.seen <= x.seen
        BY <1>4, <1>9, <1>10, <2>1, <3>3 DEF Ordered
      <4>2. QED
        BY <1>7, <1>8, <3>1, <4>1
    <3>4. QED
      BY <3>2, <3>3
  <2>11. Stayed(f, l, native.scopes, project.home, written, relinked)
    <3>1. \A u \in Trunks : l[u] = f[u].revision
      BY <1>4, <2>3, <2>4 DEF Stayed
    <3>2. \A u \in Trunks \ relinked : f[u] # NoSnapshot => f[u].checkout = project.home[u]
      BY <1>4, <1>10, <2>3 DEF Stayed
    <3>3. \A u \in Trunks \ relinked : f[u].seen >= written[u]
      BY <1>4, <2>3, <2>10 DEF Stayed
    <3>4. QED
      BY <1>4, <3>1, <3>2, <3>3 DEF Stayed
  <2>12. Settled(b, hookRuns, scope, relinked)
    BY <1>2, <2>2, <2>5, <2>6, <2>7, <2>9, <2>11 DEF Settled
  <2>13. b.store.snapshot[t].seen >= x.seen
    BY <1>7, <2>2, <2>3, <2>5
  <2>14. QED
    BY <2>1, <2>2, <2>5, <2>12, <2>13 DEF a, o, x, t
<1>14. QED
  BY <1>12, <1>13

LEMMA SnapshotAnsweredKeeps ==
  ASSUME Invariant, NEW c \in DOMAIN calls, SnapshotAnswered(c)
  PROVE  Invariant'
<1> DEFINE t == c.trunk
           o == Running(c)
           a == applySnapshot(o, t, c.snap)
           b == [a EXCEPT !.store.loading[t] = FALSE]
           v == IF c.wrote # 0 THEN c.wrote ELSE b.written[t]
           w == [b.written EXCEPT ![t] = v]
           d == [b EXCEPT !.written = w]
           e == Finished(d, c, TRUE)
<1>1. c.op = "snapshot" /\ c.snap # NoSnapshot
  BY DEF SnapshotAnswered
<1>2. /\ c \in Call /\ t \in Trunks /\ (c.wrote # 0 => c.snap.seen >= c.wrote)
  BY <1>1, CallFacts
<1>3. /\ DOMAIN o = Fields /\ o.panel = panel /\ o.written = written
      /\ DOMAIN calls \ {c} \subseteq DOMAIN o.calls
  BY RunningFacts
<1>4. /\ Settled(a, hookRuns, scope, relinked) /\ Keeps(o, a, {"store"})
      /\ a.store.loading = store.loading
      /\ t \notin relinked => a.store.snapshot[t].seen >= c.snap.seen
  BY <1>1, AppliedSettled
<1> HIDE DEF a, o
<1>5. /\ Settled(b, hookRuns, scope, relinked) /\ Keeps(a, b, {"store"})
      /\ b.store.loading[t] = FALSE /\ \A u \in Trunks \ {t} : b.store.loading[u] = a.store.loading[u]
  <2>1. FALSE \in BOOLEAN
    OBVIOUS
  <2>2. QED
    BY <1>2, <1>4, <2>1, LoadingSettled
<1>6. b.store.snapshot = a.store.snapshot
  <2>1. a.store \in Store /\ DOMAIN a = Fields
    BY <1>4 DEF Settled, Typed
  <2>2. QED
    BY <2>1 DEF Store, Fields
<1>7. Move(e)
  <2>1. DOMAIN b = Fields
    BY <1>5 DEF Keeps
  <2>2. [b EXCEPT !.written[t] = IF c.wrote # 0 THEN c.wrote ELSE @] = d
    BY <2>1 DEF Fields
  <2>3. QED
    BY <2>2 DEF SnapshotAnswered, b, a, o
<1> HIDE DEF b
<1>8. /\ DOMAIN b = Fields /\ b.panel = panel /\ b.written = written /\ b.calls = o.calls
  BY <1>3, <1>4, <1>5 DEF Keeps, Fields
<1>9. /\ Typed(b) /\ written \in [Trunks -> 0..MaxVersion]
      /\ Stayed(b.store.snapshot, b.store.lastRevision, b.native.scopes, b.project.home, written, relinked)
  BY <1>5, <1>8 DEF Settled, Typed
<1>10. c.wrote \in 0..MaxVersion
  BY <1>2 DEF Call
<1>11. w \in [Trunks -> 0..MaxVersion] /\ w[t] = v /\ \A u \in Trunks \ {t} : w[u] = written[u]
  BY <1>2, <1>8, <1>9, <1>10
<1>12. /\ DOMAIN d = Fields /\ d.written = w /\ d.project = b.project /\ d.store = b.store /\ d.panel = b.panel
       /\ d.watch = b.watch /\ d.native = b.native /\ d.calls = b.calls
  BY <1>8 DEF Fields
<1> HIDE DEF w, d
<1>13. t \notin relinked => b.store.snapshot[t].seen >= v
  <2> SUFFICES ASSUME t \notin relinked PROVE b.store.snapshot[t].seen >= v
    OBVIOUS
  <2>1. b.store.snapshot[t].seen >= written[t]
    BY <1>2, <1>9 DEF Stayed
  <2>2. b.store.snapshot[t].seen >= c.snap.seen
    BY <1>4, <1>6
  <2>3. c.wrote \in Nat /\ c.snap.seen \in Nat
    BY <1>1, <1>2, <1>10, TheBounds DEF Call, Snapshot
  <2>4. b.store.snapshot[t].seen \in Nat
    <3>1. b.store.snapshot[t] \in Snapshot \cup {NoSnapshot}
      BY <1>2, <1>9 DEF Typed, Store
    <3>2. QED
      BY <3>1, TheBounds DEF Snapshot, NoSnapshot
  <2>5. QED
    BY <1>2, <1>8, <2>1, <2>2, <2>3, <2>4
<1> HIDE DEF v
<1>14. Typed(d)
  BY <1>9, <1>11, <1>12 DEF Typed
<1>15. Stayed(b.store.snapshot, b.store.lastRevision, b.native.scopes, b.project.home, w, relinked)
  BY <1>9, <1>11, <1>13 DEF Stayed
<1>16. Settled(d, hookRuns, scope, relinked)
  BY <1>5, <1>12, <1>14, <1>15 DEF Settled
<1>17. \A u \in Trunks : d.store.loading[u] => store.loading[u] /\ ~(c.op = "snapshot" /\ c.trunk = u)
  BY <1>4, <1>5, <1>12
<1>18. c.op # "diff" /\ d.panel = panel /\ DOMAIN calls \ {c} \subseteq DOMAIN d.calls
  BY <1>1, <1>3, <1>8, <1>12
<1>19. Good(e, hookRuns, scope, relinked)
  BY <1>16, <1>17, <1>18, FinishGood
<1> HIDE DEF e
<1>20. QED
  BY <1>7, <1>19, MoveKeeps

-----------------------------------------------------------------------------
(* The theorems.                                                            *)

LEMMA PanelInit == Init => Invariant
<1> SUFFICES ASSUME Init PROVE Invariant
  OBVIOUS
<1> DEFINE n == Now
           sc == <<[trunk |-> FirstTrunk, checkout |-> FirstCheckout]>>
           snapshots == [t \in Trunks |-> NoSnapshot]
           first == [t \in Trunks |-> IF t = FirstTrunk THEN [status |-> "ready", scope |-> 1]
                                      ELSE [status |-> "none", scope |-> NoScope]]
           files(c) == IF c \in Plain THEN {} ELSE FirstFiles
           repo == [c \in Checkouts |-> [version |-> 0, revision |-> 0, files |-> files(c), isRepo |-> c \notin Plain]]
<1>1. project = [active |-> FirstTrunk, generation |-> 0, runtime |-> first, home |-> [t \in Trunks |-> FirstCheckout]]
  BY DEF Init
<1>2. store = [snapshot |-> snapshots, lastRevision |-> [t \in Trunks |-> 0], loading |-> [t \in Trunks |-> FALSE], log |-> {}]
  BY DEF Init
<1>3. panel = closedPanel /\ watch = [listening |-> NoScope, timer |-> NoScope]
  BY DEF Init
<1>4. native = [scopes |-> sc, subscribed |-> {}, events |-> {}, repo |-> repo]
  BY DEF Init
<1>5. /\ calls = EmptyBag /\ written = [t \in Trunks |-> 0] /\ relinked = {} /\ gestures = 0
      /\ hookRuns = [s \in Scopes |-> 0]
  BY DEF Init
<1>6. /\ DOMAIN n = Fields
      /\ n.project = project /\ n.store = store /\ n.panel = panel /\ n.watch = watch
      /\ n.native = native /\ n.calls = calls /\ n.written = written
  BY DEF Now, Fields
<1>7. /\ 0 \in 0..MaxScopes /\ 1 \in 0..MaxScopes /\ 0 \in 0..MaxVersion /\ 0 \in 0..MaxRevision /\ 0 \in 0..MaxMounts
      /\ 0 \in 0..MaxGestures /\ NoScope = 0 /\ NoScope \notin Scopes
  BY TheBounds DEF NoScope, Scopes
<1>8. first \in [Trunks -> Runtime] /\ \A t \in Trunks : first[t].status = "ready" => t = FirstTrunk /\ first[t].scope = 1
  BY <1>7 DEF Runtime
<1> HIDE DEF first
<1>9. /\ project \in Project /\ project.runtime = first /\ project.home = [t \in Trunks |-> FirstCheckout]
  BY <1>1, <1>7, <1>8, PanelNames DEF Project
<1>10. snapshots \in [Trunks -> Snapshot \cup {NoSnapshot}] /\ \A t \in Trunks : snapshots[t] = NoSnapshot
  OBVIOUS
<1> HIDE DEF snapshots
<1>11. store \in Store /\ store.snapshot = snapshots /\ store.lastRevision = [t \in Trunks |-> 0]
       /\ store.loading = [t \in Trunks |-> FALSE]
  BY <1>2, <1>7, <1>10 DEF Store
<1>12. noDiffs \in [DiffKinds -> Checkouts \cup {"none", "loading", "error"}] /\ \A k \in DiffKinds : noDiffs[k] = "none"
  BY DEF noDiffs
<1> HIDE DEF noDiffs
<1>13. /\ panel \in Panel /\ panel.mounted = FALSE /\ panel.busyAction = FALSE /\ panel.busyFile = FALSE
       /\ panel.diffs = noDiffs /\ panel.mount = 0
  BY <1>3, <1>7, <1>12 DEF closedPanel, Panel
<1>14. watch \in Watch /\ watch.listening = NoScope /\ watch.timer = NoScope
  BY <1>3, <1>7 DEF Watch
<1>15. sc \in Seq(Scope) /\ Len(sc) = 1 /\ DOMAIN sc = {1} /\ sc[1].trunk = FirstTrunk /\ sc[1].checkout = FirstCheckout
  BY PanelNames DEF Scope
<1> HIDE DEF sc
<1>16. repo \in [Checkouts -> Repository]
  <2>1. \A c \in Checkouts : files(c) \in SUBSET DiffKinds
    BY RemoteAssumption DEF DiffKinds
  <2> HIDE DEF files
  <2>2. QED
    BY <1>7, <2>1 DEF Repository
<1> HIDE DEF repo
<1>17. DOMAIN native = NativeFields /\ native.scopes = sc /\ native.subscribed = {} /\ native.events = {} /\ native.repo = repo
  BY <1>4 DEF NativeFields
<1>18. IsABag(calls) /\ DOMAIN calls = {}
  BY <1>5 DEF EmptyBag, SetToBag, IsABag
<1>19. written \in [Trunks -> 0..MaxVersion]
  BY <1>5, <1>7
<1>20. ShownScope(n) = NoScope
  BY <1>6, <1>13 DEF ShownScope
<1> HIDE DEF n
<1>21. Typed(n)
  <2>1. Len(sc) <= MaxScopes
    BY <1>15, TheBounds
  <2>2. QED
    BY <1>6, <1>9, <1>11, <1>13, <1>14, <1>15, <1>16, <1>17, <1>18, <1>19, <2>1 DEF Typed
<1>22. Scoped(project, sc, {})
  BY <1>8, <1>9, <1>15 DEF Scoped
<1>23. Awaited(panel, store.loading, {})
  BY <1>11, <1>12, <1>13 DEF Awaited
<1>24. Watched(watch, {}, NoScope) /\ Hooked({}, {}, hookRuns, NoScope, panel.mount) /\ Taken({}, sc, repo)
  BY <1>5, <1>7, <1>14 DEF Watched, Hooked, Taken
<1>25. Ordered(snapshots, {}, repo)
  <2>1. Known(snapshots, {}) = {}
    BY <1>10 DEF Known
  <2>2. QED
    BY <2>1 DEF Ordered
<1>26. Stayed(snapshots, store.lastRevision, sc, project.home, written, relinked)
  <2>1. NoSnapshot.revision = 0 /\ NoSnapshot.seen = 0
    BY DEF NoSnapshot
  <2>2. \A t \in Trunks : snapshots[t].revision = 0 /\ snapshots[t].seen = 0 /\ written[t] = 0
    BY <1>5, <1>10, <2>1
  <2>3. \A t \in Trunks : store.lastRevision[t] = 0 /\ project.home[t] = FirstCheckout
    BY <1>9, <1>11
  <2>4. QED
    BY <1>10, <1>15, <2>2, <2>3 DEF Stayed
<1>27. Settled(n, hookRuns, NoScope, relinked)
  BY <1>6, <1>11, <1>17, <1>18, <1>21, <1>22, <1>24, <1>25, <1>26 DEF Settled
<1>28. Counted
  BY <1>5, <1>7 DEF Counted
<1>29. QED
  BY <1>6, <1>18, <1>20, <1>23, <1>27, <1>28 DEF Invariant, Good, n

LEMMA PanelStep == Invariant /\ [Next]_vars => Invariant'
<1> SUFFICES ASSUME Invariant, [Next]_vars PROVE Invariant'
  OBVIOUS
<1>1. ASSUME NEW t \in Trunks, Activate(t) PROVE Invariant'
  BY <1>1, ActivateKeeps
<1>2. ASSUME NEW t \in Trunks, NEW c \in Checkouts, Relink(t, c) PROVE Invariant'
  BY <1>2, RelinkKeeps
<1>3. CASE ShowPanel
  BY <1>3, ShowPanelKeeps
<1>4. CASE HidePanel
  BY <1>4, HidePanelKeeps
<1>5. CASE CommitChanges \/ StageAll \/ RefreshLog
  <2>1. "commit" \in PanelActions /\ "stage-all" \in PanelActions /\ "refresh-log" \in PanelActions
    BY DEF PanelActions
  <2>2. QED
    BY <1>5, <2>1, ActionKeeps DEF CommitChanges, StageAll, RefreshLog
<1>6. CASE Stage \/ Unstage
  <2>1. "stage" \in FileActions /\ "unstage" \in FileActions
    BY DEF FileActions
  <2>2. QED
    BY <1>6, <2>1, FileActionKeeps DEF Stage, Unstage
<1>7. ASSUME NEW action \in RemoteActions, RemoteAction(action) PROVE Invariant'
  <2>1. action \in PanelActions
    BY DEF PanelActions
  <2>2. QED
    BY <1>7, <2>1, ActionKeeps DEF RemoteAction
<1>8. CASE AskDiscard \/ ConfirmDiscard \/ CancelDiscard
  BY <1>8, DiscardKeeps
<1>9. CASE Initialize
  BY <1>9, InitializeKeeps
<1>10. ASSUME NEW k \in Opened, toggleDiff(k) PROVE Invariant'
  BY <1>10, ToggleKeeps
<1>11. ASSUME NEW c \in Checkouts, WatchEvent(c) \/ EditOutside(c) PROVE Invariant'
  BY <1>11, WatchEventKeeps, EditOutsideKeeps
<1>12. CASE RefreshTimer
  BY <1>12, RefreshTimerKeeps
<1>13. ASSUME NEW c \in DOMAIN calls, Answers(c) PROVE Invariant'
  <2>1. CASE ResolveReady(c) \/ ResolveInvalid(c)
    BY <2>1, ResolveReadyKeeps, ResolveInvalidKeeps
  <2>2. CASE TakeSnapshot(c) \/ SnapshotAnswered(c) \/ SnapshotFailed(c)
    BY <2>2, TakeSnapshotKeeps, SnapshotAnsweredKeeps, SnapshotFailedKeeps
  <2>3. CASE RunMutation(c) \/ MutationAnswered(c) \/ MutationFailed(c)
    BY <2>3, RunMutationKeeps, MutationAnsweredKeeps, FailedKeeps
  <2>4. CASE LogAnswered(c) \/ LogFailed(c)
    BY <2>4, LogAnsweredKeeps, FailedKeeps
  <2>5. CASE DiffAnswered(c) \/ DiffFailed(c)
    BY <2>5, DiffKeeps
  <2>6. CASE InitializeAnswered(c) \/ InitializeFailed(c)
    BY <2>6, InitializeAnsweredKeeps
  <2>7. CASE SubscribeAnswered(c) \/ ListenAnswered(c)
    BY <2>7, SubscribeAnsweredKeeps, ListenAnsweredKeeps
  <2>8. QED
    BY <1>13, <2>1, <2>2, <2>3, <2>4, <2>5, <2>6, <2>7 DEF Answers
<1>14. CASE UNCHANGED vars
  <2>1. /\ project' = project /\ store' = store /\ panel' = panel /\ watch' = watch /\ native' = native
        /\ calls' = calls /\ written' = written /\ relinked' = relinked /\ gestures' = gestures /\ hookRuns' = hookRuns
    BY <1>14 DEF vars
  <2>2. Now' = Now
    BY <2>1 DEF Now
  <2>3. QED
    BY <2>1, <2>2 DEF Invariant, Counted
<1>15. QED
  BY <1>1, <1>2, <1>3, <1>4, <1>5, <1>6, <1>7, <1>8, <1>9, <1>10, <1>11, <1>12, <1>13, <1>14 DEF Next

\* The state of the panel, of its store and of what is awaited always fit each
\* other and the checkout in view.
THEOREM PanelInvariant == Spec => []Invariant
BY PanelInit, PanelStep, PTL DEF Spec

\* A trunk whose checkout stays where it is shows what its finished actions
\* left: no answer that comes in late takes it back.
THEOREM WritesStayRead == Spec => []ReadYourWrites
<1>1. Invariant => ReadYourWrites
  <2> SUFFICES ASSUME Invariant PROVE ReadYourWrites
    OBVIOUS
  <2>1. Settled(Now, hookRuns, scope, relinked) /\ Now.store = store /\ Now.written = written
    BY NowFacts
  <2>2. QED
    BY <2>1 DEF Settled, Stayed, ReadYourWrites
<1>2. QED
  BY <1>1, PanelInvariant, PTL

\* Every state has its type, and whatever shows a spinner waits for a command
\* that will end it.
THEOREM SpinnersAreAwaited == Spec => []BusyIsAwaited
<1>1. Invariant => BusyIsAwaited
  <2> SUFFICES ASSUME Invariant PROVE BusyIsAwaited
    OBVIOUS
  <2>1. /\ Typed(Now) /\ Awaited(panel, store.loading, DOMAIN calls)
        /\ project \in Project /\ store \in Store /\ panel \in Panel
        /\ Now.watch = watch /\ Now.native = native /\ Now.calls = calls /\ Now.written = written
    BY NowFacts
  <2>2. TypeOK
    <3>1. /\ watch \in Watch /\ native.scopes \in Seq(Scope)
          /\ native.subscribed \subseteq Scopes /\ native.events \subseteq Checkouts
          /\ native.repo \in [Checkouts -> Repository]
          /\ IsABag(calls) /\ DOMAIN calls \subseteq Call /\ written \in [Trunks -> 0..MaxVersion]
      BY <2>1 DEF Typed
    <3>2. Counted
      BY DEF Invariant
    <3>3. project \in Project /\ store \in Store /\ panel \in Panel
      BY <2>1
    <3>4. QED
      BY <3>1, <3>2, <3>3, Zenon DEF TypeOK, Counted, Project, Store, Panel, Watch, Scope, Repository
  <2>3. ShownDiff = "loading" =>
          \E c \in DOMAIN calls : c.op = "diff" /\ c.what = panel.expanded /\ c.since = panel.mount
    <3> SUFFICES ASSUME ShownDiff = "loading"
                 PROVE  \E c \in DOMAIN calls : c.op = "diff" /\ c.what = panel.expanded /\ c.since = panel.mount
      OBVIOUS
    <3>1. panel.expanded \in DiffKinds \cup {"none"}
      BY <2>1 DEF Panel
    <3>2. panel.expanded \in DiffKinds /\ panel.diffs[panel.expanded] = "loading"
      BY <3>1 DEF ShownDiff
    <3>3. QED
      BY <2>1, <3>2 DEF Awaited
  <2>4. /\ panel.busyAction => \E c \in DOMAIN calls : c.then = "panel" /\ c.since = panel.mount
        /\ panel.busyFile => \E c \in DOMAIN calls : c.then = "file" /\ c.since = panel.mount
        /\ \A t \in Trunks : store.loading[t] => \E c \in DOMAIN calls : c.op = "snapshot" /\ c.trunk = t
    BY <2>1 DEF Awaited
  <2>5. QED
    BY <2>2, <2>3, <2>4 DEF BusyIsAwaited
<1>2. QED
  BY <1>1, PanelInvariant, PTL

\* The listener, the timer and the subscriptions are those of the checkout in
\* view, and none is left when it is not on the screen.
THEOREM WatchStaysInView == Spec => []WatchFollowsView
<1>1. Invariant => WatchFollowsView
  <2> SUFFICES ASSUME Invariant PROVE WatchFollowsView
    OBVIOUS
  <2>1. Settled(Now, hookRuns, scope, relinked) /\ Now.watch = watch /\ Now.native = native
    BY NowFacts
  <2>2. QED
    BY <2>1 DEF Settled, Watched, WatchFollowsView, scope
<1>2. QED
  BY <1>1, PanelInvariant, PTL

\* While the hook listens, the broker sends, unless the hook ran twice for the
\* same scope.
THEOREM ListenersAreServed == Spec => []ListensToBroker
<1>1. Invariant => ListensToBroker
  <2> SUFFICES ASSUME Invariant, watch.listening # NoScope
               PROVE  watch.listening \in native.subscribed \/ hookRuns[watch.listening] > 1
    BY DEF ListensToBroker
  <2>1. /\ Settled(Now, hookRuns, scope, relinked) /\ Now.watch = watch /\ Now.native = native
        /\ (scope # NoScope => scope \in Scopes)
    BY NowFacts
  <2>2. watch.listening = scope /\ scope \in Scopes
    BY <2>1 DEF Settled, Watched
  <2>3. hookRuns[scope] \in 0..2
    BY <2>2 DEF Invariant, Counted
  <2>4. hookRuns[scope] # 0 /\ (hookRuns[scope] = 1 => scope \in native.subscribed)
    BY <2>1, <2>2 DEF Settled, Hooked
  <2>5. QED
    BY <2>2, <2>3, <2>4
<1>2. QED
  BY <1>1, PanelInvariant, PTL
==============================================================================
