---------------------------- MODULE EditorTabsProofs ----------------------------
(***************************************************************************)
(* Proofs about the editor, for any files, projects and contents, and any   *)
(* bounds.                                                                 *)
(***************************************************************************)
EXTENDS EditorTabs, TLAPS, SequenceTheorems, FiniteSetTheorems

-----------------------------------------------------------------------------
(* The inductive invariant.  Its parts are about the fields of a state that *)
(* a handler works on.                                                     *)
Fields       == {"ed", "calls", "header", "window"}
EditorFields == {"tabs", "activeTabId", "buffers", "projectRoot", "nextUntitled"}
BufferFields == {"content", "baselineContent", "dirty", "status", "readOnly"}
Header == [closeId : Ids \cup {None}, saveAsId : Ids \cup {None},
           closeAfter : Untitled \cup {None}, quitOnSave : BOOLEAN,
           quitId : Untitled \cup {None}, asking : BOOLEAN, askRest : Seq(Untitled)]

Distinct(tabs) == \A i, j \in 1..Len(tabs) : tabs[i] = tabs[j] => i = j

(* Every tab has its buffer, but for one that is being opened.              *)
Opening(e, opened) ==
  /\ DOMAIN e = EditorFields
  /\ e.tabs \in Seq(Ids) /\ Distinct(e.tabs) /\ e.activeTabId \in Ids \cup {None}
  /\ DOMAIN e.buffers \subseteq Ids /\ \A id \in DOMAIN e.buffers : e.buffers[id] \in EditorBuffer
  /\ e.projectRoot \in Roots \cup {NoRoot} /\ e.nextUntitled \in 1..(MaxUntitled + 1)
  /\ Open(e) \subseteq DOMAIN e.buffers \cup opened
  /\ \A id \in Open(e) \cap Untitled : id < e.nextUntitled

Editor(e) == Opening(e, {})

Typed(a) ==
  /\ DOMAIN a = Fields
  /\ Editor(a.ed) /\ a.header \in Header /\ a.window \in {"open", "closed"}
  /\ IsABag(a.calls) /\ DOMAIN a.calls \subseteq Call

Busy(e)  == {id \in Open(e) : e.buffers[id].status \in {"loading", "saving"}}
Dirty(e) == {id \in Open(e) \cap Paths : e.buffers[id].dirty}

Awaited(busy, D) == \A id \in busy : \E c \in D : c.id = id

(* The question of the close handler has a dialog.                          *)
Asks(h) == h.asking => h.quitId # None \/ h.saveAsId # None

(* Behind the saves of the close handler only late edits are dirty; while   *)
(* one of them is awaited, so may be what it saves and what comes after it.  *)
Quits(asking, closed, D, dirty, late) ==
  /\ asking \/ closed => dirty \subseteq late
  /\ \A c \in D : c.then = "quit" => dirty \subseteq late \cup {c.id} \cup ToSet(c.rest)

(* A state within a handler; the tab in `spare` has lost its call.           *)
Sound(a, late, spare) ==
  /\ Typed(a)
  /\ Awaited(Busy(a.ed) \ spare, DOMAIN a.calls)
  /\ Quits(a.header.asking, a.window = "closed", DOMAIN a.calls, Dirty(a.ed), late)

Good(a, late) == Sound(a, late, {}) /\ Asks(a.header)

Invariant ==
  /\ Typed(Now)
  /\ window = "open" => Awaited(Busy(ed), DOMAIN calls)
  /\ Quits(header.asking, window = "closed", DOMAIN calls, Dirty(ed), lateEdits)
  /\ Asks(header)
  /\ lateEdits \subseteq Paths

-----------------------------------------------------------------------------
(* The calls that are awaited, and the tabs as a sequence.                  *)

LEMMA BagGains ==
  ASSUME NEW B, IsABag(B), NEW d
  PROVE  IsABag(B (+) SetToBag({d})) /\ DOMAIN (B (+) SetToBag({d})) = DOMAIN B \cup {d}
<1> DEFINE n(e) == (IF e \in DOMAIN B THEN B[e] ELSE 0) + (IF e \in {d} THEN 1 ELSE 0)
           C == B (+) SetToBag({d})
<1>1. C = [e \in DOMAIN B \cup {d} |-> n(e)]
  BY DEF (+), SetToBag
<1>2. \A e \in DOMAIN B : B[e] \in Nat /\ B[e] > 0
  BY DEF IsABag
<1>3. \A e \in DOMAIN B \cup {d} : n(e) \in {m \in Nat : m > 0}
  BY <1>2
<1> HIDE DEF n, C
<1>4. QED
  BY <1>1, <1>3 DEF IsABag, C

LEMMA BagLoses ==
  ASSUME NEW B, IsABag(B), NEW c
  PROVE  /\ IsABag(B (-) SetToBag({c}))
         /\ DOMAIN (B (-) SetToBag({c})) \subseteq DOMAIN B
         /\ DOMAIN B \ {c} \subseteq DOMAIN (B (-) SetToBag({c}))
<1> DEFINE n(e) == IF e \in {c} THEN B[e] - 1 ELSE B[e]
           A == [e \in DOMAIN B |-> n(e)]
           C == B (-) SetToBag({c})
<1>1. C = [e \in {x \in DOMAIN A : A[x] > 0} |-> A[e]]
  BY DEF (-), SetToBag
<1>2. \A e \in DOMAIN B : B[e] \in Nat /\ B[e] > 0
  BY DEF IsABag
<1>3. \A e \in DOMAIN B : n(e) \in Nat /\ (e # c => n(e) > 0)
  BY <1>2
<1> HIDE DEF n
<1>4. DOMAIN A = DOMAIN B /\ \A e \in DOMAIN B : A[e] = n(e)
  OBVIOUS
<1> HIDE DEF A, C
<1>5. DOMAIN C = {x \in DOMAIN B : n(x) > 0} /\ \A e \in DOMAIN C : C[e] = n(e)
  BY <1>1, <1>4
<1>6. C = [e \in DOMAIN C |-> C[e]]
  BY <1>1
<1>7. QED
  BY <1>3, <1>5, <1>6 DEF IsABag, C

LEMMA RemoveAtElements ==
  ASSUME NEW S, NEW s \in Seq(S), NEW i \in 1 .. Len(s)
  PROVE  /\ RemoveAt(s, i) \in Seq(S)
         /\ Len(RemoveAt(s, i)) = Len(s) - 1
         /\ \A j \in 1 .. Len(s) - 1 : RemoveAt(s, i)[j] = IF j < i THEN s[j] ELSE s[j + 1]
<1> DEFINE front == SubSeq(s, 1, i - 1)
           back == SubSeq(s, i + 1, Len(s))
<1>1. front \in Seq(S) /\ Len(front) = i - 1 /\ \A j \in 1 .. i - 1 : front[j] = s[j]
  OBVIOUS
<1>2. /\ back \in Seq(S) /\ Len(back) = Len(s) - i
      /\ \A j \in 1 .. Len(s) - i : back[j] = s[j + i]
  OBVIOUS
<1>3. RemoveAt(s, i) = front \o back
  BY DEF RemoveAt
<1> HIDE DEF front, back
<1>4. front \o back \in Seq(S) /\ Len(front \o back) = Len(s) - 1
  BY <1>1, <1>2
<1>5. \A j \in 1 .. Len(s) - 1 : (front \o back)[j] = IF j < i THEN s[j] ELSE s[j + 1]
  BY <1>1, <1>2
<1>6. QED
  BY <1>3, <1>4, <1>5

\* The numbers of untitled tabs are no paths, and None is neither.
LEMMA TheIds == None \notin Ids /\ Untitled \subseteq Nat /\ Paths \cap Untitled = {} /\ Paths \subseteq Ids /\ Untitled \subseteq Ids
<1>1. Untitled \subseteq Nat /\ None \in Nat /\ None \notin Untitled
  BY EditorBounds DEF Untitled, None
<1>2. QED
  BY <1>1, PathsAssumption DEF Ids

LEMMA TheOpen ==
  ASSUME NEW e, e.tabs \in Seq(Ids)
  PROVE  /\ Open(e) \subseteq Ids
         /\ \A id : id \in Open(e) <=> \E i \in 1..Len(e.tabs) : e.tabs[i] = id
<1>1. DOMAIN e.tabs = 1..Len(e.tabs) /\ \A i \in 1..Len(e.tabs) : e.tabs[i] \in Ids
  OBVIOUS
<1>2. QED
  BY <1>1 DEF Open, ToSet

-----------------------------------------------------------------------------
(* The setters of the store.                                                *)

Current(e, id) == IF id \in DOMAIN e.buffers THEN e.buffers[id] ELSE emptyBuffer

Patchable(patch) ==
  /\ "content" \in DOMAIN patch => patch["content"] \in Contents
  /\ "baselineContent" \in DOMAIN patch => patch["baselineContent"] \in Contents
  /\ "status" \in DOMAIN patch => patch["status"] \in EditorStatus
  /\ "dirty" \in DOMAIN patch => patch["dirty"] \in BOOLEAN
  /\ "readOnly" \in DOMAIN patch => patch["readOnly"] \in BOOLEAN

\* What a patch of the buffer of `id` leaves.
Patched(e, f, id, patch) ==
  /\ Editor(f) /\ \A x \in EditorFields \ {"buffers"} : f[x] = e[x]
  /\ DOMAIN f.buffers = DOMAIN e.buffers \cup {id}
  /\ \A i \in DOMAIN e.buffers \ {id} : f.buffers[i] = e.buffers[i]
  /\ \A x \in BufferFields : f.buffers[id][x] = IF x \in DOMAIN patch THEN patch[x] ELSE Current(e, id)[x]

LEMMA CurrentTyped ==
  ASSUME NEW e, NEW opened, Opening(e, opened), NEW id
  PROVE  Current(e, id) \in EditorBuffer
<1>1. emptyBuffer \in EditorBuffer
  BY ContentsAssumption DEF emptyBuffer, EditorBuffer, EditorStatus
<1>2. QED
  BY <1>1 DEF Opening, Current

LEMMA Patches ==
  ASSUME NEW e, NEW id \in Ids, Opening(e, {id}), NEW patch, Patchable(patch)
  PROVE  Patched(e, patchBuffer(e, id, patch), id, patch)
<1> DEFINE current == Current(e, id)
           patched == [x \in DOMAIN emptyBuffer |-> IF x \in DOMAIN patch THEN patch[x] ELSE current[x]]
           buffers == [i \in DOMAIN e.buffers \cup {id} |-> IF i = id THEN patched ELSE e.buffers[i]]
           f == patchBuffer(e, id, patch)
<1>1. f = [e EXCEPT !.buffers = buffers]
  BY DEF patchBuffer, Current
<1>2. DOMAIN patched = BufferFields /\ \A x \in BufferFields : patched[x] = IF x \in DOMAIN patch THEN patch[x] ELSE current[x]
  BY DEF emptyBuffer, BufferFields
<1>3. current \in EditorBuffer
  BY CurrentTyped
<1>4. patched \in EditorBuffer
  <2> HIDE DEF current
  <2>1. current["dirty"] \in BOOLEAN /\ current["readOnly"] \in BOOLEAN
    BY <1>3, Zenon DEF EditorBuffer
  <2>2. current["content"] \in Contents /\ current["baselineContent"] \in Contents /\ current["status"] \in EditorStatus
    BY <1>3 DEF EditorBuffer
  <2>3. patched = [x \in BufferFields |-> patched[x]]
    BY <1>2
  <2> HIDE DEF patched
  <2>4. patched["dirty"] \in BOOLEAN
    BY <1>2, <2>1, Zenon DEF Patchable, BufferFields
  <2>5. patched["readOnly"] \in BOOLEAN
    BY <1>2, <2>1, Zenon DEF Patchable, BufferFields
  <2>6. patched["content"] \in Contents /\ patched["baselineContent"] \in Contents /\ patched["status"] \in EditorStatus
    BY <1>2, <2>2 DEF Patchable, BufferFields
  <2>7. QED
    BY <1>2, <2>3, <2>4, <2>5, <2>6 DEF EditorBuffer, BufferFields
<1> HIDE DEF patched, current
<1>5. DOMAIN buffers = DOMAIN e.buffers \cup {id} /\ buffers[id] = patched
      /\ \A i \in DOMAIN e.buffers \ {id} : buffers[i] = e.buffers[i]
  OBVIOUS
<1> HIDE DEF buffers
<1>6. DOMAIN f = EditorFields /\ f.buffers = buffers /\ \A x \in EditorFields \ {"buffers"} : f[x] = e[x]
  BY <1>1 DEF Opening, EditorFields
<1> HIDE DEF f
<1>7. Editor(f)
  <2>1. f.tabs = e.tabs /\ f.activeTabId = e.activeTabId /\ f.projectRoot = e.projectRoot /\ f.nextUntitled = e.nextUntitled
    BY <1>6 DEF EditorFields
  <2>2. Open(f) = Open(e)
    BY <2>1 DEF Open
  <2>3. \A i \in DOMAIN buffers : buffers[i] \in EditorBuffer
    BY <1>4, <1>5 DEF Opening
  <2>4. Open(f) \subseteq DOMAIN f.buffers \cup {}
    BY <1>5, <1>6, <2>2 DEF Opening
  <2>5. QED
    BY <1>5, <1>6, <2>1, <2>2, <2>3, <2>4 DEF Editor, Opening
<1>8. QED
  BY <1>2, <1>5, <1>6, <1>7 DEF f, current, Patched

LEMMA PatchTabs ==
  ASSUME NEW e, Editor(e), NEW id \in Ids, NEW patch, Patchable(patch)
  PROVE  /\ Editor(patchBuffer(e, id, patch))
         /\ Open(patchBuffer(e, id, patch)) = Open(e)
         /\ Busy(patchBuffer(e, id, patch)) \subseteq Busy(e) \cup {id}
         /\ Dirty(patchBuffer(e, id, patch)) \subseteq Dirty(e) \cup {id}
         /\ "status" \notin DOMAIN patch => Busy(patchBuffer(e, id, patch)) \subseteq Busy(e)
         /\ "status" \in DOMAIN patch /\ patch["status"] \notin {"loading", "saving"} =>
              Busy(patchBuffer(e, id, patch)) \subseteq Busy(e) \ {id}
         /\ "dirty" \notin DOMAIN patch => Dirty(patchBuffer(e, id, patch)) \subseteq Dirty(e)
         /\ "dirty" \in DOMAIN patch /\ ~patch["dirty"] => Dirty(patchBuffer(e, id, patch)) \subseteq Dirty(e) \ {id}
<1> DEFINE f == patchBuffer(e, id, patch)
<1>1. Opening(e, {id})
  BY DEF Editor, Opening
<1>2. /\ Editor(f) /\ \A x \in EditorFields \ {"buffers"} : f[x] = e[x]
      /\ \A i \in DOMAIN e.buffers \ {id} : f.buffers[i] = e.buffers[i]
      /\ \A x \in BufferFields : f.buffers[id][x] = IF x \in DOMAIN patch THEN patch[x] ELSE Current(e, id)[x]
  <2>1. Patched(e, f, id, patch)
    BY <1>1, Patches
  <2>2. QED
    BY <2>1 DEF Patched
<1> HIDE DEF f
<1>3. Open(f) = Open(e)
  BY <1>2 DEF Open, EditorFields
<1>4. Open(e) \subseteq DOMAIN e.buffers
  BY DEF Editor, Opening
<1>5. \A i \in Open(e) : i # id => f.buffers[i] = e.buffers[i]
  BY <1>2, <1>4
<1>6. Busy(f) \subseteq Busy(e) \cup {id} /\ Dirty(f) \subseteq Dirty(e) \cup {id}
  BY <1>3, <1>5 DEF Busy, Dirty
<1>7. id \in Open(e) => Current(e, id) = e.buffers[id]
  BY <1>4 DEF Current
<1>8. "status" \notin DOMAIN patch /\ id \in Open(e) => f.buffers[id].status = e.buffers[id].status
  BY <1>2, <1>7 DEF BufferFields
<1>9. "dirty" \notin DOMAIN patch /\ id \in Open(e) => f.buffers[id].dirty = e.buffers[id].dirty
  BY <1>2, <1>7 DEF BufferFields
<1>10. "status" \in DOMAIN patch => f.buffers[id].status = patch["status"]
  BY <1>2 DEF BufferFields
<1>11. "dirty" \in DOMAIN patch => f.buffers[id].dirty = patch["dirty"]
  BY <1>2 DEF BufferFields
<1>12. "status" \notin DOMAIN patch => Busy(f) \subseteq Busy(e)
  BY <1>3, <1>5, <1>8 DEF Busy
<1>13. "dirty" \notin DOMAIN patch => Dirty(f) \subseteq Dirty(e)
  BY <1>3, <1>5, <1>9, Zenon DEF Dirty
<1>14. "status" \in DOMAIN patch /\ patch["status"] \notin {"loading", "saving"} => Busy(f) \subseteq Busy(e) \ {id}
  BY <1>6, <1>10 DEF Busy
<1>15. "dirty" \in DOMAIN patch /\ ~patch["dirty"] => Dirty(f) \subseteq Dirty(e) \ {id}
  <2>1. "dirty" \in DOMAIN patch /\ ~patch["dirty"] => id \notin Dirty(f)
    BY <1>11, Zenon DEF Dirty
  <2>2. QED
    BY <1>6, <2>1
<1>16. QED
  BY <1>2, <1>3, <1>6, <1>12, <1>13, <1>14, <1>15 DEF f

\* A change of the tabs that ends what `ended` waits for, one that shows `id`
\* busy, and neither makes a file dirty.
Eases(e, f, ended) == Editor(f) /\ Busy(f) \subseteq Busy(e) \ ended /\ Dirty(f) \subseteq Dirty(e)
Starts(e, f, id)   == Editor(f) /\ Busy(f) \subseteq Busy(e) \cup {id} /\ Dirty(f) \subseteq Dirty(e)

LEMMA Focus ==
  ASSUME NEW e, Editor(e), NEW id \in Ids \cup {None}
  PROVE  Eases(e, [e EXCEPT !.activeTabId = id], {}) /\ Open([e EXCEPT !.activeTabId = id]) = Open(e)
<1> DEFINE f == [e EXCEPT !.activeTabId = id]
<1>1. DOMAIN f = EditorFields /\ f.activeTabId = id /\ \A x \in EditorFields \ {"activeTabId"} : f[x] = e[x]
  BY DEF Editor, Opening, EditorFields
<1> HIDE DEF f
<1>2. f.tabs = e.tabs /\ f.buffers = e.buffers /\ f.projectRoot = e.projectRoot /\ f.nextUntitled = e.nextUntitled
  BY <1>1 DEF EditorFields
<1>3. Open(f) = Open(e)
  BY <1>2 DEF Open
<1>4. Editor(f)
  BY <1>1, <1>2, <1>3 DEF Editor, Opening
<1>5. Busy(f) = Busy(e) /\ Dirty(f) = Dirty(e)
  BY <1>2, <1>3 DEF Busy, Dirty
<1>6. QED
  BY <1>3, <1>4, <1>5 DEF Eases, f

LEMMA Moves ==
  ASSUME NEW e, Editor(e), NEW root \in Roots \cup {NoRoot}
  PROVE  /\ Eases(e, [e EXCEPT !.projectRoot = root], {})
         /\ Open([e EXCEPT !.projectRoot = root]) = Open(e)
         /\ [e EXCEPT !.projectRoot = root].buffers = e.buffers
<1> DEFINE f == [e EXCEPT !.projectRoot = root]
<1>1. DOMAIN f = EditorFields /\ f.projectRoot = root /\ \A x \in EditorFields \ {"projectRoot"} : f[x] = e[x]
  BY DEF Editor, Opening, EditorFields
<1> HIDE DEF f
<1>2. f.tabs = e.tabs /\ f.buffers = e.buffers /\ f.activeTabId = e.activeTabId /\ f.nextUntitled = e.nextUntitled
  BY <1>1 DEF EditorFields
<1>3. Open(f) = Open(e)
  BY <1>2 DEF Open
<1>4. Editor(f)
  BY <1>1, <1>2, <1>3 DEF Editor, Opening
<1>5. Busy(f) = Busy(e) /\ Dirty(f) = Dirty(e)
  BY <1>2, <1>3 DEF Busy, Dirty
<1>6. QED
  BY <1>2, <1>3, <1>4, <1>5 DEF Eases, f

LEMMA EasesTransitive ==
  ASSUME NEW e, NEW f, NEW g, NEW A, NEW B, Eases(e, f, A), Eases(f, g, B)
  PROVE  Eases(e, g, A \cup B)
BY DEF Eases

\* The index of a tab that is open.
LEMMA TheTab ==
  ASSUME NEW e, Editor(e), NEW id \in Open(e)
  PROVE  LET at == CHOOSE i \in DOMAIN e.tabs : e.tabs[i] = id
         IN  at \in 1..Len(e.tabs) /\ e.tabs[at] = id
<1>1. e.tabs \in Seq(Ids)
  BY DEF Editor, Opening
<1>2. DOMAIN e.tabs = 1..Len(e.tabs)
  BY <1>1
<1>3. \E i \in DOMAIN e.tabs : e.tabs[i] = id
  BY <1>1, <1>2, TheOpen
<1>4. QED
  BY <1>2, <1>3

LEMMA Closes ==
  ASSUME NEW e, Editor(e), NEW id
  PROVE  /\ Eases(e, closeTab(e, id), {id})
         /\ Open(closeTab(e, id)) = Open(e) \ {id}
         /\ closeTab(e, id).projectRoot = e.projectRoot
         /\ DOMAIN e.buffers \ {id} \subseteq DOMAIN closeTab(e, id).buffers
<1>1. CASE id \notin Open(e)
  <2>1. closeTab(e, id) = e
    BY <1>1 DEF closeTab
  <2>2. id \notin Busy(e)
    BY <1>1 DEF Busy
  <2>3. QED
    BY <1>1, <2>1, <2>2 DEF Eases
<1>2. CASE id \in Open(e)
  <2> DEFINE at == CHOOSE i \in DOMAIN e.tabs : e.tabs[i] = id
             next == IF at < Len(e.tabs) THEN e.tabs[at + 1] ELSE IF at > 1 THEN e.tabs[at - 1] ELSE None
             tabs == RemoveAt(e.tabs, at)
             buffers == [i \in DOMAIN e.buffers \ {id} |-> e.buffers[i]]
             active == IF e.activeTabId = id THEN next ELSE e.activeTabId
             f == [e EXCEPT !.tabs = tabs, !.buffers = buffers, !.activeTabId = active]
  <2>1. closeTab(e, id) = f
    BY <1>2 DEF closeTab
  <2>2. /\ e.tabs \in Seq(Ids) /\ Distinct(e.tabs) /\ DOMAIN e = EditorFields /\ e.activeTabId \in Ids \cup {None}
        /\ Open(e) \subseteq DOMAIN e.buffers
    BY DEF Editor, Opening
  <2>3. at \in 1..Len(e.tabs) /\ e.tabs[at] = id
    BY <1>2, TheTab
  <2> HIDE DEF at
  <2>4. next \in Ids \cup {None}
    BY <2>2, <2>3
  <2>5. /\ tabs \in Seq(Ids) /\ Len(tabs) = Len(e.tabs) - 1
        /\ \A j \in 1 .. Len(e.tabs) - 1 : tabs[j] = IF j < at THEN e.tabs[j] ELSE e.tabs[j + 1]
    BY <2>2, <2>3, RemoveAtElements
  <2> HIDE DEF tabs, next
  <2>6. active \in Ids \cup {None}
    BY <2>2, <2>4
  <2>7. Len(e.tabs) \in Nat
    BY <2>2
  <2>8. Distinct(tabs)
    <3>1. SUFFICES ASSUME NEW i \in 1..Len(tabs), NEW j \in 1..Len(tabs), tabs[i] = tabs[j]
                   PROVE  i = j
      BY DEF Distinct
    <3> DEFINE x == IF i < at THEN i ELSE i + 1
               y == IF j < at THEN j ELSE j + 1
    <3>2. x \in 1..Len(e.tabs) /\ y \in 1..Len(e.tabs)
      BY <2>3, <2>5, <2>7
    <3>3. tabs[i] = e.tabs[x] /\ tabs[j] = e.tabs[y]
      BY <2>5, <2>7
    <3> HIDE DEF x, y
    <3>4. x = y
      BY <2>2, <3>1, <3>2, <3>3 DEF Distinct
    <3>5. QED
      BY <2>3, <2>5, <2>7, <3>4 DEF x, y
  <2>9. {tabs[i] : i \in 1..Len(tabs)} = Open(e) \ {id}
    <3>1. ASSUME NEW i \in 1..Len(tabs)
          PROVE  tabs[i] \in Open(e) \ {id}
      <4> DEFINE x == IF i < at THEN i ELSE i + 1
      <4>1. x \in 1..Len(e.tabs) /\ x # at
        BY <2>3, <2>5, <2>7
      <4>2. tabs[i] = e.tabs[x]
        BY <2>5, <2>7
      <4> HIDE DEF x
      <4>3. e.tabs[x] # id
        BY <2>2, <2>3, <4>1 DEF Distinct
      <4>4. QED
        BY <2>2, <4>1, <4>2, <4>3, TheOpen
    <3>2. ASSUME NEW o \in Open(e) \ {id}
          PROVE  \E i \in 1..Len(tabs) : tabs[i] = o
      <4>1. PICK x \in 1..Len(e.tabs) : e.tabs[x] = o
        BY <2>2, TheOpen
      <4>2. x # at
        BY <2>3, <4>1
      <4> DEFINE i == IF x < at THEN x ELSE x - 1
      <4>3. i \in 1..Len(tabs) /\ (IF i < at THEN i ELSE i + 1) = x
        BY <2>3, <2>5, <2>7, <4>2
      <4> HIDE DEF i
      <4>4. tabs[i] = e.tabs[IF i < at THEN i ELSE i + 1]
        BY <2>5, <2>7, <4>3
      <4>5. QED
        BY <4>1, <4>3, <4>4
    <3>3. QED
      BY <3>1, <3>2
  <2>10. DOMAIN buffers = DOMAIN e.buffers \ {id} /\ \A i \in DOMAIN e.buffers \ {id} : buffers[i] = e.buffers[i]
    OBVIOUS
  <2> HIDE DEF buffers, active
  <2>11. /\ DOMAIN f = EditorFields /\ f.tabs = tabs /\ f.buffers = buffers /\ f.activeTabId = active
         /\ f.projectRoot = e.projectRoot /\ f.nextUntitled = e.nextUntitled
    BY <2>2 DEF EditorFields
  <2> HIDE DEF f
  <2>12. Open(f) = Open(e) \ {id}
    <3>1. DOMAIN tabs = 1..Len(tabs)
      BY <2>5
    <3>2. QED
      BY <2>9, <2>11, <3>1 DEF Open, ToSet
  <2>13. Editor(f)
    <3>1. Open(f) \subseteq DOMAIN f.buffers
      BY <2>2, <2>10, <2>11, <2>12
    <3>2. DOMAIN f.buffers \subseteq Ids /\ \A i \in DOMAIN f.buffers : f.buffers[i] \in EditorBuffer
      BY <2>10, <2>11 DEF Editor, Opening
    <3>3. \A i \in Open(f) \cap Untitled : i < f.nextUntitled
      BY <2>11, <2>12 DEF Editor, Opening
    <3>4. QED
      BY <2>5, <2>6, <2>8, <2>11, <3>1, <3>2, <3>3 DEF Editor, Opening
  <2>14. \A i \in Open(f) : f.buffers[i] = e.buffers[i]
    BY <2>2, <2>10, <2>11, <2>12
  <2>15. Busy(f) \subseteq Busy(e) \ {id} /\ Dirty(f) \subseteq Dirty(e)
    BY <2>12, <2>14 DEF Busy, Dirty
  <2>16. QED
    BY <2>1, <2>10, <2>11, <2>12, <2>13, <2>15 DEF Eases
<1>3. QED
  BY <1>1, <1>2

LEMMA LoadedEases ==
  ASSUME NEW e, Editor(e), NEW id \in Ids, NEW content \in Contents, NEW readOnly \in BOOLEAN
  PROVE  /\ Eases(e, Loaded(e, id, content, readOnly), {id})
         /\ Eases(e, LoadFailed(e, id, readOnly), {id})
<1> DEFINE p == [content |-> content, baselineContent |-> content,
                 dirty |-> FALSE, status |-> "ready", readOnly |-> readOnly]
           q == [content |-> Empty, baselineContent |-> Empty,
                 dirty |-> FALSE, status |-> "error", readOnly |-> readOnly]
<1>1. /\ p["content"] \in Contents /\ p["baselineContent"] \in Contents /\ p["status"] = "ready"
      /\ q["content"] \in Contents /\ q["baselineContent"] \in Contents /\ q["status"] = "error"
      /\ "status" \in DOMAIN p /\ "status" \in DOMAIN q /\ "dirty" \in DOMAIN p /\ "dirty" \in DOMAIN q
  BY ContentsAssumption
<1>2. /\ ~p["dirty"] /\ p["dirty"] \in BOOLEAN /\ p["readOnly"] \in BOOLEAN
      /\ ~q["dirty"] /\ q["dirty"] \in BOOLEAN /\ q["readOnly"] \in BOOLEAN
  BY Zenon
<1>3. Loaded(e, id, content, readOnly) = patchBuffer(e, id, p) /\ LoadFailed(e, id, readOnly) = patchBuffer(e, id, q)
  BY DEF Loaded, LoadFailed
<1> HIDE DEF p, q
<1>4. Patchable(p) /\ Patchable(q)
  <2>1. p["status"] \in EditorStatus /\ q["status"] \in EditorStatus
    BY <1>1 DEF EditorStatus
  <2>2. QED
    BY <1>1, <1>2, <2>1, Zenon DEF Patchable
<1>5. Busy(patchBuffer(e, id, p)) \subseteq Busy(e) \ {id} /\ Busy(patchBuffer(e, id, q)) \subseteq Busy(e) \ {id}
  BY <1>1, <1>4, PatchTabs
<1>6. Dirty(patchBuffer(e, id, p)) \subseteq Dirty(e) \ {id} /\ Dirty(patchBuffer(e, id, q)) \subseteq Dirty(e) \ {id}
  BY <1>1, <1>2, <1>4, PatchTabs, Zenon
<1>7. Editor(patchBuffer(e, id, p)) /\ Editor(patchBuffer(e, id, q))
  BY <1>4, PatchTabs
<1>8. QED
  BY <1>3, <1>5, <1>6, <1>7 DEF Eases

LEMMA SavedEases ==
  ASSUME NEW e, Editor(e), NEW id \in Ids, NEW written \in Contents
  PROVE  Eases(e, Saved(e, id, written), {id}) /\ id \notin Dirty(Saved(e, id, written))
<1> DEFINE p == [baselineContent |-> written, dirty |-> FALSE, status |-> "ready"]
<1>1. /\ p["baselineContent"] \in Contents /\ p["status"] = "ready"
      /\ "status" \in DOMAIN p /\ "dirty" \in DOMAIN p /\ "content" \notin DOMAIN p /\ "readOnly" \notin DOMAIN p
  OBVIOUS
<1>2. ~p["dirty"] /\ p["dirty"] \in BOOLEAN
  BY Zenon
<1>3. Saved(e, id, written) = patchBuffer(e, id, p)
  BY DEF Saved
<1> HIDE DEF p
<1>4. Patchable(p)
  <2>1. p["status"] \in EditorStatus
    BY <1>1 DEF EditorStatus
  <2>2. QED
    BY <1>1, <1>2, <2>1, Zenon DEF Patchable
<1>5. Busy(patchBuffer(e, id, p)) \subseteq Busy(e) \ {id} /\ Editor(patchBuffer(e, id, p))
  BY <1>1, <1>4, PatchTabs
<1>6. Dirty(patchBuffer(e, id, p)) \subseteq Dirty(e) \ {id}
  BY <1>1, <1>2, <1>4, PatchTabs, Zenon
<1>7. QED
  BY <1>3, <1>5, <1>6 DEF Eases

\* What the patches of a status alone, and of none, do.
LEMMA StatusPatch ==
  ASSUME NEW status \in EditorStatus
  PROVE  /\ Patchable([status |-> status]) /\ DOMAIN [status |-> status] = {"status"}
         /\ [status |-> status]["status"] = status
BY DEF Patchable

LEMMA SaveFailedEases ==
  ASSUME NEW e, Editor(e), NEW id \in Ids
  PROVE  Eases(e, SaveFailed(e, id), {id}) /\ Open(SaveFailed(e, id)) = Open(e)
<1> DEFINE p == [status |-> "ready"]
<1>1. "ready" \in EditorStatus
  BY DEF EditorStatus
<1>2. Patchable(p) /\ DOMAIN p = {"status"} /\ p["status"] = "ready"
  BY <1>1, StatusPatch
<1>3. SaveFailed(e, id) = patchBuffer(e, id, p)
  BY DEF SaveFailed
<1> HIDE DEF p
<1>4. QED
  BY <1>2, <1>3, PatchTabs DEF Eases

LEMMA SavingStarts ==
  ASSUME NEW e, Editor(e), NEW id \in Ids
  PROVE  Starts(e, Saving(e, id), id) /\ Saving(e, id).projectRoot = e.projectRoot
<1> DEFINE p == [status |-> "saving"]
<1>1. "saving" \in EditorStatus
  BY DEF EditorStatus
<1>2. Patchable(p) /\ DOMAIN p = {"status"}
  BY <1>1, StatusPatch
<1>3. Saving(e, id) = patchBuffer(e, id, p)
  BY DEF Saving
<1> HIDE DEF p
<1>4. Opening(e, {id})
  BY DEF Editor, Opening
<1>5. patchBuffer(e, id, p).projectRoot = e.projectRoot
  <2>1. Patched(e, patchBuffer(e, id, p), id, p)
    BY <1>2, <1>4, Patches
  <2>2. QED
    BY <2>1 DEF Patched, EditorFields
<1>6. QED
  BY <1>2, <1>3, <1>5, PatchTabs DEF Starts

LEMMA RefreshEases ==
  ASSUME NEW e, Editor(e), NEW id \in Ids
  PROVE  Eases(e, patchBuffer(e, id, <<>>), {}) /\ Eases(e, patchBuffer(e, id, [readOnly |-> FALSE]), {})
<1> DEFINE p == <<>>
           q == [readOnly |-> FALSE]
<1>1. DOMAIN p = {} /\ DOMAIN q = {"readOnly"}
  OBVIOUS
<1>2. q["readOnly"] \in BOOLEAN
  BY Zenon
<1> HIDE DEF p, q
<1>3. Patchable(p)
  BY <1>1 DEF Patchable
<1>4. Patchable(q)
  <2>1. "content" \notin DOMAIN q /\ "baselineContent" \notin DOMAIN q /\ "status" \notin DOMAIN q /\ "dirty" \notin DOMAIN q
    BY <1>1
  <2>2. QED
    BY <1>2, <2>1, Zenon DEF Patchable
<1>5. Eases(e, patchBuffer(e, id, p), {}) /\ Eases(e, patchBuffer(e, id, q), {})
  BY <1>1, <1>3, <1>4, PatchTabs DEF Eases
<1>6. QED
  BY <1>5 DEF p, q

\* A new tab behind the others, with its buffer.
LEMMA Appends ==
  ASSUME NEW e, Editor(e), NEW id \in Ids, id \notin Open(e), NEW next, next \in 1..(MaxUntitled + 1),
         next >= e.nextUntitled, id \in Untitled => id < next, NEW patch, Patchable(patch),
         "status" \in DOMAIN patch, "dirty" \in DOMAIN patch, ~patch["dirty"],
         NEW opened, DOMAIN opened = EditorFields, opened.tabs = Append(e.tabs, id),
         opened.nextUntitled = next, opened.activeTabId = id, opened.buffers = e.buffers,
         opened.projectRoot = e.projectRoot
  PROVE  /\ Starts(e, patchBuffer(opened, id, patch), id)
         /\ patch["status"] = "ready" => Eases(e, patchBuffer(opened, id, patch), {})
<1> DEFINE tabs == Append(e.tabs, id)
           f == patchBuffer(opened, id, patch)
<1>1. /\ e.tabs \in Seq(Ids) /\ Distinct(e.tabs) /\ DOMAIN e = EditorFields /\ Open(e) \subseteq DOMAIN e.buffers
      /\ e.nextUntitled \in 1..(MaxUntitled + 1)
  BY DEF Editor, Opening
<1>2. Len(e.tabs) \in Nat
  BY <1>1
<1>3. /\ tabs \in Seq(Ids) /\ Len(tabs) = Len(e.tabs) + 1 /\ tabs[Len(e.tabs) + 1] = id
      /\ \A i \in 1..Len(e.tabs) : tabs[i] = e.tabs[i]
  BY <1>1, AppendProperties
<1>4. /\ DOMAIN opened = EditorFields /\ opened.tabs = tabs /\ opened.nextUntitled = next /\ opened.activeTabId = id
      /\ opened.buffers = e.buffers /\ opened.projectRoot = e.projectRoot
  OBVIOUS
<1> HIDE DEF tabs
<1>5. Open(opened) = Open(e) \cup {id}
  <2>1. DOMAIN tabs = 1..(Len(e.tabs) + 1) /\ DOMAIN e.tabs = 1..Len(e.tabs)
    BY <1>1, <1>3
  <2>2. ASSUME NEW i \in 1..(Len(e.tabs) + 1)
        PROVE  tabs[i] \in Open(e) \cup {id}
    <3>1. CASE i = Len(e.tabs) + 1
      BY <1>3, <3>1
    <3>2. CASE i # Len(e.tabs) + 1
      <4>1. i \in 1..Len(e.tabs)
        BY <1>2, <3>2
      <4>2. QED
        BY <1>1, <1>3, <4>1, TheOpen
    <3>3. QED
      BY <3>1, <3>2
  <2>3. ASSUME NEW o \in Open(e) \cup {id}
        PROVE  \E i \in 1..(Len(e.tabs) + 1) : tabs[i] = o
    <3>1. CASE o = id
      BY <1>2, <1>3, <3>1
    <3>2. CASE o \in Open(e)
      <4>1. PICK i \in 1..Len(e.tabs) : e.tabs[i] = o
        BY <1>1, <3>2, TheOpen
      <4>2. i \in 1..(Len(e.tabs) + 1) /\ tabs[i] = o
        BY <1>2, <1>3, <4>1
      <4>3. QED
        BY <4>2
    <3>3. QED
      BY <3>1, <3>2
  <2>4. Open(opened) = {tabs[i] : i \in 1..(Len(e.tabs) + 1)}
    BY <1>4, <2>1 DEF Open, ToSet
  <2>5. QED
    BY <2>2, <2>3, <2>4
<1>6. Distinct(tabs)
  <2>1. ASSUME NEW i \in 1..Len(e.tabs)
        PROVE  tabs[i] # id
    BY <1>1, <1>3, <2>1, TheOpen
  <2>2. SUFFICES ASSUME NEW i \in 1..Len(tabs), NEW j \in 1..Len(tabs), tabs[i] = tabs[j]
                 PROVE  i = j
    BY DEF Distinct
  <2>3. CASE i \in 1..Len(e.tabs) /\ j \in 1..Len(e.tabs)
    BY <1>1, <1>3, <2>2, <2>3 DEF Distinct
  <2>4. CASE i = Len(e.tabs) + 1 \/ j = Len(e.tabs) + 1
    BY <1>2, <1>3, <2>1, <2>2, <2>4
  <2>5. QED
    BY <1>2, <1>3, <2>3, <2>4
<1>7. Opening(opened, {id})
  <2>1. \A i \in Open(opened) \cap Untitled : i < next
    <3>1. \A i \in Open(e) \cap Untitled : i < e.nextUntitled
      BY DEF Editor, Opening
    <3>2. Untitled \subseteq Nat /\ e.nextUntitled \in Nat /\ next \in Nat
      BY <1>1, TheIds, EditorBounds
    <3>3. ASSUME NEW i \in Open(e) \cup {id}, i \in Untitled
          PROVE  i < next
      <4>1. CASE i = id
        BY <3>3, <4>1
      <4>2. CASE i # id
        <5>1. i < e.nextUntitled /\ i \in Nat
          BY <3>1, <3>2, <3>3, <4>2
        <5>2. QED
          BY <3>2, <5>1
      <4>3. QED
        BY <4>1, <4>2
    <3>4. QED
      BY <1>5, <3>3
  <2>2. DOMAIN e.buffers \subseteq Ids /\ \A i \in DOMAIN e.buffers : e.buffers[i] \in EditorBuffer
    BY DEF Editor, Opening
  <2>3. e.projectRoot \in Roots \cup {NoRoot}
    BY DEF Editor, Opening
  <2>4. QED
    BY <1>1, <1>3, <1>4, <1>5, <1>6, <2>1, <2>2, <2>3 DEF Opening
<1>8. /\ Editor(f) /\ \A x \in EditorFields \ {"buffers"} : f[x] = opened[x]
      /\ \A i \in DOMAIN opened.buffers \ {id} : f.buffers[i] = opened.buffers[i]
      /\ \A x \in BufferFields : f.buffers[id][x] = IF x \in DOMAIN patch THEN patch[x] ELSE Current(opened, id)[x]
  <2>1. Patched(opened, f, id, patch)
    BY <1>7, Patches
  <2>2. QED
    BY <2>1 DEF Patched
<1> HIDE DEF f
<1>9. Open(f) = Open(e) \cup {id}
  BY <1>5, <1>8 DEF Open, EditorFields
<1>10. \A i \in Open(e) : f.buffers[i] = e.buffers[i]
  BY <1>1, <1>4, <1>8
<1>11. f.buffers[id].status = patch["status"] /\ f.buffers[id].dirty = patch["dirty"]
  BY <1>8 DEF BufferFields
<1>12. id \notin Dirty(f)
  BY <1>11, Zenon DEF Dirty
<1>13. Busy(f) \subseteq Busy(e) \cup {id} /\ Dirty(f) \subseteq Dirty(e)
  BY <1>9, <1>10, <1>12 DEF Busy, Dirty
<1>14. patch["status"] = "ready" => Busy(f) \subseteq Busy(e)
  BY <1>9, <1>10, <1>11 DEF Busy
<1>15. QED
  BY <1>8, <1>13, <1>14 DEF Starts, Eases, f

LEMMA BeginLoadStarts ==
  ASSUME NEW e, Editor(e), NEW id \in Paths, NEW readOnly \in BOOLEAN
  PROVE  Starts(e, BeginLoad(e, id, readOnly), id)
<1> DEFINE front == [e EXCEPT !.activeTabId = id]
           p == [status |-> "loading", readOnly |-> readOnly]
           q == [emptyBuffer EXCEPT !.status = "loading", !.readOnly = readOnly]
           opened == [front EXCEPT !.tabs = Append(@, id)]
<1>1. id \in Ids /\ id \notin Untitled
  BY TheIds
<1>2. Eases(e, front, {}) /\ Open(front) = Open(e)
  BY <1>1, Focus
<1>3. DOMAIN e = EditorFields /\ e.nextUntitled \in 1..(MaxUntitled + 1)
  BY DEF Editor, Opening
<1>4. /\ DOMAIN front = EditorFields /\ front.activeTabId = id /\ front.tabs = e.tabs /\ front.buffers = e.buffers
      /\ front.projectRoot = e.projectRoot /\ front.nextUntitled = e.nextUntitled
  BY <1>3 DEF EditorFields
<1> HIDE DEF front
<1>5. /\ DOMAIN opened = EditorFields /\ opened.activeTabId = id /\ opened.tabs = Append(e.tabs, id)
      /\ opened.buffers = e.buffers /\ opened.projectRoot = e.projectRoot /\ opened.nextUntitled = e.nextUntitled
  BY <1>4 DEF EditorFields
<1> HIDE DEF opened
<1>6. CASE id \notin Open(e)
  <2>1. BeginLoad(e, id, readOnly) = patchBuffer(opened, id, q)
    BY <1>6 DEF BeginLoad, opened, front
  <2>2. /\ DOMAIN q = BufferFields /\ q["content"] = Empty /\ q["baselineContent"] = Empty /\ q["status"] = "loading"
    BY DEF emptyBuffer, BufferFields
  <2>3. q["readOnly"] = readOnly /\ q["dirty"] = FALSE
    BY DEF emptyBuffer
  <2> HIDE DEF q
  <2>4. ~q["dirty"] /\ q["dirty"] \in BOOLEAN /\ q["readOnly"] \in BOOLEAN
    BY <2>3, Zenon
  <2>5. Patchable(q)
    <3>1. q["content"] \in Contents /\ q["baselineContent"] \in Contents /\ q["status"] \in EditorStatus
      BY <2>2, ContentsAssumption DEF EditorStatus
    <3>2. QED
      BY <2>4, <3>1, Zenon DEF Patchable
  <2>6. "status" \in DOMAIN q /\ "dirty" \in DOMAIN q
    BY <2>2 DEF BufferFields
  <2>7. e.nextUntitled >= e.nextUntitled
    BY <1>3, EditorBounds
  <2> DEFINE next == e.nextUntitled
  <2>8. next \in 1..(MaxUntitled + 1) /\ next >= e.nextUntitled /\ opened.nextUntitled = next
    BY <1>3, <1>5, <2>7
  <2> HIDE DEF next
  <2>9. Starts(e, patchBuffer(opened, id, q), id)
    BY <1>1, <1>5, <1>6, <2>4, <2>5, <2>6, <2>8, Appends
  <2>10. QED
    BY <2>1, <2>9
<1>7. CASE id \in Open(e) /\ e.buffers[id].status = "error"
  <2>1. BeginLoad(e, id, readOnly) = front
    BY <1>7 DEF BeginLoad, front
  <2>2. QED
    BY <1>2, <2>1 DEF Eases, Starts
<1>8. CASE id \in Open(e) /\ e.buffers[id].status # "error"
  <2>1. BeginLoad(e, id, readOnly) = patchBuffer(front, id, p)
    BY <1>8 DEF BeginLoad, front
  <2>2. DOMAIN p = {"status", "readOnly"} /\ p["status"] = "loading" /\ p["readOnly"] = readOnly
    OBVIOUS
  <2> HIDE DEF p
  <2>3. Patchable(p)
    <3>1. "content" \notin DOMAIN p /\ "baselineContent" \notin DOMAIN p /\ "dirty" \notin DOMAIN p
      BY <2>2
    <3>2. p["status"] \in EditorStatus
      BY <2>2 DEF EditorStatus
    <3>3. p["readOnly"] \in BOOLEAN
      BY <2>2, Zenon
    <3>4. QED
      BY <3>1, <3>2, <3>3, Zenon DEF Patchable
  <2>4. "dirty" \notin DOMAIN p
    BY <2>2
  <2>5. Editor(front)
    BY <1>2 DEF Eases
  <2>6. /\ Editor(patchBuffer(front, id, p)) /\ Busy(patchBuffer(front, id, p)) \subseteq Busy(front) \cup {id}
        /\ Dirty(patchBuffer(front, id, p)) \subseteq Dirty(front)
    BY <1>1, <2>3, <2>4, <2>5, PatchTabs
  <2>7. QED
    BY <1>2, <2>1, <2>6 DEF Eases, Starts
<1>9. QED
  BY <1>6, <1>7, <1>8

LEMMA RetargetedEases ==
  ASSUME NEW e, Editor(e), NEW source \in DOMAIN e.buffers, NEW target \in Paths
  PROVE  Eases(e, Retargeted(e, source, target), {source})
<1> DEFINE alone == IF target = source THEN e ELSE closeTab(e, target)
           buf == alone.buffers[source]
           clean == [buf EXCEPT !.baselineContent = buf.content, !.dirty = FALSE, !.status = "ready"]
           tabs == [i \in DOMAIN alone.tabs |-> IF alone.tabs[i] = source THEN target ELSE alone.tabs[i]]
           active == IF alone.activeTabId = source THEN target ELSE alone.activeTabId
           domain == (DOMAIN alone.buffers \ {source}) \cup {target}
           buffers == [i \in domain |-> IF i = target THEN clean ELSE alone.buffers[i]]
           f == Retargeted(e, source, target)
<1>1. f = [alone EXCEPT !.tabs = tabs, !.activeTabId = active, !.buffers = buffers]
  BY DEF Retargeted
<1>2. target \in Ids /\ source \in Ids /\ target \notin Untitled
  BY TheIds DEF Editor, Opening
<1>3. /\ Eases(e, alone, {}) /\ source \in DOMAIN alone.buffers
      /\ target # source => target \notin Open(alone)
  <2>1. CASE target = source
    <3>1. alone = e
      BY <2>1
    <3>2. QED
      BY <2>1, <3>1 DEF Eases
  <2>2. CASE target # source
    <3>1. alone = closeTab(e, target)
      BY <2>2
    <3>2. /\ Eases(e, closeTab(e, target), {target}) /\ Open(closeTab(e, target)) = Open(e) \ {target}
          /\ DOMAIN e.buffers \ {target} \subseteq DOMAIN closeTab(e, target).buffers
      BY Closes
    <3>3. QED
      BY <2>2, <3>1, <3>2 DEF Eases
  <2>3. QED
    BY <2>1, <2>2
<1> HIDE DEF alone
<1>4. Editor(alone)
  BY <1>3 DEF Eases
<1>5. /\ alone.tabs \in Seq(Ids) /\ Distinct(alone.tabs) /\ DOMAIN alone = EditorFields
      /\ alone.activeTabId \in Ids \cup {None} /\ Open(alone) \subseteq DOMAIN alone.buffers
      /\ DOMAIN alone.buffers \subseteq Ids /\ \A i \in DOMAIN alone.buffers : alone.buffers[i] \in EditorBuffer
      /\ alone.projectRoot \in Roots \cup {NoRoot} /\ alone.nextUntitled \in 1..(MaxUntitled + 1)
      /\ \A i \in Open(alone) \cap Untitled : i < alone.nextUntitled
  BY <1>4 DEF Editor, Opening
<1>6. clean \in EditorBuffer /\ clean.status = "ready"
  <2>1. buf \in EditorBuffer
    BY <1>3, <1>5
  <2> HIDE DEF buf
  <2>2. DOMAIN buf = BufferFields
    BY <2>1 DEF EditorBuffer, BufferFields
  <2>3. buf["content"] \in Contents
    BY <2>1 DEF EditorBuffer
  <2>4. buf["readOnly"] \in BOOLEAN
    BY <2>1, Zenon DEF EditorBuffer
  <2>5. /\ DOMAIN clean = BufferFields /\ clean = [x \in BufferFields |-> clean[x]] /\ clean["content"] = buf["content"]
        /\ clean["baselineContent"] = buf["content"] /\ clean["status"] = "ready"
        /\ clean["readOnly"] = buf["readOnly"] /\ clean["dirty"] = FALSE
    BY <2>2 DEF BufferFields
  <2> HIDE DEF clean
  <2>6. clean["readOnly"] \in BOOLEAN /\ clean["dirty"] \in BOOLEAN
    BY <2>4, <2>5, Zenon
  <2>7. clean["content"] \in Contents /\ clean["baselineContent"] \in Contents /\ clean["status"] \in EditorStatus
    BY <2>3, <2>5 DEF EditorStatus
  <2>8. QED
    BY <2>5, <2>6, <2>7 DEF EditorBuffer, BufferFields
<1>7. ~clean.dirty
  <2>1. buf \in EditorBuffer
    BY <1>3, <1>5
  <2>2. DOMAIN buf = BufferFields
    BY <2>1 DEF EditorBuffer, BufferFields
  <2>3. QED
    BY <2>2 DEF BufferFields
<1> HIDE DEF clean
<1>8. /\ DOMAIN buffers = domain /\ buffers[target] = clean
      /\ \A i \in domain \ {target} : buffers[i] = alone.buffers[i]
  OBVIOUS
<1>9. /\ DOMAIN tabs = 1..Len(alone.tabs)
      /\ \A i \in 1..Len(alone.tabs) : tabs[i] = IF alone.tabs[i] = source THEN target ELSE alone.tabs[i]
  BY <1>5
<1>10. tabs \in Seq(Ids) /\ Len(tabs) = Len(alone.tabs)
  <2>1. tabs \in [1..Len(alone.tabs) -> Ids]
    BY <1>2, <1>5
  <2>2. Len(alone.tabs) \in Nat
    BY <1>5
  <2> HIDE DEF tabs
  <2>3. QED
    BY <2>1, <2>2
<1> HIDE DEF tabs, buffers, domain
<1>11. Distinct(tabs)
  <2>1. SUFFICES ASSUME NEW i \in 1..Len(tabs), NEW j \in 1..Len(tabs), tabs[i] = tabs[j]
                 PROVE  i = j
    BY DEF Distinct
  <2>2. target # source => alone.tabs[i] # target /\ alone.tabs[j] # target
    BY <1>3, <1>5, <1>10, TheOpen
  <2>3. alone.tabs[i] = alone.tabs[j]
    BY <1>9, <1>10, <2>1, <2>2
  <2>4. QED
    BY <1>5, <1>10, <2>3 DEF Distinct
<1>12. active \in Ids \cup {None}
  BY <1>2, <1>5
<1> HIDE DEF active
<1>13. /\ DOMAIN f = EditorFields /\ f.tabs = tabs /\ f.activeTabId = active /\ f.buffers = buffers
       /\ f.projectRoot = alone.projectRoot /\ f.nextUntitled = alone.nextUntitled
  BY <1>1, <1>5 DEF EditorFields
<1> HIDE DEF f
<1>14. Open(f) \subseteq (Open(alone) \ {source}) \cup {target}
  <2>1. ASSUME NEW o \in Open(f)
        PROVE  o \in (Open(alone) \ {source}) \cup {target}
    <3>1. PICK i \in 1..Len(tabs) : tabs[i] = o
      BY <1>10, <1>13, TheOpen
    <3>2. alone.tabs[i] \in Open(alone)
      BY <1>5, <1>10, TheOpen
    <3>3. QED
      BY <1>9, <1>10, <3>1, <3>2
  <2>2. QED
    BY <2>1
<1>15. Open(f) \subseteq DOMAIN f.buffers
  BY <1>5, <1>8, <1>13, <1>14 DEF domain
<1>16. \A i \in DOMAIN f.buffers : f.buffers[i] \in EditorBuffer
  BY <1>5, <1>6, <1>8, <1>13 DEF domain
<1>17. DOMAIN f.buffers \subseteq Ids
  BY <1>2, <1>5, <1>8, <1>13 DEF domain
<1>18. \A i \in Open(f) \cap Untitled : i < f.nextUntitled
  BY <1>2, <1>5, <1>13, <1>14
<1>19. Editor(f)
  BY <1>5, <1>10, <1>11, <1>12, <1>13, <1>15, <1>16, <1>17, <1>18 DEF Editor, Opening
<1>20. \A i \in Open(f) \ {target} : i \in Open(alone) /\ i # source /\ f.buffers[i] = alone.buffers[i]
  BY <1>8, <1>13, <1>14, <1>15
<1>21. target \notin Busy(f) /\ target \notin Dirty(f)
  <2>1. target \notin Busy(f)
    BY <1>6, <1>8, <1>13 DEF Busy, domain
  <2>2. f.buffers[target] = clean
    BY <1>8, <1>13
  <2>3. QED
    BY <1>7, <2>1, <2>2, Zenon DEF Dirty
<1>22. Busy(f) \subseteq Busy(alone) \ {source} /\ Dirty(f) \subseteq Dirty(alone)
  BY <1>20, <1>21 DEF Busy, Dirty
<1>23. QED
  BY <1>3, <1>19, <1>22 DEF Eases, f

-----------------------------------------------------------------------------
(* The order of the tabs.                                                   *)

\* Distinct tabs are as many as the sequence is long.
LEMMA CountsTabs ==
  ASSUME NEW tabs \in Seq(Ids), Distinct(tabs)
  PROVE  Cardinality(ToSet(tabs)) = Len(tabs)
<1> DEFINE n == Len(tabs)
           T == ToSet(tabs)
<1>1. n \in Nat /\ DOMAIN tabs = 1..n /\ tabs \in [1..n -> Ids]
  OBVIOUS
<1>2. \A i \in 1..n : tabs[i] \in T
  BY <1>1 DEF ToSet
<1>3. \A t \in T : \E i \in 1..n : tabs[i] = t
  BY <1>1 DEF ToSet
<1>4. \A a, b \in 1..n : tabs[a] = tabs[b] => a = b
  BY DEF Distinct
<1> HIDE DEF n, T
<1>5. tabs \in [1..n -> T]
  BY <1>1, <1>2
<1>6. tabs \in Bijection(1..n, T)
  BY <1>1, <1>3, <1>4, <1>5 DEF Bijection, Injection, Surjection, IsInjective
<1>7. ExistsBijection(1..n, T)
  BY <1>6 DEF ExistsBijection
<1>8. Cardinality(T) = n
  BY <1>1, <1>7, FS_CountingElements
<1>9. QED
  BY <1>8 DEF n, T

\* The places of some tabs, counted from the front, are numbered in order.
LEMMA Numbered ==
  ASSUME NEW n \in Nat, NEW at, at \subseteq 1..n
  PROVE  /\ Cardinality(at) \in Nat
         /\ \A i \in at : Cardinality({j \in at : j < i}) \in 0..(Cardinality(at) - 1)
         /\ \A i, j \in at : Cardinality({k \in at : k < i}) = Cardinality({k \in at : k < j}) => i = j
         /\ \A m \in 0..(Cardinality(at) - 1) : \E i \in at : Cardinality({j \in at : j < i}) = m
<1> DEFINE Before(i) == {j \in at : j < i}
           count(i) == Cardinality(Before(i))
           size == Cardinality(at)
           f == [i \in at |-> count(i)]
<1>1. IsFiniteSet(at)
  <2>1. IsFiniteSet(1..n)
    BY FS_Interval
  <2>2. at \in SUBSET (1..n)
    OBVIOUS
  <2>3. QED
    BY <2>1, <2>2, FS_Subset
<1>2. size \in Nat
  BY <1>1, FS_CardinalityType
<1>3. \A i \in at : i \in Int
  OBVIOUS
<1>4. ASSUME NEW i \in at
      PROVE  IsFiniteSet(Before(i)) /\ count(i) \in 0..(size - 1)
  <2>1. IsFiniteSet(at \ {i}) /\ Cardinality(at \ {i}) = size - 1
    BY <1>1, FS_RemoveElement
  <2>2. Before(i) \in SUBSET (at \ {i})
    BY <1>3
  <2> DEFINE B == Before(i)
             R == at \ {i}
  <2> HIDE DEF B, R
  <2>3. IsFiniteSet(B) /\ Cardinality(B) <= Cardinality(R)
    BY <2>1, <2>2, FS_Subset DEF B, R
  <2>4. Cardinality(B) \in Nat
    BY <2>3, FS_CardinalityType
  <2>5. QED
    BY <1>2, <2>1, <2>3, <2>4 DEF B, R
<1>5. ASSUME NEW i \in at, NEW j \in at, i < j
      PROVE  count(i) # count(j)
  <2> DEFINE B == Before(i)
             C == Before(j)
  <2>1. B \in SUBSET C /\ i \in C /\ i \notin B
    <3>1. i \in Int /\ j \in Int
      BY <1>3
    <3>2. ASSUME NEW k \in at, k < i
          PROVE  k < j
      BY <1>3, <1>5, <3>1, <3>2
    <3>3. ~(i < i)
      BY <3>1
    <3>4. QED
      BY <1>5, <3>2, <3>3
  <2>2. IsFiniteSet(C)
    BY <1>4
  <2> HIDE DEF B, C
  <2>3. Cardinality(C) = Cardinality(B) => C = B
    BY <2>1, <2>2, FS_Subset
  <2>4. Cardinality(C) # Cardinality(B)
    BY <2>1, <2>3
  <2>5. QED
    BY <2>4 DEF B, C
<1>6. \A i, j \in at : count(i) = count(j) => i = j
  <2>1. SUFFICES ASSUME NEW i \in at, NEW j \in at, count(i) = count(j), i # j
                 PROVE  FALSE
    OBVIOUS
  <2>2. i < j \/ j < i
    BY <1>3, <2>1
  <2> HIDE DEF count
  <2>3. QED
    BY <1>5, <2>1, <2>2
<1> HIDE DEF Before
<1>7. \A m \in 0..(size - 1) : \E i \in at : count(i) = m
  <2> DEFINE T == 0..(size - 1)
  <2> HIDE DEF count
  <2>1. f \in [at -> T] /\ \A i \in at : f[i] = count(i)
    BY <1>4
  <2>2. DOMAIN f = at
    OBVIOUS
  <2> HIDE DEF f
  <2>3. f \in Injection(at, T)
    BY <1>6, <2>1, <2>2 DEF Injection, IsInjective
  <2>4. IsFiniteSet(T) /\ Cardinality(T) = size
    <3>1. 0 \in Int /\ size - 1 \in Int
      BY <1>2
    <3>2. IsFiniteSet(T) /\ Cardinality(T) = IF 0 > size - 1 THEN 0 ELSE (size - 1) - 0 + 1
      BY <3>1, FS_Interval
    <3>3. QED
      BY <1>2, <3>2
  <2> HIDE DEF T
  <2>5. Cardinality(at) = Cardinality(T) <=> f \in Surjection(at, T)
    BY <2>3, <2>4, FS_Injection
  <2>6. f \in Surjection(at, T)
    BY <2>4, <2>5
  <2>7. \A m \in T : \E i \in at : f[i] = m
    BY <2>6 DEF Surjection
  <2>8. QED
    BY <2>1, <2>7 DEF T
<1>8. QED
  BY <1>2, <1>4, <1>6, <1>7 DEF Before

LEMMA AmongTabs ==
  ASSUME NEW tabs \in Seq(Ids), NEW set, set \subseteq ToSet(tabs)
  PROVE  Among(tabs, set) \in Seq(set) /\ ToSet(Among(tabs, set)) = set
<1> DEFINE at == {i \in DOMAIN tabs : tabs[i] \in set}
           count(i) == Cardinality({j \in at : j < i})
           size == Cardinality(at)
           pick(n) == CHOOSE i \in at : count(i) = n - 1
           s == [n \in 1..size |-> tabs[pick(n)]]
<1>1. Among(tabs, set) = s
  BY DEF Among
<1>2. Len(tabs) \in Nat /\ DOMAIN tabs = 1..Len(tabs)
  OBVIOUS
<1>3. at \subseteq 1..Len(tabs) /\ \A i \in at : tabs[i] \in set
  BY <1>2
<1>4. \A t \in set : \E i \in at : tabs[i] = t
  BY DEF ToSet
<1> HIDE DEF at
<1>5. /\ size \in Nat /\ \A i \in at : count(i) \in 0..(size - 1)
      /\ \A i, j \in at : count(i) = count(j) => i = j
      /\ \A m \in 0..(size - 1) : \E i \in at : count(i) = m
  BY <1>2, <1>3, Numbered
<1> HIDE DEF count, size
<1>6. ASSUME NEW n \in 1..size
      PROVE  pick(n) \in at /\ count(pick(n)) = n - 1
  <2>1. n - 1 \in 0..(size - 1)
    BY <1>5
  <2>2. \E i \in at : count(i) = n - 1
    BY <1>5, <2>1
  <2>3. QED
    BY <2>2
<1> HIDE DEF pick
<1>7. s \in [1..size -> set]
  BY <1>3, <1>6
<1>8. \A t \in set : \E n \in 1..size : s[n] = t
  <2>1. SUFFICES ASSUME NEW t \in set
                 PROVE  \E n \in 1..size : s[n] = t
    OBVIOUS
  <2>2. PICK i \in at : tabs[i] = t
    BY <1>4
  <2> DEFINE n == count(i) + 1
  <2>3. n \in 1..size /\ n - 1 = count(i)
    BY <1>5
  <2> HIDE DEF n
  <2>4. pick(n) = i
    BY <1>5, <1>6, <2>3
  <2>5. QED
    BY <2>2, <2>3, <2>4
<1> HIDE DEF s
<1>9. s \in Seq(set) /\ DOMAIN s = 1..size
  BY <1>5, <1>7
<1>10. ToSet(s) = set
  BY <1>7, <1>8, <1>9 DEF ToSet
<1>11. QED
  BY <1>1, <1>9, <1>10

-----------------------------------------------------------------------------
(* A handler's state: a change of the tabs alone, of the header alone, and   *)
(* a call that is awaited.                                                  *)
HeaderFields == {"closeId", "saveAsId", "closeAfter", "quitOnSave", "quitId", "asking", "askRest"}

\* b is a with the tabs f.
With(a, b, f) ==
  DOMAIN b = Fields /\ b.ed = f /\ b.calls = a.calls /\ b.header = a.header /\ b.window = a.window

LEMMA SetsTabs ==
  ASSUME NEW a, DOMAIN a = Fields, NEW f
  PROVE  With(a, [a EXCEPT !.ed = f], f)
BY DEF With, Fields

LEMMA EasesSound ==
  ASSUME NEW a, NEW late, NEW spare, Sound(a, late, spare), NEW b, NEW f, With(a, b, f),
         NEW ended, Eases(a.ed, f, ended), spare \subseteq ended
  PROVE  Sound(b, late, {}) /\ b.header = a.header
<1>1. Typed(b)
  BY DEF Sound, Typed, With, Eases
<1>2. Busy(f) \subseteq Busy(a.ed) \ spare
  BY DEF Eases
<1>3. Awaited(Busy(b.ed) \ {}, DOMAIN b.calls)
  BY <1>2 DEF Sound, With, Awaited
<1>4. Dirty(f) \subseteq Dirty(a.ed)
  BY DEF Eases
<1>5. Quits(b.header.asking, b.window = "closed", DOMAIN b.calls, Dirty(b.ed), late)
  BY <1>4 DEF Sound, With, Quits
<1>6. QED
  BY <1>1, <1>3, <1>5 DEF Sound, With

LEMMA HeaderSound ==
  ASSUME NEW a, NEW late, NEW spare, Sound(a, late, spare), NEW b, DOMAIN b = Fields,
         b.ed = a.ed, b.calls = a.calls, b.window = a.window, b.header \in Header,
         b.header.asking => a.header.asking \/ Dirty(a.ed) \subseteq late
  PROVE  Sound(b, late, spare)
<1>1. Typed(b)
  BY DEF Sound, Typed
<1>2. Quits(b.header.asking, b.window = "closed", DOMAIN b.calls, Dirty(b.ed), late)
  <2>1. Quits(a.header.asking, a.window = "closed", DOMAIN a.calls, Dirty(a.ed), late)
    BY DEF Sound
  <2> DEFINE asked == a.header.asking
             asks == b.header.asking
  <2>2. asks => asked \/ Dirty(a.ed) \subseteq late
    OBVIOUS
  <2> HIDE DEF asked, asks
  <2>3. Quits(asks, a.window = "closed", DOMAIN a.calls, Dirty(a.ed), late)
    BY <2>1, <2>2, Zenon DEF Quits, asked
  <2>4. QED
    BY <2>3 DEF asks
<1>3. QED
  BY <1>1, <1>2 DEF Sound

\* The fields of a call, and what may be dirty when it is one of the close handler's.
Callable(op, id, target, root, content, then, rest) ==
  /\ op \in Ops /\ id \in Ids /\ target \in Paths /\ root \in Roots \cup {NoRoot}
  /\ content \in Contents /\ then \in Thens /\ rest \in Seq(Ids)

Covers(then, dirty, late, id, rest) == then = "quit" => dirty \subseteq late \cup {id} \cup ToSet(rest)

\* A tab is shown busy, and a call is awaited for it.
LEMMA StartsGood ==
  ASSUME NEW a, NEW late, Good(a, late), NEW b, NEW f, NEW id, With(a, b, f), Starts(a.ed, f, id),
         NEW op, NEW target, NEW root, NEW content, NEW then, NEW rest,
         Callable(op, id, target, root, content, then, rest), Covers(then, Dirty(a.ed), late, id, rest)
  PROVE  Good(Await(b, op, id, target, root, content, then, rest), late)
<1> DEFINE d == [op |-> op, id |-> id, target |-> target, root |-> root, content |-> content, then |-> then, rest |-> rest]
           c == b.calls (+) SetToBag({d})
           n == Await(b, op, id, target, root, content, then, rest)
<1>1. d \in Call /\ d.id = id /\ d.then = then /\ d.rest = rest
  BY DEF Call, Callable
<1>2. n = [b EXCEPT !.calls = c]
  BY DEF Await
<1> HIDE DEF d, n
<1>3. IsABag(b.calls) /\ DOMAIN b.calls \subseteq Call
  BY DEF Good, Sound, Typed, With
<1>4. IsABag(c) /\ DOMAIN c = DOMAIN b.calls \cup {d}
  BY <1>3, BagGains
<1> HIDE DEF c
<1>5. DOMAIN n = Fields /\ n.ed = f /\ n.calls = c /\ n.header = a.header /\ n.window = a.window
  BY <1>2 DEF With, Fields
<1> HIDE DEF c
<1>6. Typed(n)
  BY <1>1, <1>3, <1>4, <1>5 DEF Good, Sound, Typed, With, Starts
<1>7. b.calls = a.calls
  BY DEF With
<1>8. Awaited(Busy(n.ed) \ {}, DOMAIN n.calls)
  <2>1. Awaited(Busy(a.ed) \ {}, DOMAIN a.calls)
    BY DEF Good, Sound
  <2>2. Busy(f) \subseteq Busy(a.ed) \cup {id}
    BY DEF Starts
  <2>3. QED
    BY <1>1, <1>4, <1>5, <1>7, <2>1, <2>2 DEF Awaited
<1>9. Quits(n.header.asking, n.window = "closed", DOMAIN n.calls, Dirty(n.ed), late)
  <2>1. Quits(a.header.asking, a.window = "closed", DOMAIN a.calls, Dirty(a.ed), late)
    BY DEF Good, Sound
  <2>2. Dirty(f) \subseteq Dirty(a.ed)
    BY DEF Starts
  <2> DEFINE asked == a.header.asking
             shut == a.window = "closed"
  <2> HIDE DEF asked, shut
  <2>3. Quits(asked, shut, DOMAIN a.calls, Dirty(a.ed), late)
    BY <2>1 DEF asked, shut
  <2>4. asked \/ shut => Dirty(f) \subseteq late
    BY <2>2, <2>3 DEF Quits
  <2>5. \A e \in DOMAIN c : e.then = "quit" => Dirty(f) \subseteq late \cup {e.id} \cup ToSet(e.rest)
    BY <1>1, <1>4, <1>7, <2>2, <2>3 DEF Quits, Covers
  <2>6. Quits(asked, shut, DOMAIN c, Dirty(f), late)
    BY <2>4, <2>5 DEF Quits
  <2>7. QED
    BY <1>5, <2>6 DEF asked, shut
<1>10. Asks(n.header)
  BY <1>5 DEF Good
<1>11. QED
  BY <1>6, <1>8, <1>9, <1>10 DEF Good, Sound, n

\* The window's request to close has been heard when nothing is dirty but
\* late edits.
LEMMA AskUntitledGood ==
  ASSUME NEW a, NEW late, Sound(a, late, {}), NEW ids \in Seq(Untitled), Dirty(a.ed) \subseteq late, Asks(a.header)
  PROVE  Good(AskUntitled(a, ids), late)
<1> DEFINE n == AskUntitled(a, ids)
<1>1. CASE ids = <<>>
  <2>1. n = [a EXCEPT !.window = "closed"]
    BY <1>1 DEF AskUntitled
  <2>2. DOMAIN a = Fields
    BY DEF Sound, Typed
  <2> HIDE DEF n
  <2>3. DOMAIN n = Fields /\ n.ed = a.ed /\ n.calls = a.calls /\ n.header = a.header /\ n.window = "closed"
    BY <2>1, <2>2 DEF Fields
  <2>4. Typed(n)
    BY <2>3 DEF Sound, Typed
  <2>5. Quits(n.header.asking, n.window = "closed", DOMAIN n.calls, Dirty(n.ed), late)
    <3>1. \A c \in DOMAIN a.calls : c.then = "quit" => Dirty(a.ed) \subseteq late \cup {c.id} \cup ToSet(c.rest)
      OBVIOUS
    <3>2. QED
      BY <2>3, <3>1, Zenon DEF Quits
  <2>6. QED
    BY <2>3, <2>4, <2>5 DEF Good, Sound, n
<1>2. CASE ids # <<>>
  <2> DEFINE h == [a.header EXCEPT !.quitId = Head(ids), !.asking = TRUE, !.askRest = Tail(ids)]
  <2>1. Head(ids) \in Untitled /\ Tail(ids) \in Seq(Untitled)
    BY <1>2
  <2>2. DOMAIN a = Fields /\ a.header \in Header
    BY DEF Sound, Typed
  <2>3. DOMAIN n = Fields /\ n.ed = a.ed /\ n.calls = a.calls /\ n.header = h /\ n.window = a.window
    BY <1>2, <2>2 DEF AskUntitled, Fields
  <2>4. h \in Header /\ h.quitId = Head(ids)
    BY <2>1, <2>2 DEF Header
  <2> HIDE DEF n, h
  <2>5. Sound(n, late, {})
    BY <2>3, <2>4, HeaderSound
  <2>6. Asks(n.header)
    <3>1. Head(ids) # None
      BY <2>1, TheIds
    <3>2. QED
      BY <2>3, <2>4, <3>1 DEF Asks
  <2>7. QED
    BY <2>5, <2>6 DEF Good, n
<1>3. QED
  BY <1>1, <1>2

LEMMA EasesGood ==
  ASSUME NEW a, NEW late, Good(a, late), NEW b, NEW f, With(a, b, f), NEW ended, Eases(a.ed, f, ended)
  PROVE  Good(b, late)
<1>1. Sound(a, late, {}) /\ {} \subseteq ended /\ Asks(a.header)
  BY DEF Good
<1>2. Sound(b, late, {}) /\ b.header = a.header
  BY <1>1, EasesSound
<1>3. QED
  BY <1>1, <1>2 DEF Good

LEMMA ResolveQuitGood ==
  ASSUME NEW a, NEW late, Sound(a, late, {}), NEW result
  PROVE  Good(resolveQuit(a, result), late)
<1> DEFINE h == [a.header EXCEPT !.asking = FALSE, !.askRest = <<>>, !.quitId = None]
           n == [a EXCEPT !.header.asking = FALSE, !.header.askRest = <<>>, !.header.quitId = None]
<1>1. DOMAIN a = Fields /\ a.header \in Header
  BY DEF Sound, Typed
<1>2. DOMAIN n = Fields /\ n.ed = a.ed /\ n.calls = a.calls /\ n.header = h /\ n.window = a.window
  BY <1>1 DEF Fields
<1>3. <<>> \in Seq(Untitled)
  OBVIOUS
<1>4. h \in Header /\ h.asking = FALSE
  BY <1>1, <1>3 DEF Header
<1>5. resolveQuit(a, result) =
        IF a.header.asking /\ result \in {"saved", "discarded"} THEN AskUntitled(n, a.header.askRest) ELSE n
  BY DEF resolveQuit
<1> HIDE DEF n, h
<1>6. Sound(n, late, {})
  BY <1>2, <1>4, HeaderSound
<1>7. Asks(n.header)
  BY <1>2, <1>4 DEF Asks
<1>8. CASE a.header.asking /\ result \in {"saved", "discarded"}
  <2>1. Dirty(n.ed) \subseteq late
    BY <1>2, <1>8 DEF Sound, Quits
  <2>2. a.header.askRest \in Seq(Untitled)
    BY <1>1 DEF Header
  <2>3. QED
    BY <1>5, <1>6, <1>7, <1>8, <2>1, <2>2, AskUntitledGood
<1>9. CASE ~(a.header.asking /\ result \in {"saved", "discarded"})
  BY <1>5, <1>6, <1>7, <1>9 DEF Good
<1>10. QED
  BY <1>8, <1>9

LEMMA SaveTabGood ==
  ASSUME NEW a, NEW late, Good(a, late), NEW id, NEW then \in Thens, NEW rest \in Seq(Ids),
         then = "quit" => Dirty(a.ed) \subseteq late \cup {id} \cup ToSet(rest)
  PROVE  Good(saveTab(a, id, then, rest), late)
<1>1. CASE ~CanSave(a.ed, id)
  BY <1>1 DEF saveTab
<1>2. CASE CanSave(a.ed, id)
  <2> DEFINE f == Saving(a.ed, id)
             b == [a EXCEPT !.ed = f]
             op == "write"
             file == id
             root == a.ed.projectRoot
             content == a.ed.buffers[id].content
  <2>1. saveTab(a, id, then, rest) = Await(b, op, id, file, root, content, then, rest)
    BY <1>2 DEF saveTab
  <2>2. DOMAIN a = Fields /\ Editor(a.ed) /\ Sound(a, late, {}) /\ Asks(a.header)
    BY DEF Good, Sound, Typed
  <2>3. file \in Paths /\ id \in Ids /\ id \in DOMAIN a.ed.buffers
    BY <1>2, TheIds DEF CanSave, CanWrite
  <2>4. root \in Roots \cup {NoRoot} /\ content \in Contents /\ op \in Ops
    BY <2>2, <2>3 DEF Editor, Opening, EditorBuffer, Ops
  <2>5. Starts(a.ed, f, id)
    BY <2>2, <2>3, SavingStarts
  <2>6. With(a, b, f)
    BY <2>2, SetsTabs
  <2> DEFINE n == Await(b, op, id, file, root, content, then, rest)
  <2> HIDE DEF f, b, root, content, op, file
  <2>7. Callable(op, id, file, root, content, then, rest) /\ Covers(then, Dirty(a.ed), late, id, rest)
    BY <2>3, <2>4 DEF Callable, Covers
  <2>8. Good(n, late)
    BY <2>5, <2>6, <2>7, StartsGood
  <2>9. QED
    BY <2>1, <2>8 DEF n
<1>3. QED
  BY <1>1, <1>2

LEMMA WiderSequences ==
  ASSUME NEW S, NEW T, S \subseteq T
  PROVE  Seq(S) \subseteq Seq(T)
OBVIOUS

LEMMA DirtyTabs ==
  ASSUME NEW e, Editor(e)
  PROVE  /\ dirtyUntitledIds(e) \in Seq(Untitled)
         /\ dirtyPathIds(e) \in Seq(Ids) /\ ToSet(dirtyPathIds(e)) = Dirty(e)
<1> DEFINE S == {id \in Open(e) \cap Untitled : e.buffers[id].dirty}
           T == {id \in Open(e) \cap Paths : e.buffers[id].dirty}
<1>1. e.tabs \in Seq(Ids)
  BY DEF Editor, Opening
<1>2. S \subseteq Open(e) /\ S \subseteq Untitled /\ T \subseteq Open(e) /\ T \subseteq Paths
  OBVIOUS
<1>3. dirtyUntitledIds(e) = Among(e.tabs, S) /\ dirtyPathIds(e) = Among(e.tabs, T) /\ T = Dirty(e)
  BY DEF dirtyUntitledIds, dirtyPathIds, Dirty
<1> HIDE DEF S, T
<1>4. S \subseteq ToSet(e.tabs) /\ T \subseteq ToSet(e.tabs)
  BY <1>2 DEF Open
<1>5. Among(e.tabs, S) \in Seq(S) /\ Among(e.tabs, T) \in Seq(T) /\ ToSet(Among(e.tabs, T)) = T
  BY <1>1, <1>4, AmongTabs
<1>6. Seq(S) \subseteq Seq(Untitled) /\ Seq(T) \subseteq Seq(Ids)
  BY <1>2, TheIds, WiderSequences
<1>7. QED
  BY <1>3, <1>5, <1>6

LEMMA SaveAllGood ==
  ASSUME NEW a, NEW late, Good(a, late), NEW ids \in Seq(Ids), Dirty(a.ed) \subseteq late \cup ToSet(ids)
  PROVE  Good(SaveAll(a, ids), late)
<1>1. DOMAIN a = Fields /\ Editor(a.ed) /\ Sound(a, late, {}) /\ Asks(a.header)
  BY DEF Good, Sound, Typed
<1>2. CASE ids = <<>>
  <2>1. SaveAll(a, ids) = AskUntitled(a, dirtyUntitledIds(a.ed))
    BY <1>2 DEF SaveAll
  <2>2. ToSet(ids) = {}
    BY <1>2 DEF ToSet
  <2>3. Dirty(a.ed) \subseteq late /\ dirtyUntitledIds(a.ed) \in Seq(Untitled)
    BY <1>1, <2>2, DirtyTabs
  <2>4. QED
    BY <1>1, <2>1, <2>3, AskUntitledGood
<1>3. CASE ids # <<>>
  <2> DEFINE head == Head(ids)
             tail == Tail(ids)
  <2>1. head \in Ids /\ tail \in Seq(Ids)
    BY <1>3
  <2>2. ToSet(ids) \subseteq {head} \cup ToSet(tail)
    <3>1. SUFFICES ASSUME NEW i \in 1..Len(ids)
                   PROVE  ids[i] = head \/ \E j \in 1..Len(tail) : tail[j] = ids[i]
      <4>1. DOMAIN ids = 1..Len(ids) /\ DOMAIN tail = 1..Len(tail)
        BY <2>1
      <4>2. QED
        BY <3>1, <4>1 DEF ToSet
    <3>2. Len(ids) \in Nat /\ Len(tail) = Len(ids) - 1 /\ \A j \in 1..Len(tail) : tail[j] = ids[j + 1]
      BY <1>3
    <3>3. CASE i = 1
      BY <3>3
    <3>4. CASE i # 1
      <4>1. i - 1 \in 1..Len(tail) /\ (i - 1) + 1 = i
        BY <3>2, <3>4
      <4>2. tail[i - 1] = ids[i]
        BY <3>2, <4>1
      <4>3. QED
        BY <4>1, <4>2
    <3>5. QED
      BY <3>3, <3>4
  <2>3. SaveAll(a, ids) = IF CanSave(a.ed, head) THEN saveTab(a, head, "quit", tail)
                          ELSE [a EXCEPT !.ed.activeTabId = head]
    BY <1>3 DEF SaveAll
  <2> HIDE DEF head, tail
  <2>4. CASE CanSave(a.ed, head)
    <3>1. Dirty(a.ed) \subseteq late \cup {head} \cup ToSet(tail) /\ "quit" \in Thens
      BY <2>2 DEF Thens
    <3>2. QED
      BY <2>1, <2>3, <2>4, <3>1, SaveTabGood
  <2>5. CASE ~CanSave(a.ed, head)
    <3> DEFINE f == [a.ed EXCEPT !.activeTabId = head]
               b == [a EXCEPT !.ed.activeTabId = head]
    <3>1. With(a, b, f)
      BY <1>1 DEF With, Fields
    <3>2. Eases(a.ed, f, {})
      BY <1>1, <2>1, Focus
    <3> HIDE DEF f, b
    <3>3. Good(b, late)
      BY <3>1, <3>2, EasesGood
    <3>4. QED
      BY <2>3, <2>5, <3>3 DEF b
  <2>6. QED
    BY <2>4, <2>5
<1>4. QED
  BY <1>2, <1>3

LEMMA OpenFileGood ==
  ASSUME NEW a, NEW late, Good(a, late), NEW root \in Roots \cup {NoRoot}, NEW p \in Paths,
         NEW then \in {"nothing", "open"}
  PROVE  Good(openFile(a, root, p, then), late)
<1> DEFINE e == [a.ed EXCEPT !.projectRoot = root]
           rooted == [a EXCEPT !.ed.projectRoot = root]
<1>1. DOMAIN a = Fields /\ Editor(a.ed) /\ Sound(a, late, {}) /\ Asks(a.header)
  BY DEF Good, Sound, Typed
<1>2. With(a, rooted, e)
  BY <1>1 DEF With, Fields
<1>3. Eases(a.ed, e, {})
  BY <1>1, Moves
<1>4. p \in Ids
  BY TheIds
<1> HIDE DEF e, rooted
<1>5. Good(rooted, late) /\ rooted.ed = e /\ DOMAIN rooted = Fields
  BY <1>2, <1>3, EasesGood DEF With
<1>6. Editor(e) /\ Sound(rooted, late, {}) /\ Asks(rooted.header)
  BY <1>3, <1>5 DEF Eases, Good
<1>7. CASE FocusOnly(a.ed, p)
  <2> DEFINE g == [e EXCEPT !.activeTabId = p]
             f == patchBuffer(g, p, [readOnly |-> FALSE])
             b == [rooted EXCEPT !.ed = f]
  <2>1. openFile(a, root, p, then) = b
    BY <1>5, <1>7 DEF openFile, rooted
  <2>2. Eases(e, g, {})
    BY <1>4, <1>6, Focus
  <2> HIDE DEF g
  <2>3. Eases(g, f, {})
    BY <1>4, <2>2, RefreshEases DEF Eases
  <2>4. With(rooted, b, f)
    BY <1>5, SetsTabs
  <2> HIDE DEF f, b
  <2>5. Eases(rooted.ed, f, {})
    BY <1>5, <2>2, <2>3 DEF Eases
  <2>6. Good(b, late)
    BY <1>5, <2>4, <2>5, EasesGood
  <2>7. QED
    BY <2>1, <2>6
<1>8. CASE ~FocusOnly(a.ed, p)
  <2> DEFINE f == BeginLoad(e, p, FALSE)
             b == [rooted EXCEPT !.ed = f]
             none == <<>>
             n == Await(b, "read", p, p, root, Empty, then, none)
  <2>1. openFile(a, root, p, then) = n
    BY <1>5, <1>8 DEF openFile, rooted
  <2>2. FALSE \in BOOLEAN
    BY Zenon
  <2>3. Starts(e, f, p)
    BY <1>6, <2>2, BeginLoadStarts
  <2>4. With(rooted, b, f)
    BY <1>5, SetsTabs
  <2>5. none \in Seq(Ids) /\ "read" \in Ops /\ then \in Thens /\ then # "quit" /\ Empty \in Contents
    BY ContentsAssumption DEF Ops, Thens
  <2> HIDE DEF f, b, none
  <2>6. Callable("read", p, p, root, Empty, then, none) /\ Covers(then, Dirty(rooted.ed), late, p, none)
    BY <1>4, <2>5 DEF Callable, Covers
  <2>7. Starts(rooted.ed, f, p)
    BY <1>5, <2>3
  <2>8. Good(n, late)
    BY <1>5, <2>4, <2>6, <2>7, StartsGood
  <2>9. QED
    BY <2>1, <2>8
<1>9. QED
  BY <1>7, <1>8

LEMMA FocusGood ==
  ASSUME NEW a, NEW late, Good(a, late), NEW id \in Ids \cup {None}
  PROVE  Good([a EXCEPT !.ed.activeTabId = id], late)
<1> DEFINE f == [a.ed EXCEPT !.activeTabId = id]
           b == [a EXCEPT !.ed.activeTabId = id]
<1>1. DOMAIN a = Fields /\ Editor(a.ed)
  BY DEF Good, Sound, Typed
<1>2. With(a, b, f)
  BY <1>1 DEF With, Fields
<1>3. Eases(a.ed, f, {})
  BY <1>1, Focus
<1> HIDE DEF f, b
<1>4. Good(b, late)
  BY <1>2, <1>3, EasesGood
<1>5. QED
  BY <1>4 DEF b

LEMMA CloseSound ==
  ASSUME NEW a, NEW late, NEW id, NEW spare, Sound(a, late, spare), spare \subseteq {id}
  PROVE  /\ Sound([a EXCEPT !.ed = closeTab(@, id)], late, {})
         /\ [a EXCEPT !.ed = closeTab(@, id)].header = a.header
<1> DEFINE f == closeTab(a.ed, id)
           b == [a EXCEPT !.ed = closeTab(@, id)]
<1>1. DOMAIN a = Fields /\ Editor(a.ed)
  BY DEF Sound, Typed
<1>2. With(a, b, f)
  BY <1>1 DEF With, Fields
<1>3. Eases(a.ed, f, {id})
  BY <1>1, Closes
<1> HIDE DEF f, b
<1>4. Sound(b, late, {}) /\ b.header = a.header
  BY <1>2, <1>3, EasesSound
<1>5. QED
  BY <1>4 DEF b

LEMMA OpenExternalGood ==
  ASSUME NEW a, NEW late, Good(a, late), NEW p \in Paths
  PROVE  Good(openExternalReadOnly(a, p), late)
<1>1. DOMAIN a = Fields /\ Editor(a.ed) /\ Sound(a, late, {}) /\ Asks(a.header)
  BY DEF Good, Sound, Typed
<1>2. p \in Ids
  BY TheIds
<1>3. CASE FocusOnly(a.ed, p)
  BY <1>2, <1>3, FocusGood DEF openExternalReadOnly
<1>4. CASE ~FocusOnly(a.ed, p)
  <2> DEFINE f == BeginLoad(a.ed, p, TRUE)
             b == [a EXCEPT !.ed = f]
             none == <<>>
             root == NoRoot
             then == "open"
             n == Await(b, "external", p, p, root, Empty, then, none)
  <2>1. openExternalReadOnly(a, p) = n
    BY <1>4 DEF openExternalReadOnly
  <2>2. TRUE \in BOOLEAN
    BY Zenon
  <2>3. Starts(a.ed, f, p)
    BY <1>1, <2>2, BeginLoadStarts
  <2>4. With(a, b, f)
    BY <1>1, SetsTabs
  <2>5. /\ none \in Seq(Ids) /\ "external" \in Ops /\ then \in Thens /\ then # "quit"
        /\ Empty \in Contents /\ root \in Roots \cup {NoRoot}
    BY ContentsAssumption DEF Ops, Thens
  <2> HIDE DEF f, b, none, root, then
  <2>6. Callable("external", p, p, root, Empty, then, none) /\ Covers(then, Dirty(a.ed), late, p, none)
    BY <1>2, <2>5 DEF Callable, Covers
  <2>7. Good(n, late)
    BY <2>3, <2>4, <2>6, StartsGood
  <2>8. QED
    BY <2>1, <2>7
<1>5. QED
  BY <1>3, <1>4

-----------------------------------------------------------------------------
(* The dialogs of the header.                                               *)

\* A handler of the dialogs that leaves whoever asks, or its dialog.
LEMMA HeaderGood ==
  ASSUME NEW a, NEW late, Good(a, late), NEW b, DOMAIN b = Fields,
         b.ed = a.ed, b.calls = a.calls, b.window = a.window, b.header \in Header,
         b.header.asking = a.header.asking, Asks(b.header)
  PROVE  Good(b, late)
<1>1. Sound(a, late, {})
  BY DEF Good
<1>2. b.header.asking => a.header.asking \/ Dirty(a.ed) \subseteq late
  BY Zenon
<1>3. Sound(b, late, {})
  BY <1>1, <1>2, HeaderSound
<1>4. QED
  BY <1>3 DEF Good

LEMMA RequestSaveAsGood ==
  ASSUME NEW a, NEW late, Good(a, late), NEW id \in Ids
  PROVE  Good(requestSaveAs(a, id), late)
<1> DEFINE h == [a.header EXCEPT !.quitOnSave = FALSE, !.closeAfter = None, !.saveAsId = id]
           b == requestSaveAs(a, id)
<1>1. DOMAIN a = Fields /\ a.header \in Header
  BY DEF Good, Sound, Typed
<1>2. DOMAIN b = Fields /\ b.ed = a.ed /\ b.calls = a.calls /\ b.header = h /\ b.window = a.window
  BY <1>1 DEF Fields, requestSaveAs
<1>3. h \in Header /\ h.saveAsId = id /\ h.asking = a.header.asking
  BY <1>1 DEF Header
<1> HIDE DEF h, b
<1>4. id # None
  BY TheIds
<1>5. Asks(b.header)
  BY <1>2, <1>3, <1>4 DEF Asks
<1>6. b.header \in Header /\ b.header.asking = a.header.asking
  BY <1>2, <1>3
<1>7. Good(b, late)
  BY <1>2, <1>5, <1>6, HeaderGood
<1>8. QED
  BY <1>7 DEF b

\* The dialog of Save As is taken away.
Unasked(h) == [h EXCEPT !.closeAfter = None, !.saveAsId = None, !.quitOnSave = FALSE]

LEMMA UnaskedSound ==
  ASSUME NEW a, NEW late, Sound(a, late, {}), NEW b, DOMAIN b = Fields,
         b.ed = a.ed, b.calls = a.calls, b.window = a.window, b.header = Unasked(a.header)
  PROVE  Sound(b, late, {}) /\ b.header.asking = a.header.asking
<1>1. a.header \in Header
  BY DEF Sound, Typed
<1>2. b.header \in Header /\ b.header.asking = a.header.asking
  BY <1>1 DEF Header, Unasked
<1>3. b.header.asking => a.header.asking \/ Dirty(a.ed) \subseteq late
  BY <1>2, Zenon
<1>4. QED
  BY <1>2, <1>3, HeaderSound

LEMMA SaveAsClosedGood ==
  ASSUME NEW a, NEW late, Sound(a, late, {})
  PROVE  Good(SaveAsClosed(a), late)
<1> DEFINE b == [a EXCEPT !.header.closeAfter = None, !.header.saveAsId = None, !.header.quitOnSave = FALSE]
<1>1. DOMAIN a = Fields
  BY DEF Sound, Typed
<1>2. DOMAIN b = Fields /\ b.ed = a.ed /\ b.calls = a.calls /\ b.header = Unasked(a.header) /\ b.window = a.window
  BY <1>1 DEF Fields, Unasked
<1>3. SaveAsClosed(a) = IF a.header.asking THEN resolveQuit(b, "cancelled") ELSE b
  BY DEF SaveAsClosed
<1> HIDE DEF b
<1>4. Sound(b, late, {}) /\ b.header.asking = a.header.asking
  BY <1>2, UnaskedSound
<1>5. Good(resolveQuit(b, "cancelled"), late)
  BY <1>4, ResolveQuitGood
<1>6. ~a.header.asking => Good(b, late)
  BY <1>4, Zenon DEF Good, Asks
<1>7. QED
  BY <1>3, <1>5, <1>6

LEMMA SaveAsSucceededGood ==
  ASSUME NEW a, NEW late, Sound(a, late, {}), NEW path
  PROVE  Good(SaveAsSucceeded(a, path), late)
<1> DEFINE tab == IF a.header.closeAfter = None THEN a ELSE [a EXCEPT !.ed = closeTab(@, path)]
           b == [tab EXCEPT !.header.closeAfter = None, !.header.saveAsId = None, !.header.quitOnSave = FALSE]
           result == IF a.header.quitOnSave THEN "saved" ELSE "cancelled"
<1>1. SaveAsSucceeded(a, path) = IF ~a.header.asking THEN b ELSE resolveQuit(b, result)
  BY DEF SaveAsSucceeded
<1>2. Sound(tab, late, {}) /\ tab.header = a.header
  <2>1. {} \subseteq {path}
    OBVIOUS
  <2>2. /\ Sound([a EXCEPT !.ed = closeTab(@, path)], late, {})
        /\ [a EXCEPT !.ed = closeTab(@, path)].header = a.header
    BY <2>1, CloseSound
  <2>3. QED
    BY <2>2
<1> HIDE DEF tab, result
<1>3. DOMAIN tab = Fields
  BY <1>2 DEF Sound, Typed
<1>4. /\ DOMAIN b = Fields /\ b.ed = tab.ed /\ b.calls = tab.calls /\ b.window = tab.window
      /\ b.header = Unasked(tab.header)
  BY <1>3 DEF Fields, Unasked
<1> HIDE DEF b
<1>5. Sound(b, late, {}) /\ b.header.asking = tab.header.asking
  BY <1>2, <1>4, UnaskedSound
<1>6. Good(resolveQuit(b, result), late)
  BY <1>5, ResolveQuitGood
<1>7. ~a.header.asking => Good(b, late)
  BY <1>2, <1>5, Zenon DEF Good, Asks
<1>8. QED
  BY <1>1, <1>6, <1>7

LEMMA SaveAsFailedGood ==
  ASSUME NEW a, NEW late, Good(a, late)
  PROVE  Good(SaveAsFailed(a), late)
<1> DEFINE h == [a.header EXCEPT !.quitOnSave = FALSE]
           b == [a EXCEPT !.header.quitOnSave = FALSE]
<1>1. DOMAIN a = Fields /\ a.header \in Header /\ Sound(a, late, {})
  BY DEF Good, Sound, Typed
<1>2. DOMAIN b = Fields /\ b.ed = a.ed /\ b.calls = a.calls /\ b.header = h /\ b.window = a.window
  BY <1>1 DEF Fields
<1>3. h \in Header /\ h.asking = a.header.asking
  BY <1>1 DEF Header
<1>4. SaveAsFailed(a) = IF a.header.asking THEN resolveQuit(b, "failed") ELSE a
  BY DEF SaveAsFailed
<1> HIDE DEF b, h
<1>5. b.header \in Header /\ (b.header.asking => a.header.asking \/ Dirty(a.ed) \subseteq late)
  BY <1>2, <1>3, Zenon
<1>6. Sound(b, late, {})
  BY <1>1, <1>2, <1>5, HeaderSound
<1>7. Good(resolveQuit(b, "failed"), late)
  BY <1>6, ResolveQuitGood
<1>8. QED
  BY <1>4, <1>7

LEMMA SaveAsEffectGood ==
  ASSUME NEW a, NEW late, Good(a, late)
  PROVE  Good(SaveAsEffect(a), late)
<1>1. DOMAIN a = Fields /\ a.header \in Header /\ Editor(a.ed)
  BY DEF Good, Sound, Typed
<1> DEFINE id == a.header.saveAsId
           f == patchBuffer(a.ed, id, <<>>)
           b == [a EXCEPT !.ed = f]
<1>2. SaveAsEffect(a) = a \/ (id # None /\ SaveAsEffect(a) = b)
  BY DEF SaveAsEffect, ShowsSaveAs
<1>3. CASE id # None
  <2>1. id \in Ids
    BY <1>1, <1>3 DEF Header
  <2>2. Eases(a.ed, f, {})
    BY <1>1, <2>1, RefreshEases
  <2>3. With(a, b, f)
    BY <1>1, SetsTabs
  <2> HIDE DEF f, b
  <2>4. Good(b, late)
    BY <2>2, <2>3, EasesGood
  <2>5. QED
    BY <1>2, <2>4
<1>4. QED
  BY <1>2, <1>3

-----------------------------------------------------------------------------
(* What follows an await.                                                   *)

\* The state in which the answer of the call c is handled.
Resumed(a, late, c) ==
  /\ Sound(a, late, {c.id}) /\ Asks(a.header) /\ c \in Call
  /\ c.then = "quit" => Dirty(a.ed) \subseteq late \cup {c.id} \cup ToSet(c.rest)

LEMMA EndsGood ==
  ASSUME NEW a, NEW late, NEW id, Sound(a, late, {id}), Asks(a.header), NEW f, Eases(a.ed, f, {id})
  PROVE  Good([a EXCEPT !.ed = f], late)
<1> DEFINE b == [a EXCEPT !.ed = f]
<1>1. DOMAIN a = Fields
  BY DEF Sound, Typed
<1>2. With(a, b, f)
  BY <1>1, SetsTabs
<1> HIDE DEF b
<1>3. Sound(b, late, {}) /\ b.header = a.header
  BY <1>2, EasesSound
<1>4. QED
  BY <1>3 DEF Good, b

LEMMA CallFields ==
  ASSUME NEW c \in Call
  PROVE  /\ c.op \in Ops /\ c.id \in Ids /\ c.target \in Paths /\ c.root \in Roots \cup {NoRoot}
         /\ c.content \in Contents /\ c.then \in Thens /\ c.rest \in Seq(Ids)
BY DEF Call

LEMMA OpenedGood ==
  ASSUME NEW a, NEW late, Good(a, late), NEW c \in Call
  PROVE  Good(Opened(a, c), late)
<1>1. c.id \in Ids
  BY CallFields
<1>2. CASE c.then # "open"
  <2>1. Opened(a, c) = a
    BY <1>2 DEF Opened
  <2>2. QED
    BY <2>1
<1>3. CASE c.then = "open" /\ c.op # "read"
  <2>1. Opened(a, c) = [a EXCEPT !.ed.activeTabId = c.id]
    BY <1>3 DEF Opened
  <2>2. QED
    BY <1>1, <2>1, FocusGood
<1>4. CASE c.then = "open" /\ c.op = "read"
  <2> DEFINE g == patchBuffer(a.ed, c.id, [readOnly |-> FALSE])
             f == [g EXCEPT !.activeTabId = c.id]
             b == [a EXCEPT !.ed = f]
  <2>1. Opened(a, c) = b
    BY <1>4 DEF Opened
  <2>2. DOMAIN a = Fields /\ Editor(a.ed)
    BY DEF Good, Sound, Typed
  <2>3. Eases(a.ed, g, {})
    BY <1>1, <2>2, RefreshEases
  <2> HIDE DEF g
  <2>4. Eases(g, f, {})
    BY <1>1, <2>3, Focus DEF Eases
  <2>5. With(a, b, f)
    BY <2>2, SetsTabs
  <2> HIDE DEF f, b
  <2>6. Eases(a.ed, f, {})
    BY <2>3, <2>4 DEF Eases
  <2>7. Good(b, late)
    BY <2>5, <2>6, EasesGood
  <2>8. QED
    BY <2>1, <2>7
<1>5. QED
  BY <1>2, <1>3, <1>4

LEMMA AfterLoadGood ==
  ASSUME NEW a, NEW late, NEW c, Resumed(a, late, c), NEW ok \in BOOLEAN, NEW content \in Contents
  PROVE  Good(AfterLoad(a, c, ok, content), late)
<1> DEFINE readOnly == c.op = "external"
           f == IF ok THEN Loaded(a.ed, c.id, content, readOnly) ELSE LoadFailed(a.ed, c.id, readOnly)
           b == [a EXCEPT !.ed = f]
<1>1. Sound(a, late, {c.id}) /\ Asks(a.header) /\ c \in Call /\ c.id \in Ids
  BY CallFields DEF Resumed
<1>2. Editor(a.ed)
  BY <1>1 DEF Sound, Typed
<1>3. readOnly \in BOOLEAN
  BY Zenon
<1>4. AfterLoad(a, c, ok, content) = Opened(b, c)
  BY DEF AfterLoad
<1> HIDE DEF readOnly
<1>5. Eases(a.ed, f, {c.id})
  BY <1>1, <1>2, <1>3, LoadedEases
<1> HIDE DEF f
<1>6. Good(b, late)
  BY <1>1, <1>5, EndsGood
<1> HIDE DEF b
<1>7. QED
  BY <1>1, <1>4, <1>6, OpenedGood

\* Closing a tab together with the dialog that asks about one.
LEMMA CloseAskedGood ==
  ASSUME NEW a, NEW late, Good(a, late), NEW id
  PROVE  Good([a EXCEPT !.ed = closeTab(@, id), !.header.closeId = None], late)
<1> DEFINE b == [a EXCEPT !.ed = closeTab(@, id)]
           h == [a.header EXCEPT !.closeId = None]
           n == [a EXCEPT !.ed = closeTab(@, id), !.header.closeId = None]
<1>1. Sound(a, late, {}) /\ Asks(a.header) /\ {} \subseteq {id} /\ DOMAIN a = Fields
  BY DEF Good, Sound, Typed
<1>2. Sound(b, late, {}) /\ b.header = a.header
  BY <1>1, CloseSound
<1>3. Good(b, late)
  BY <1>1, <1>2 DEF Good
<1>4. DOMAIN n = Fields /\ n.ed = b.ed /\ n.calls = b.calls /\ n.window = b.window /\ n.header = h
  BY <1>1 DEF Fields
<1> HIDE DEF b, n
<1>5. b.header \in Header
  BY <1>2 DEF Sound, Typed
<1>6. h \in Header /\ h.asking = b.header.asking /\ h.quitId = b.header.quitId /\ h.saveAsId = b.header.saveAsId
  BY <1>2, <1>5 DEF Header
<1> HIDE DEF h
<1>7. Asks(n.header)
  BY <1>3, <1>4, <1>6 DEF Asks, Good
<1>8. n.header \in Header /\ n.header.asking = b.header.asking
  BY <1>4, <1>6
<1>9. Good(n, late)
  BY <1>3, <1>4, <1>7, <1>8, HeaderGood
<1>10. QED
  BY <1>9 DEF n

LEMMA AfterWriteGood ==
  ASSUME NEW a, NEW late, NEW c, Resumed(a, late, c), NEW ok \in BOOLEAN
  PROVE  Good(AfterWrite(a, c, ok), late)
<1>1. Sound(a, late, {c.id}) /\ Asks(a.header) /\ c \in Call /\ c.id \in Ids /\ c.content \in Contents /\ c.rest \in Seq(Ids)
  BY CallFields DEF Resumed
<1>2. Editor(a.ed) /\ DOMAIN a = Fields
  BY <1>1 DEF Sound, Typed
<1>3. CASE ~ok
  <2> DEFINE f == SaveFailed(a.ed, c.id)
             failed == [a EXCEPT !.ed = f]
  <2>1. AfterWrite(a, c, ok) = IF c.then # "quit" THEN failed ELSE [failed EXCEPT !.ed.activeTabId = c.id]
    BY <1>3 DEF AfterWrite
  <2>2. Eases(a.ed, f, {c.id})
    BY <1>1, <1>2, SaveFailedEases
  <2> HIDE DEF f
  <2>3. Good(failed, late)
    BY <1>1, <2>2, EndsGood
  <2> HIDE DEF failed
  <2>4. QED
    BY <1>1, <2>1, <2>3, FocusGood
<1>4. CASE ok
  <2> DEFINE f == Saved(a.ed, c.id, c.content)
             saved == [a EXCEPT !.ed = f]
  <2>1. AfterWrite(a, c, ok) = CASE c.then = "close" -> AfterCloseSave(saved, c)
                                 [] c.then = "quit"  -> SaveAll(saved, c.rest)
                                 [] OTHER            -> saved
    BY <1>4 DEF AfterWrite
  <2>2. Eases(a.ed, f, {c.id}) /\ c.id \notin Dirty(f)
    BY <1>1, <1>2, SavedEases
  <2>3. saved.ed = f
    BY <1>2 DEF Fields
  <2> HIDE DEF f
  <2>4. Good(saved, late)
    BY <1>1, <2>2, EndsGood
  <2> HIDE DEF saved
  <2>5. CASE c.then = "close"
    <3> DEFINE closed == [saved EXCEPT !.ed = closeTab(@, c.id), !.header.closeId = None]
    <3>1. AfterWrite(a, c, ok) = closed
      BY <2>1, <2>5 DEF AfterCloseSave
    <3>2. Good(closed, late)
      BY <2>4, CloseAskedGood
    <3> HIDE DEF closed
    <3>3. QED
      BY <3>1, <3>2
  <2>6. CASE c.then = "quit"
    <3>1. Dirty(saved.ed) \subseteq late \cup ToSet(c.rest)
      BY <2>2, <2>3, <2>6 DEF Eases, Resumed
    <3>2. Good(SaveAll(saved, c.rest), late)
      BY <1>1, <2>4, <3>1, SaveAllGood
    <3>3. QED
      BY <2>1, <2>6, <3>2
  <2>7. CASE c.then # "close" /\ c.then # "quit"
    BY <2>1, <2>4, <2>7
  <2>8. QED
    BY <2>5, <2>6, <2>7
<1>5. QED
  BY <1>3, <1>4

LEMMA AfterCreateGood ==
  ASSUME NEW a, NEW late, NEW c, Resumed(a, late, c), NEW ok \in BOOLEAN
  PROVE  Good(AfterCreate(a, c, ok), late)
<1>1. Sound(a, late, {c.id}) /\ Asks(a.header) /\ c \in Call /\ c.id \in Ids /\ c.target \in Paths
  BY CallFields DEF Resumed
<1>2. Editor(a.ed) /\ DOMAIN a = Fields
  BY <1>1 DEF Sound, Typed
<1>3. CASE ~ok
  <2> DEFINE f == SaveFailed(a.ed, c.id)
             failed == [a EXCEPT !.ed = f]
  <2>1. AfterCreate(a, c, ok) = SaveAsFailed(failed)
    BY <1>3 DEF AfterCreate
  <2>2. Eases(a.ed, f, {c.id})
    BY <1>1, <1>2, SaveFailedEases
  <2> HIDE DEF f
  <2>3. Good(failed, late)
    BY <1>1, <2>2, EndsGood
  <2> HIDE DEF failed
  <2>4. QED
    BY <2>1, <2>3, SaveAsFailedGood
<1>4. CASE ok /\ c.id \in DOMAIN a.ed.buffers
  <2> DEFINE f == Retargeted(a.ed, c.id, c.target)
             created == [a EXCEPT !.ed = f]
  <2>1. AfterCreate(a, c, ok) = SaveAsSucceeded(created, c.target)
    BY <1>4 DEF AfterCreate
  <2>2. Eases(a.ed, f, {c.id})
    BY <1>1, <1>2, <1>4, RetargetedEases
  <2> HIDE DEF f
  <2>3. Sound(created, late, {})
    BY <1>1, <2>2, EndsGood DEF Good
  <2> HIDE DEF created
  <2>4. QED
    BY <2>1, <2>3, SaveAsSucceededGood
<1>5. CASE ok /\ c.id \notin DOMAIN a.ed.buffers
  <2> DEFINE gone == [a EXCEPT !.ed = closeTab(@, c.target)]
  <2>1. AfterCreate(a, c, ok) = SaveAsFailed(gone)
    BY <1>5 DEF AfterCreate
  <2>2. c.id \notin Busy(a.ed)
    BY <1>2, <1>5 DEF Busy, Editor, Opening
  <2>3. Busy(a.ed) \ {} = Busy(a.ed) \ {c.id}
    BY <2>2
  <2>4. Sound(a, late, {})
    BY <1>1, <2>3 DEF Sound
  <2>5. {} \subseteq {c.target}
    OBVIOUS
  <2>6. Sound(gone, late, {}) /\ gone.header = a.header
    BY <2>4, <2>5, CloseSound
  <2> HIDE DEF gone
  <2>7. Good(gone, late)
    BY <1>1, <2>6 DEF Good
  <2>8. QED
    BY <2>1, <2>7, SaveAsFailedGood
<1>6. QED
  BY <1>3, <1>4, <1>5

LEMMA AfterGood ==
  ASSUME NEW a, NEW late, NEW c, Resumed(a, late, c), NEW ok \in BOOLEAN, NEW content \in Contents
  PROVE  Good(After(a, c, ok, content), late)
<1>1. c.op \in {"read", "external", "write", "create"}
  BY CallFields DEF Resumed, Ops
<1>2. CASE c.op \in {"read", "external"}
  BY <1>2, AfterLoadGood DEF After
<1>3. CASE c.op = "write"
  BY <1>3, AfterWriteGood DEF After
<1>4. CASE c.op = "create"
  BY <1>4, AfterCreateGood DEF After
<1>5. QED
  BY <1>1, <1>2, <1>3, <1>4

-----------------------------------------------------------------------------
(* The steps.                                                               *)

\* Late edits that are still dirty are kept while the request to close lasts.
LEMMA LateEditsLast ==
  ASSUME NEW b, NEW late, Good(b, late),
         NEW kept, kept = {p \in late : IsDirty(b.ed, p) /\ (QuitPending(b) \/ b.window = "closed")}
  PROVE  Quits(b.header.asking, b.window = "closed", DOMAIN b.calls, Dirty(b.ed), kept)
<1> DEFINE D == DOMAIN b.calls
           dirty == Dirty(b.ed)
           asks == b.header.asking
           shut == b.window = "closed"
<1>1. Quits(asks, shut, D, dirty, late)
  BY DEF Good, Sound
<1>2. Open(b.ed) \subseteq DOMAIN b.ed.buffers
  BY DEF Good, Sound, Typed, Editor, Opening
<1>3. \A p \in dirty : IsDirty(b.ed, p)
  BY <1>2, Zenon DEF Dirty, IsDirty
<1>4. asks \/ shut \/ (\E c \in D : c.then = "quit") => dirty \cap late \subseteq kept
  <2>1. asks \/ (\E c \in D : c.then = "quit") => QuitPending(b)
    BY Zenon DEF QuitPending
  <2> DEFINE pending == QuitPending(b)
  <2>2. \A p \in dirty \cap late : pending \/ shut => p \in kept
    BY <1>3
  <2> HIDE DEF pending, shut, asks, D, dirty
  <2>3. QED
    BY <2>1, <2>2 DEF pending
<1> HIDE DEF D, dirty, asks, shut
<1>5. asks \/ shut => dirty \subseteq kept
  BY <1>1, <1>4 DEF Quits
<1>6. \A c \in D : c.then = "quit" => dirty \subseteq kept \cup {c.id} \cup ToSet(c.rest)
  BY <1>1, <1>4 DEF Quits
<1>7. QED
  BY <1>5, <1>6 DEF Quits, D, dirty, asks, shut

LEMMA HandleInvariant ==
  ASSUME lateEdits \subseteq Paths, NEW a, Good(a, lateEdits), Handle(a)
  PROVE  Invariant'
<1> DEFINE n == Now'
           b == SaveAsEffect(a)
<1>1. Good(b, lateEdits)
  BY SaveAsEffectGood
<1>2. /\ Become(b)
      /\ lateEdits' = {p \in lateEdits : IsDirty(b.ed, p) /\ (QuitPending(b) \/ b.window = "closed")}
  BY DEF Handle
<1>3. n = [ed |-> ed', calls |-> calls', header |-> header', window |-> window']
  BY DEF Now
<1> HIDE DEF b, n
<1>4. /\ DOMAIN n = Fields /\ n.ed = ed' /\ n.calls = calls' /\ n.header = header' /\ n.window = window'
      /\ ed' = b.ed /\ window' = b.window
  BY <1>2, <1>3 DEF Become, Fields
<1>5. Typed(b) /\ Asks(b.header) /\ Awaited(Busy(b.ed) \ {}, DOMAIN b.calls)
  BY <1>1 DEF Good, Sound
<1>6. Quits(b.header.asking, b.window = "closed", DOMAIN b.calls, Dirty(b.ed), lateEdits')
  BY <1>1, <1>2, LateEditsLast
<1>7. lateEdits' \subseteq Paths
  BY <1>2
<1>8. CASE b.window = "closed"
  <2>1. calls' = EmptyBag /\ header' = noDialogs
    BY <1>2, <1>8 DEF Become
  <2>2. IsABag(EmptyBag) /\ DOMAIN EmptyBag = {}
    BY DEF EmptyBag, SetToBag, IsABag
  <2>3. noDialogs \in Header /\ noDialogs.asking = FALSE
    <3>1. <<>> \in Seq(Untitled)
      OBVIOUS
    <3>2. QED
      BY <3>1 DEF noDialogs, Header
  <2>4. Typed(n)
    BY <1>4, <1>5, <2>1, <2>2, <2>3 DEF Typed
  <2>5. Dirty(b.ed) \subseteq lateEdits'
    BY <1>6, <1>8 DEF Quits
  <2>6. Quits(header'.asking, window' = "closed", DOMAIN calls', Dirty(ed'), lateEdits')
    BY <1>4, <2>1, <2>2, <2>5 DEF Quits
  <2>7. Asks(header')
    BY <2>1, <2>3 DEF Asks
  <2>8. window' # "open"
    BY <1>4, <1>8
  <2>9. QED
    BY <1>7, <2>4, <2>6, <2>7, <2>8 DEF Invariant, n
<1>9. CASE b.window # "closed"
  <2>1. calls' = b.calls /\ header' = b.header
    BY <1>2, <1>9 DEF Become
  <2>2. Typed(n)
    BY <1>4, <1>5, <2>1 DEF Typed
  <2>3. Quits(header'.asking, window' = "closed", DOMAIN calls', Dirty(ed'), lateEdits')
    BY <1>4, <1>6, <2>1
  <2>4. Awaited(Busy(ed'), DOMAIN calls')
    BY <1>4, <1>5, <2>1 DEF Awaited
  <2>5. Asks(header')
    BY <1>5, <2>1
  <2>6. QED
    BY <1>7, <2>2, <2>3, <2>4, <2>5 DEF Invariant, n
<1>10. QED
  BY <1>8, <1>9

\* What a handler of the open window starts from.
LEMMA NowGood ==
  ASSUME Invariant, window = "open"
  PROVE  /\ Good(Now, lateEdits) /\ lateEdits \subseteq Paths
         /\ Now.ed = ed /\ Now.calls = calls /\ Now.header = header /\ Now.window = window
         /\ DOMAIN Now = Fields /\ Editor(ed) /\ header \in Header
<1>1. /\ Now.ed = ed /\ Now.calls = calls /\ Now.header = header /\ Now.window = window
      /\ DOMAIN Now = Fields
  BY DEF Now, Fields
<1>2. Typed(Now) /\ Asks(Now.header) /\ lateEdits \subseteq Paths
  BY <1>1 DEF Invariant
<1>3. Awaited(Busy(Now.ed) \ {}, DOMAIN Now.calls)
  BY <1>1 DEF Invariant, Awaited
<1>4. Quits(Now.header.asking, Now.window = "closed", DOMAIN Now.calls, Dirty(Now.ed), lateEdits)
  BY <1>1 DEF Invariant
<1>5. QED
  BY <1>1, <1>2, <1>3, <1>4 DEF Good, Sound, Typed

\* The state in which an answer is handled.
LEMMA AnsweredResumed ==
  ASSUME Invariant, window = "open", NEW c \in DOMAIN calls
  PROVE  Resumed(Answered(c), lateEdits, c)
<1> DEFINE a == Answered(c)
           left == calls (-) SetToBag({c})
           e == ed
           h == header
           w == window
<1>1. Good(Now, lateEdits) /\ Now.ed = ed /\ Now.calls = calls /\ Now.header = header /\ Now.window = window /\ DOMAIN Now = Fields
  BY NowGood
<1>2. a = [Now EXCEPT !.calls = left]
  BY <1>1 DEF Answered
<1> HIDE DEF a
<1>3. IsABag(calls) /\ DOMAIN calls \subseteq Call
  BY <1>1 DEF Good, Sound, Typed
<1>4. IsABag(left) /\ DOMAIN left \subseteq DOMAIN calls /\ DOMAIN calls \ {c} \subseteq DOMAIN left
  BY <1>3, BagLoses
<1> HIDE DEF left
<1>5. DOMAIN a = Fields /\ a.ed = ed /\ a.calls = left /\ a.header = header /\ a.window = window
  BY <1>1, <1>2 DEF Fields
<1>6. Typed(a)
  BY <1>1, <1>3, <1>4, <1>5 DEF Typed, Good, Sound
<1>7. Awaited(Busy(a.ed) \ {c.id}, DOMAIN a.calls)
  <2>1. Awaited(Busy(ed), DOMAIN calls)
    BY DEF Invariant
  <2>2. QED
    BY <1>4, <1>5, <2>1 DEF Awaited
<1>8. Quits(header.asking, window = "closed", DOMAIN calls, Dirty(ed), lateEdits) /\ Asks(header)
  BY DEF Invariant
<1>9. Quits(a.header.asking, a.window = "closed", DOMAIN a.calls, Dirty(a.ed), lateEdits)
  <2> DEFINE asks == header.asking
             shut == window = "closed"
             D == DOMAIN left
             dirty == Dirty(ed)
  <2>1. Quits(asks, shut, DOMAIN calls, dirty, lateEdits) /\ D \subseteq DOMAIN calls
    BY <1>4, <1>8
  <2> HIDE DEF asks, shut, D, dirty
  <2>2. Quits(asks, shut, D, dirty, lateEdits)
    BY <2>1 DEF Quits
  <2>3. QED
    BY <1>5, <2>2 DEF asks, shut, D, dirty
<1>10. c.then = "quit" => Dirty(a.ed) \subseteq lateEdits \cup {c.id} \cup ToSet(c.rest)
  BY <1>5, <1>8 DEF Quits
<1>11. Asks(a.header) /\ c \in Call
  BY <1>3, <1>5, <1>8
<1>12. QED
  BY <1>6, <1>7, <1>9, <1>10, <1>11 DEF Resumed, Sound, a

LEMMA Unstarted == Init => Invariant
<1> SUFFICES ASSUME Init PROVE Invariant
  OBVIOUS
<1> DEFINE e == [tabs |-> <<>>, activeTabId |-> None, buffers |-> <<>>, projectRoot |-> NoRoot, nextUntitled |-> 1]
<1>1. ed = e /\ calls = EmptyBag /\ header = noDialogs /\ window = "open" /\ lateEdits = {}
  BY DEF Init
<1>2. IsABag(EmptyBag) /\ DOMAIN EmptyBag = {}
  BY DEF EmptyBag, SetToBag, IsABag
<1>3. noDialogs \in Header /\ noDialogs.asking = FALSE
  <2>1. <<>> \in Seq(Untitled)
    OBVIOUS
  <2>2. QED
    BY <2>1 DEF noDialogs, Header
<1>4. Open(e) = {}
  BY DEF Open, ToSet
<1>5. Editor(e)
  <2>1. DOMAIN e = EditorFields
    BY DEF EditorFields
  <2>2. e.tabs \in Seq(Ids) /\ Distinct(e.tabs) /\ DOMAIN e.buffers = {}
    BY DEF Distinct
  <2>3. e.activeTabId \in Ids \cup {None} /\ e.projectRoot \in Roots \cup {NoRoot} /\ e.nextUntitled \in 1..(MaxUntitled + 1)
    BY EditorBounds
  <2> HIDE DEF e
  <2>4. QED
    BY <1>4, <2>1, <2>2, <2>3 DEF Editor, Opening
<1>6. Busy(e) = {} /\ Dirty(e) = {}
  BY <1>4 DEF Busy, Dirty
<1> HIDE DEF e
<1>7. Typed(Now)
  <2> DEFINE n == Now
  <2>1. DOMAIN n = Fields /\ n.ed = e /\ n.calls = EmptyBag /\ n.header = noDialogs /\ n.window = "open"
    BY <1>1 DEF Now, Fields
  <2> HIDE DEF n
  <2>2. Typed(n)
    BY <1>2, <1>3, <1>5, <2>1 DEF Typed
  <2>3. QED
    BY <2>2 DEF n
<1>8. Awaited(Busy(ed), DOMAIN calls) /\ Asks(header)
  BY <1>1, <1>3, <1>6 DEF Awaited, Asks
<1>9. Quits(header.asking, window = "closed", DOMAIN calls, Dirty(ed), lateEdits)
  BY <1>1, <1>2, <1>6 DEF Quits
<1>10. QED
  BY <1>1, <1>7, <1>8, <1>9 DEF Invariant

\* Opening files and tabs.
LEMMA OpeningSteps ==
  ASSUME Invariant, window = "open"
  PROVE  /\ \A r \in Roots \cup {NoRoot} : WorkspaceChanges(r) => Invariant'
         /\ \A p \in Paths : OpenFromExplorer(p) \/ OpenByPath(p) => Invariant'
         /\ \A id \in Ids : SetActiveTab(id) => Invariant'
         /\ OpenUntitled => Invariant'
<1> DEFINE n == Now
<1>1. /\ Good(n, lateEdits) /\ lateEdits \subseteq Paths
      /\ n.ed = ed /\ n.header = header /\ DOMAIN n = Fields /\ Editor(ed)
  BY NowGood
<1>2. ed.projectRoot \in Roots \cup {NoRoot} /\ ed.nextUntitled \in 1..(MaxUntitled + 1)
  BY <1>1 DEF Editor, Opening
<1> HIDE DEF n
<1>3. ASSUME NEW r \in Roots \cup {NoRoot}, WorkspaceChanges(r)
      PROVE  Invariant'
  <2> DEFINE f == [ed EXCEPT !.projectRoot = r]
             b == [n EXCEPT !.ed.projectRoot = r]
  <2>1. Handle(b)
    BY <1>3 DEF WorkspaceChanges, n
  <2>2. With(n, b, f)
    BY <1>1 DEF With, Fields
  <2>3. Eases(n.ed, f, {})
    BY <1>1, Moves
  <2> HIDE DEF f, b
  <2>4. Good(b, lateEdits)
    BY <1>1, <2>2, <2>3, EasesGood
  <2>5. QED
    BY <1>1, <2>1, <2>4, HandleInvariant
<1>4. ASSUME NEW p \in Paths, OpenFromExplorer(p)
      PROVE  Invariant'
  <2> DEFINE root == RootOf[p]
             then == "nothing"
             b == openFile(n, root, p, then)
  <2>1. Handle(b)
    BY <1>4 DEF OpenFromExplorer, HandleBehindDialogs, n
  <2>2. root \in Roots \cup {NoRoot} /\ then \in {"nothing", "open"}
    BY PathsAssumption
  <2> HIDE DEF root, then
  <2>3. Good(b, lateEdits)
    BY <1>1, <2>2, OpenFileGood
  <2>4. QED
    BY <1>1, <2>1, <2>3, HandleInvariant
<1>5. ASSUME NEW p \in Paths, OpenByPath(p)
      PROVE  Invariant'
  <2> DEFINE inside == RootOf[p] = ed.projectRoot
             root == ed.projectRoot
             then == "open"
             file == openFile(n, root, p, then)
             external == openExternalReadOnly(n, p)
  <2>1. Handle(IF inside THEN file ELSE external)
    BY <1>5 DEF OpenByPath, n
  <2>2. root \in Roots \cup {NoRoot} /\ then \in {"nothing", "open"}
    BY <1>2
  <2> HIDE DEF inside, root, then
  <2>3. Good(file, lateEdits)
    BY <1>1, <2>2, OpenFileGood
  <2>4. Good(external, lateEdits)
    BY <1>1, OpenExternalGood
  <2> HIDE DEF file, external
  <2>5. Good(IF inside THEN file ELSE external, lateEdits)
    BY <2>3, <2>4
  <2>6. QED
    BY <1>1, <2>1, <2>5, HandleInvariant
<1>6. ASSUME NEW id \in Ids, SetActiveTab(id)
      PROVE  Invariant'
  <2>1. Handle([n EXCEPT !.ed.activeTabId = id])
    BY <1>6 DEF SetActiveTab, HandleBehindDialogs, n
  <2>2. Good([n EXCEPT !.ed.activeTabId = id], lateEdits)
    BY <1>1, FocusGood
  <2>3. QED
    BY <1>1, <2>1, <2>2, HandleInvariant
<1>7. ASSUME OpenUntitled
      PROVE  Invariant'
  <2> DEFINE id == ed.nextUntitled
             next == id + 1
             opened == [ed EXCEPT !.nextUntitled = @ + 1, !.tabs = Append(@, id), !.activeTabId = id]
             patch == [emptyBuffer EXCEPT !.status = "ready"]
             f == patchBuffer(opened, id, patch)
             b == [n EXCEPT !.ed = f]
  <2>1. id <= MaxUntitled /\ Handle(b)
    BY <1>7 DEF OpenUntitled, n
  <2>2. id \in Untitled /\ next \in 1..(MaxUntitled + 1) /\ next >= id /\ id < next
    BY <1>2, <2>1, EditorBounds DEF Untitled
  <2>3. id \in Ids /\ id \notin Open(ed)
    BY <1>1, <1>2, <2>2, TheIds DEF Editor, Opening
  <2>4. DOMAIN ed = EditorFields
    BY <1>1 DEF Editor, Opening
  <2>5. /\ DOMAIN opened = EditorFields /\ opened.tabs = Append(ed.tabs, id) /\ opened.nextUntitled = next
        /\ opened.activeTabId = id /\ opened.buffers = ed.buffers /\ opened.projectRoot = ed.projectRoot
    BY <2>4 DEF EditorFields
  <2>6. /\ DOMAIN patch = BufferFields /\ patch["status"] = "ready" /\ patch["content"] \in Contents
        /\ patch["baselineContent"] \in Contents /\ "ready" \in EditorStatus
    BY ContentsAssumption DEF emptyBuffer, BufferFields, EditorStatus
  <2>7. patch["dirty"] \in BOOLEAN /\ patch["readOnly"] \in BOOLEAN /\ ~patch["dirty"]
    BY Zenon DEF emptyBuffer
  <2> HIDE DEF patch, opened
  <2>8. Patchable(patch)
    BY <2>6, <2>7, Zenon DEF Patchable
  <2>9. "status" \in DOMAIN patch /\ "dirty" \in DOMAIN patch
    BY <2>6 DEF BufferFields
  <2> HIDE DEF next
  <2>10. Eases(ed, f, {})
    BY <1>1, <2>2, <2>3, <2>5, <2>6, <2>7, <2>8, <2>9, Appends
  <2>11. With(n, b, f)
    BY <1>1, SetsTabs
  <2> HIDE DEF f, b
  <2>12. Good(b, lateEdits)
    BY <1>1, <2>10, <2>11, EasesGood
  <2>13. QED
    BY <1>1, <2>1, <2>12, HandleInvariant
<1>8. QED
  BY <1>3, <1>4, <1>5, <1>6, <1>7

\* Save and Save As.
LEMMA SavingSteps ==
  ASSUME Invariant, window = "open"
  PROVE  /\ SaveActive \/ SaveActiveAs \/ LeaveCard => Invariant'
         /\ \A p \in Paths : SaveAsSubmit(p) => Invariant'
         /\ SaveAsCancel => Invariant'
<1> DEFINE n == Now
           active == ed.activeTabId
           then == "nothing"
           none == <<>>
           request == requestSaveAs(n, active)
           save == saveTab(n, active, then, none)
<1>1. /\ Good(n, lateEdits) /\ lateEdits \subseteq Paths
      /\ n.ed = ed /\ n.header = header /\ DOMAIN n = Fields /\ Editor(ed) /\ header \in Header
  BY NowGood
<1>2. ed.projectRoot \in Roots \cup {NoRoot} /\ DOMAIN ed.buffers \subseteq Ids
  BY <1>1 DEF Editor, Opening
<1>3. then \in Thens /\ none \in Seq(Ids) /\ then # "quit"
  BY DEF Thens
<1> HIDE DEF n, active, then, none
<1>4. active \in DOMAIN ed.buffers => Good(request, lateEdits)
  BY <1>1, <1>2, RequestSaveAsGood
<1>5. Good(save, lateEdits)
  <2>1. then = "quit" => Dirty(n.ed) \subseteq lateEdits \cup {active} \cup ToSet(none)
    BY <1>3
  <2>2. QED
    BY <1>1, <1>3, <2>1, SaveTabGood
<1> HIDE DEF request, save
<1>6. ASSUME SaveActive \/ SaveActiveAs \/ LeaveCard
      PROVE  Invariant'
  <2>1. active \in DOMAIN ed.buffers
    BY <1>6 DEF SaveActive, SaveActiveAs, LeaveCard, IsDirty, active
  <2>2. Handle(request) \/ Handle(save) \/ Handle(IF active \in Untitled THEN request ELSE save)
    BY <1>6 DEF SaveActive, SaveActiveAs, LeaveCard, HandleBehindDialogs, active, request, save, then, none, n
  <2>3. Good(request, lateEdits) /\ Good(save, lateEdits) /\ Good(IF active \in Untitled THEN request ELSE save, lateEdits)
    BY <1>4, <1>5, <2>1
  <2>4. QED
    BY <1>1, <2>2, <2>3, HandleInvariant
<1>7. ASSUME NEW p \in Paths, SaveAsSubmit(p)
      PROVE  Invariant'
  <2> DEFINE id == header.saveAsId
             root == ed.projectRoot
             f == Saving(ed, id)
             b == [n EXCEPT !.ed = f]
             created == Await(b, "create", id, p, root, Empty, then, none)
  <2>1. Handle(IF CanWrite(ed, id) THEN created ELSE SaveAsFailed(n))
    BY <1>1, <1>7 DEF SaveAsSubmit, n, then, none
  <2>2. Good(SaveAsFailed(n), lateEdits)
    BY <1>1, SaveAsFailedGood
  <2>3. ASSUME CanWrite(ed, id)
        PROVE  Good(created, lateEdits)
    <3>1. id \in Ids /\ root \in Roots \cup {NoRoot} /\ "create" \in Ops /\ Empty \in Contents
      BY <1>2, <2>3, ContentsAssumption DEF CanWrite, Ops
    <3>2. Starts(n.ed, f, id)
      BY <1>1, <3>1, SavingStarts
    <3>3. With(n, b, f)
      BY <1>1, SetsTabs
    <3> HIDE DEF f, b, root, id
    <3>4. Callable("create", id, p, root, Empty, then, none) /\ Covers(then, Dirty(n.ed), lateEdits, id, none)
      BY <1>3, <3>1 DEF Callable, Covers
    <3>5. QED
      BY <1>1, <3>2, <3>3, <3>4, StartsGood
  <2> HIDE DEF created
  <2>4. Good(IF CanWrite(ed, id) THEN created ELSE SaveAsFailed(n), lateEdits)
    BY <2>2, <2>3
  <2>5. QED
    BY <1>1, <2>1, <2>4, HandleInvariant
<1>8. ASSUME SaveAsCancel
      PROVE  Invariant'
  <2>1. Handle(SaveAsClosed(n))
    BY <1>8 DEF SaveAsCancel, n
  <2>2. Sound(n, lateEdits, {})
    BY <1>1 DEF Good
  <2>3. Good(SaveAsClosed(n), lateEdits)
    BY <2>2, SaveAsClosedGood
  <2>4. QED
    BY <1>1, <2>1, <2>3, HandleInvariant
<1>9. QED
  BY <1>6, <1>7, <1>8

\* Closing tabs and the window.
LEMMA ClosingSteps ==
  ASSUME Invariant, window = "open"
  PROVE  /\ \A id \in Ids : RequestClose(id) => Invariant'
         /\ CloseDialogSave \/ CloseDialogDontSave \/ CloseDialogCancel => Invariant'
         /\ QuitDialogSave \/ QuitDialogDontSave \/ QuitDialogCancel => Invariant'
         /\ CloseRequested => Invariant'
<1> DEFINE n == Now
<1>1. /\ Good(n, lateEdits) /\ lateEdits \subseteq Paths
      /\ n.ed = ed /\ n.header = header /\ DOMAIN n = Fields /\ Editor(ed) /\ header \in Header
  BY NowGood
<1>2. Sound(n, lateEdits, {}) /\ Asks(header)
  BY <1>1 DEF Good
<1> HIDE DEF n
<1>3. ASSUME NEW id \in Ids, RequestClose(id)
      PROVE  Invariant'
  <2> DEFINE h == [header EXCEPT !.closeId = id]
             ask == [n EXCEPT !.header.closeId = id]
             closed == [n EXCEPT !.ed = closeTab(@, id)]
  <2>1. Handle(IF IsDirty(ed, id) THEN ask ELSE closed)
    BY <1>3 DEF RequestClose, HandleBehindDialogs, n
  <2>2. /\ DOMAIN ask = Fields /\ ask.ed = n.ed /\ ask.calls = n.calls /\ ask.window = n.window /\ ask.header = h
    BY <1>1 DEF Fields
  <2>3. h \in Header /\ h.asking = header.asking /\ h.quitId = header.quitId /\ h.saveAsId = header.saveAsId
    BY <1>1 DEF Header
  <2> HIDE DEF h, ask
  <2>4. ask.header \in Header /\ ask.header.asking = n.header.asking /\ Asks(ask.header)
    BY <1>1, <1>2, <2>2, <2>3 DEF Asks
  <2>5. Good(ask, lateEdits)
    BY <1>1, <2>2, <2>4, HeaderGood
  <2>6. {} \subseteq {id}
    OBVIOUS
  <2>7. Sound(closed, lateEdits, {}) /\ closed.header = n.header
    BY <1>2, <2>6, CloseSound
  <2> HIDE DEF closed
  <2>8. Good(closed, lateEdits)
    BY <1>1, <2>7 DEF Good
  <2>9. Good(IF IsDirty(ed, id) THEN ask ELSE closed, lateEdits)
    BY <2>5, <2>8
  <2>10. QED
    BY <1>1, <2>1, <2>9, HandleInvariant
<1>4. ASSUME CloseDialogSave
      PROVE  Invariant'
  <2> DEFINE id == header.closeId
             h == [header EXCEPT !.closeAfter = id, !.saveAsId = id, !.closeId = None]
             ask == [n EXCEPT !.header.closeAfter = id, !.header.saveAsId = id, !.header.closeId = None]
             then == "close"
             none == <<>>
             save == saveTab(n, id, then, none)
  <2>1. id # None /\ Handle(IF id \in Untitled THEN ask ELSE save)
    BY <1>4 DEF CloseDialogSave, n
  <2>2. id \in Ids
    BY <1>1, <2>1 DEF Header
  <2>3. /\ DOMAIN ask = Fields /\ ask.ed = n.ed /\ ask.calls = n.calls /\ ask.window = n.window /\ ask.header = h
    BY <1>1 DEF Fields
  <2> HIDE DEF id, ask
  <2>4. id \in Untitled => h \in Header
    BY <1>1, <2>2 DEF Header
  <2>5. h.asking = header.asking /\ h.saveAsId = id
    BY <1>1 DEF Header
  <2> HIDE DEF h
  <2>6. ask.header.asking = n.header.asking /\ Asks(ask.header)
    BY <1>1, <2>1, <2>3, <2>5 DEF Asks
  <2>7. ASSUME id \in Untitled
        PROVE  Good(ask, lateEdits)
    <3>1. ask.header \in Header
      BY <2>3, <2>4, <2>7
    <3>2. QED
      BY <1>1, <2>3, <2>6, <3>1, HeaderGood
  <2>8. Good(save, lateEdits)
    <3>1. then \in Thens /\ none \in Seq(Ids) /\ then # "quit"
      BY DEF Thens
    <3> HIDE DEF then, none
    <3>2. then = "quit" => Dirty(n.ed) \subseteq lateEdits \cup {id} \cup ToSet(none)
      BY <3>1
    <3>3. QED
      BY <1>1, <3>1, <3>2, SaveTabGood
  <2> HIDE DEF save
  <2>9. Good(IF id \in Untitled THEN ask ELSE save, lateEdits)
    BY <2>7, <2>8
  <2>10. QED
    BY <1>1, <2>1, <2>9, HandleInvariant
<1>5. ASSUME CloseDialogDontSave
      PROVE  Invariant'
  <2> DEFINE closed == [n EXCEPT !.ed = closeTab(@, header.closeId), !.header.closeId = None]
  <2>1. Handle(closed)
    BY <1>5 DEF CloseDialogDontSave, n
  <2>2. Good(closed, lateEdits)
    BY <1>1, CloseAskedGood
  <2>3. QED
    BY <1>1, <2>1, <2>2, HandleInvariant
<1>6. ASSUME CloseDialogCancel
      PROVE  Invariant'
  <2> DEFINE h == [header EXCEPT !.closeId = None]
             b == [n EXCEPT !.header.closeId = None]
  <2>1. Handle(b)
    BY <1>6 DEF CloseDialogCancel, n
  <2>2. /\ DOMAIN b = Fields /\ b.ed = n.ed /\ b.calls = n.calls /\ b.window = n.window /\ b.header = h
    BY <1>1 DEF Fields
  <2>3. h \in Header /\ h.asking = header.asking /\ h.quitId = header.quitId /\ h.saveAsId = header.saveAsId
    BY <1>1 DEF Header
  <2> HIDE DEF h, b
  <2>4. b.header \in Header /\ b.header.asking = n.header.asking /\ Asks(b.header)
    BY <1>1, <1>2, <2>2, <2>3 DEF Asks
  <2>5. Good(b, lateEdits)
    BY <1>1, <2>2, <2>4, HeaderGood
  <2>6. QED
    BY <1>1, <2>1, <2>5, HandleInvariant
<1>7. ASSUME QuitDialogSave
      PROVE  Invariant'
  <2> DEFINE id == header.quitId
             h == [header EXCEPT !.quitOnSave = TRUE, !.saveAsId = id, !.quitId = None]
             b == [n EXCEPT !.header.quitOnSave = TRUE, !.header.saveAsId = id, !.header.quitId = None]
  <2>1. id # None /\ Handle(b)
    BY <1>1, <1>7 DEF QuitDialogSave, n
  <2>2. id \in Ids
    BY <1>1, <2>1, TheIds DEF Header
  <2>3. /\ DOMAIN b = Fields /\ b.ed = n.ed /\ b.calls = n.calls /\ b.window = n.window /\ b.header = h
    BY <1>1 DEF Fields
  <2> HIDE DEF id, b
  <2>4. h \in Header /\ h.asking = header.asking /\ h.saveAsId = id
    BY <1>1, <2>2 DEF Header
  <2> HIDE DEF h
  <2>5. b.header \in Header /\ b.header.asking = n.header.asking /\ Asks(b.header)
    BY <1>1, <2>1, <2>3, <2>4 DEF Asks
  <2>6. Good(b, lateEdits)
    BY <1>1, <2>3, <2>5, HeaderGood
  <2>7. QED
    BY <1>1, <2>1, <2>6, HandleInvariant
<1>8. ASSUME QuitDialogDontSave
      PROVE  Invariant'
  <2> DEFINE id == header.quitId
             closed == [n EXCEPT !.ed = closeTab(@, id)]
  <2>1. Handle(resolveQuit(closed, "discarded"))
    BY <1>8 DEF QuitDialogDontSave, n
  <2>2. {} \subseteq {id}
    OBVIOUS
  <2>3. Sound(closed, lateEdits, {})
    BY <1>2, <2>2, CloseSound
  <2> HIDE DEF closed
  <2>4. Good(resolveQuit(closed, "discarded"), lateEdits)
    BY <2>3, ResolveQuitGood
  <2>5. QED
    BY <1>1, <2>1, <2>4, HandleInvariant
<1>9. ASSUME QuitDialogCancel
      PROVE  Invariant'
  <2>1. Handle(resolveQuit(n, "cancelled"))
    BY <1>9 DEF QuitDialogCancel, n
  <2>2. Good(resolveQuit(n, "cancelled"), lateEdits)
    BY <1>2, ResolveQuitGood
  <2>3. QED
    BY <1>1, <2>1, <2>2, HandleInvariant
<1>10. ASSUME CloseRequested
       PROVE  Invariant'
  <2> DEFINE ids == dirtyPathIds(ed)
  <2>1. Handle(SaveAll(n, ids))
    BY <1>10 DEF CloseRequested, n
  <2>2. ids \in Seq(Ids) /\ ToSet(ids) = Dirty(ed)
    BY <1>1, DirtyTabs
  <2> HIDE DEF ids
  <2>3. Dirty(n.ed) \subseteq lateEdits \cup ToSet(ids)
    BY <1>1, <2>2
  <2>4. Good(SaveAll(n, ids), lateEdits)
    BY <1>1, <2>2, <2>3, SaveAllGood
  <2>5. QED
    BY <1>1, <2>1, <2>4, HandleInvariant
<1>11. QED
  BY <1>3, <1>4, <1>5, <1>6, <1>7, <1>8, <1>9, <1>10

\* An edit during a request to close is a late one.
LEMMA EditStep ==
  ASSUME Invariant, NEW c \in Contents, Edit(c)
  PROVE  Invariant'
<1> DEFINE id == ed.activeTabId
           patch == [content |-> c, dirty |-> c # ed.buffers[id].baselineContent]
           f == patchBuffer(ed, id, patch)
           n == Now'
           late == lateEdits'
           pending == QuitPending(Now)
<1>1. window = "open" /\ id \in DOMAIN ed.buffers
  BY DEF Edit
<1>2. /\ ed' = f /\ calls' = calls /\ header' = header /\ window' = window
      /\ late = IF pending /\ id \in Paths /\ IsDirty(f, id) THEN lateEdits \cup {id} ELSE lateEdits \ {id}
  BY DEF Edit
<1>3. /\ Good(Now, lateEdits) /\ lateEdits \subseteq Paths /\ Now.calls = calls /\ Now.header = header
      /\ Now.window = window /\ Editor(ed) /\ header \in Header
  BY <1>1, NowGood
<1>4. id \in Ids
  BY <1>1, <1>3 DEF Editor, Opening
<1>5. patch["content"] \in Contents /\ DOMAIN patch = {"content", "dirty"}
  OBVIOUS
<1>6. patch["dirty"] \in BOOLEAN
  BY Zenon
<1>7. n = [ed |-> ed', calls |-> calls', header |-> header', window |-> window']
  BY DEF Now
<1>8. pending <=> header.asking \/ \E d \in DOMAIN calls : d.then = "quit"
  BY <1>3, Zenon DEF QuitPending
<1> HIDE DEF patch, n, id, pending
<1>9. Patchable(patch)
  BY <1>5, <1>6, Zenon DEF Patchable
<1>10. "status" \notin DOMAIN patch
  BY <1>5
<1>11. /\ Editor(f) /\ Busy(f) \subseteq Busy(ed) /\ Dirty(f) \subseteq Dirty(ed) \cup {id}
  BY <1>3, <1>4, <1>9, <1>10, PatchTabs
<1> HIDE DEF f
<1>12. DOMAIN n = Fields /\ n.ed = f /\ n.calls = calls /\ n.header = header /\ n.window = window
  BY <1>2, <1>7 DEF Fields
<1>13. Typed(n)
  <2>1. IsABag(calls) /\ DOMAIN calls \subseteq Call /\ window \in {"open", "closed"}
    BY <1>3 DEF Good, Sound, Typed
  <2>2. QED
    BY <1>3, <1>11, <1>12, <2>1 DEF Typed
<1>14. Awaited(Busy(f), DOMAIN calls)
  BY <1>1, <1>11 DEF Invariant, Awaited
<1>15. pending => Dirty(f) \cap (lateEdits \cup {id}) \subseteq late
  <2>1. id \in Dirty(f) => id \in Paths /\ IsDirty(f, id)
    <3>1. Open(f) \subseteq DOMAIN f.buffers
      BY <1>11 DEF Editor, Opening
    <3>2. QED
      BY <3>1, Zenon DEF Dirty, IsDirty
  <2>2. QED
    BY <1>2, <2>1
<1>16. Quits(header.asking, window = "closed", DOMAIN calls, Dirty(f), late)
  <2> DEFINE asks == header.asking
             D == DOMAIN calls
             dirty == Dirty(ed)
             left == Dirty(f)
             shut == window = "closed"
  <2>1. Quits(asks, shut, D, dirty, lateEdits) /\ ~shut
    BY <1>1 DEF Invariant
  <2>2. /\ pending <=> asks \/ \E d \in D : d.then = "quit"
        /\ left \subseteq dirty \cup {id} /\ (pending => left \cap (lateEdits \cup {id}) \subseteq late)
    BY <1>8, <1>11, <1>15
  <2> HIDE DEF asks, D, dirty, left, shut
  <2>3. asks \/ shut => left \subseteq late
    <3>1. asks \/ shut => dirty \subseteq lateEdits /\ pending
      BY <2>1, <2>2, Zenon DEF Quits
    <3>2. QED
      BY <2>2, <3>1
  <2>4. \A d \in D : d.then = "quit" => left \subseteq late \cup {d.id} \cup ToSet(d.rest)
    BY <2>1, <2>2 DEF Quits
  <2>5. QED
    BY <2>3, <2>4 DEF Quits, asks, D, left, shut
<1>17. late \subseteq Paths
  BY <1>2, <1>3
<1>18. Asks(header)
  BY DEF Invariant
<1>19. QED
  BY <1>2, <1>12, <1>13, <1>14, <1>16, <1>17, <1>18 DEF Invariant, n

\* Answers of the file commands.
LEMMA AnswerSteps ==
  ASSUME Invariant, window = "open", NEW c \in DOMAIN calls, AnswerSuccess(c) \/ AnswerFailure(c)
  PROVE  Invariant'
<1> DEFINE a == Answered(c)
<1>1. Resumed(a, lateEdits, c) /\ lateEdits \subseteq Paths
  BY AnsweredResumed DEF Invariant
<1>2. PICK ok \in BOOLEAN, content \in Contents : Handle(After(a, c, ok, content))
  <2>1. CASE AnswerFailure(c)
    <3>1. Handle(After(a, c, FALSE, Empty))
      BY <2>1 DEF AnswerFailure
    <3>2. QED
      BY <3>1, ContentsAssumption, Zenon
  <2>2. CASE AnswerSuccess(c)
    <3>1. PICK content \in IF c.op \in {"read", "external"} THEN Contents ELSE {Empty} :
                  Handle(After(a, c, TRUE, content))
      BY <2>2 DEF AnswerSuccess
    <3>2. content \in Contents
      BY ContentsAssumption
    <3>3. QED
      BY <3>1, <3>2, Zenon
  <2>3. QED
    BY <2>1, <2>2
<1> HIDE DEF a
<1>3. Good(After(a, c, ok, content), lateEdits)
  BY <1>1, AfterGood
<1>4. QED
  BY <1>1, <1>2, <1>3, HandleInvariant

-----------------------------------------------------------------------------
(* The theorems.                                                            *)

LEMMA OpenWindow == Next => window = "open"
BY DEF Next, WorkspaceChanges, OpenFromExplorer, OpenByPath, SaveAsSubmit, SetActiveTab, RequestClose, Edit,
       OpenUntitled, SaveActive, SaveActiveAs, LeaveCard, CloseDialogSave, CloseDialogDontSave,
       CloseDialogCancel, SaveAsCancel, QuitDialogSave, QuitDialogDontSave, QuitDialogCancel,
       CloseRequested, AnswerSuccess, AnswerFailure, HandleBehindDialogs, Handle

\* The inductive invariant holds in every state: tabs and buffers agree, a busy
\* tab has a call that will end it, and once the close handler has asked, or
\* the window is gone, only late edits are dirty.
THEOREM EditorInvariant == Spec => []Invariant
<1>1. Init => Invariant
  BY Unstarted
<1>2. Invariant /\ [Next]_vars => Invariant'
  <2> SUFFICES ASSUME Invariant, [Next]_vars PROVE Invariant'
    OBVIOUS
  <2>1. CASE UNCHANGED vars
    BY <2>1 DEF vars, Invariant, Now
  <2>2. CASE Next
    <3>1. window = "open"
      BY <2>2, OpenWindow
    <3>2. ASSUME NEW r \in Roots \cup {NoRoot}, WorkspaceChanges(r) PROVE Invariant'
      BY <3>1, <3>2, OpeningSteps
    <3>3. ASSUME NEW p \in Paths, OpenFromExplorer(p) \/ OpenByPath(p) \/ SaveAsSubmit(p) PROVE Invariant'
      BY <3>1, <3>3, OpeningSteps, SavingSteps
    <3>4. ASSUME NEW id \in Ids, SetActiveTab(id) \/ RequestClose(id) PROVE Invariant'
      BY <3>1, <3>4, OpeningSteps, ClosingSteps
    <3>5. ASSUME NEW c \in Contents, Edit(c) PROVE Invariant'
      BY <3>5, EditStep
    <3>6. ASSUME OpenUntitled \/ SaveActive \/ SaveActiveAs \/ LeaveCard \/ SaveAsCancel PROVE Invariant'
      BY <3>1, <3>6, OpeningSteps, SavingSteps
    <3>7. ASSUME \/ CloseDialogSave \/ CloseDialogDontSave \/ CloseDialogCancel
                 \/ QuitDialogSave \/ QuitDialogDontSave \/ QuitDialogCancel \/ CloseRequested
          PROVE  Invariant'
      BY <3>1, <3>7, ClosingSteps
    <3>8. ASSUME NEW c \in DOMAIN calls, AnswerSuccess(c) \/ AnswerFailure(c) PROVE Invariant'
      BY <3>1, <3>8, AnswerSteps
    <3>9. QED
      BY <2>2, <3>2, <3>3, <3>4, <3>5, <3>6, <3>7, <3>8 DEF Next
  <2>3. QED
    BY <2>1, <2>2
<1>3. QED
  BY <1>1, <1>2, PTL DEF Spec

\* Every state is well typed, no tab is open twice, every tab has its buffer,
\* and no number is given to two untitled tabs, although the answers of file
\* commands come after their tab was closed or retargeted.
THEOREM TabsStayWellFormed == Spec => []TabsWellFormed
<1>1. Invariant => TabsWellFormed
  <2> SUFFICES ASSUME Invariant PROVE TabsWellFormed
    OBVIOUS
  <2> DEFINE n == Now
  <2>1. n.ed = ed /\ n.calls = calls /\ n.header = header /\ n.window = window
    BY DEF Now
  <2>2. Typed(n) /\ lateEdits \subseteq Paths
    BY DEF Invariant
  <2> HIDE DEF n
  <2>3. Editor(ed) /\ header \in Header /\ IsABag(calls) /\ DOMAIN calls \subseteq Call /\ window \in {"open", "closed"}
    BY <2>1, <2>2 DEF Typed
  <2>4. /\ ed.tabs \in Seq(Ids) /\ Distinct(ed.tabs) /\ ed.activeTabId \in Ids \cup {None}
        /\ DOMAIN ed.buffers \subseteq Ids /\ \A id \in DOMAIN ed.buffers : ed.buffers[id] \in EditorBuffer
        /\ ed.projectRoot \in Roots \cup {NoRoot} /\ ed.nextUntitled \in 1..(MaxUntitled + 1)
        /\ Open(ed) \subseteq DOMAIN ed.buffers /\ \A id \in Open(ed) \cap Untitled : id < ed.nextUntitled
    BY <2>3 DEF Editor, Opening
  <2>5. Cardinality(Open(ed)) = Len(ed.tabs)
    BY <2>4, CountsTabs DEF Open
  <2>6. TypeOK
    BY <2>2, <2>3, <2>4, Zenon DEF TypeOK, Header
  <2>7. QED
    BY <2>4, <2>5, <2>6 DEF TabsWellFormed
<1>2. QED
  BY <1>1, EditorInvariant, PTL

\* The window closes over no dirty file but those that were edited after it was
\* asked to close, however the saves, the edits and the answers interleave.
THEOREM QuitSavesWhatWasDirty == Spec => []QuitSavesFiles
<1>1. Invariant => QuitSavesFiles
  <2> SUFFICES ASSUME Invariant, window = "closed", NEW id \in Open(ed) \cap Paths, IsDirty(ed, id)
               PROVE  id \in lateEdits
    BY DEF QuitSavesFiles
  <2>1. Dirty(ed) \subseteq lateEdits
    BY DEF Invariant, Quits
  <2>2. id \in Dirty(ed)
    BY Zenon DEF Dirty, IsDirty
  <2>3. QED
    BY <2>1, <2>2
<1>2. QED
  BY <1>1, EditorInvariant, PTL

\* While the close handler waits for the user, a dialog that answers it is on
\* the screen, unless no project is open to save into.
THEOREM QuitStaysAnswerable == Spec => []QuitAwaitsDialog
<1>1. Invariant => QuitAwaitsDialog
  BY Zenon DEF Invariant, Asks, QuitAwaitsDialog, SaveAsShown, ShowsSaveAs, Now
<1>2. QED
  BY <1>1, EditorInvariant, PTL

\* A tab that shows Loading or Saving waits for a call that will end it.
THEOREM BusyTabsStayAwaited == Spec => []BusyTabsAreAwaited
<1>1. Invariant => BusyTabsAreAwaited
  BY DEF Invariant, Awaited, Busy, BusyTabsAreAwaited
<1>2. QED
  BY <1>1, EditorInvariant, PTL

-----------------------------------------------------------------------------
(* What a failed save leaves.                                               *)

\* The tabs of e are open in f with their text and their dirty marks.
Keeps(e, f) ==
  /\ Open(f) = Open(e)
  /\ \A id \in Open(e) : /\ id \in DOMAIN f.buffers
                         /\ f.buffers[id].content = e.buffers[id].content
                         /\ f.buffers[id].dirty = e.buffers[id].dirty

LEMMA PatchKeeps ==
  ASSUME NEW e, Editor(e), NEW id \in Ids, NEW patch, Patchable(patch),
         "content" \notin DOMAIN patch, "dirty" \notin DOMAIN patch
  PROVE  Keeps(e, patchBuffer(e, id, patch))
<1> DEFINE f == patchBuffer(e, id, patch)
<1>1. Opening(e, {id}) /\ Open(e) \subseteq DOMAIN e.buffers
  BY DEF Editor, Opening
<1>2. Patched(e, f, id, patch)
  BY <1>1, Patches
<1> HIDE DEF f
<1>3. f.tabs = e.tabs /\ DOMAIN f.buffers = DOMAIN e.buffers \cup {id}
  BY <1>2 DEF Patched, EditorFields
<1>4. \A i \in DOMAIN e.buffers \ {id} : f.buffers[i] = e.buffers[i]
  BY <1>2 DEF Patched
<1>5. f.buffers[id]["content"] = Current(e, id)["content"] /\ f.buffers[id]["dirty"] = Current(e, id)["dirty"]
  BY <1>2 DEF Patched, BufferFields
<1>6. id \in Open(e) => Current(e, id) = e.buffers[id]
  BY <1>1 DEF Current
<1>7. Open(f) = Open(e)
  BY <1>3 DEF Open
<1>8. ASSUME NEW i \in Open(e)
      PROVE  i \in DOMAIN f.buffers /\ f.buffers[i].content = e.buffers[i].content /\ f.buffers[i].dirty = e.buffers[i].dirty
  <2>1. CASE i = id
    BY <1>3, <1>5, <1>6, <2>1
  <2>2. CASE i # id
    BY <1>1, <1>3, <1>4, <2>2
  <2>3. QED
    BY <2>1, <2>2
<1>9. QED
  BY <1>7, <1>8 DEF Keeps, f

LEMMA KeepsTransitive ==
  ASSUME NEW e, NEW f, NEW g, Keeps(e, f), Keeps(f, g)
  PROVE  Keeps(e, g)
BY DEF Keeps

\* The tabs after the answer of a write or a creation that failed.
LEMMA FailureKeeps ==
  ASSUME NEW a, NEW late, NEW c, Resumed(a, late, c), c.op \in {"write", "create"}
  PROVE  Keeps(a.ed, After(a, c, FALSE, Empty).ed) /\ Good(After(a, c, FALSE, Empty), late)
<1> DEFINE f == SaveFailed(a.ed, c.id)
           failed == [a EXCEPT !.ed = f]
           n == After(a, c, FALSE, Empty)
<1>1. c.id \in Ids /\ c.op \in Ops /\ Sound(a, late, {c.id})
  BY CallFields DEF Resumed
<1>2. Editor(a.ed) /\ DOMAIN a = Fields
  BY <1>1 DEF Sound, Typed
<1>3. Keeps(a.ed, f)
  <2> DEFINE p == [status |-> "ready"]
  <2>1. "ready" \in EditorStatus
    BY DEF EditorStatus
  <2>2. Patchable(p) /\ DOMAIN p = {"status"}
    BY <2>1, StatusPatch
  <2>3. f = patchBuffer(a.ed, c.id, p)
    BY DEF SaveFailed
  <2> HIDE DEF p
  <2>4. "content" \notin DOMAIN p /\ "dirty" \notin DOMAIN p
    BY <2>2
  <2>5. Keeps(a.ed, patchBuffer(a.ed, c.id, p))
    BY <1>1, <1>2, <2>2, <2>4, PatchKeeps
  <2>6. QED
    BY <2>3, <2>5
<1>4. Good(n, late)
  <2>1. FALSE \in BOOLEAN
    BY Zenon
  <2>2. QED
    BY <2>1, AfterGood, ContentsAssumption
<1>5. Eases(a.ed, f, {c.id}) /\ Open(f) = Open(a.ed)
  BY <1>1, <1>2, SaveFailedEases
<1>6. DOMAIN failed = Fields /\ failed.ed = f /\ failed.header = a.header
  BY <1>2 DEF Fields
<1>7. n = IF c.op = "write" THEN AfterWrite(a, c, FALSE) ELSE AfterCreate(a, c, FALSE)
  BY DEF After
<1> HIDE DEF f, n
<1>8. CASE c.op = "write"
  <2> DEFINE g == [f EXCEPT !.activeTabId = c.id]
  <2>1. n = IF c.then # "quit" THEN failed ELSE [failed EXCEPT !.ed.activeTabId = c.id]
    BY <1>7, <1>8 DEF AfterWrite, f
  <2> HIDE DEF failed
  <2>2. n.ed = f \/ n.ed = g
    BY <1>6, <2>1 DEF Fields
  <2>3. Open(g) = Open(f)
    BY <1>1, <1>5, Focus DEF Eases
  <2>4. g.buffers = f.buffers
    BY <1>5 DEF Eases, Editor, Opening, EditorFields
  <2> HIDE DEF g
  <2>5. Keeps(a.ed, g)
    BY <1>3, <2>3, <2>4 DEF Keeps
  <2>6. QED
    BY <1>3, <1>4, <2>2, <2>5 DEF n
<1>9. CASE c.op = "create"
  <2>1. n = SaveAsFailed(failed)
    BY <1>7, <1>9 DEF AfterCreate, f
  <2> HIDE DEF failed
  <2>2. SaveAsFailed(failed).ed = f
    BY <1>6 DEF SaveAsFailed, resolveQuit, Fields
  <2>3. QED
    BY <1>3, <1>4, <2>1, <2>2 DEF n
<1>10. QED
  BY <1>8, <1>9

\* A write or a creation that fails closes no tab, and leaves every tab its
\* text and its dirty mark, whatever the user has done while it was awaited.
THEOREM FailedSavesKeepEdits == Spec => FailedSaveKeepsEdits
<1> DEFINE Loses == \E id \in Open(ed) :
                      \/ id \notin Open(ed')
                      \/ ed'.buffers[id].content # ed.buffers[id].content
                      \/ IsDirty(ed', id) # IsDirty(ed, id)
           Fails == \E c \in DOMAIN calls : c.op \in {"write", "create"} /\ AnswerFailure(c)
           Spares == Loses => ~Fails
<1>1. Invariant => Spares
  <2> SUFFICES ASSUME Invariant, NEW c \in DOMAIN calls, c.op \in {"write", "create"}, AnswerFailure(c)
               PROVE  ~Loses
    BY Zenon
  <2> DEFINE a == Answered(c)
             n == After(a, c, FALSE, Empty)
             b == SaveAsEffect(n)
  <2>1. window = "open" /\ Handle(n)
    BY DEF AnswerFailure, Handle
  <2>2. Resumed(a, lateEdits, c)
    BY <2>1, AnsweredResumed
  <2>3. a.ed = ed
    BY DEF Answered, Now
  <2> HIDE DEF a
  <2>4. Keeps(ed, n.ed) /\ Good(n, lateEdits)
    BY <2>2, <2>3, FailureKeeps
  <2>5. ed' = b.ed
    BY <2>1 DEF Handle, Become
  <2> HIDE DEF n
  <2>6. Keeps(n.ed, b.ed)
    <3>1. DOMAIN n = Fields /\ n.header \in Header /\ Editor(n.ed)
      BY <2>4 DEF Good, Sound, Typed
    <3> DEFINE id == n.header.saveAsId
               p == <<>>
               f == patchBuffer(n.ed, id, p)
    <3>2. b.ed = n.ed \/ (id # None /\ b.ed = f)
      BY <3>1 DEF SaveAsEffect, ShowsSaveAs, Fields
    <3> HIDE DEF b
    <3>3. CASE id # None
      <4>1. id \in Ids
        BY <3>1, <3>3 DEF Header
      <4>2. DOMAIN p = {} /\ Patchable(p)
        BY DEF Patchable
      <4> HIDE DEF p, id
      <4>3. Keeps(n.ed, f)
        BY <3>1, <4>1, <4>2, PatchKeeps
      <4> HIDE DEF f
      <4>4. Open(n.ed) \subseteq DOMAIN n.ed.buffers
        BY <3>1 DEF Editor, Opening
      <4>5. Keeps(n.ed, n.ed)
        BY <4>4 DEF Keeps
      <4>6. QED
        BY <3>2, <4>3, <4>5
    <3>4. CASE id = None
      <4>1. Open(n.ed) \subseteq DOMAIN n.ed.buffers
        BY <3>1 DEF Editor, Opening
      <4>2. QED
        BY <3>2, <3>4, <4>1 DEF Keeps
    <3>5. QED
      BY <3>3, <3>4
  <2> HIDE DEF b
  <2>7. Keeps(ed, ed')
    BY <2>4, <2>5, <2>6, KeepsTransitive
  <2>8. Open(ed) \subseteq DOMAIN ed.buffers
    BY <2>1, NowGood DEF Editor, Opening
  <2>9. \A id \in Open(ed) : IsDirty(ed', id) = IsDirty(ed, id)
    <3>1. \A id \in Open(ed) : /\ id \in DOMAIN ed.buffers /\ id \in DOMAIN ed'.buffers
                               /\ ed'.buffers[id].dirty = ed.buffers[id].dirty
      BY <2>7, <2>8 DEF Keeps
    <3>2. QED
      BY <3>1, Zenon DEF IsDirty
  <2>10. QED
    BY <2>7, <2>9 DEF Keeps
<1>2. Invariant => [Spares]_vars
  BY <1>1
<1> HIDE DEF Spares
<1>3. Spec => [][Spares]_vars
  BY <1>2, EditorInvariant, PTL DEF Spec
<1>4. QED
  BY <1>3, Zenon DEF FailedSaveKeepsEdits, Spares
==============================================================================
