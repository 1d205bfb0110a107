---------------------------- MODULE SessionBootProofs ----------------------------
(***************************************************************************)
(* Proofs about the session, for any bounds of flushes, resets and acts of  *)
(* the user.                                                               *)
(***************************************************************************)
EXTENDS SessionBoot, TLAPS, SequenceTheorems

-----------------------------------------------------------------------------
(* The shape of the state that a step works on (Now).                       *)
IsStore(d, none) == DOMAIN d = Keys /\ \A k \in Keys : d[k] \in Value[k] \cup none

Flushing == [next : Nat, copy : Seq(Item)]
Resetting == [keys : Seq(Keys), round : {1, 2}]
Ask == [shell : BOOLEAN, live : BOOLEAN, hop : {"area", "size"}]

Fields == {"stores", "boot", "storage", "disk", "resets", "screens", "window", "touched"}
ScreenFields == {"onboarding", "shell", "transitioning", "visible", "entered", "timer"}

Shaped(a) ==
  /\ DOMAIN a = Fields
  /\ IsStore(a.stores, {}) /\ IsStore(a.disk, {None})
  /\ DOMAIN a.boot = {"reads", "waiting"}
  /\ IsStore(a.boot.reads, {None}) /\ a.boot.waiting \in SUBSET Keys
  /\ DOMAIN a.storage = {"pending", "timer", "flushes"} /\ a.storage.timer \in BOOLEAN
  /\ a.storage.pending \in Seq(Item) /\ a.storage.flushes \in Seq(Flushing)
  /\ a.resets \in Seq(Resetting)
  /\ DOMAIN a.screens = ScreenFields /\ \A x \in ScreenFields : a.screens[x] \in BOOLEAN
  /\ DOMAIN a.window = {"shell", "asks"} /\ a.window.shell \in BOOLEAN
  /\ a.window.asks \in Seq(Ask)
  /\ a.touched \in BOOLEAN

(* A key waits once, a flush is at an item or behind the last, and what     *)
(* waits is awaited.                                                        *)
Orderly(a) ==
  /\ \A i, j \in DOMAIN a.storage.pending :
       a.storage.pending[i].key = a.storage.pending[j].key => i = j
  /\ \A f \in DOMAIN a.storage.flushes :
       a.storage.flushes[f].next \in 1 .. Len(a.storage.pending) + 1
  /\ a.storage.pending # <<>> => a.storage.timer \/ a.storage.flushes # <<>>

(* The screens against each other and the flag; a commit on its way belongs *)
(* to a shell that is shown.                                                *)
Agree(a) ==
  /\ a.screens.onboarding \/ a.screens.shell
  /\ ~a.screens.onboarding => onboardingCompleted(a)
  /\ a.screens.shell /\ ~a.screens.timer => onboardingCompleted(a)
  /\ a.screens.transitioning => a.screens.timer /\ a.screens.onboarding /\ a.screens.shell
  /\ a.screens.timer => a.screens.shell

(* Only the last run of the window's effect is not called off, and it asks  *)
(* for what is shown.                                                       *)
Follows(a) ==
  /\ ~Ready(a) => a.window.asks = <<>>
  /\ \A i \in 1 .. Len(a.window.asks) - 1 : ~a.window.asks[i].live
  /\ Ready(a) /\ a.window.asks = <<>> => a.window.shell = ShellMode(a)
  /\ Ready(a) /\ a.window.asks # <<>> =>
       /\ a.window.asks[Len(a.window.asks)].live
       /\ a.window.asks[Len(a.window.asks)].shell = ShellMode(a)

(* What is still stored when nothing was done since a reset is on the list  *)
(* of a reset that runs.                                                    *)
Clears(a) ==
  ~a.touched =>
    /\ a.storage.pending = <<>>
    /\ \A k \in Keys :
         a.disk[k] # None => \E r \in DOMAIN a.resets : k \in ToSet(a.resets[r].keys)

Good(a) == Shaped(a) /\ Orderly(a) /\ Agree(a) /\ Follows(a) /\ Clears(a)

Bounded == Len(storage.flushes) <= MaxFlushes /\ Len(resets) <= MaxResets

Invariant == Good(Now) /\ Bounded


-----------------------------------------------------------------------------
(* Sequences and keys.                                                      *)

\* What is left of a sequence keeps its order.
LEMMA RemoveAtElements ==
  ASSUME NEW S, NEW s \in Seq(S), NEW i \in 1 .. Len(s)
  PROVE  /\ RemoveAt(s, i) \in Seq(S)
         /\ Len(RemoveAt(s, i)) = Len(s) - 1
         /\ \A j \in 1 .. Len(s) - 1 : RemoveAt(s, i)[j] = IF j < i THEN s[j] ELSE s[j + 1]
<1> DEFINE front == SubSeq(s, 1, i - 1)
           back == SubSeq(s, i + 1, Len(s))
<1>1. front \in Seq(S) /\ Len(front) = i - 1 /\ \A j \in 1 .. i - 1 : front[j] = s[j]
  OBVIOUS
<1>2. /\ back \in Seq(S) /\ Len(back) = Len(s) - i
      /\ \A j \in 1 .. Len(s) - i : back[j] = s[j + i]
  OBVIOUS
<1>3. RemoveAt(s, i) = front \o back
  BY DEF RemoveAt
<1> HIDE DEF front, back
<1>4. front \o back \in Seq(S) /\ Len(front \o back) = Len(s) - 1
  BY <1>1, <1>2
<1>5. \A j \in 1 .. Len(s) - 1 : (front \o back)[j] = IF j < i THEN s[j] ELSE s[j + 1]
  BY <1>1, <1>2
<1>6. QED
  BY <1>3, <1>4, <1>5

\* What follows an element that is taken out.
LEMMA RemoveAtKeeps ==
  ASSUME NEW S, NEW s \in Seq(S), NEW i \in 1 .. Len(s), NEW j \in DOMAIN s, j # i
  PROVE  \E m \in DOMAIN RemoveAt(s, i) : RemoveAt(s, i)[m] = s[j]
<1>1. CASE j < i
  <2>1. j \in 1 .. Len(s) - 1 /\ RemoveAt(s, i)[j] = s[j]
    BY <1>1, RemoveAtElements
  <2>2. QED
    BY <2>1, RemoveAtElements
<1>2. CASE j > i
  <2>1. j \in 1 .. Len(s) /\ j - 1 \in 1 .. Len(s) - 1 /\ ~(j - 1 < i) /\ (j - 1) + 1 = j
    BY <1>2
  <2>2. RemoveAt(s, i)[j - 1] = s[j]
    BY <2>1, RemoveAtElements
  <2>3. j - 1 \in DOMAIN RemoveAt(s, i)
    BY <2>1, RemoveAtElements
  <2>4. QED
    BY <2>2, <2>3
<1>3. QED
  BY <1>1, <1>2

LEMMA HeadOrTail ==
  ASSUME NEW S, NEW s \in Seq(S), s # <<>>
  PROVE  /\ Head(s) \in S /\ Tail(s) \in Seq(S)
         /\ \A x \in ToSet(s) : x = Head(s) \/ x \in ToSet(Tail(s))
<1>1. Head(s) \in S /\ Tail(s) \in Seq(S)
  OBVIOUS
<1>2. ASSUME NEW n \in DOMAIN s, n # 1 PROVE s[n] \in ToSet(Tail(s))
  <2>1. n - 1 \in DOMAIN Tail(s) /\ Tail(s)[n - 1] = s[n]
    BY <1>2
  <2>2. QED
    BY <2>1 DEF ToSet
<1>3. QED
  BY <1>1, <1>2 DEF ToSet

LEMMA TheKeys == Keys = {"session", "theme"} /\ SESSION_PERSIST_KEYS \in Seq(Keys)
<1>1. SESSION_PERSIST_KEYS[1] = "session" /\ SESSION_PERSIST_KEYS[2] = "theme"
  BY DEF SESSION_PERSIST_KEYS
<1>2. DOMAIN SESSION_PERSIST_KEYS = {1, 2}
  BY DEF SESSION_PERSIST_KEYS
<1>3. Keys = {"session", "theme"}
  BY <1>1, <1>2 DEF Keys, ToSet
<1>4. QED
  BY <1>3 DEF SESSION_PERSIST_KEYS

LEMMA TheItems ==
  /\ \A k \in Keys : \A v \in Value[k] : [key |-> k, value |-> v] \in Item
  /\ \A item \in Item : item.key \in Keys /\ item.value \in Value[item.key]
  BY DEF Item

\* A store that takes a value of its key stays a store.
LEMMA StoreTakes ==
  ASSUME NEW none, NEW d, IsStore(d, none), NEW k \in Keys, NEW v \in Value[k] \cup none
  PROVE  /\ IsStore([d EXCEPT ![k] = v], none)
         /\ [d EXCEPT ![k] = v][k] = v
         /\ \A other \in Keys : other # k => [d EXCEPT ![k] = v][other] = d[other]
  BY DEF IsStore

-----------------------------------------------------------------------------
(* The storage.                                                             *)

\* A step from one state to another that changes no more than some of the parts.
Keeps(a, b, changed) == \A x \in Fields \ changed : b[x] = a[x]

LEMMA SetItemStores ==
  ASSUME NEW a, Shaped(a), Orderly(a), NEW k \in Keys
  PROVE  /\ Shaped(setItem(a, k)) /\ Orderly(setItem(a, k))
         /\ Keeps(a, setItem(a, k), {"storage"})
         /\ setItem(a, k).storage.flushes = a.storage.flushes
<1> DEFINE item == [key |-> k, value |-> a.stores[k]]
           at == Placed(a.storage.pending, k)
           old == a.storage.pending
           pending == IF at = {} THEN Append(old, item)
                      ELSE [i \in DOMAIN old |-> IF i \in at THEN item ELSE old[i]]
           b == setItem(a, k)
<1>1. item \in Item
  <2>1. a.stores[k] \in Value[k]
    BY DEF Shaped, IsStore
  <2>2. QED
    BY <2>1, TheItems
<1>2. old \in Seq(Item) /\ \A i, j \in DOMAIN old : old[i].key = old[j].key => i = j
  BY DEF Shaped, Orderly
<1>3. /\ b.storage.pending = pending /\ b.storage.timer = TRUE
      /\ b.storage.flushes = a.storage.flushes
      /\ DOMAIN b.storage = {"pending", "timer", "flushes"}
      /\ DOMAIN b = Fields
      /\ Keeps(a, b, {"storage"})
  BY DEF setItem, Shaped, Fields, Keeps
<1>4. \A i \in DOMAIN old : i \in at <=> old[i].key = k
  BY DEF Placed
<1>5. item.key = k
  OBVIOUS
<1> HIDE DEF item, at, old, b
<1>6. /\ pending \in Seq(Item) /\ Len(pending) >= Len(old)
      /\ \A i, j \in DOMAIN pending : pending[i].key = pending[j].key => i = j
  <2>1. CASE at = {}
    <3>1. /\ pending = Append(old, item) /\ pending \in Seq(Item) /\ Len(pending) = Len(old) + 1
          /\ \A i \in DOMAIN old : pending[i] = old[i]
          /\ pending[Len(old) + 1] = item
      BY <1>1, <1>2, <2>1
    <3> HIDE DEF pending
    <3>2. \A i \in DOMAIN pending : i \in DOMAIN old \/ i = Len(old) + 1
      BY <3>1, <1>2
    <3>3. \A i \in DOMAIN old : pending[i].key # k
      BY <3>1, <1>4, <2>1
    <3>4. QED
      BY <1>2, <1>5, <3>1, <3>2, <3>3
  <2>2. CASE at # {}
    <3>1. /\ pending \in Seq(Item) /\ Len(pending) = Len(old) /\ DOMAIN pending = DOMAIN old
          /\ \A i \in DOMAIN old : pending[i] = IF i \in at THEN item ELSE old[i]
      BY <1>1, <1>2, <2>2
    <3> HIDE DEF pending
    <3>2. \A i \in DOMAIN old : pending[i].key = old[i].key
      BY <3>1, <1>4, <1>5
    <3>3. QED
      BY <1>2, <3>1, <3>2
  <2>3. QED
    BY <2>1, <2>2
<1> HIDE DEF pending
<1>7. Shaped(b)
  BY <1>3, <1>6 DEF Shaped, Fields, Keeps
<1>8. Orderly(b)
  <2>1. \A f \in DOMAIN a.storage.flushes : a.storage.flushes[f].next \in 1 .. Len(pending) + 1
    BY <1>2, <1>6 DEF Orderly, Shaped, old
  <2>2. QED
    BY <1>3, <1>6, <2>1 DEF Orderly
<1>9. QED
  BY <1>3, <1>7, <1>8 DEF b

LEMMA SetStores ==
  ASSUME NEW a, Shaped(a), Orderly(a), NEW k \in Keys, NEW value \in Value[k]
  PROVE  /\ Shaped(Set(a, k, value)) /\ Orderly(Set(a, k, value))
         /\ Keeps(a, Set(a, k, value), {"stores", "storage"})
         /\ Set(a, k, value).stores[k] = value
         /\ \A other \in Keys : other # k => Set(a, k, value).stores[other] = a.stores[other]
         /\ Set(a, k, value).storage.flushes = a.storage.flushes
<1> DEFINE b == [a EXCEPT !.stores[k] = value]
<1>1. Keeps(a, b, {"stores"}) /\ DOMAIN b = Fields /\ b.stores = [a.stores EXCEPT ![k] = value]
  BY DEF Shaped, Keeps, Fields
<1>2. Set(a, k, value) = setItem(b, k)
  BY DEF Set
<1> HIDE DEF b
<1>3. /\ IsStore(b.stores, {}) /\ b.stores[k] = value
      /\ \A other \in Keys : other # k => b.stores[other] = a.stores[other]
  <2> DEFINE new == [a.stores EXCEPT ![k] = value]
  <2>1. IsStore(a.stores, {}) /\ value \in Value[k] \cup {}
    BY DEF Shaped
  <2>2. /\ IsStore(new, {}) /\ new[k] = value
        /\ \A other \in Keys : other # k => new[other] = a.stores[other]
    BY <2>1, StoreTakes
  <2>3. QED
    BY <1>1, <2>2
<1>4. Shaped(b) /\ Orderly(b)
  BY <1>1, <1>3 DEF Shaped, Orderly, Keeps, Fields
<1>5. /\ Shaped(setItem(b, k)) /\ Orderly(setItem(b, k))
      /\ Keeps(b, setItem(b, k), {"storage"})
      /\ setItem(b, k).storage.flushes = b.storage.flushes
  BY <1>4, SetItemStores
<1>6. Keeps(a, setItem(b, k), {"stores", "storage"})
  BY <1>1, <1>5 DEF Keeps
<1>7. setItem(b, k).stores = b.stores /\ b.storage = a.storage
  BY <1>1, <1>5 DEF Keeps, Fields
<1>8. QED
  BY <1>2, <1>3, <1>5, <1>6, <1>7

LEMMA FlushingMoves ==
  ASSUME NEW x \in Flushing, NEW n \in Nat
  PROVE  [x EXCEPT !.next = n] \in Flushing /\ [x EXCEPT !.next = n].next = n
  BY DEF Flushing

\* What a flush may leave behind.
LEMMA ClearedShape ==
  ASSUME NEW a, Shaped(a), Orderly(a)
  PROVE  /\ Shaped(Cleared(a)) /\ Orderly(Cleared(a))
         /\ Keeps(a, Cleared(a), {"storage"})
         /\ Cleared(a).storage.pending = <<>>
         /\ Cleared(a).storage.timer = a.storage.timer
         /\ Len(Cleared(a).storage.flushes) = Len(a.storage.flushes)
<1> DEFINE b == Cleared(a)
           old == a.storage.flushes
           flushes == [f \in DOMAIN old |-> [old[f] EXCEPT !.next = 1]]
<1>1. /\ b.storage.pending = <<>> /\ b.storage.timer = a.storage.timer
      /\ b.storage.flushes = flushes
      /\ DOMAIN b.storage = {"pending", "timer", "flushes"}
      /\ DOMAIN b = Fields
      /\ Keeps(a, b, {"storage"})
  BY DEF Cleared, Shaped, Fields, Keeps
<1>2. old \in Seq(Flushing)
  BY DEF Shaped
<1> HIDE DEF old, b
<1>3. \A f \in DOMAIN old : /\ [old[f] EXCEPT !.next = 1] \in Flushing
                            /\ [old[f] EXCEPT !.next = 1].next = 1
  <2>1. \A f \in DOMAIN old : old[f] \in Flushing
    BY <1>2
  <2>2. QED
    BY <2>1, FlushingMoves
<1>4. /\ flushes \in Seq(Flushing) /\ Len(flushes) = Len(old)
      /\ \A f \in DOMAIN flushes : flushes[f].next = 1
  <2> DEFINE again(f) == [old[f] EXCEPT !.next = 1]
  <2>1. \A f \in DOMAIN old : again(f) \in Flushing /\ again(f).next = 1
    BY <1>3
  <2>2. flushes = [f \in DOMAIN old |-> again(f)]
    OBVIOUS
  <2>3. DOMAIN old = 1 .. Len(old) /\ Len(old) \in Nat
    BY <1>2
  <2> HIDE DEF again, flushes
  <2>4. flushes \in [1 .. Len(old) -> Flushing]
    BY <2>1, <2>2, <2>3
  <2>5. flushes \in Seq(Flushing) /\ Len(flushes) = Len(old)
    BY <2>3, <2>4
  <2>6. QED
    BY <2>1, <2>2, <2>5
<1> HIDE DEF flushes
<1>5. << >> \in Seq(Item) /\ Len(<< >>) = 0
  OBVIOUS
<1>6. Shaped(b)
  BY <1>1, <1>4, <1>5 DEF Shaped, Fields, Keeps
<1>7. Orderly(b)
  BY <1>1, <1>4, <1>5 DEF Orderly
<1>8. QED
  BY <1>1, <1>4, <1>6, <1>7 DEF b, old

LEMMA ClearAllShape ==
  ASSUME NEW a, Shaped(a), Orderly(a)
  PROVE  /\ Shaped(clearAll(a)) /\ Orderly(clearAll(a))
         /\ Keeps(a, clearAll(a), {"storage"})
         /\ clearAll(a).storage.pending = <<>>
         /\ Len(clearAll(a).storage.flushes) = Len(a.storage.flushes)
<1> DEFINE c == Cleared(a)
           b == clearAll(a)
<1>1. /\ Shaped(c) /\ Orderly(c) /\ Keeps(a, c, {"storage"}) /\ c.storage.pending = <<>>
      /\ Len(c.storage.flushes) = Len(a.storage.flushes)
  BY ClearedShape
<1>2. b = [c EXCEPT !.storage.timer = FALSE]
  BY DEF clearAll
<1> HIDE DEF c, b
<1>3. /\ b.storage.pending = c.storage.pending /\ b.storage.timer = FALSE
      /\ b.storage.flushes = c.storage.flushes
      /\ DOMAIN b.storage = {"pending", "timer", "flushes"}
      /\ DOMAIN b = Fields /\ Keeps(c, b, {"storage"})
  BY <1>1, <1>2 DEF Shaped, Keeps, Fields
<1>4. Shaped(b) /\ Orderly(b)
  BY <1>1, <1>3 DEF Shaped, Orderly, Keeps, Fields
<1>5. QED
  BY <1>1, <1>3, <1>4 DEF Keeps, b

\* No more items wait than there are keys.
LEMMA FewWait ==
  ASSUME NEW a, Shaped(a), Orderly(a)
  PROVE  Len(a.storage.pending) <= 2
<1> DEFINE p == a.storage.pending
<1>1. p \in Seq(Item) /\ \A i, j \in DOMAIN p : p[i].key = p[j].key => i = j
  BY DEF Shaped, Orderly
<1> HIDE DEF p
<1>2. \A i \in DOMAIN p : p[i].key \in {"session", "theme"}
  BY <1>1, TheItems, TheKeys
<1>3. SUFFICES ASSUME Len(p) > 2 PROVE FALSE
  BY <1>1 DEF p
<1>4. 1 \in DOMAIN p /\ 2 \in DOMAIN p /\ 3 \in DOMAIN p
  BY <1>1, <1>3
<1>5. p[1].key # p[2].key /\ p[1].key # p[3].key /\ p[2].key # p[3].key
  BY <1>1, <1>4
<1>6. QED
  BY <1>2, <1>4, <1>5

\* An item that is stored, or the end of a flush.
LEMMA FlushOnShape ==
  ASSUME NEW a, Shaped(a), Orderly(a), NEW f \in DOMAIN a.storage.flushes
  PROVE  /\ Shaped(FlushOn(a, f)) /\ Orderly(FlushOn(a, f))
         /\ Keeps(a, FlushOn(a, f), {"storage", "disk"})
         /\ Len(FlushOn(a, f).storage.flushes) <= Len(a.storage.flushes)
         /\ a.storage.pending = <<>> =>
              FlushOn(a, f).disk = a.disk /\ FlushOn(a, f).storage.pending = <<>>
<1> DEFINE next == a.storage.flushes[f].next
           item == a.storage.pending[next]
           b == FlushOn(a, f)
<1>1. a.storage.flushes \in Seq(Flushing) /\ a.storage.pending \in Seq(Item)
  BY DEF Shaped
<1>2. next \in 1 .. Len(a.storage.pending) + 1 /\ a.storage.flushes[f] \in Flushing
  BY <1>1 DEF Orderly
<1>3. CASE next > Len(a.storage.pending)
  <2> DEFINE c == Cleared(a)
             left == RemoveAt(c.storage.flushes, f)
  <2>1. b = [c EXCEPT !.storage.flushes = left]
    BY <1>3 DEF FlushOn
  <2>2. /\ Shaped(c) /\ Orderly(c) /\ Keeps(a, c, {"storage"}) /\ c.storage.pending = <<>>
        /\ Len(c.storage.flushes) = Len(a.storage.flushes)
    BY ClearedShape
  <2> HIDE DEF b, c
  <2>3. c.storage.flushes \in Seq(Flushing) /\ f \in 1 .. Len(c.storage.flushes)
    BY <1>1, <2>2 DEF Shaped
  <2>4. left \in Seq(Flushing) /\ Len(left) = Len(c.storage.flushes) - 1
    BY <2>3, RemoveAtElements
  <2>5. \A j \in DOMAIN left : left[j].next = 1
    <3>1. \A j \in DOMAIN c.storage.flushes : c.storage.flushes[j].next = 1
      BY <2>2, <2>3 DEF Orderly
    <3>2. \A j \in 1 .. Len(c.storage.flushes) - 1 :
            left[j] = IF j < f THEN c.storage.flushes[j] ELSE c.storage.flushes[j + 1]
      BY <2>3, RemoveAtElements
    <3> HIDE DEF left
    <3>3. QED
      BY <2>3, <2>4, <3>1, <3>2
  <2> HIDE DEF left
  <2>6. /\ b.storage.pending = <<>> /\ b.storage.timer = c.storage.timer
        /\ b.storage.flushes = left
        /\ DOMAIN b.storage = {"pending", "timer", "flushes"}
        /\ DOMAIN b = Fields /\ Keeps(c, b, {"storage"})
    BY <2>1, <2>2 DEF Shaped, Keeps, Fields
  <2>7. Shaped(b)
    BY <2>2, <2>4, <2>6 DEF Shaped, Keeps, Fields
  <2>8. Orderly(b)
    BY <2>2, <2>4, <2>5, <2>6 DEF Orderly
  <2>9. b.disk = a.disk /\ Keeps(a, b, {"storage", "disk"})
    BY <2>2, <2>6 DEF Keeps, Fields
  <2>10. Len(left) <= Len(a.storage.flushes)
    BY <1>1, <2>2, <2>4
  <2>11. QED
    BY <2>6, <2>7, <2>8, <2>9, <2>10 DEF b
<1>4. CASE next <= Len(a.storage.pending)
  <2> DEFINE moved == [a.storage.flushes EXCEPT ![f].next = next + 1]
             new == [a.disk EXCEPT ![item.key] = item.value]
  <2>1. /\ b.storage.pending = a.storage.pending /\ b.storage.timer = a.storage.timer
        /\ b.storage.flushes = moved
        /\ DOMAIN b.storage = {"pending", "timer", "flushes"}
        /\ b.disk = new
        /\ DOMAIN b = Fields /\ Keeps(a, b, {"storage", "disk"})
    <3>1. ~(next > Len(a.storage.pending))
      BY <1>1, <1>2, <1>4
    <3>2. b = [a EXCEPT !.disk[item.key] = item.value, !.storage.flushes[f].next = @ + 1]
      BY <3>1 DEF FlushOn
    <3> HIDE DEF item, b
    <3>3. DOMAIN b = Fields /\ Keeps(a, b, {"storage", "disk"}) /\ b.disk = new
      BY <3>2 DEF Shaped, Keeps, Fields
    <3>4. /\ b.storage.pending = a.storage.pending /\ b.storage.timer = a.storage.timer
          /\ DOMAIN b.storage = {"pending", "timer", "flushes"}
      BY <3>2 DEF Shaped, Fields
    <3>5. b.storage.flushes = moved
      BY <3>2 DEF Shaped, Fields
    <3>6. QED
      BY <3>3, <3>4, <3>5
  <2>2. item \in Item
    BY <1>1, <1>2, <1>4
  <2> HIDE DEF item, b
  <2>3. IsStore(new, {None})
    <3>1. item.key \in Keys /\ item.value \in Value[item.key] \cup {None}
      BY <2>2, TheItems
    <3>2. IsStore(a.disk, {None})
      BY DEF Shaped
    <3>3. QED
      BY <3>1, <3>2, StoreTakes
  <2>4. [a.storage.flushes[f] EXCEPT !.next = next + 1] \in Flushing
        /\ [a.storage.flushes[f] EXCEPT !.next = next + 1].next = next + 1
    <3>1. next + 1 \in Nat
      BY <1>1, <1>2
    <3> HIDE DEF next
    <3>2. QED
      BY <1>2, <3>1, FlushingMoves
  <2>5. /\ moved \in Seq(Flushing) /\ Len(moved) = Len(a.storage.flushes)
        /\ \A j \in DOMAIN moved :
             moved[j].next = IF j = f THEN next + 1 ELSE a.storage.flushes[j].next
    <3> DEFINE x == [a.storage.flushes[f] EXCEPT !.next = next + 1]
    <3>1. moved = [a.storage.flushes EXCEPT ![f] = x]
      OBVIOUS
    <3> HIDE DEF x, next, moved
    <3>2. x \in Flushing /\ x.next = next + 1
      BY <2>4 DEF x
    <3>3. QED
      BY <1>1, <3>1, <3>2
  <2> HIDE DEF moved, new
  <2>6. Shaped(b)
    BY <2>1, <2>3, <2>5 DEF Shaped, Keeps, Fields
  <2>7. Orderly(b)
    <3>1. next + 1 \in 1 .. Len(a.storage.pending) + 1
      BY <1>1, <1>2, <1>4
    <3> HIDE DEF next
    <3>2. DOMAIN moved = DOMAIN a.storage.flushes /\ (a.storage.flushes # <<>> => moved # <<>>)
      BY <1>1, <2>5
    <3>3. QED
      BY <1>1, <2>1, <2>5, <3>1, <3>2 DEF Orderly
  <2>8. a.storage.pending # <<>>
    BY <1>1, <1>2, <1>4
  <2>9. QED
    BY <1>1, <2>1, <2>5, <2>6, <2>7, <2>8 DEF b
<1>5. QED
  BY <1>1, <1>2, <1>3, <1>4

\* What the timer starts: nothing when nothing waits, and else one flush more.
LEMMA FlushShape ==
  ASSUME NEW a, Shaped(a), Orderly(a)
  PROVE  /\ Shaped(flush(a)) /\ Orderly(flush(a))
         /\ Keeps(a, flush(a), {"storage", "disk"})
         /\ a.storage.pending # <<>> =>
              Len(flush(a).storage.flushes) <= Len(a.storage.flushes) + 1
         /\ a.storage.pending = <<>> =>
              /\ flush(a).disk = a.disk /\ flush(a).storage.pending = <<>>
              /\ flush(a).storage.flushes = a.storage.flushes
<1> DEFINE b == [a EXCEPT !.storage.timer = FALSE]
           started == [next |-> 1, copy |-> b.storage.pending]
           flushes == Append(b.storage.flushes, started)
           c == [b EXCEPT !.storage.flushes = flushes]
           n == Len(b.storage.flushes) + 1
<1>1. /\ b.storage.pending = a.storage.pending /\ b.storage.timer = FALSE
      /\ b.storage.flushes = a.storage.flushes
      /\ DOMAIN b.storage = {"pending", "timer", "flushes"}
      /\ DOMAIN b = Fields /\ Keeps(a, b, {"storage"})
  BY DEF Shaped, Keeps, Fields
<1>2. flush(a) = IF b.storage.pending = <<>> THEN b ELSE FlushOn(c, n)
  BY DEF flush
<1> HIDE DEF b
<1>3. a.storage.flushes \in Seq(Flushing) /\ a.storage.pending \in Seq(Item) /\ started \in Flushing
  BY <1>1 DEF Shaped, Flushing
<1>4. CASE a.storage.pending = <<>>
  <2>1. Shaped(b)
    BY <1>1 DEF Shaped, Keeps, Fields
  <2>2. Orderly(b)
    BY <1>1, <1>4 DEF Orderly
  <2>3. b.disk = a.disk /\ Keeps(a, b, {"storage", "disk"})
    BY <1>1 DEF Keeps, Fields
  <2>4. QED
    BY <1>1, <1>2, <1>4, <2>1, <2>2, <2>3
<1>5. CASE a.storage.pending # <<>>
  <2>1. started.next = 1
    OBVIOUS
  <2> HIDE DEF started
  <2>2. /\ flushes \in Seq(Flushing) /\ Len(flushes) = n /\ n \in DOMAIN flushes
        /\ \A f \in DOMAIN flushes :
             flushes[f] = IF f = n THEN started ELSE a.storage.flushes[f]
        /\ \A f \in DOMAIN flushes : f # n => f \in DOMAIN a.storage.flushes
    BY <1>1, <1>3
  <2> HIDE DEF flushes
  <2>3. /\ c.storage.pending = a.storage.pending /\ c.storage.timer = FALSE
        /\ c.storage.flushes = flushes
        /\ DOMAIN c.storage = {"pending", "timer", "flushes"}
        /\ DOMAIN c = Fields /\ Keeps(a, c, {"storage"})
    BY <1>1 DEF Keeps, Fields
  <2> HIDE DEF c
  <2>4. Shaped(c)
    BY <2>2, <2>3 DEF Shaped, Keeps, Fields
  <2>5. Orderly(c)
    <3>1. \A f \in DOMAIN flushes : flushes[f].next \in 1 .. Len(a.storage.pending) + 1
      BY <1>3, <2>1, <2>2 DEF Orderly
    <3>2. flushes # <<>>
      BY <2>2
    <3>3. QED
      BY <2>3, <3>1, <3>2 DEF Orderly
  <2> HIDE DEF n
  <2>6. /\ Shaped(FlushOn(c, n)) /\ Orderly(FlushOn(c, n))
        /\ Keeps(c, FlushOn(c, n), {"storage", "disk"})
        /\ Len(FlushOn(c, n).storage.flushes) <= Len(c.storage.flushes)
    BY <2>2, <2>3, <2>4, <2>5, FlushOnShape
  <2>7. Keeps(a, FlushOn(c, n), {"storage", "disk"})
    BY <2>3, <2>6 DEF Keeps
  <2>8. QED
    BY <1>1, <1>2, <1>5, <2>2, <2>3, <2>6, <2>7 DEF n
<1>6. QED
  BY <1>4, <1>5

-----------------------------------------------------------------------------
(* The screens and the window.                                              *)

LEMMA AbortAgrees ==
  ASSUME NEW a, Shaped(a)
  PROVE  /\ Shaped(abortEnterTransition(a)) /\ Agree(abortEnterTransition(a))
         /\ Keeps(a, abortEnterTransition(a), {"screens"})
         /\ Orderly(a) => Orderly(abortEnterTransition(a))
<1> DEFINE b == abortEnterTransition(a)
<1>1. /\ b.screens = [onboarding |-> TRUE, shell |-> FALSE, transitioning |-> FALSE,
                      visible |-> FALSE, entered |-> FALSE, timer |-> FALSE]
      /\ DOMAIN b = Fields /\ Keeps(a, b, {"screens"})
  BY DEF abortEnterTransition, Shaped, Keeps, Fields
<1> HIDE DEF b
<1>2. DOMAIN b.screens = ScreenFields /\ \A x \in ScreenFields : b.screens[x] \in BOOLEAN
  BY <1>1 DEF ScreenFields
<1>3. Shaped(b)
  BY <1>1, <1>2 DEF Shaped, Keeps, Fields
<1>4. Agree(b)
  BY <1>1 DEF Agree
<1>5. Orderly(a) => Orderly(b)
  BY <1>1 DEF Orderly, Keeps, Fields
<1>6. QED
  BY <1>1, <1>3, <1>4, <1>5 DEF b

LEMMA SameWatch ==
  ASSUME NEW a, NEW b, Watched(a) = Watched(b), Shaped(a), Shaped(b)
  PROVE  (Ready(a) <=> Ready(b)) /\ ShellMode(a) = ShellMode(b)
<1>1. /\ Ready(a) = Ready(b) /\ a.screens.transitioning = b.screens.transitioning
      /\ onboardingCompleted(a) = onboardingCompleted(b) /\ a.screens.shell = b.screens.shell
  BY DEF Watched
<1>2. QED
  BY <1>1 DEF ShellMode, Ready, onboardingCompleted

\* The window's effect, whatever changed: the run it starts asks for what is
\* shown and calls off the others.
LEMMA ResizeFollows ==
  ASSUME Shaped(Now), Follows(Now), NEW a, Shaped(a), a.window = window, Ready(Now) => Ready(a)
  PROVE  /\ Shaped(Resize(a)) /\ Follows(Resize(a))
         /\ Keeps(a, Resize(a), {"window"})
<1>1. CASE ~Ready(a)
  <2>1. Resize(a) = a
    BY <1>1 DEF Resize
  <2>2. ~Ready(Now) /\ Now.window = window
    BY <1>1 DEF Now
  <2>3. Follows(a)
    BY <1>1, <2>2 DEF Follows, Shaped
  <2>4. QED
    BY <2>1, <2>3 DEF Keeps
<1>2. CASE Watched(a) = Watched(Now)
  <2>1. Resize(a) = a
    BY <1>2 DEF Resize
  <2>2. (Ready(a) <=> Ready(Now)) /\ ShellMode(a) = ShellMode(Now) /\ a.window = Now.window
    BY <1>2, SameWatch DEF Now
  <2>3. Follows(a)
    BY <2>2 DEF Follows, Shaped
  <2>4. QED
    BY <2>1, <2>3 DEF Keeps
<1>3. CASE Ready(a) /\ Watched(a) # Watched(Now)
  <2> DEFINE called == [i \in DOMAIN a.window.asks |-> [a.window.asks[i] EXCEPT !.live = FALSE]]
             ask == [shell |-> ShellMode(a), live |-> TRUE, hop |-> "area"]
             asks == Append(called, ask)
             b == Resize(a)
  <2>1. b = [a EXCEPT !.window.asks = asks]
    BY <1>3 DEF Resize
  <2>2. ShellMode(a) \in BOOLEAN
    BY DEF ShellMode
  <2>3. ask \in Ask /\ ask.live = TRUE /\ ask.shell = ShellMode(a)
    BY <2>2 DEF Ask
  <2>4. called \in Seq(Ask) /\ \A i \in DOMAIN called : called[i].live = FALSE
    <3> DEFINE off(i) == [a.window.asks[i] EXCEPT !.live = FALSE]
    <3>1. a.window.asks \in Seq(Ask)
      BY DEF Shaped
    <3>2. \A i \in DOMAIN a.window.asks : off(i) \in Ask /\ off(i).live = FALSE
      <4>1. \A x \in Ask : [x EXCEPT !.live = FALSE] \in Ask /\ [x EXCEPT !.live = FALSE].live = FALSE
        BY DEF Ask
      <4>2. \A i \in DOMAIN a.window.asks : a.window.asks[i] \in Ask
        BY <3>1
      <4>3. QED
        BY <4>1, <4>2
    <3>3. called = [i \in DOMAIN a.window.asks |-> off(i)]
      OBVIOUS
    <3>4. DOMAIN a.window.asks = 1 .. Len(a.window.asks) /\ Len(a.window.asks) \in Nat
      BY <3>1
    <3> HIDE DEF off, called
    <3>5. called \in [1 .. Len(a.window.asks) -> Ask]
      BY <3>2, <3>3, <3>4
    <3>6. called \in Seq(Ask)
      BY <3>4, <3>5
    <3>7. QED
      BY <3>2, <3>3, <3>6
  <2> HIDE DEF called, ask
  <2>5. /\ asks \in Seq(Ask) /\ asks # <<>> /\ asks[Len(asks)] = ask
        /\ \A i \in 1 .. Len(asks) - 1 : ~asks[i].live
    BY <2>3, <2>4
  <2> HIDE DEF asks, b
  <2>6. /\ b.window.asks = asks /\ b.window.shell = a.window.shell
        /\ DOMAIN b.window = {"shell", "asks"}
        /\ DOMAIN b = Fields /\ Keeps(a, b, {"window"})
    BY <2>1 DEF Shaped, Keeps, Fields
  <2>7. Shaped(b)
    BY <2>5, <2>6 DEF Shaped, Keeps, Fields
  <2>8. (Ready(b) <=> Ready(a)) /\ (ShellMode(b) <=> ShellMode(a))
    BY <2>6 DEF Ready, ShellMode, onboardingCompleted, Keeps, Fields
  <2>9. ask.live /\ (ask.shell <=> ShellMode(b)) /\ ask.shell \in BOOLEAN
    BY <2>2, <2>3, <2>8
  <2>10. Ready(b) /\ b.window.asks # <<>>
    BY <1>3, <2>5, <2>6, <2>8
  <2>11. b.window.asks[Len(b.window.asks)].live
    BY <2>5, <2>6, <2>9
  <2>12. b.window.asks[Len(b.window.asks)].shell = ShellMode(b)
    <3>1. b.window.asks[Len(b.window.asks)] = ask
      BY <2>5, <2>6
    <3>2. ask.shell = ShellMode(b)
      BY <2>3, <2>8 DEF ShellMode
    <3>3. QED
      BY <3>1, <3>2
  <2>13. \A i \in 1 .. Len(b.window.asks) - 1 : ~b.window.asks[i].live
    BY <2>5, <2>6
  <2>14. Follows(b)
    BY <2>10, <2>11, <2>12, <2>13 DEF Follows
  <2>15. QED
    BY <2>6, <2>7, <2>14 DEF b
<1>4. QED
  BY <1>1, <1>2, <1>3

\* What every step ends with: the screens are rendered and their effects run.
LEMMA RenderedGood ==
  ASSUME Good(Now), NEW a, Shaped(a), Orderly(a), Clears(a),
         Agree(a) \/ (onboardingCompleted(Now) /\ ~onboardingCompleted(a)),
         a.window = window, Ready(Now) => Ready(a)
  PROVE  Good(Rendered(a)) /\ Keeps(a, Rendered(a), {"screens", "window"})
<1> DEFINE b == IF onboardingCompleted(Now) /\ ~onboardingCompleted(a)
                THEN abortEnterTransition(a) ELSE a
<1>1. Rendered(a) = Resize(b)
  BY DEF Rendered
<1>2. Shaped(b) /\ Orderly(b) /\ Agree(b) /\ Keeps(a, b, {"screens"})
  BY AbortAgrees DEF Keeps
<1> HIDE DEF b
<1>3. b.window = window /\ (Ready(Now) => Ready(b)) /\ Clears(b)
  BY <1>2 DEF Keeps, Fields, Ready, Clears
<1>4. Shaped(Resize(b)) /\ Follows(Resize(b)) /\ Keeps(b, Resize(b), {"window"})
  BY <1>2, <1>3, ResizeFollows DEF Good
<1>5. Orderly(Resize(b)) /\ Agree(Resize(b)) /\ Clears(Resize(b))
  BY <1>2, <1>3, <1>4 DEF Orderly, Agree, Clears, onboardingCompleted, Keeps, Fields
<1>6. Keeps(a, Resize(b), {"screens", "window"})
  BY <1>2, <1>4 DEF Keeps
<1>7. QED
  BY <1>1, <1>4, <1>5, <1>6 DEF Good

\* Good speaks of the parts only.
LEMMA GoodByParts ==
  ASSUME NEW a, NEW b, Good(b), DOMAIN a = Fields, Keeps(b, a, {})
  PROVE  Good(a)
<1>1. /\ a.stores = b.stores /\ a.boot = b.boot /\ a.storage = b.storage /\ a.disk = b.disk
      /\ a.resets = b.resets /\ a.screens = b.screens /\ a.window = b.window
      /\ a.touched = b.touched
  BY DEF Keeps, Fields
<1>2. Shaped(a)
  BY <1>1 DEF Good, Shaped
<1>3. Orderly(a)
  BY <1>1 DEF Good, Orderly
<1>4. Agree(a)
  BY <1>1 DEF Good, Agree, onboardingCompleted
<1>5. Follows(a)
  <2>1. (Ready(a) <=> Ready(b)) /\ ShellMode(a) = ShellMode(b)
    BY <1>1 DEF Ready, ShellMode, onboardingCompleted
  <2>2. QED
    BY <1>1, <2>1 DEF Good, Follows
<1>6. Clears(a)
  BY <1>1 DEF Good, Clears
<1>7. QED
  BY <1>2, <1>3, <1>4, <1>5, <1>6 DEF Good

\* The step to a state that is good once it is rendered.
LEMMA BecomeGood ==
  ASSUME NEW a, Become(a), Good(Rendered(a)), Keeps(a, Rendered(a), {"screens", "window"})
  PROVE  Good(Now)' /\ storage'.flushes = a.storage.flushes /\ resets' = a.resets
<1>1. DOMAIN Now' = Fields
  BY DEF Now, Fields
<1>2. Keeps(Rendered(a), Now', {})
  BY DEF Become, Now, Keeps, Fields
<1>3. Good(Now')
  BY <1>1, <1>2, GoodByParts
<1>4. Good(Now)'
  BY <1>3
<1>5. QED
  BY <1>4 DEF Become, Keeps, Fields

-----------------------------------------------------------------------------
(* The steps.                                                               *)

LEMMA StepGood ==
  ASSUME Invariant, NEW a, Become(a), Shaped(a), Orderly(a), Clears(a),
         Agree(a) \/ (onboardingCompleted(Now) /\ ~onboardingCompleted(a)),
         a.window = window, Ready(Now) => Ready(a),
         Len(a.storage.flushes) <= MaxFlushes, Len(a.resets) <= MaxResets
  PROVE  Invariant'
<1>1. Good(Now)
  BY DEF Invariant
<1>2. Good(Rendered(a)) /\ Keeps(a, Rendered(a), {"screens", "window"})
  BY <1>1, RenderedGood
<1>3. Good(Now)' /\ storage'.flushes = a.storage.flushes /\ resets' = a.resets
  BY <1>2, BecomeGood
<1>4. QED
  BY <1>3 DEF Invariant, Bounded

LEMMA NowParts ==
  /\ DOMAIN Now = Fields
  /\ Now.stores = stores /\ Now.boot = boot /\ Now.storage = storage /\ Now.disk = disk
  /\ Now.resets = resets /\ Now.screens = screens /\ Now.window = window /\ Now.touched = touched
  BY DEF Now, Fields

LEMMA SessionInit == ASSUME Init PROVE Invariant
<1> USE DEF Init
<1>1. IsStore(stores, {})
  BY TheKeys DEF IsStore, Defaults, Value
<1>2. IsStore(disk, {None})
  BY TheKeys DEF IsStore, Value
<1>3. /\ storage.pending = << >> /\ storage.flushes = << >> /\ storage.timer = FALSE
      /\ DOMAIN storage = {"pending", "timer", "flushes"}
      /\ DOMAIN boot = {"reads", "waiting"} /\ boot.reads = disk /\ boot.waiting = Keys
  OBVIOUS
<1>4. DOMAIN screens = ScreenFields /\ \A x \in ScreenFields : screens[x] \in BOOLEAN
  BY DEF ScreenFields
<1>5. /\ screens.onboarding = TRUE /\ screens.shell = FALSE
      /\ screens.transitioning = FALSE /\ screens.timer = FALSE
  OBVIOUS
<1>6. /\ DOMAIN window = {"shell", "asks"} /\ window.shell = FALSE /\ window.asks = << >>
      /\ resets = << >> /\ touched = TRUE
  OBVIOUS
<1>7. /\ << >> \in Seq(Item) /\ << >> \in Seq(Flushing) /\ << >> \in Seq(Resetting)
      /\ << >> \in Seq(Ask) /\ Len(<< >>) = 0
  OBVIOUS
<1> USE DEF Init
<1>8. Shaped(Now)
  BY <1>1, <1>2, <1>3, <1>4, <1>6, <1>7, NowParts DEF Shaped
<1>9. Orderly(Now)
  BY <1>3, NowParts DEF Orderly
<1>10. Agree(Now)
  BY <1>5, NowParts DEF Agree
<1>11. Follows(Now)
  <2>1. ~Ready(Now)
    BY <1>3, NowParts, TheKeys DEF Ready
  <2>2. Now.window.asks = << >> /\ 1 .. Len(Now.window.asks) - 1 = {}
    BY <1>6, <1>7, NowParts
  <2>3. QED
    BY <2>1, <2>2 DEF Follows
<1>12. Clears(Now)
  BY <1>6, NowParts DEF Clears
<1>13. Bounded
  BY <1>3, <1>6, <1>7, SessionBounds DEF Bounded
<1>14. QED
  BY <1>8, <1>9, <1>10, <1>11, <1>12, <1>13 DEF Invariant, Good

LEMMA CompletesOnboarding ==
  ASSUME NEW a, Shaped(a), Orderly(a)
  PROVE  /\ Shaped(completeOnboarding(a)) /\ Orderly(completeOnboarding(a))
         /\ Keeps(a, completeOnboarding(a), {"stores", "storage", "touched"})
         /\ onboardingCompleted(completeOnboarding(a))
         /\ completeOnboarding(a).touched = TRUE
         /\ completeOnboarding(a).storage.flushes = a.storage.flushes
<1> DEFINE b == Set(a, "session", "completed")
           c == completeOnboarding(a)
<1>1. "session" \in Keys /\ "completed" \in Value["session"]
  BY TheKeys DEF Value
<1>2. /\ Shaped(b) /\ Orderly(b) /\ Keeps(a, b, {"stores", "storage"})
      /\ b.stores["session"] = "completed" /\ b.storage.flushes = a.storage.flushes
  BY <1>1, SetStores
<1>3. c = [b EXCEPT !.touched = TRUE]
  BY DEF completeOnboarding
<1> HIDE DEF b, c
<1>4. Keeps(b, c, {"touched"}) /\ DOMAIN c = Fields /\ c.touched = TRUE
  BY <1>2, <1>3 DEF Shaped, Keeps, Fields
<1>5. Shaped(c)
  BY <1>2, <1>4 DEF Shaped, Keeps, Fields
<1>6. Orderly(c)
  BY <1>2, <1>4 DEF Orderly, Keeps, Fields
<1>7. onboardingCompleted(c) /\ c.storage.flushes = a.storage.flushes
  BY <1>2, <1>4 DEF onboardingCompleted, Keeps, Fields
<1>8. Keeps(a, c, {"stores", "storage", "touched"})
  BY <1>2, <1>4 DEF Keeps
<1>9. QED
  BY <1>4, <1>5, <1>6, <1>7, <1>8 DEF c

LEMMA EnterStep == ASSUME Invariant, handleEnter PROVE Invariant'
<1>1. PICK instant \in BOOLEAN : beginEnter(instant)
  BY DEF handleEnter
<1>2. /\ Shaped(Now) /\ Orderly(Now) /\ Agree(Now) /\ Clears(Now)
      /\ Len(storage.flushes) <= MaxFlushes /\ Len(resets) <= MaxResets
  BY DEF Invariant, Good, Bounded
<1>3. CASE screens.entered \/ onboardingCompleted(Now) \/ instant
  <2> DEFINE b == completeOnboarding(Now)
             a == [b EXCEPT !.screens =
                     [@ EXCEPT !.entered = TRUE, !.onboarding = FALSE, !.shell = TRUE,
                               !.visible = TRUE, !.transitioning = FALSE]]
  <2>1. Become(a)
    BY <1>1, <1>3 DEF beginEnter
  <2>2. /\ Shaped(b) /\ Orderly(b) /\ Keeps(Now, b, {"stores", "storage", "touched"})
        /\ onboardingCompleted(b) /\ b.touched = TRUE
        /\ b.storage.flushes = Now.storage.flushes
    BY <1>2, CompletesOnboarding
  <2> HIDE DEF b
  <2>3. /\ DOMAIN a = Fields /\ Keeps(b, a, {"screens"})
        /\ DOMAIN a.screens = ScreenFields /\ \A x \in ScreenFields : a.screens[x] \in BOOLEAN
        /\ a.screens.onboarding = FALSE /\ a.screens.shell = TRUE
        /\ a.screens.transitioning = FALSE
    BY <2>2 DEF Shaped, Keeps, Fields, ScreenFields
  <2> HIDE DEF a
  <2>4. Shaped(a) /\ Orderly(a)
    BY <2>2, <2>3 DEF Shaped, Orderly, Keeps, Fields
  <2>5. Agree(a)
    BY <2>2, <2>3 DEF Agree, onboardingCompleted, Keeps, Fields
  <2>6. Clears(a) /\ a.window = window /\ (Ready(Now) => Ready(a))
        /\ a.storage.flushes = storage.flushes /\ a.resets = resets
    BY <2>2, <2>3, NowParts DEF Clears, Ready, Keeps, Fields
  <2>7. QED
    BY <1>2, <2>1, <2>4, <2>5, <2>6, StepGood
<1>4. CASE ~(screens.entered \/ onboardingCompleted(Now) \/ instant)
  <2> DEFINE a == [Now EXCEPT !.screens =
                     [@ EXCEPT !.entered = TRUE, !.transitioning = TRUE, !.shell = TRUE,
                               !.visible = FALSE, !.timer = TRUE]]
  <2>1. Become(a) /\ screens.onboarding
    BY <1>1, <1>4 DEF beginEnter
  <2>2. /\ DOMAIN a = Fields /\ Keeps(Now, a, {"screens"})
        /\ DOMAIN a.screens = ScreenFields /\ \A x \in ScreenFields : a.screens[x] \in BOOLEAN
        /\ a.screens.onboarding = screens.onboarding /\ a.screens.shell = TRUE
        /\ a.screens.transitioning = TRUE /\ a.screens.timer = TRUE
    BY <1>2, NowParts DEF Shaped, Keeps, Fields, ScreenFields
  <2> HIDE DEF a
  <2>3. Shaped(a) /\ Orderly(a)
    BY <1>2, <2>2 DEF Shaped, Orderly, Keeps, Fields
  <2>4. Agree(a)
    BY <2>1, <2>2 DEF Agree
  <2>5. Clears(a) /\ a.window = window /\ (Ready(Now) => Ready(a))
        /\ a.storage.flushes = storage.flushes /\ a.resets = resets
    BY <1>2, <2>2, NowParts DEF Clears, Ready, Keeps, Fields
  <2>6. QED
    BY <1>2, <2>1, <2>3, <2>4, <2>5, StepGood
<1>5. QED
  BY <1>3, <1>4

LEMMA ToggleStep == ASSUME Invariant, toggle PROVE Invariant'
<1> DEFINE b == Set(Now, "theme", nextThemeMode)
           a == [b EXCEPT !.touched = TRUE]
<1>1. /\ Shaped(Now) /\ Orderly(Now) /\ Agree(Now)
      /\ Len(storage.flushes) <= MaxFlushes /\ Len(resets) <= MaxResets
  BY DEF Invariant, Good, Bounded
<1>2. "theme" \in Keys /\ "session" \in Keys /\ nextThemeMode \in Value["theme"]
  BY TheKeys DEF Value, nextThemeMode
<1>3. /\ Shaped(b) /\ Orderly(b) /\ Keeps(Now, b, {"stores", "storage"})
      /\ b.stores["session"] = stores["session"] /\ b.storage.flushes = storage.flushes
  BY <1>1, <1>2, SetStores, NowParts
<1>4. Become(a)
  BY DEF toggle
<1> HIDE DEF b
<1>5. Keeps(b, a, {"touched"}) /\ DOMAIN a = Fields /\ a.touched = TRUE
  BY <1>3 DEF Shaped, Keeps, Fields
<1> HIDE DEF a
<1>6. Shaped(a) /\ Orderly(a)
  BY <1>3, <1>5 DEF Shaped, Orderly, Keeps, Fields
<1>7. Agree(a)
  BY <1>1, <1>3, <1>5, NowParts DEF Agree, onboardingCompleted, Keeps, Fields
<1>8. Clears(a) /\ a.window = window /\ (Ready(Now) => Ready(a))
      /\ a.storage.flushes = storage.flushes /\ a.resets = resets
  BY <1>3, <1>5, NowParts DEF Clears, Ready, Keeps, Fields
<1>9. QED
  BY <1>1, <1>4, <1>6, <1>7, <1>8, StepGood

\* A round of deletions starts: every key that is still stored is on its list.
LEMMA DeletingClears ==
  ASSUME NEW a, Shaped(a), Orderly(a), NEW round \in {1, 2}
  PROVE  /\ Shaped(Deleting(a, round)) /\ Orderly(Deleting(a, round))
         /\ Keeps(a, Deleting(a, round), {"storage", "disk", "resets"})
         /\ Deleting(a, round).storage.pending = <<>>
         /\ Len(Deleting(a, round).storage.flushes) = Len(a.storage.flushes)
         /\ Len(Deleting(a, round).resets) = Len(a.resets) + 1
         /\ \A k \in Keys :
              Deleting(a, round).disk[k] # None =>
                \E r \in DOMAIN Deleting(a, round).resets :
                  k \in ToSet(Deleting(a, round).resets[r].keys)
<1> DEFINE c == clearAll(a)
           b == Deleting(a, round)
           reset == [keys |-> Tail(SESSION_PERSIST_KEYS), round |-> round]
           first == Head(SESSION_PERSIST_KEYS)
<1>1. /\ Shaped(c) /\ Orderly(c) /\ Keeps(a, c, {"storage"}) /\ c.storage.pending = <<>>
      /\ Len(c.storage.flushes) = Len(a.storage.flushes)
  BY ClearAllShape
<1>2. b = [c EXCEPT !.disk[first] = None, !.resets = Append(@, reset)]
  BY DEF Deleting
<1>3. SESSION_PERSIST_KEYS # <<>>
  BY DEF SESSION_PERSIST_KEYS
<1>4. /\ first \in Keys /\ Tail(SESSION_PERSIST_KEYS) \in Seq(Keys)
      /\ \A k \in Keys : k = first \/ k \in ToSet(Tail(SESSION_PERSIST_KEYS))
  BY <1>3, TheKeys, HeadOrTail DEF Keys
<1>5. reset \in Resetting /\ reset.keys = Tail(SESSION_PERSIST_KEYS)
  BY <1>4 DEF Resetting
<1> HIDE DEF b, c, reset, first
<1>6. /\ DOMAIN b = Fields /\ Keeps(c, b, {"disk", "resets"})
      /\ b.disk = [c.disk EXCEPT ![first] = None] /\ b.resets = Append(c.resets, reset)
  BY <1>1, <1>2 DEF Shaped, Keeps, Fields
<1>7. IsStore(b.disk, {None}) /\ b.disk[first] = None
  <2>1. None \in Value[first] \cup {None} /\ IsStore(c.disk, {None})
    BY <1>1 DEF Shaped
  <2>2. QED
    BY <1>4, <1>6, <2>1, StoreTakes
<1>8. /\ b.resets \in Seq(Resetting) /\ Len(b.resets) = Len(c.resets) + 1
      /\ Len(b.resets) \in DOMAIN b.resets /\ b.resets[Len(b.resets)] = reset
  <2>1. c.resets \in Seq(Resetting)
    BY <1>1 DEF Shaped
  <2>2. QED
    BY <1>5, <1>6, <2>1
<1>9. Shaped(b)
  BY <1>1, <1>6, <1>7, <1>8 DEF Shaped, Keeps, Fields
<1>10. Orderly(b)
  BY <1>1, <1>6 DEF Orderly, Keeps, Fields
<1>11. Keeps(a, b, {"storage", "disk", "resets"})
  BY <1>1, <1>6 DEF Keeps
<1>12. b.storage = c.storage /\ c.resets = a.resets
  BY <1>1, <1>6 DEF Keeps, Fields
<1>13. ASSUME NEW k \in Keys, b.disk[k] # None
       PROVE  \E r \in DOMAIN b.resets : k \in ToSet(b.resets[r].keys)
  <2>1. k \in ToSet(Tail(SESSION_PERSIST_KEYS))
    BY <1>4, <1>7, <1>13
  <2>2. QED
    BY <1>5, <1>8, <2>1
<1>14. QED
  BY <1>1, <1>8, <1>9, <1>10, <1>11, <1>12, <1>13 DEF b

LEMMA ResetStep == ASSUME Invariant, handleReset PROVE Invariant'
<1> DEFINE a0 == abortEnterTransition(Now)
           a1 == Set(a0, "session", Defaults["session"])
           a2 == Set(a1, "theme", Defaults["theme"])
           a3 == Deleting(a2, 1)
           a == [a3 EXCEPT !.touched = FALSE]
<1>1. /\ Shaped(Now) /\ Orderly(Now)
      /\ Len(storage.flushes) <= MaxFlushes /\ Len(resets) < MaxResets
  BY DEF Invariant, Good, Bounded, handleReset
<1>2. Become(a)
  BY DEF handleReset
<1>3. /\ "session" \in Keys /\ "theme" \in Keys
      /\ Defaults["session"] \in Value["session"] /\ Defaults["theme"] \in Value["theme"]
  BY TheKeys DEF Defaults, Value
<1>4. Shaped(a0) /\ Orderly(a0) /\ Agree(a0) /\ Keeps(Now, a0, {"screens"})
  BY <1>1, AbortAgrees
<1> HIDE DEF a0
<1>5. /\ Shaped(a1) /\ Orderly(a1) /\ Keeps(a0, a1, {"stores", "storage"})
      /\ a1.storage.flushes = a0.storage.flushes
  BY <1>3, <1>4, SetStores
<1> HIDE DEF a1
<1>6. /\ Shaped(a2) /\ Orderly(a2) /\ Keeps(a1, a2, {"stores", "storage"})
      /\ a2.storage.flushes = a1.storage.flushes
  BY <1>3, <1>5, SetStores
<1> HIDE DEF a2
<1>7. /\ Shaped(a3) /\ Orderly(a3) /\ Keeps(a2, a3, {"storage", "disk", "resets"})
      /\ a3.storage.pending = <<>>
      /\ Len(a3.storage.flushes) = Len(a2.storage.flushes)
      /\ Len(a3.resets) = Len(a2.resets) + 1
      /\ \A k \in Keys : a3.disk[k] # None => \E r \in DOMAIN a3.resets : k \in ToSet(a3.resets[r].keys)
  BY <1>6, DeletingClears
<1> HIDE DEF a3
<1>8. Keeps(a3, a, {"touched"}) /\ DOMAIN a = Fields /\ a.touched = FALSE
  BY <1>7 DEF Shaped, Keeps, Fields
<1> HIDE DEF a
<1>9. Shaped(a) /\ Orderly(a) /\ Clears(a)
  BY <1>7, <1>8 DEF Shaped, Orderly, Clears, Keeps, Fields
<1>10. a.screens = a0.screens /\ a.window = window /\ a.boot = boot
       /\ a2.resets = resets /\ a0.storage = storage /\ a.storage = a3.storage /\ a.resets = a3.resets
  BY <1>4, <1>5, <1>6, <1>7, <1>8, NowParts DEF Keeps, Fields
<1>11. Agree(a)
  <2>1. a0.screens.onboarding /\ ~a0.screens.shell /\ ~a0.screens.transitioning /\ ~a0.screens.timer
    BY <1>1, NowParts DEF a0, abortEnterTransition, Shaped, Fields
  <2>2. QED
    BY <1>10, <2>1 DEF Agree
<1>12. Len(a.resets) <= MaxResets
  <2>1. resets \in Seq(Resetting)
    BY <1>1, NowParts DEF Shaped
  <2>2. Len(a.resets) = Len(resets) + 1
    BY <1>7, <1>10
  <2>3. QED
    BY <1>1, <2>1, <2>2, SessionBounds
<1>13. Ready(Now) => Ready(a)
  BY <1>10, NowParts DEF Ready
<1>14. QED
  BY <1>1, <1>2, <1>5, <1>6, <1>7, <1>9, <1>10, <1>11, <1>12, <1>13, StepGood

LEMMA HydrateStep == ASSUME Invariant, NEW k \in Keys, Hydrate(k) PROVE Invariant'
<1> DEFINE read == boot.reads[k]
           value == IF read = None THEN stores[k] ELSE read
           a0 == [Now EXCEPT !.boot.waiting = @ \ {k},
                             !.stores[k] = IF read = None THEN @ ELSE read]
           a1 == IF k = "session" THEN setItem(a0, k) ELSE a0
           a == [a1 EXCEPT !.touched = TRUE]
<1>1. /\ Shaped(Now) /\ Orderly(Now) /\ Agree(Now)
      /\ Len(storage.flushes) <= MaxFlushes /\ Len(resets) <= MaxResets
  BY DEF Invariant, Good, Bounded
<1>2. Become(a)
  BY DEF Hydrate
<1>3. /\ DOMAIN a0 = Fields /\ Keeps(Now, a0, {"boot", "stores"})
      /\ DOMAIN a0.boot = {"reads", "waiting"} /\ a0.boot.reads = boot.reads
      /\ a0.boot.waiting = boot.waiting \ {k}
      /\ a0.stores = [stores EXCEPT ![k] = value]
  BY <1>1, NowParts DEF Shaped, Keeps, Fields
<1>4. value \in Value[k] \cup {}
  BY <1>1, NowParts DEF Shaped, IsStore
<1> HIDE DEF a0, value
<1>5. /\ IsStore(a0.stores, {}) /\ a0.stores[k] = value
      /\ \A other \in Keys : other # k => a0.stores[other] = stores[other]
  <2>1. IsStore(stores, {})
    BY <1>1, NowParts DEF Shaped
  <2>2. QED
    BY <1>3, <1>4, <2>1, StoreTakes
<1>6. Shaped(a0) /\ Orderly(a0)
  BY <1>1, <1>3, <1>5, NowParts DEF Shaped, Orderly, Keeps, Fields
<1>7. /\ Shaped(a1) /\ Orderly(a1) /\ Keeps(a0, a1, {"storage"})
      /\ a1.storage.flushes = a0.storage.flushes
  BY <1>6, SetItemStores DEF Keeps
<1> HIDE DEF a1
<1>8. Keeps(a1, a, {"touched"}) /\ DOMAIN a = Fields /\ a.touched = TRUE
  BY <1>7 DEF Shaped, Keeps, Fields
<1> HIDE DEF a
<1>9. Shaped(a) /\ Orderly(a) /\ Clears(a)
  BY <1>7, <1>8 DEF Shaped, Orderly, Clears, Keeps, Fields
<1>10. /\ a.screens = screens /\ a.window = window /\ a.stores = a0.stores /\ a.boot = a0.boot
       /\ a.storage.flushes = storage.flushes /\ a.resets = resets
  BY <1>3, <1>7, <1>8, NowParts DEF Keeps, Fields
<1>11. Agree(a) \/ (onboardingCompleted(Now) /\ ~onboardingCompleted(a))
  <2>1. CASE onboardingCompleted(a)
    BY <1>1, <1>10, <2>1, NowParts DEF Agree
  <2>2. CASE ~onboardingCompleted(a) /\ ~onboardingCompleted(Now)
    BY <1>1, <1>10, <2>2, NowParts DEF Agree
  <2>3. QED
    BY <2>1, <2>2
<1>12. Ready(Now) => Ready(a)
  BY <1>3, <1>10, NowParts DEF Ready
<1>13. QED
  BY <1>1, <1>2, <1>9, <1>10, <1>11, <1>12, StepGood

\* The steps of the storage leave the stores, the screens and the window alone.
LEMMA StorageStep ==
  ASSUME Invariant, NEW a, Become(a), Shaped(a), Orderly(a), Clears(a),
         Keeps(Now, a, {"storage", "disk", "resets"}),
         Len(a.storage.flushes) <= MaxFlushes, Len(a.resets) <= MaxResets
  PROVE  Invariant'
<1>1. Agree(Now)
  BY DEF Invariant, Good
<1>2. Agree(a) /\ a.window = window /\ (Ready(Now) => Ready(a))
  BY <1>1, NowParts DEF Agree, onboardingCompleted, Ready, Keeps, Fields
<1>3. QED
  BY <1>2, StepGood

LEMMA FlushStep == ASSUME Invariant, FlushTimer \/ SetAnswered PROVE Invariant'
<1>1. /\ Shaped(Now) /\ Orderly(Now) /\ Clears(Now)
      /\ Len(storage.flushes) <= MaxFlushes /\ Len(resets) <= MaxResets
  BY DEF Invariant, Good, Bounded
<1>2. storage.flushes \in Seq(Flushing)
  BY <1>1, NowParts DEF Shaped
<1>3. CASE FlushTimer
  <2>1. Become(flush(Now)) /\ (storage.pending # <<>> => Len(storage.flushes) < MaxFlushes)
    BY <1>3 DEF FlushTimer
  <2> DEFINE a == flush(Now)
  <2>2. /\ Shaped(a) /\ Orderly(a) /\ Keeps(Now, a, {"storage", "disk"})
        /\ storage.pending # <<>> => Len(a.storage.flushes) <= Len(storage.flushes) + 1
        /\ storage.pending = <<>> =>
             a.disk = disk /\ a.storage.pending = <<>> /\ a.storage.flushes = storage.flushes
    BY <1>1, FlushShape, NowParts
  <2> HIDE DEF a
  <2>3. a.storage.flushes \in Seq(Flushing)
    BY <2>2 DEF Shaped
  <2>4. Len(a.storage.flushes) <= MaxFlushes
    BY <1>1, <1>2, <2>1, <2>2, <2>3, SessionBounds
  <2>5. a.resets = resets /\ a.touched = touched
    BY <2>2, NowParts DEF Keeps, Fields
  <2>6. Clears(a)
    BY <1>1, <2>2, <2>5, NowParts DEF Clears
  <2>7. Keeps(Now, a, {"storage", "disk", "resets"})
    BY <2>2 DEF Keeps
  <2>8. QED
    BY <1>1, <2>1, <2>2, <2>4, <2>5, <2>6, <2>7, StorageStep DEF a
<1>4. CASE SetAnswered
  <2>1. PICK f \in DOMAIN storage.flushes : Become(FlushOn(Now, f))
    BY <1>4 DEF SetAnswered
  <2> DEFINE a == FlushOn(Now, f)
  <2>2. /\ Shaped(a) /\ Orderly(a) /\ Keeps(Now, a, {"storage", "disk"})
        /\ Len(a.storage.flushes) <= Len(storage.flushes)
        /\ storage.pending = <<>> => a.disk = disk /\ a.storage.pending = <<>>
    BY <1>1, <2>1, FlushOnShape, NowParts
  <2> HIDE DEF a
  <2>3. a.storage.flushes \in Seq(Flushing)
    BY <2>2 DEF Shaped
  <2>4. Len(a.storage.flushes) <= MaxFlushes
    BY <1>1, <1>2, <2>2, <2>3, SessionBounds
  <2>5. a.resets = resets /\ a.touched = touched
    BY <2>2, NowParts DEF Keeps, Fields
  <2>6. Clears(a)
    BY <1>1, <2>2, <2>5, NowParts DEF Clears
  <2>7. Keeps(Now, a, {"storage", "disk", "resets"})
    BY <2>2 DEF Keeps
  <2>8. QED
    BY <1>1, <2>1, <2>2, <2>4, <2>5, <2>6, <2>7, StorageStep DEF a
<1>5. QED
  BY <1>3, <1>4

LEMMA DeleteStep == ASSUME Invariant, DeleteAnswered PROVE Invariant'
<1>1. /\ Shaped(Now) /\ Orderly(Now) /\ Clears(Now)
      /\ Len(storage.flushes) <= MaxFlushes /\ Len(resets) <= MaxResets
      /\ resets \in Seq(Resetting) /\ IsStore(disk, {None})
  <2>1. /\ Shaped(Now) /\ Orderly(Now) /\ Clears(Now)
        /\ Len(storage.flushes) <= MaxFlushes /\ Len(resets) <= MaxResets
    BY DEF Invariant, Good, Bounded
  <2>2. QED
    BY <2>1, NowParts DEF Shaped
<1>2. PICK r \in DOMAIN resets :
        LET rest == RemoveAt(resets, r)
            left == resets[r].keys
        IN  IF left # <<>>
            THEN Become([Now EXCEPT !.disk[Head(left)] = None, !.resets[r].keys = Tail(left)])
            ELSE IF resets[r].round = 1 THEN Become(Deleting([Now EXCEPT !.resets = rest], 2))
            ELSE Become([Now EXCEPT !.resets = rest])
  BY DEF DeleteAnswered
<1> DEFINE left == resets[r].keys
           rest == RemoveAt(resets, r)
<1>3. /\ resets[r] \in Resetting /\ left \in Seq(Keys) /\ r \in 1 .. Len(resets)
      /\ DOMAIN resets = 1 .. Len(resets)
  <2>1. DOMAIN resets = 1 .. Len(resets) /\ resets[r] \in Resetting
    BY <1>1
  <2>2. QED
    BY <2>1 DEF Resetting
<1>4. ~touched =>
        /\ storage.pending = <<>>
        /\ \A k \in Keys : disk[k] # None => \E q \in DOMAIN resets : k \in ToSet(resets[q].keys)
  BY <1>1, NowParts DEF Clears
<1>5. CASE left # <<>>
  <2> DEFINE first == Head(left)
             a == [Now EXCEPT !.disk[first] = None, !.resets[r].keys = Tail(left)]
             x == [resets[r] EXCEPT !.keys = Tail(left)]
  <2>1. Become(a)
    BY <1>2, <1>5
  <2>2. /\ first \in Keys /\ Tail(left) \in Seq(Keys)
        /\ \A k \in ToSet(left) : k = first \/ k \in ToSet(Tail(left))
    BY <1>3, <1>5, HeadOrTail
  <2> HIDE DEF first
  <2>3. /\ DOMAIN a = Fields /\ Keeps(Now, a, {"disk", "resets"})
        /\ a.disk = [disk EXCEPT ![first] = None] /\ a.resets = [resets EXCEPT ![r] = x]
    BY NowParts DEF Keeps, Fields
  <2>4. x \in Resetting /\ x.keys = Tail(left)
    BY <1>3, <2>2 DEF Resetting
  <2> HIDE DEF a, x
  <2>5. /\ IsStore(a.disk, {None}) /\ a.disk[first] = None
        /\ \A k \in Keys : k # first => a.disk[k] = disk[k]
    <3> DEFINE new == [disk EXCEPT ![first] = None]
    <3>1. None \in Value[first] \cup {None} /\ IsStore(disk, {None})
      BY <1>1
    <3>2. /\ IsStore(new, {None}) /\ new[first] = None
          /\ \A other \in Keys : other # first => new[other] = disk[other]
      BY <2>2, <3>1, StoreTakes
    <3>3. QED
      BY <2>3, <3>2
  <2>6. /\ a.resets \in Seq(Resetting) /\ Len(a.resets) = Len(resets)
        /\ DOMAIN a.resets = DOMAIN resets /\ a.resets[r] = x
        /\ \A q \in DOMAIN resets : q # r => a.resets[q] = resets[q]
    BY <1>1, <1>3, <2>3, <2>4
  <2>7. Shaped(a) /\ Orderly(a)
    BY <1>1, <2>3, <2>5, <2>6, NowParts DEF Shaped, Orderly, Keeps, Fields
  <2>8. a.storage = storage /\ a.touched = touched
    BY <2>3, NowParts DEF Keeps, Fields
  <2>9. ASSUME ~touched, NEW k \in Keys, a.disk[k] # None
        PROVE  \E q \in DOMAIN a.resets : k \in ToSet(a.resets[q].keys)
    <3>1. k # first /\ disk[k] # None
      BY <2>5, <2>9
    <3>2. PICK q \in DOMAIN resets : k \in ToSet(resets[q].keys)
      BY <1>4, <2>9, <3>1
    <3>3. k \in ToSet(a.resets[q].keys)
      BY <2>2, <2>4, <2>6, <3>1, <3>2
    <3>4. QED
      BY <2>6, <3>2, <3>3
  <2>10. Clears(a)
    BY <1>4, <2>8, <2>9 DEF Clears
  <2>11. Keeps(Now, a, {"storage", "disk", "resets"})
    BY <2>3 DEF Keeps
  <2>12. QED
    BY <1>1, <2>1, <2>6, <2>7, <2>8, <2>10, <2>11, StorageStep
<1>6. CASE left = <<>>
  <2> DEFINE b == [Now EXCEPT !.resets = rest]
  <2>1. /\ rest \in Seq(Resetting) /\ Len(rest) = Len(resets) - 1
        /\ \A q \in DOMAIN resets : q # r => \E m \in DOMAIN rest : rest[m] = resets[q]
    BY <1>1, <1>3, RemoveAtElements, RemoveAtKeeps
  <2>2. IF resets[r].round = 1 THEN Become(Deleting(b, 2)) ELSE Become(b)
    BY <1>2, <1>6
  <2> HIDE DEF rest
  <2>3. DOMAIN b = Fields /\ Keeps(Now, b, {"resets"}) /\ b.resets = rest
    BY NowParts DEF Keeps, Fields
  <2> HIDE DEF b
  <2>4. Shaped(b) /\ Orderly(b)
    BY <1>1, <2>1, <2>3, NowParts DEF Shaped, Orderly, Keeps, Fields
  <2>5. b.storage = storage /\ b.disk = disk /\ b.touched = touched
    BY <2>3, NowParts DEF Keeps, Fields
  <2>6. CASE resets[r].round = 1
    <3> DEFINE a == Deleting(b, 2)
    <3>1. /\ Shaped(a) /\ Orderly(a) /\ Keeps(b, a, {"storage", "disk", "resets"})
          /\ a.storage.pending = <<>> /\ Len(a.storage.flushes) = Len(b.storage.flushes)
          /\ Len(a.resets) = Len(b.resets) + 1
          /\ \A k \in Keys : a.disk[k] # None => \E q \in DOMAIN a.resets : k \in ToSet(a.resets[q].keys)
      BY <2>4, DeletingClears
    <3> HIDE DEF a
    <3>2. Clears(a)
      BY <3>1 DEF Clears
    <3>3. Keeps(Now, a, {"storage", "disk", "resets"})
      BY <2>3, <3>1 DEF Keeps
    <3>4. Len(a.resets) = Len(resets)
      BY <1>1, <2>1, <2>3, <3>1
    <3>5. QED
      BY <1>1, <2>2, <2>5, <2>6, <3>1, <3>2, <3>3, <3>4, StorageStep DEF a
  <2>7. CASE resets[r].round # 1
    <3>1. ToSet(left) = {}
      BY <1>6 DEF ToSet
    <3>2. Clears(b)
      <4>1. ASSUME ~touched, NEW k \in Keys, disk[k] # None
            PROVE  \E m \in DOMAIN rest : k \in ToSet(rest[m].keys)
        <5>1. PICK q \in DOMAIN resets : k \in ToSet(resets[q].keys)
          BY <1>4, <4>1
        <5>2. PICK m \in DOMAIN rest : rest[m] = resets[q]
          BY <2>1, <3>1, <5>1
        <5>3. QED
          BY <5>1, <5>2
      <4>2. QED
        BY <1>4, <2>3, <2>5, <4>1 DEF Clears
    <3>3. Keeps(Now, b, {"storage", "disk", "resets"})
      BY <2>3 DEF Keeps
    <3>4. Len(b.resets) <= MaxResets
      BY <1>1, <2>1, <2>3, SessionBounds
    <3>5. QED
      BY <1>1, <2>2, <2>4, <2>5, <2>7, <3>2, <3>3, <3>4, StorageStep
  <2>8. QED
    BY <2>6, <2>7
<1>7. QED
  BY <1>5, <1>6

LEMMA CommitStep == ASSUME Invariant, CommitTimer PROVE Invariant'
<1> DEFINE b == completeOnboarding(Now)
           a == [b EXCEPT !.screens = [@ EXCEPT !.timer = FALSE, !.onboarding = FALSE,
                                                !.transitioning = FALSE]]
<1>1. /\ Shaped(Now) /\ Orderly(Now) /\ Agree(Now)
      /\ Len(storage.flushes) <= MaxFlushes /\ Len(resets) <= MaxResets
  BY DEF Invariant, Good, Bounded
<1>2. Become(a) /\ screens.timer
  BY DEF CommitTimer
<1>3. /\ Shaped(b) /\ Orderly(b) /\ Keeps(Now, b, {"stores", "storage", "touched"})
      /\ onboardingCompleted(b) /\ b.touched = TRUE
      /\ b.storage.flushes = Now.storage.flushes
  BY <1>1, CompletesOnboarding
<1> HIDE DEF b
<1>4. b.screens = screens
  BY <1>3, NowParts DEF Keeps, Fields
<1>5. /\ DOMAIN a = Fields /\ Keeps(b, a, {"screens"})
      /\ DOMAIN a.screens = ScreenFields /\ \A x \in ScreenFields : a.screens[x] \in BOOLEAN
      /\ a.screens.onboarding = FALSE /\ a.screens.shell = screens.shell
      /\ a.screens.transitioning = FALSE /\ a.screens.timer = FALSE
  BY <1>3, <1>4 DEF Shaped, Keeps, Fields, ScreenFields
<1> HIDE DEF a
<1>6. Shaped(a) /\ Orderly(a)
  BY <1>3, <1>5 DEF Shaped, Orderly, Keeps, Fields
<1>7. Agree(a)
  BY <1>1, <1>2, <1>3, <1>5, NowParts DEF Agree, onboardingCompleted, Keeps, Fields
<1>8. Clears(a) /\ a.window = window /\ (Ready(Now) => Ready(a))
      /\ a.storage.flushes = storage.flushes /\ a.resets = resets
  BY <1>3, <1>5, NowParts DEF Clears, Ready, Keeps, Fields
<1>9. QED
  BY <1>1, <1>2, <1>6, <1>7, <1>8, StepGood

LEMMA FrameStep == ASSUME Invariant, Frame PROVE Invariant'
<1> DEFINE a == [Now EXCEPT !.screens.visible = TRUE]
<1>1. /\ Shaped(Now) /\ Orderly(Now) /\ Agree(Now) /\ Clears(Now)
      /\ Len(storage.flushes) <= MaxFlushes /\ Len(resets) <= MaxResets
  BY DEF Invariant, Good, Bounded
<1>2. Become(a)
  BY DEF Frame
<1>3. /\ DOMAIN a = Fields /\ Keeps(Now, a, {"screens"})
      /\ DOMAIN a.screens = ScreenFields /\ \A x \in ScreenFields : a.screens[x] \in BOOLEAN
      /\ a.screens.onboarding = screens.onboarding /\ a.screens.shell = screens.shell
      /\ a.screens.transitioning = screens.transitioning /\ a.screens.timer = screens.timer
  BY <1>1, NowParts DEF Shaped, Keeps, Fields, ScreenFields
<1> HIDE DEF a
<1>4. Shaped(a) /\ Orderly(a)
  BY <1>1, <1>3 DEF Shaped, Orderly, Keeps, Fields
<1>5. Agree(a)
  BY <1>1, <1>3, NowParts DEF Agree, onboardingCompleted, Keeps, Fields
<1>6. Clears(a) /\ a.window = window /\ (Ready(Now) => Ready(a))
      /\ a.storage.flushes = storage.flushes /\ a.resets = resets
  BY <1>1, <1>3, NowParts DEF Clears, Ready, Keeps, Fields
<1>7. QED
  BY <1>1, <1>2, <1>4, <1>5, <1>6, StepGood

\* Nothing that the screens or the window's effect look at changes: the
\* answers of the window.
LEMMA WindowGood ==
  ASSUME Invariant, NEW a, Become(a), DOMAIN a = Fields, Keeps(Now, a, {"window"}),
         DOMAIN a.window = {"shell", "asks"}, a.window.shell \in BOOLEAN,
         a.window.asks \in Seq(Ask), Ready(Now) /\ Follows(Now) => Follows(a), Ready(Now)
  PROVE  Invariant'
<1>1. /\ Shaped(Now) /\ Orderly(Now) /\ Agree(Now) /\ Clears(Now) /\ Follows(Now)
  BY DEF Invariant, Good
<1>2. /\ a.stores = Now.stores /\ a.boot = Now.boot /\ a.storage = Now.storage
      /\ a.disk = Now.disk /\ a.resets = Now.resets /\ a.screens = Now.screens
      /\ a.touched = Now.touched
  BY DEF Keeps, Fields
<1>3. Shaped(a) /\ Orderly(a) /\ Agree(a) /\ Clears(a)
  BY <1>1, <1>2 DEF Shaped, Orderly, Agree, Clears, onboardingCompleted
<1>4. Good(a)
  BY <1>1, <1>3 DEF Good
<1>5. Rendered(a) = a
  <2>1. onboardingCompleted(a) = onboardingCompleted(Now)
    BY <1>2 DEF onboardingCompleted
  <2>2. Watched(a) = Watched(Now)
    BY <1>2 DEF Watched, Ready, onboardingCompleted
  <2>3. Resize(a) = a
    BY <2>2 DEF Resize
  <2>4. QED
    BY <2>1, <2>3 DEF Rendered
<1>6. Good(Rendered(a)) /\ Keeps(a, Rendered(a), {"screens", "window"})
  BY <1>4, <1>5 DEF Keeps
<1>7. Good(Now)' /\ storage'.flushes = a.storage.flushes /\ resets' = a.resets
  BY <1>6, BecomeGood
<1>8. QED
  BY <1>2, <1>7, NowParts DEF Invariant, Bounded

LEMMA WindowStep == ASSUME Invariant, WindowAnswered PROVE Invariant'
<1> DEFINE ask == Head(window.asks)
           left == Tail(Now.window.asks)
           again == [ask EXCEPT !.hop = "size"]
           n == Len(window.asks)
<1>1. Shaped(Now) /\ Follows(Now) /\ window.asks # <<>>
  BY DEF Invariant, Good, WindowAnswered
<1>2. Ready(Now)
  BY <1>1, NowParts DEF Follows
<1>3. /\ DOMAIN window = {"shell", "asks"} /\ window.shell \in BOOLEAN /\ window.asks \in Seq(Ask)
  BY <1>1, NowParts DEF Shaped
<1>4. /\ ask \in Ask /\ ask = window.asks[1] /\ left \in Seq(Ask) /\ Len(left) = n - 1
      /\ \A i \in 1 .. n - 1 : left[i] = window.asks[i + 1]
      /\ n \in Nat /\ n > 0
  <2> DEFINE asks == window.asks
  <2>1. asks \in Seq(Ask) /\ asks # <<>> /\ Now.window.asks = asks
    BY <1>1, <1>3, NowParts
  <2> HIDE DEF asks
  <2>2. /\ Head(asks) \in Ask /\ Head(asks) = asks[1]
        /\ Tail(asks) \in Seq(Ask) /\ Len(Tail(asks)) = Len(asks) - 1
        /\ \A i \in 1 .. Len(asks) - 1 : Tail(asks)[i] = asks[i + 1]
        /\ Len(asks) \in Nat /\ Len(asks) > 0
    BY <2>1
  <2>3. QED
    BY <2>1, <2>2 DEF asks
<1>5. /\ \A i \in 1 .. n - 1 : ~window.asks[i].live
      /\ window.asks[n].live /\ window.asks[n].shell = ShellMode(Now)
  BY <1>1, <1>2, NowParts DEF Follows
<1>6. again \in Ask /\ again.live = ask.live /\ again.shell = ask.shell
  BY <1>4 DEF Ask
<1>7. CASE ask.hop = "area" /\ ask.live
  <2> DEFINE asks == Append(left, again)
             a == [Now EXCEPT !.window.asks = asks]
  <2>1. Become(a)
    BY <1>7 DEF WindowAnswered
  <2>2. n = 1
    <3> HIDE DEF ask, n
    <3>1. n > 1 => 1 \in 1 .. n - 1
      BY <1>4
    <3>2. QED
      BY <1>4, <1>5, <1>7, <3>1
  <2> HIDE DEF ask, left, again
  <2>3. asks \in Seq(Ask) /\ Len(asks) = 1 /\ asks[1] = again /\ asks # <<>>
    BY <1>4, <1>6, <2>2
  <2> HIDE DEF asks
  <2>4. /\ DOMAIN a = Fields /\ Keeps(Now, a, {"window"}) /\ DOMAIN a.window = {"shell", "asks"}
        /\ a.window.asks = asks /\ a.window.shell = window.shell
    BY <1>3, NowParts DEF Keeps, Fields
  <2> HIDE DEF a
  <2>5. Ready(a) /\ ShellMode(a) = ShellMode(Now)
    BY <1>2, <2>4 DEF Ready, ShellMode, onboardingCompleted, Keeps, Fields
  <2>6. Follows(a)
    <3>1. a.window.asks[Len(a.window.asks)].live /\ a.window.asks # <<>>
      BY <1>6, <1>7, <2>3, <2>4
    <3>2. a.window.asks[Len(a.window.asks)].shell = ShellMode(a)
      BY <1>4, <1>5, <1>6, <2>2, <2>3, <2>4, <2>5
    <3>3. Len(a.window.asks) - 1 = 0 /\ 1 .. 0 = {}
      BY <2>3, <2>4
    <3>4. QED
      BY <2>5, <3>1, <3>2, <3>3 DEF Follows
  <2>7. QED
    BY <1>2, <1>3, <2>1, <2>3, <2>4, <2>6, WindowGood
<1>8. CASE ask.hop = "area" /\ ~ask.live
  <2> DEFINE a == [Now EXCEPT !.window.asks = left]
  <2>1. Become(a)
    BY <1>8 DEF WindowAnswered
  <2>2. n > 1
    <3> HIDE DEF ask, n
    <3>1. QED
      BY <1>4, <1>5, <1>8
  <2> HIDE DEF ask, left
  <2>3. /\ DOMAIN a = Fields /\ Keeps(Now, a, {"window"}) /\ DOMAIN a.window = {"shell", "asks"}
        /\ a.window.asks = left /\ a.window.shell = window.shell
    BY <1>3, NowParts DEF Keeps, Fields
  <2> HIDE DEF a
  <2>4. Ready(a) /\ ShellMode(a) = ShellMode(Now)
    BY <1>2, <2>3 DEF Ready, ShellMode, onboardingCompleted, Keeps, Fields
  <2>5. left # <<>> /\ left[Len(left)] = window.asks[n] /\ \A i \in 1 .. Len(left) - 1 : ~left[i].live
    BY <1>4, <1>5, <2>2
  <2>6. Follows(a)
    BY <1>5, <2>3, <2>4, <2>5 DEF Follows
  <2>7. QED
    BY <1>2, <1>3, <1>4, <2>1, <2>3, <2>6, WindowGood
<1>9. CASE ask.hop = "size"
  <2> DEFINE a == [[Now EXCEPT !.window.asks = left] EXCEPT !.window.shell = ask.shell]
  <2>1. Become(a)
    BY <1>9 DEF WindowAnswered
  <2>2. ask.shell \in BOOLEAN
    BY <1>4 DEF Ask
  <2> HIDE DEF ask, left
  <2>3. /\ DOMAIN a = Fields /\ Keeps(Now, a, {"window"}) /\ DOMAIN a.window = {"shell", "asks"}
        /\ a.window.asks = left /\ a.window.shell = ask.shell
    BY <1>3, NowParts DEF Keeps, Fields
  <2> HIDE DEF a
  <2>4. Ready(a) /\ ShellMode(a) = ShellMode(Now)
    BY <1>2, <2>3 DEF Ready, ShellMode, onboardingCompleted, Keeps, Fields
  <2>5. CASE n = 1
    <3>1. left = <<>> /\ ask.shell = ShellMode(Now) /\ 1 .. Len(left) - 1 = {}
      BY <1>4, <1>5, <2>5
    <3>2. Follows(a)
      BY <2>3, <2>4, <3>1 DEF Follows
    <3>3. QED
      BY <1>2, <1>3, <1>4, <2>1, <2>2, <2>3, <3>2, WindowGood
  <2>6. CASE n > 1
    <3>1. left # <<>> /\ left[Len(left)] = window.asks[n] /\ \A i \in 1 .. Len(left) - 1 : ~left[i].live
      BY <1>4, <1>5, <2>6
    <3>2. Follows(a)
      BY <1>5, <2>3, <2>4, <3>1 DEF Follows
    <3>3. QED
      BY <1>2, <1>3, <1>4, <2>1, <2>2, <2>3, <3>2, WindowGood
  <2> HIDE DEF n
  <2>7. n = 1 \/ n > 1
    BY <1>4
  <2>8. QED
    BY <2>5, <2>6, <2>7
<1>10. QED
  BY <1>4, <1>7, <1>8, <1>9 DEF Ask

LEMMA SessionStep == ASSUME Invariant, [Next]_vars PROVE Invariant'
<1>1. CASE handleEnter \/ toggle \/ handleReset
  BY <1>1, EnterStep, ToggleStep, ResetStep
<1>2. CASE \E k \in Keys : Hydrate(k)
  BY <1>2, HydrateStep
<1>3. CASE FlushTimer \/ SetAnswered \/ DeleteAnswered
  BY <1>3, FlushStep, DeleteStep
<1>4. CASE CommitTimer \/ Frame \/ WindowAnswered
  BY <1>4, CommitStep, FrameStep, WindowStep
<1>5. CASE UNCHANGED vars
  <2>1. Good(Now) /\ Bounded
    BY DEF Invariant
  <2>2. Keeps(Now, Now', {}) /\ DOMAIN Now' = Fields
    BY <1>5 DEF vars, Now, Keeps, Fields
  <2>3. Good(Now')
    BY <2>1, <2>2, GoodByParts
  <2>4. Good(Now)'
    BY <2>3
  <2>5. Bounded'
    BY <1>5, <2>1 DEF vars, Bounded
  <2>6. QED
    BY <2>4, <2>5 DEF Invariant
<1>6. QED
  BY <1>1, <1>2, <1>3, <1>4, <1>5 DEF Next

-----------------------------------------------------------------------------
(* In every reachable state, whatever flushes, hydrations, resets, commits  *)
(* and resizes meet (sessionStateStorage.ts, sessionRoot.tsx,               *)
(* useSessionScreenTransition.ts).                                          *)
THEOREM SessionInvariant == Spec => []Invariant
  BY SessionInit, SessionStep, PTL DEF Spec

(* The screens, the commit on its way and the persisted flag agree, and     *)
(* every part of the state has its type (useSessionScreenTransition.ts).    *)
THEOREM ScreensStayInAgreement == Spec => []ScreensAgree
<1>1. ASSUME Invariant PROVE TypeOK
  <2>1. Shaped(Now) /\ Orderly(Now) /\ Bounded
    BY <1>1 DEF Invariant, Good
  <2>2. /\ storage.pending \in Seq(Item) /\ storage.flushes \in Seq(Flushing)
        /\ Len(storage.pending) <= 2
    BY <2>1, FewWait, NowParts DEF Shaped
  <2>3. \A i \in DOMAIN storage.pending :
          storage.pending[i] \in Item /\ Placed(storage.pending, storage.pending[i].key) = {i}
    BY <2>1, <2>2, NowParts DEF Orderly, Placed
  <2>4. \A f \in DOMAIN storage.flushes :
          storage.flushes[f].next \in 1 .. Len(SESSION_PERSIST_KEYS) + 1
    <3>1. \A f \in DOMAIN storage.flushes : storage.flushes[f].next \in 1 .. Len(storage.pending) + 1
      BY <2>1, NowParts DEF Orderly
    <3>2. Len(SESSION_PERSIST_KEYS) = 2
      BY DEF SESSION_PERSIST_KEYS
    <3>3. QED
      BY <2>2, <3>1, <3>2
  <2>5. \A x \in DOMAIN screens : screens[x] \in BOOLEAN
    BY <2>1, NowParts DEF Shaped
  <2>6. /\ DOMAIN stores = Keys /\ \A k \in Keys : stores[k] \in Value[k]
        /\ DOMAIN disk = Keys /\ \A k \in Keys : disk[k] \in Value[k] \cup {None}
        /\ boot.waiting \subseteq Keys
    BY <2>1, NowParts DEF Shaped, IsStore
  <2>7. QED
    BY <2>1, <2>3, <2>4, <2>5, <2>6 DEF TypeOK, Bounded
<1>2. ASSUME Invariant PROVE ScreensAgree
  <2>1. TypeOK /\ Agree(Now)
    BY <1>1, <1>2 DEF Invariant, Good
  <2>2. QED
    BY <2>1, NowParts DEF ScreensAgree, Agree
<1>3. QED
  BY <1>2, SessionInvariant, PTL

(* Once no resize is on its way, the window has the size of what it shows   *)
(* (sessionRoot.tsx).                                                       *)
THEOREM WindowFollows == Spec => []WindowFollowsScreen
<1>1. Invariant => WindowFollowsScreen
  BY NowParts DEF Invariant, Good, Follows, WindowFollowsScreen
<1>2. QED
  BY <1>1, SessionInvariant, PTL

(* A reset that has ended leaves no key stored and none that waits, although *)
(* flushes and other resets may have run beside it (clearAll, flush).       *)
THEOREM ResetLeavesNothing == Spec => []ResetClears
<1>1. ASSUME Invariant, ~touched, resets = <<>>
      PROVE  storage.pending = <<>> /\ \A k \in Keys : disk[k] = None
  <2>1. Clears(Now) /\ DOMAIN resets = {}
    BY <1>1 DEF Invariant, Good
  <2>2. QED
    BY <1>1, <2>1, NowParts DEF Clears
<1>2. Invariant => ResetClears
  BY <1>1 DEF ResetClears
<1>3. QED
  BY <1>2, SessionInvariant, PTL

(* What waits to be written has a timer or a running flush (scheduleFlush,  *)
(* flush, clearAll).                                                        *)
THEOREM PendingStaysScheduled == Spec => []PendingIsScheduled
<1>1. Invariant => PendingIsScheduled
  BY NowParts DEF Invariant, Good, Orderly, PendingIsScheduled
<1>2. QED
  BY <1>1, SessionInvariant, PTL
==============================================================================
