------------------------------- MODULE SessionBoot -------------------------------
(***************************************************************************)
(* The session: what the window does from its start, with the storage under *)
(* every persisted store, the screens, the window's size and the reset.     *)
(*                                                                         *)
(* Two of the six persisted stores stand for all: the session store, whose  *)
(* flag the screens follow, and the theme.  The plugin's store takes the    *)
(* commands in the order they are sent and keeps what it was given; the     *)
(* answers of a flush, of a reset and of a resize come in any order, those  *)
(* of the resizes in the order they were asked for.                         *)
(***************************************************************************)
EXTENDS Naturals, SequencesExt

CONSTANTS
  MaxFlushes,  (* Bound: flushes that write at once                        *)
  MaxResets,   (* Bound: resets that run at once                           *)
  MaxGestures  (* Bound: what the user does                                *)

ASSUME SessionBounds == {MaxFlushes, MaxResets, MaxGestures} \subseteq Nat

VARIABLES
  stores,    (* what the stores hold in memory                             *)
  boot,      (* what each store will read, the stores that still wait      *)
  storage,   (* pendingSets, flushTimer, and the flushes that write        *)
  disk,      (* the plugin's store                                         *)
  resets,    (* the resets that run: the keys to delete, and the round     *)
  screens,   (* the state of useSessionScreenTransition                    *)
  window,    (* the size of the window, and the resizes on their way       *)
  touched,   (* history: something was done since the last reset           *)
  gestures   (* history: how much the user did                             *)

vars == <<stores, boot, storage, disk, resets, screens, window, touched, gestures>>

\* SESSION_PERSIST_KEYS, in the order clearAll deletes them.
SESSION_PERSIST_KEYS == <<"session", "theme">>
Keys == ToSet(SESSION_PERSIST_KEYS)

\* onboardingCompleted, and the theme's mode.
Value == [session |-> {"new", "completed"}, theme |-> {"light", "dark"}]
Defaults == [session |-> "new", theme |-> "light"]
None == "none"

Now == [stores |-> stores, boot |-> boot, storage |-> storage, disk |-> disk, resets |-> resets,
        screens |-> screens, window |-> window, touched |-> touched]

-----------------------------------------------------------------------------
(***************************************************************************)
(* The storage.  A Map keeps the place of a key that is set again, and an   *)
(* iterator goes on behind what was cleared.                                *)
(***************************************************************************)
Placed(pending, k) == {i \in DOMAIN pending : pending[i].key = k}

setItem(a, k) ==
  LET item == [key |-> k, value |-> a.stores[k]]
      at   == Placed(a.storage.pending, k)
  IN  [a EXCEPT !.storage.timer = TRUE,
                !.storage.pending = IF at = {} THEN Append(@, item)
                                    ELSE [i \in DOMAIN @ |-> IF i \in at THEN item ELSE @[i]]]

\* A store's set, which persist follows with a setItem.
Set(a, k, value) == setItem([a EXCEPT !.stores[k] = value], k)

Cleared(a) ==
  [a EXCEPT !.storage.pending = <<>>,
            !.storage.flushes = [f \in DOMAIN @ |-> [@[f] EXCEPT !.next = 1]]]

\* The loop of a flush, once an item is stored: the next item is sent to the
\* plugin's store, or the items are cleared and saved.
\* Mutant: a flush goes over a copy of the items.
FlushCopy(a, f) ==
  LET flush == a.storage.flushes[f]
  IN  IF flush.next > Len(flush.copy) THEN [Cleared(a) EXCEPT !.storage.flushes = RemoveAt(@, f)]
      ELSE [a EXCEPT !.disk[flush.copy[flush.next].key] = flush.copy[flush.next].value,
                     !.storage.flushes[f].next = @ + 1]

FlushOn(a, f) ==
  LET next == a.storage.flushes[f].next
      item == a.storage.pending[next]
  IN  IF next > Len(a.storage.pending) THEN [Cleared(a) EXCEPT !.storage.flushes = RemoveAt(@, f)]
      ELSE [a EXCEPT !.disk[item.key] = item.value, !.storage.flushes[f].next = @ + 1]

flush(a) ==
  LET b == [a EXCEPT !.storage.timer = FALSE]
  IN  IF b.storage.pending = <<>> THEN b
      ELSE FlushOn([b EXCEPT !.storage.flushes = Append(@, [next |-> 1, copy |-> b.storage.pending])],
                   Len(b.storage.flushes) + 1)

\* Mutant: clearAll drops the timer and not what waits for it.
clearTimerOnly(a) == [a EXCEPT !.storage.timer = FALSE]

clearAll(a) == [Cleared(a) EXCEPT !.storage.timer = FALSE]

-----------------------------------------------------------------------------
(***************************************************************************)
(* The screens and the window.                                             *)
(***************************************************************************)
Ready(a) == a.boot.waiting = {}

onboardingCompleted(a) == a.stores["session"] = "completed"

\* Mutant: the commit of an aborted transition is not taken back.
abortKeepingTimer(a) ==
  [a EXCEPT !.screens = [@ EXCEPT !.entered = FALSE, !.onboarding = TRUE, !.shell = FALSE,
                                  !.transitioning = FALSE, !.visible = FALSE]]

abortEnterTransition(a) ==
  [a EXCEPT !.screens = [onboarding |-> TRUE, shell |-> FALSE, transitioning |-> FALSE, visible |-> FALSE,
                         entered |-> FALSE, timer |-> FALSE]]

ShellMode(a) == a.screens.transitioning \/ (onboardingCompleted(a) /\ a.screens.shell)

\* What the window's effect depends on.
\* Mutant: it misses the shell.
WatchedLess(a) == <<Ready(a), a.screens.transitioning, onboardingCompleted(a)>>

Watched(a) == <<Ready(a), a.screens.transitioning, onboardingCompleted(a), a.screens.shell>>

\* The effect reads the work area; its clean-up calls off the run before it.
Resize(a) ==
  IF ~Ready(a) \/ Watched(a) = Watched(Now) THEN a
  ELSE [a EXCEPT !.window.asks = Append([i \in DOMAIN @ |-> [@[i] EXCEPT !.live = FALSE]],
                                        [shell |-> ShellMode(a), live |-> TRUE, hop |-> "area"])]

\* The screens are rendered after every step, and their effects run.
Rendered(a) ==
  Resize(IF onboardingCompleted(Now) /\ ~onboardingCompleted(a) THEN abortEnterTransition(a) ELSE a)

Become(a) ==
  LET b == Rendered(a)
  IN  /\ stores' = b.stores
      /\ boot' = b.boot
      /\ storage' = b.storage
      /\ disk' = b.disk
      /\ resets' = b.resets
      /\ screens' = b.screens
      /\ window' = b.window
      /\ touched' = b.touched

Gesture == gestures < MaxGestures /\ gestures' = gestures + 1
Answer == UNCHANGED gestures

Init ==
  /\ stores = Defaults
  /\ disk \in {[session |-> s, theme |-> t] : s \in Value["session"] \union {None},
                                              t \in Value["theme"] \union {None}}
  /\ boot = [reads |-> disk, waiting |-> Keys]
  /\ storage = [pending |-> <<>>, timer |-> FALSE, flushes |-> <<>>]
  /\ resets = <<>>
  /\ screens = [onboarding |-> TRUE, shell |-> FALSE, transitioning |-> FALSE, visible |-> FALSE,
                entered |-> FALSE, timer |-> FALSE]
  /\ window = [shell |-> FALSE, asks |-> <<>>]
  /\ touched = TRUE
  /\ gestures = 0

-----------------------------------------------------------------------------
(***************************************************************************)
(* What the user does.                                                     *)
(***************************************************************************)
completeOnboarding(a) == [Set(a, "session", "completed") EXCEPT !.touched = TRUE]

\* The button enters with the transition, the key at once, also while the
\* screen leaves; nothing takes back the commit of the transition then.
beginEnter(instant) ==
  /\ Ready(Now) /\ screens.onboarding
  /\ ~instant => ~screens.transitioning
  /\ Gesture
  /\ IF screens.entered \/ onboardingCompleted(Now) \/ instant
     THEN Become([completeOnboarding(Now) EXCEPT
                    !.screens = [@ EXCEPT !.entered = TRUE, !.onboarding = FALSE, !.shell = TRUE,
                                          !.visible = TRUE, !.transitioning = FALSE]])
     ELSE Become([Now EXCEPT
                    !.screens = [@ EXCEPT !.entered = TRUE, !.transitioning = TRUE, !.shell = TRUE,
                                          !.visible = FALSE, !.timer = TRUE]])

handleEnter == \E instant \in BOOLEAN : beginEnter(instant)

nextThemeMode == IF stores["theme"] = "dark" THEN "light" ELSE "dark"

toggle ==
  /\ Ready(Now)
  /\ Gesture
  /\ Become([Set(Now, "theme", nextThemeMode) EXCEPT !.touched = TRUE])

\* The first key of a round is sent for deletion, the others wait for its answer.
Deleting(a, round) ==
  [clearAll(a) EXCEPT !.disk[Head(SESSION_PERSIST_KEYS)] = None,
                      !.resets = Append(@, [keys |-> Tail(SESSION_PERSIST_KEYS), round |-> round])]

\* handleReset: the stores are reset one after the other, then the storage.
\* The button is there from the start, while the stores are still read, too.
handleReset ==
  /\ Len(resets) < MaxResets
  /\ Gesture
  /\ Become([Deleting(Set(Set(abortEnterTransition(Now), "session", Defaults["session"]),
                          "theme", Defaults["theme"]), 1)
             EXCEPT !.touched = FALSE])

-----------------------------------------------------------------------------
(***************************************************************************)
(* What is answered, and what the timers do.                               *)
(***************************************************************************)
\* A store merges what it read; the session's tells itself that it has.
Hydrate(k) ==
  LET read == boot.reads[k]
      a == [Now EXCEPT !.boot.waiting = @ \ {k},
                       !.stores[k] = IF read = None THEN @ ELSE read]
  IN  /\ k \in boot.waiting
      /\ Answer
      /\ Become([(IF k = "session" THEN setItem(a, k) ELSE a) EXCEPT !.touched = TRUE])

FlushTimer ==
  /\ storage.timer
  /\ storage.pending # <<>> => Len(storage.flushes) < MaxFlushes
  /\ Answer
  /\ Become(flush(Now))

SetAnswered ==
  /\ Answer
  /\ \E f \in DOMAIN storage.flushes : Become(FlushOn(Now, f))

\* resetAllPersistedSession clears the storage twice.
DeleteAnswered ==
  /\ Answer
  /\ \E r \in DOMAIN resets :
       LET rest == RemoveAt(resets, r)
           left == resets[r].keys
       IN  IF left # <<>>
           THEN Become([Now EXCEPT !.disk[Head(left)] = None, !.resets[r].keys = Tail(left)])
           ELSE IF resets[r].round = 1 THEN Become(Deleting([Now EXCEPT !.resets = rest], 2))
           ELSE Become([Now EXCEPT !.resets = rest])

CommitTimer ==
  /\ screens.timer
  /\ Answer
  /\ Become([completeOnboarding(Now) EXCEPT
               !.screens = [@ EXCEPT !.timer = FALSE, !.onboarding = FALSE, !.transitioning = FALSE]])

\* requestAnimationFrame
Frame ==
  /\ screens.transitioning /\ screens.shell /\ ~screens.visible
  /\ Answer
  /\ Become([Now EXCEPT !.screens.visible = TRUE])

\* The window answers in order: the work area, unless the effect was called off,
\* and the new size (resizeAndCenter reads the work area again for it).
WindowAnswered ==
  LET ask == Head(window.asks)
      sized == [Now EXCEPT !.window.asks = Append(Tail(@), [ask EXCEPT !.hop = "size"])]
      done == [Now EXCEPT !.window.asks = Tail(@)]
  IN  /\ window.asks # <<>>
      /\ Answer
      /\ \/ ask.hop = "area" /\ Become(IF ask.live THEN sized ELSE done)
         \/ ask.hop = "size" /\ Become([done EXCEPT !.window.shell = ask.shell])

Next ==
  \/ handleEnter
  \/ toggle \/ handleReset
  \/ \E k \in Keys : Hydrate(k)
  \/ FlushTimer \/ SetAnswered \/ DeleteAnswered
  \/ CommitTimer \/ Frame \/ WindowAnswered

Spec == Init /\ [][Next]_vars

-----------------------------------------------------------------------------
(***************************************************************************)
(* Properties.                                                             *)
(***************************************************************************)
Item == UNION {[key : {k}, value : Value[k]] : k \in Keys}

TypeOK ==
  /\ DOMAIN stores = Keys /\ \A k \in Keys : stores[k] \in Value[k]
  /\ DOMAIN disk = Keys /\ \A k \in Keys : disk[k] \in Value[k] \union {None}
  /\ boot.waiting \subseteq Keys
  /\ \A i \in DOMAIN storage.pending : storage.pending[i] \in Item /\ Placed(storage.pending, storage.pending[i].key) = {i}
  /\ Len(storage.flushes) <= MaxFlushes /\ Len(resets) <= MaxResets
  /\ \A f \in DOMAIN storage.flushes : storage.flushes[f].next \in 1 .. Len(SESSION_PERSIST_KEYS) + 1
  /\ \A x \in DOMAIN screens : screens[x] \in BOOLEAN

\* The screens agree with each other and with the persisted flag whatever was
\* entered, aborted, committed or reset in between: some screen is shown; the
\* onboarding only leaves for good with the flag set; a shell without a commit
\* on its way belongs to a session that has completed the onboarding
\* (useSessionScreenTransition against sessionStore).
ScreensAgree ==
  /\ TypeOK
  /\ screens.onboarding \/ screens.shell
  /\ ~screens.onboarding => onboardingCompleted(Now)
  /\ screens.shell /\ ~screens.timer => onboardingCompleted(Now)
  /\ screens.transitioning => screens.timer /\ screens.onboarding /\ screens.shell

\* Once no resize is on its way the window has the size of what it shows, however
\* many runs of the effect overlapped (sessionRoot.tsx 122-152).
WindowFollowsScreen == Ready(Now) /\ window.asks = <<>> => window.shell = ShellMode(Now)

\* A reset leaves nothing behind: when it has ended and nothing was done since, no
\* key is stored and none waits, although a flush may have been writing when it
\* began (clearAll and flush, sessionStateStorage.ts 53-62, 90-101).
ResetClears ==
  ~touched /\ resets = <<>> => storage.pending = <<>> /\ \A k \in Keys : disk[k] = None

\* What was set does not wait for ever: while an item waits the timer runs, or a
\* flush that will write or clear it (scheduleFlush, flush and clearAll,
\* sessionStateStorage.ts 53-69, 90-95).
PendingIsScheduled == storage.pending # <<>> => storage.timer \/ storage.flushes # <<>>

\* What a store was given last is what is stored once the timer and the flushes
\* have ended, as sessionStateStorage.test.ts 123-142 has it for items that are set
\* before the flush.
LastWriteStored ==
  ~storage.timer /\ storage.flushes = <<>> /\ Ready(Now) =>
    \A k \in Keys : disk[k] = stores[k] \/ (disk[k] = None /\ stores[k] = Defaults[k])
=============================================================================
