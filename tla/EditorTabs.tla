------------------------------- MODULE EditorTabs -------------------------------
(***************************************************************************)
(* The editor: the store of its tabs and buffers, the dialogs that ask      *)
(* before a tab is closed or the window is, and the calls of the editor's   *)
(* file commands that are on their way.                                     *)
(*                                                                         *)
(* The window's thread runs one handler at a time, so a step is the code    *)
(* between two awaits.  A handler that awaits a file command leaves a       *)
(* record in `calls`, and a later step (Answer) runs what follows the       *)
(* await.  Answers arrive in any order.  The files themselves are not kept: *)
(* a command inside its project may succeed or fail, and a read may find    *)
(* any content, since git and other programs change files too.  Tabs are    *)
(* identified by the path of their file or the number of an untitled tab.   *)
(***************************************************************************)
EXTENDS Naturals, FiniteSets, Bags, SequencesExt

CONSTANTS
  Paths,           (* the files that are opened, saved and deleted         *)
  Roots,           (* the folders of projects                              *)
  RootOf,          (* the folder each path is in, NoRoot for none of them   *)
  NoRoot,          (* no project is open                                   *)
  Contents,        (* what a buffer or a file may hold                     *)
  Empty,           (* the empty content                                    *)
  MaxUntitled,     (* Bound: untitled tabs ever opened                     *)
  MaxCalls         (* Bound: file commands on their way                    *)

ASSUME PathsAssumption == /\ Paths \cap Nat = {}
                          /\ RootOf \in [Paths -> Roots \cup {NoRoot}] /\ NoRoot \notin Roots
ASSUME ContentsAssumption == Empty \in Contents
ASSUME EditorBounds == MaxUntitled \in Nat /\ MaxCalls \in Nat

None     == 0
Untitled == 1..MaxUntitled
Ids      == Paths \cup Untitled

VARIABLES
  ed,          (* the state of the editor store                           *)
  calls,       (* the file commands that handlers await, a bag            *)
  header,      (* the dialogs and promise resolvers of the card's header  *)
  window,      (* whether the window is open                              *)
  lateEdits    (* history: files dirty since a request to close the window  *)

vars == <<ed, calls, header, window, lateEdits>>

EditorStatus == {"idle", "loading", "ready", "saving", "error"}
EditorBuffer == [content : Contents, baselineContent : Contents, dirty : BOOLEAN,
                 status : EditorStatus, readOnly : BOOLEAN]

emptyBuffer == [content |-> Empty, baselineContent |-> Empty, dirty |-> FALSE,
                status |-> "idle", readOnly |-> FALSE]

-----------------------------------------------------------------------------
(***************************************************************************)
(* The editor store, as functions of its state.                             *)
(***************************************************************************)
Open(e) == ToSet(e.tabs)

\* Creates the buffer when there is none, whether or not a tab is open.
patchBuffer(e, id, patch) ==
  LET current == IF id \in DOMAIN e.buffers THEN e.buffers[id] ELSE emptyBuffer
      patched == [f \in DOMAIN emptyBuffer |->
                    IF f \in DOMAIN patch THEN patch[f] ELSE current[f]]
  IN  [e EXCEPT !.buffers = [i \in DOMAIN e.buffers \cup {id} |->
                               IF i = id THEN patched ELSE e.buffers[i]]]

IsDirty(e, id) == id \in DOMAIN e.buffers /\ e.buffers[id].dirty

closeTab(e, id) ==
  IF id \notin Open(e) THEN e
  ELSE LET at   == CHOOSE i \in DOMAIN e.tabs : e.tabs[i] = id
           next == IF at < Len(e.tabs) THEN e.tabs[at + 1]
                   ELSE IF at > 1 THEN e.tabs[at - 1] ELSE None
       IN  [e EXCEPT !.tabs = RemoveAt(@, at),
                     !.buffers = [i \in DOMAIN @ \ {id} |-> @[i]],
                     !.activeTabId = IF @ = id THEN next ELSE @]

\* A tab that is open and ready is only brought to the front.
FocusOnly(e, id) == id \in Open(e) /\ e.buffers[id].status = "ready"

\* The part of openFile and openExternalReadOnly before their read.
BeginLoad(e, id, readOnly) ==
  LET loading == [status |-> "loading", readOnly |-> readOnly]
      front   == [e EXCEPT !.activeTabId = id]
  IN  IF id \notin Open(e)
      THEN patchBuffer([front EXCEPT !.tabs = Append(@, id)], id,
                       [emptyBuffer EXCEPT !.status = "loading", !.readOnly = readOnly])
      ELSE IF e.buffers[id].status = "error" THEN front
      ELSE patchBuffer(front, id, loading)

Loaded(e, id, content, readOnly) ==
  patchBuffer(e, id, [content |-> content, baselineContent |-> content,
                      dirty |-> FALSE, status |-> "ready", readOnly |-> readOnly])

LoadFailed(e, id, readOnly) ==
  patchBuffer(e, id, [content |-> Empty, baselineContent |-> Empty,
                      dirty |-> FALSE, status |-> "error", readOnly |-> readOnly])

\* What saveTab and saveAs check before they start.
CanWrite(e, id) ==
  e.projectRoot # NoRoot /\ id \in DOMAIN e.buffers /\ ~e.buffers[id].readOnly
CanSave(e, id) == id \in Paths /\ CanWrite(e, id)

Saving(e, id) == patchBuffer(e, id, [status |-> "saving"])

\* The content that was written becomes the baseline; edits made meanwhile
\* stay in the buffer, which is clean all the same.
Saved(e, id, written) ==
  patchBuffer(e, id, [baselineContent |-> written, dirty |-> FALSE, status |-> "ready"])

\* Mutant: a save that failed leaves the buffer clean.
SaveFailedClean(e, id) == patchBuffer(e, id, [status |-> "ready", dirty |-> FALSE])

\* Mutant: the status is left at saving when the save failed.
SaveFailedBusy(e, id) == e

SaveFailed(e, id) == patchBuffer(e, id, [status |-> "ready"])

\* Mutant: the tab of the target stays open next to the retargeted one.
RetargetedTwice(e, source, target) ==
  LET buf   == e.buffers[source]
      clean == [buf EXCEPT !.baselineContent = buf.content, !.dirty = FALSE,
                           !.status = "ready"]
  IN  [e EXCEPT
         !.tabs = [i \in DOMAIN @ |-> IF @[i] = source THEN target ELSE @[i]],
         !.activeTabId = IF @ = source THEN target ELSE @,
         !.buffers = [i \in (DOMAIN @ \ {source}) \cup {target} |->
                        IF i = target THEN clean ELSE @[i]]]

\* saveAs after its file was created: the source tab takes over the target.
Retargeted(e, source, target) ==
  LET alone == IF target = source THEN e ELSE closeTab(e, target)
      buf   == alone.buffers[source]
      clean == [buf EXCEPT !.baselineContent = buf.content, !.dirty = FALSE,
                           !.status = "ready"]
  IN  [alone EXCEPT
         !.tabs = [i \in DOMAIN @ |-> IF @[i] = source THEN target ELSE @[i]],
         !.activeTabId = IF @ = source THEN target ELSE @,
         !.buffers = [i \in (DOMAIN @ \ {source}) \cup {target} |->
                        IF i = target THEN clean ELSE @[i]]]

\* The tabs of a set, in their order.
Among(tabs, set) ==
  LET at == {i \in DOMAIN tabs : tabs[i] \in set}
  IN  [n \in 1..Cardinality(at) |->
         tabs[CHOOSE i \in at : Cardinality({j \in at : j < i}) = n - 1]]

dirtyUntitledIds(e) == Among(e.tabs, {id \in Open(e) \cap Untitled : e.buffers[id].dirty})
dirtyPathIds(e)     == Among(e.tabs, {id \in Open(e) \cap Paths : e.buffers[id].dirty})

-----------------------------------------------------------------------------
(***************************************************************************)
(* Handlers work on the frontend's state as one record, since most of them  *)
(* touch the store, the dialogs and the calls together.                     *)
(***************************************************************************)
Now == [ed |-> ed, calls |-> calls, header |-> header, window |-> window]

noDialogs == [closeId |-> None, saveAsId |-> None, closeAfter |-> None, quitOnSave |-> FALSE,
              quitId |-> None, asking |-> FALSE, askRest |-> <<>>]

\* With the window its dialogs and whoever awaits a command are gone.
Become(a) ==
  /\ BagCardinality(a.calls) <= MaxCalls
  /\ ed' = a.ed /\ window' = a.window
  /\ IF a.window = "closed" THEN calls' = EmptyBag /\ header' = noDialogs
     ELSE calls' = a.calls /\ header' = a.header

Ops   == {"read", "external", "write", "create"}
Thens == {"nothing", "close", "quit", "open"}
Call == [op : Ops, id : Ids, target : Paths, root : Roots \cup {NoRoot}, content : Contents,
         then : Thens, rest : Seq(Ids)]

\* A command on `target`, awaited for tab `id`; afterwards the caller goes on
\* with `then`, and with the tabs in `rest`.
Await(a, op, id, target, root, content, then, rest) ==
  [a EXCEPT !.calls = @ (+) SetToBag({[op |-> op, id |-> id, target |-> target,
     root |-> root, content |-> content, then |-> then, rest |-> rest]})]

\* saveTab up to its await.  It returns false at once when it cannot save,
\* which only the quit loop acts on.
saveTab(a, id, then, rest) ==
  IF ~CanSave(a.ed, id) THEN a
  ELSE Await([a EXCEPT !.ed = Saving(@, id)], "write", id, id, a.ed.projectRoot,
             a.ed.buffers[id].content, then, rest)

openFile(a, root, p, then) ==
  LET rooted == [a EXCEPT !.ed.projectRoot = root]
  IN  IF FocusOnly(a.ed, p)
      THEN [rooted EXCEPT !.ed = patchBuffer([@ EXCEPT !.activeTabId = p], p,
                                             [readOnly |-> FALSE])]
      ELSE Await([rooted EXCEPT !.ed = BeginLoad(@, p, FALSE)], "read", p, p, root,
                 Empty, then, <<>>)

openExternalReadOnly(a, p) ==
  IF FocusOnly(a.ed, p) THEN [a EXCEPT !.ed.activeTabId = p]
  ELSE Await([a EXCEPT !.ed = BeginLoad(@, p, TRUE)], "external", p, p, NoRoot,
             Empty, "open", <<>>)

requestSaveAs(a, id) ==
  [a EXCEPT !.header.quitOnSave = FALSE, !.header.closeAfter = None,
            !.header.saveAsId = id]

\* The close handler after the saves: it asks for the untitled tabs in turn
\* and lets the window go when none is left.
AskUntitled(a, ids) ==
  IF ids = <<>> THEN [a EXCEPT !.window = "closed"]
  ELSE [a EXCEPT !.header.quitId = Head(ids), !.header.asking = TRUE,
                 !.header.askRest = Tail(ids)]

resolveQuit(a, result) ==
  LET resolved == [a EXCEPT !.header.asking = FALSE, !.header.askRest = <<>>,
                            !.header.quitId = None]
  IN  IF a.header.asking /\ result \in {"saved", "discarded"}
      THEN AskUntitled(resolved, a.header.askRest) ELSE resolved

\* saveAllDirtyPaths and, behind it, the rest of the close handler.
SaveAll(a, ids) ==
  IF ids = <<>> THEN AskUntitled(a, dirtyUntitledIds(a.ed))
  ELSE IF CanSave(a.ed, Head(ids)) THEN saveTab(a, Head(ids), "quit", Tail(ids))
  ELSE [a EXCEPT !.ed.activeTabId = Head(ids)]

\* handleSaveAsOpenChange(false).
SaveAsClosed(a) ==
  LET closed == [a EXCEPT !.header.closeAfter = None, !.header.saveAsId = None,
                          !.header.quitOnSave = FALSE]
  IN  IF a.header.asking THEN resolveQuit(closed, "cancelled") ELSE closed

\* Mutant: the prompt of the close handler is not answered.
SaveAsSucceededSilently(a, path) ==
  [a EXCEPT !.header.closeAfter = None, !.header.saveAsId = None, !.header.quitOnSave = FALSE]

\* handleSaveAsSuccess and handleSaveAsOpenChange(false), which follows it.
\* The promises' continuations run when both are done.
SaveAsSucceeded(a, path) ==
  LET h      == a.header
      tab    == IF h.closeAfter = None THEN a ELSE [a EXCEPT !.ed = closeTab(@, path)]
      closed == [tab EXCEPT !.header.closeAfter = None, !.header.saveAsId = None,
                            !.header.quitOnSave = FALSE]
  IN  IF ~h.asking THEN closed
      ELSE resolveQuit(closed, IF h.quitOnSave THEN "saved" ELSE "cancelled")

\* handleSaveAsFailure: the dialog stays open.
SaveAsFailed(a) ==
  IF a.header.asking THEN resolveQuit([a EXCEPT !.header.quitOnSave = FALSE], "failed") ELSE a

ShowsSaveAs(a) == a.header.saveAsId # None /\ a.ed.projectRoot # NoRoot
SaveAsShown == ShowsSaveAs(Now)
DialogShown == header.closeId # None \/ header.quitId # None \/ SaveAsShown

\* The dialog's effect clears the error of its source for every source and
\* project, and makes its buffer anew if that has gone meanwhile.
SaveAsEffect(a) ==
  IF ShowsSaveAs(a) /\ <<a.header.saveAsId, a.ed.projectRoot>> # <<header.saveAsId, ed.projectRoot>>
  THEN [a EXCEPT !.ed = patchBuffer(@, a.header.saveAsId, <<>>)] ELSE a

-----------------------------------------------------------------------------
Init ==
  /\ ed = [tabs |-> <<>>, activeTabId |-> None, buffers |-> <<>>, projectRoot |-> NoRoot,
           nextUntitled |-> 1]
  /\ calls = EmptyBag
  /\ header = noDialogs
  /\ window = "open"
  /\ lateEdits = {}

\* A close handler awaits a save or the user's answer.
QuitPending(a) == a.header.asking \/ \E c \in DOMAIN a.calls : c.then = "quit"

\* A handler of the open window.  The quantifier only names the state it leaves.
Handle(a) ==
  /\ window = "open"
  /\ \E b \in {SaveAsEffect(a)} :
       /\ Become(b)
       /\ lateEdits' = {p \in lateEdits : IsDirty(b.ed, p) /\
                                         (QuitPending(b) \/ b.window = "closed")}

\* The user cannot reach what is behind a dialog.
HandleBehindDialogs(a) == ~DialogShown /\ Handle(a)

-----------------------------------------------------------------------------
(***************************************************************************)
(* Opening, editing and saving.                                             *)
(***************************************************************************)
\* The project in view changes, or none is open any more.
WorkspaceChanges(r) ==
  /\ r # ed.projectRoot
  /\ Handle([Now EXCEPT !.ed.projectRoot = r])

\* The explorer lists the files of the project in view.
OpenFromExplorer(p) ==
  /\ RootOf[p] # NoRoot
  /\ HandleBehindDialogs(openFile(Now, RootOf[p], p, "nothing"))

\* File -> Open, for a picked file in or outside the project.  The queries
\* before the file is opened are taken to answer at once.
OpenByPath(p) ==
  /\ ed.projectRoot # NoRoot
  /\ LET inside  == RootOf[p] = ed.projectRoot
         opening == IF inside THEN openFile(Now, ed.projectRoot, p, "open")
                    ELSE openExternalReadOnly(Now, p)
     IN  Handle(opening)

OpenUntitled ==
  /\ ed.nextUntitled <= MaxUntitled
  /\ LET id     == ed.nextUntitled
         opened == [ed EXCEPT !.nextUntitled = @ + 1, !.tabs = Append(@, id),
                              !.activeTabId = id]
     IN  Handle([Now EXCEPT !.ed = patchBuffer(opened, id, [emptyBuffer EXCEPT !.status = "ready"])])

SetActiveTab(id) ==
  /\ id \in Open(ed) /\ id # ed.activeTabId
  /\ HandleBehindDialogs([Now EXCEPT !.ed.activeTabId = id])

\* setContentFromEditor; Monaco is shown for a ready or saving buffer only.
Edit(c) ==
  LET id == ed.activeTabId
  IN  /\ window = "open" /\ ~DialogShown
      /\ id \in DOMAIN ed.buffers
      /\ ed.buffers[id].status \in {"ready", "saving"} /\ ~ed.buffers[id].readOnly
      /\ c # ed.buffers[id].content
      /\ ed' = patchBuffer(ed, id, [content |-> c,
                 dirty |-> c # ed.buffers[id].baselineContent])
      /\ lateEdits' = IF QuitPending(Now) /\ id \in Paths /\ IsDirty(ed', id)
                       THEN lateEdits \cup {id} ELSE lateEdits \ {id}
      /\ UNCHANGED <<calls, header, window>>

\* performEditorSave: the shortcut, the menu, and Save of the active tab's menu.
SaveActive ==
  LET id == ed.activeTabId
  IN  /\ id \in DOMAIN ed.buffers /\ ~ed.buffers[id].readOnly
      /\ Handle(IF id \in Untitled THEN requestSaveAs(Now, id)
                ELSE saveTab(Now, id, "nothing", <<>>))

SaveActiveAs ==
  LET id == ed.activeTabId
  IN  /\ id \in DOMAIN ed.buffers /\ ~ed.buffers[id].readOnly
      /\ Handle(requestSaveAs(Now, id))

\* Another main card is brought into view; coming back changes nothing.
LeaveCard ==
  LET id == ed.activeTabId
  IN  /\ IsDirty(ed, id)
      /\ HandleBehindDialogs(IF id \in Untitled THEN requestSaveAs(Now, id)
                             ELSE saveTab(Now, id, "nothing", <<>>))

-----------------------------------------------------------------------------
(***************************************************************************)
(* Closing tabs and the window.                                             *)
(***************************************************************************)
\* The close button of a tab.
RequestClose(id) ==
  /\ id \in Open(ed)
  /\ HandleBehindDialogs(
       IF IsDirty(ed, id) THEN [Now EXCEPT !.header.closeId = id]
       ELSE [Now EXCEPT !.ed = closeTab(@, id)])

CloseDialogSave ==
  LET id == header.closeId
  IN  /\ id # None
      /\ Handle(IF id \in Untitled
                THEN [Now EXCEPT !.header.closeAfter = id, !.header.saveAsId = id,
                                 !.header.closeId = None]
                ELSE saveTab(Now, id, "close", <<>>))

CloseDialogDontSave ==
  /\ header.closeId # None
  /\ Handle([Now EXCEPT !.ed = closeTab(@, header.closeId), !.header.closeId = None])

CloseDialogCancel ==
  /\ header.closeId # None
  /\ Handle([Now EXCEPT !.header.closeId = None])

\* Save in the Save As dialog; an existing target has been confirmed.
SaveAsSubmit(target) ==
  LET id == header.saveAsId
  IN  /\ SaveAsShown /\ RootOf[target] = ed.projectRoot
      /\ Handle(IF CanWrite(ed, id)
                THEN Await([Now EXCEPT !.ed = Saving(@, id)], "create", id, target,
                           ed.projectRoot, Empty, "nothing", <<>>)
                ELSE SaveAsFailed(Now))

SaveAsCancel == SaveAsShown /\ Handle(SaveAsClosed(Now))

QuitDialogSave ==
  /\ header.quitId # None
  /\ Handle([Now EXCEPT !.header.quitOnSave = TRUE, !.header.saveAsId = header.quitId,
                        !.header.quitId = None])

QuitDialogDontSave ==
  /\ header.quitId # None
  /\ Handle(resolveQuit([Now EXCEPT !.ed = closeTab(@, header.quitId)], "discarded"))

QuitDialogCancel ==
  /\ header.quitId # None
  /\ Handle(resolveQuit(Now, "cancelled"))

\* Mutant: only the active tab is saved.
CloseRequestedSavesActive ==
  /\ \A c \in DOMAIN calls : c.then # "quit"
  /\ Handle(SaveAll(Now, Among(dirtyPathIds(ed), {ed.activeTabId})))

\* The window is asked to close, also while an earlier request waits for an
\* answer.  Bound: the saves of one request at a time.
CloseRequested ==
  /\ \A c \in DOMAIN calls : c.then # "quit"
  /\ Handle(SaveAll(Now, dirtyPathIds(ed)))

-----------------------------------------------------------------------------
(***************************************************************************)
(* What follows each await: `ok` tells whether the command succeeded, and   *)
(* `content` is what a read has found.                                      *)
(***************************************************************************)
UnderRoot(c) == RootOf[c.target] = c.root

\* Only the read of an external file takes any path.
MaySucceed(c) == c.op = "external" \/ UnderRoot(c)

\* openPaths brings its last path to the front when all of them are loaded.
Opened(a, c) ==
  IF c.then # "open" THEN a
  ELSE IF c.op = "read"
  THEN [a EXCEPT !.ed = [patchBuffer(@, c.id, [readOnly |-> FALSE]) EXCEPT !.activeTabId = c.id]]
  ELSE [a EXCEPT !.ed.activeTabId = c.id]

AfterLoad(a, c, ok, content) ==
  LET readOnly == c.op = "external"
  IN  Opened([a EXCEPT !.ed = IF ok THEN Loaded(@, c.id, content, readOnly)
                              ELSE LoadFailed(@, c.id, readOnly)], c)

\* The close dialog's Save goes on: the tab is closed and the dialog with it,
\* whichever tab it asks about by now.
AfterCloseSave(a, c) == [a EXCEPT !.ed = closeTab(@, c.id), !.header.closeId = None]

AfterWrite(a, c, ok) ==
  IF ~ok
  THEN LET failed == [a EXCEPT !.ed = SaveFailed(@, c.id)]
       IN  IF c.then # "quit" THEN failed
           ELSE [failed EXCEPT !.ed.activeTabId = c.id]
  ELSE LET saved == [a EXCEPT !.ed = Saved(@, c.id, c.content)]
       IN  CASE c.then = "close" -> AfterCloseSave(saved, c)
             [] c.then = "quit"  -> SaveAll(saved, c.rest)
             [] OTHER            -> saved

\* The tab of the target is closed even when the source is gone by now.
AfterCreate(a, c, ok) ==
  IF ~ok THEN SaveAsFailed([a EXCEPT !.ed = SaveFailed(@, c.id)])
  ELSE IF c.id \in DOMAIN a.ed.buffers
  THEN SaveAsSucceeded([a EXCEPT !.ed = Retargeted(@, c.id, c.target)], c.target)
  ELSE SaveAsFailed([a EXCEPT !.ed = closeTab(@, c.target)])

After(a, c, ok, content) ==
  CASE c.op \in {"read", "external"} -> AfterLoad(a, c, ok, content)
    [] c.op = "write"                -> AfterWrite(a, c, ok)
    [] c.op = "create"               -> AfterCreate(a, c, ok)

Answered(c) == [Now EXCEPT !.calls = @ (-) SetToBag({c})]

AnswerSuccess(c) ==
  /\ MaySucceed(c)
  /\ \E content \in IF c.op \in {"read", "external"} THEN Contents ELSE {Empty} :
       Handle(After(Answered(c), c, TRUE, content))

AnswerFailure(c) == Handle(After(Answered(c), c, FALSE, Empty))

-----------------------------------------------------------------------------
Next ==
  \/ \E r \in Roots \cup {NoRoot} : WorkspaceChanges(r)
  \/ \E p \in Paths : OpenFromExplorer(p) \/ OpenByPath(p) \/ SaveAsSubmit(p)
  \/ \E id \in Ids : SetActiveTab(id) \/ RequestClose(id)
  \/ \E c \in Contents : Edit(c)
  \/ OpenUntitled \/ SaveActive \/ SaveActiveAs \/ LeaveCard
  \/ CloseDialogSave \/ CloseDialogDontSave \/ CloseDialogCancel
  \/ SaveAsCancel \/ QuitDialogSave \/ QuitDialogDontSave \/ QuitDialogCancel
  \/ CloseRequested
  \/ \E c \in DOMAIN calls : AnswerSuccess(c) \/ AnswerFailure(c)

Spec == Init /\ [][Next]_vars

-----------------------------------------------------------------------------
TypeOK ==
  /\ ed.tabs \in Seq(Ids) /\ ed.activeTabId \in Ids \cup {None}
  /\ DOMAIN ed.buffers \subseteq Ids
  /\ \A id \in DOMAIN ed.buffers : ed.buffers[id] \in EditorBuffer
  /\ ed.projectRoot \in Roots \cup {NoRoot} /\ ed.nextUntitled \in 1..(MaxUntitled + 1)
  /\ IsABag(calls) /\ DOMAIN calls \subseteq Call
  /\ header \in [closeId : Ids \cup {None}, saveAsId : Ids \cup {None},
                 closeAfter : Untitled \cup {None}, quitOnSave : BOOLEAN,
                 quitId : Untitled \cup {None}, asking : BOOLEAN, askRest : Seq(Untitled)]
  /\ window \in {"open", "closed"}
  /\ lateEdits \subseteq Paths

\* Tabs and buffers: no tab twice, every tab has its buffer, and the number of
\* an untitled tab is not given again.  Opening, closing and Save As change
\* both, also when their answers come after the tab was closed or retargeted.
TabsWellFormed ==
  /\ TypeOK
  /\ Cardinality(Open(ed)) = Len(ed.tabs)
  /\ Open(ed) \subseteq DOMAIN ed.buffers
  /\ \A id \in Open(ed) \cap Untitled : id < ed.nextUntitled

\* The window only closes over a dirty file that was edited after the window
\* was asked to close: every other one was saved, or the request turned down.
QuitSavesFiles ==
  window = "closed" => \A id \in Open(ed) \cap Paths : IsDirty(ed, id) => id \in lateEdits

\* While the close handler waits for the user, a dialog that answers it is on
\* the screen, unless no project is open to save into.
QuitAwaitsDialog ==
  header.asking /\ ed.projectRoot # NoRoot => header.quitId # None \/ SaveAsShown

\* A step that closes a tab, changes its text or its dirty mark is not what
\* follows a failed write: the tabs stay open with their edits, and what was
\* dirty stays dirty.
FailedSaveKeepsEdits ==
  [][(\E id \in Open(ed) :
        \/ id \notin Open(ed')
        \/ ed'.buffers[id].content # ed.buffers[id].content
        \/ IsDirty(ed', id) # IsDirty(ed, id))
     => ~\E c \in DOMAIN calls : c.op \in {"write", "create"} /\ AnswerFailure(c)]_vars

\* A tab that shows Loading or Saving waits for an answer that will end it:
\* none is left busy by an answer that failed, found its tab closed or
\* retargeted, or came back under another project.
BusyTabsAreAwaited ==
  \A id \in Open(ed) :
    window = "open" /\ ed.buffers[id].status \in {"loading", "saving"} =>
      \E c \in DOMAIN calls : c.id = id

\* closeTab's contract, "only invoke when clean, after Don't save, or after
\* successful Save": a tab closed without asking holds what was saved or loaded.
ClosesOnlySavedTabs ==
  [][\A id \in Open(ed) :
       RequestClose(id) /\ id \notin Open(ed')
       => ed.buffers[id].content = ed.buffers[id].baselineContent]_vars
=============================================================================
