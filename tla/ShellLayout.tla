------------------------------- MODULE ShellLayout -------------------------------
(***************************************************************************)
(* The shell's surfaces and columns: the side panels that slide, the        *)
(* settings page over them, the popup that asks for a workspace, the        *)
(* gutters with the handles that resize a panel, the feature that the right *)
(* panel shows, the GUI's scale with the window it asks for, and how the    *)
(* window's width is shared.                                               *)
(*                                                                         *)
(* Styles are computed between any two steps, so a change of style starts   *)
(* its CSS transition; a transition that turns round is the same one going  *)
(* on.  With reduced motion there are none, and those that run are          *)
(* cancelled without a transitionend.  The window answers in order.         *)
(***************************************************************************)
EXTENDS Integers, FiniteSetsExt, SequencesExt

CONSTANTS
  Widths,      (* the widths the user can give the window                   *)
  Areas,       (* the widths of the monitors' work areas                    *)
  FirstArea,   (* the one of the monitor that the shell is shown on first   *)
  Scales,      (* the steps of the scale's slider, in per cent              *)
  Positions,   (* where a pointer can be, in pixels from the left           *)
  Pointers,    (* the mouse and the touches                                 *)
  MaxGestures  (* Bound: what the user does                                 *)

ASSUME LayoutConstants ==
  /\ Widths \subseteq Nat /\ Areas \subseteq Nat /\ FirstArea \in Areas
  /\ Scales \subseteq 50 .. 200
  /\ Positions \subseteq Int /\ MaxGestures \in Nat

Sides == {"left", "right"}
Surfaces == Sides \union {"settings"}
None == [pointer |-> "none", startX |-> 0, startWidth |-> 0]

VARIABLES
  surfaces,  (* the store's flag of a surface and the state that follows it *)
  gutters,   (* per side: whether it is mounted, and its timeout            *)
  popup,     (* the state of WorkspacePopup                                 *)
  feature,   (* the feature to show, and ShellRightPanel's state            *)
  reduce,    (* reduceMotion                                                *)
  preferred, (* leftPanelWidth, rightPanelWidth                             *)
  drags,     (* dragRef of the handles                                      *)
  gui,       (* guiScale, the work area, the window's width, the slider's   *)
             (* end, and the calls that the window has to answer            *)
  switched,  (* history: the preference changed while the popup was closing *)
  moved,     (* history: the user moved the window since it was last asked  *)
  gestures   (* history: how much the user did                              *)

vars == <<surfaces, gutters, popup, feature, reduce, preferred, drags, gui, switched, moved, gestures>>
motionVars == <<surfaces, gutters, popup, feature, reduce, switched>>
windowVars == <<gui, moved>>

GUI_SCALE_MIN == 50
GUI_SCALE_MAX == 200
SHELL_WINDOW_WIDTH == 1280
MIN_SHELL_PANEL_WIDTH == 160
MAX_SHELL_PANEL_WIDTH == 480
DEFAULT_SHELL_PANEL_WIDTH == 208
SHELL_LAYOUT_REFERENCE_WIDTH == 1280
MIN_SHELL_CENTER_WIDTH == 320

clampGuiScale(scale, fit) == Min({GUI_SCALE_MAX, Max({GUI_SCALE_MIN, fit}), Max({GUI_SCALE_MIN, scale})})

maxGuiScaleForWorkArea(area) == clampGuiScale((area * 100) \div SHELL_WINDOW_WIDTH, GUI_SCALE_MAX)

scaledWindowSize(scale, area) == Min({(SHELL_WINDOW_WIDTH * scale) \div 100, area})

\* guiScaleRootLayout: the root is as wide as the window before it is zoomed.
available == (gui.window * 100 + gui.scale \div 2) \div gui.scale

clampShellPanelWidth(width) == Min({MAX_SHELL_PANEL_WIDTH, Max({MIN_SHELL_PANEL_WIDTH, width})})

\* A panel's width below the reference width, rounded.
Scaled(width) == (2 * width * available + SHELL_LAYOUT_REFERENCE_WIDTH) \div (2 * SHELL_LAYOUT_REFERENCE_WIDTH)

\* Mutant: a panel keeps its width in a narrow window.
PanelUnscaled(side) ==
  IF ~surfaces[side].open THEN 0 ELSE Max({MIN_SHELL_PANEL_WIDTH, preferred[side]})

Panel(side) ==
  IF ~surfaces[side].open THEN 0
  ELSE Max({MIN_SHELL_PANEL_WIDTH,
            IF available >= SHELL_LAYOUT_REFERENCE_WIDTH THEN preferred[side] ELSE Scaled(preferred[side])})

distributeShellColumnWidths ==
  LET panels == Panel("left") + Panel("right")
  IN  [left |-> Panel("left"), right |-> Panel("right"),
       center |-> IF panels + MIN_SHELL_CENTER_WIDTH <= available THEN available - panels
                  ELSE MIN_SHELL_CENTER_WIDTH]

-----------------------------------------------------------------------------
(***************************************************************************)
(* The surfaces.                                                           *)
(***************************************************************************)
\* The effect on [visible, reduceMotion] of ShellPanelSlot and ShellSettingsPage.
Effect(s, quiet) ==
  IF s.open THEN [s EXCEPT !.mounted = TRUE, !.revealed = quiet,
                           !.reveals = IF quiet THEN @ ELSE @ \union {2}]
  ELSE [s EXCEPT !.revealed = FALSE, !.mounted = @ /\ ~quiet]

\* What the transition of a surface goes between: a panel's width, the page's opacity.
Styled(k, s, quiet) == IF k \in Sides THEN s.open ELSE s.revealed \/ quiet

Moved(k, s, t, quiet) ==
  [t EXCEPT !.moving = /\ ~quiet /\ t.mounted
                       /\ s.moving \/ (s.mounted /\ Styled(k, s, reduce) # Styled(k, t, quiet))]

Shown(k, open) == Moved(k, surfaces[k], Effect([surfaces[k] EXCEPT !.open = open], reduce), reduce)

\* The gutter follows its panel; its timeout is cleared when the panel is back.
Gutter(g, open) == IF open THEN [mounted |-> TRUE, timer |-> FALSE] ELSE [g EXCEPT !.timer = g.mounted]

\* The window's effect has run for the shell: the scale fits, and so does the window.
Init ==
  /\ surfaces = [k \in Surfaces |-> [open |-> k \in Sides, mounted |-> k \in Sides, revealed |-> k \in Sides,
                                     reveals |-> {}, moving |-> FALSE]]
  /\ gutters = [side \in Sides |-> [mounted |-> TRUE, timer |-> FALSE]]
  /\ popup = [mounted |-> TRUE, revealed |-> FALSE, exiting |-> FALSE, moving |-> FALSE, frame |-> TRUE,
              picking |-> FALSE]
  /\ feature = [active |-> "files", rendered |-> "files", revealed |-> TRUE, reveals |-> {}]
  /\ reduce \in BOOLEAN
  /\ preferred = [side \in Sides |-> DEFAULT_SHELL_PANEL_WIDTH]
  /\ drags = [side \in Sides |-> None]
  /\ LET scale == clampGuiScale(100, maxGuiScaleForWorkArea(FirstArea))
     IN  gui = [scale |-> scale, area |-> FirstArea, window |-> scaledWindowSize(scale, FirstArea),
                fit |-> GUI_SCALE_MAX, calls |-> <<>>]
  /\ switched = FALSE /\ moved = FALSE
  /\ gestures = 0

Gesture == gestures < MaxGestures /\ gestures' = gestures + 1

\* What a surface is set to, the settings page's own effect included: it asks for
\* the work area when it is opened and calls that off when it is closed.
OffCall(calls, kind) == [i \in DOMAIN calls |-> [calls[i] EXCEPT !.live = @ /\ calls[i].kind # kind]]

Set(k, open) ==
  /\ surfaces' = [surfaces EXCEPT ![k] = Shown(k, open)]
  /\ gutters' = IF k \in Sides THEN [gutters EXCEPT ![k] = Gutter(@, open)] ELSE gutters
  /\ gui' = IF k \in Sides THEN gui
            ELSE [gui EXCEPT !.calls =
                    IF open THEN Append(@, [kind |-> "settings", live |-> TRUE, scale |-> 0])
                    ELSE OffCall(@, "settings")]

toggle(side) ==
  /\ ~surfaces["settings"].open
  /\ Gesture
  /\ Set(side, ~surfaces[side].open)
  /\ UNCHANGED <<popup, feature, reduce, preferred, drags, switched, moved>>

\* The switches of the settings page.
setVisible(side) ==
  /\ surfaces["settings"].open
  /\ Gesture
  /\ Set(side, ~surfaces[side].open)
  /\ UNCHANGED <<popup, feature, reduce, preferred, drags, switched, moved>>

setSettingsOpen ==
  /\ Gesture
  /\ Set("settings", ~surfaces["settings"].open)
  /\ UNCHANGED <<popup, feature, reduce, preferred, drags, switched, moved>>

resetPanelWidths ==
  /\ surfaces["settings"].open
  /\ Gesture
  /\ preferred' = [side \in Sides |-> DEFAULT_SHELL_PANEL_WIDTH]
  /\ UNCHANGED <<motionVars, drags, windowVars>>

\* ShellRightPanel follows the active trunk's feature, which its buttons set and
\* another trunk brings along.
Featured(active) ==
  IF active = feature.active THEN feature
  ELSE [active |-> active, rendered |-> active, revealed |-> reduce,
        reveals |-> feature.reveals \union (IF reduce THEN {} ELSE {2})]

select(next) ==
  /\ ~surfaces["settings"].open
  /\ Gesture
  /\ feature' = Featured(next)
  /\ IF surfaces["right"].open THEN UNCHANGED <<surfaces, gutters, gui>> ELSE Set("right", TRUE)
  /\ UNCHANGED <<popup, reduce, preferred, drags, switched, moved>>

SwitchTrunk(next) ==
  /\ next # feature.active
  /\ Gesture
  /\ feature' = Featured(next)
  /\ UNCHANGED <<surfaces, gutters, popup, reduce, preferred, drags, windowVars, switched>>

\* The system's preference changes.
SetReduceMotion ==
  /\ Gesture
  /\ reduce' = ~reduce
  /\ surfaces' = [k \in Surfaces |-> Moved(k, surfaces[k], Effect(surfaces[k], ~reduce), ~reduce)]
  /\ popup' = [popup EXCEPT !.moving = @ /\ reduce]
  /\ switched' = (switched \/ popup.exiting)
  /\ UNCHANGED <<gutters, feature, preferred, drags, windowVars>>

-----------------------------------------------------------------------------
(***************************************************************************)
(* The scale and the window.                                               *)
(***************************************************************************)
\* The window's effect runs for every new scale; it calls off the run before it.
setGuiScale(g, scale) ==
  IF scale = g.scale THEN g
  ELSE [g EXCEPT !.scale = scale,
                 !.calls = Append(OffCall(@, "area"), [kind |-> "area", live |-> TRUE, scale |-> 0])]

Slide ==
  /\ surfaces["settings"].open
  /\ Gesture
  /\ \E scale \in {x \in Scales : x <= gui.fit} :
       /\ scale # gui.scale
       /\ gui' = setGuiScale(gui, clampGuiScale(scale, GUI_SCALE_MAX))
  /\ moved' = FALSE
  /\ UNCHANGED <<motionVars, preferred, drags>>

ResizeWindow ==
  /\ Gesture
  /\ \E width \in Widths \ {gui.window} : gui' = [gui EXCEPT !.window = width]
  /\ moved' = TRUE
  /\ UNCHANGED <<motionVars, preferred, drags>>

\* The window is moved to another monitor.
MoveWindow ==
  /\ Gesture
  /\ \E area \in Areas \ {gui.area} : gui' = [gui EXCEPT !.area = area]
  /\ moved' = TRUE
  /\ UNCHANGED <<motionVars, preferred, drags>>

\* Mutant: the window's effect does not store the scale it clamped.
ClampedUnstored(g, scale) == g

Clamped(g, scale) == setGuiScale(g, scale)

\* The work area is read by the effect, or by the settings page; then the window
\* is resized with the scale that fits.
WindowAnswered ==
  LET call == Head(gui.calls)
      done == [gui EXCEPT !.calls = Tail(@)]
      fit  == maxGuiScaleForWorkArea(gui.area)
      scale == clampGuiScale(gui.scale, fit)
  IN  /\ gui.calls # <<>>
      /\ gui' = CASE call.kind = "size" -> [done EXCEPT !.window = scaledWindowSize(call.scale, gui.area)]
                  [] ~call.live -> done
                  [] call.kind = "settings" /\ call.live -> Clamped([done EXCEPT !.fit = fit], scale)
                  [] OTHER ->
                       Clamped([done EXCEPT !.calls = Append(@, [kind |-> "size", live |-> TRUE, scale |-> scale])], scale)
      /\ UNCHANGED <<motionVars, preferred, drags, moved, gestures>>

GutterTimeout(side) ==
  /\ gutters[side].timer
  /\ gutters' = [gutters EXCEPT ![side] = [mounted |-> FALSE, timer |-> FALSE]]
  /\ drags' = [drags EXCEPT ![side] = None]
  /\ UNCHANGED <<surfaces, popup, feature, reduce, preferred, windowVars, switched, gestures>>

\* requestAnimationFrame: what scheduleReveal asked for comes with the second frame.
Framed(s) ==
  [s EXCEPT !.reveals = IF 2 \in @ THEN {1} ELSE {}, !.revealed = @ \/ 1 \in s.reveals]

Frame ==
  /\ popup.frame \/ feature.reveals # {} \/ \E k \in Surfaces : surfaces[k].reveals # {}
  /\ surfaces' = [k \in Surfaces |-> Moved(k, surfaces[k], Framed(surfaces[k]), reduce)]
  /\ feature' = Framed(feature)
  /\ popup' = IF popup.frame
              THEN [popup EXCEPT !.frame = FALSE, !.revealed = TRUE, !.moving = ~reduce]
              ELSE popup
  /\ UNCHANGED <<gutters, reduce, preferred, drags, windowVars, switched, gestures>>

\* Mutant: the end of any transition unmounts the surface.
EndedAlways(s) == [s EXCEPT !.moving = FALSE, !.mounted = FALSE]

Ended(s) == [s EXCEPT !.moving = FALSE, !.mounted = @ /\ s.open]

onTransitionEnd(k) ==
  /\ surfaces[k].moving
  /\ surfaces' = [surfaces EXCEPT ![k] = Ended(@)]
  /\ UNCHANGED <<gutters, popup, feature, reduce, preferred, drags, windowVars, switched, gestures>>

-----------------------------------------------------------------------------
(***************************************************************************)
(* The handles.                                                            *)
(***************************************************************************)
PointerDown(side, pointer) ==
  /\ gutters[side].mounted
  /\ Gesture
  /\ \E x \in Positions :
       drags' = [drags EXCEPT ![side] = [pointer |-> pointer, startX |-> x, startWidth |-> preferred[side]]]
  /\ UNCHANGED <<motionVars, preferred, windowVars>>

PointerMove(side) ==
  LET drag == drags[side]
  IN  /\ drag # None
      /\ Gesture
      /\ \E x \in Positions :
           LET delta == x - drag.startX
           IN  preferred' = [preferred EXCEPT ![side] =
                 clampShellPanelWidth(drag.startWidth + (IF side = "left" THEN delta ELSE -delta))]
      /\ UNCHANGED <<motionVars, drags, windowVars>>

\* Any pointer that is lifted over the handle ends the drag.
PointerUp(side) ==
  /\ drags[side] # None
  /\ drags' = [drags EXCEPT ![side] = None]
  /\ UNCHANGED <<motionVars, preferred, windowVars, gestures>>

-----------------------------------------------------------------------------
(***************************************************************************)
(* The popup.                                                              *)
(***************************************************************************)
ClosedPopup == [popup EXCEPT !.mounted = FALSE, !.moving = FALSE, !.frame = FALSE]

\* Escape, the backdrop or the button.
requestClose ==
  /\ popup.mounted /\ ~popup.exiting
  /\ Gesture
  /\ popup' = IF reduce THEN ClosedPopup
              ELSE [popup EXCEPT !.exiting = TRUE, !.revealed = FALSE, !.moving = @ \/ popup.revealed]
  /\ UNCHANGED <<surfaces, gutters, feature, reduce, preferred, drags, windowVars, switched>>

handleOpenProject ==
  /\ popup.mounted /\ ~popup.picking
  /\ Gesture
  /\ popup' = [popup EXCEPT !.picking = TRUE]
  /\ UNCHANGED <<surfaces, gutters, feature, reduce, preferred, drags, windowVars, switched>>

\* A folder that is picked becomes the workspace, whose popup goes at once; it
\* stays when the user or an error ends the picking.
Picked ==
  /\ popup.picking
  /\ \/ popup' = [ClosedPopup EXCEPT !.picking = FALSE]
     \/ popup' = [popup EXCEPT !.picking = FALSE]
  /\ UNCHANGED <<surfaces, gutters, feature, reduce, preferred, drags, windowVars, switched, gestures>>

PopupTransitionEnd ==
  /\ popup.moving
  /\ popup' = IF popup.exiting THEN ClosedPopup ELSE [popup EXCEPT !.moving = FALSE]
  /\ UNCHANGED <<surfaces, gutters, feature, reduce, preferred, drags, windowVars, switched, gestures>>

Next ==
  \/ \E k \in Surfaces : onTransitionEnd(k)
  \/ setSettingsOpen \/ resetPanelWidths \/ SetReduceMotion \/ Frame
  \/ \E next \in {"files", "git"} : select(next) \/ SwitchTrunk(next)
  \/ Slide \/ ResizeWindow \/ MoveWindow \/ WindowAnswered
  \/ \E side \in Sides :
       \/ toggle(side) \/ setVisible(side) \/ GutterTimeout(side)
       \/ \E pointer \in Pointers : PointerDown(side, pointer)
       \/ PointerMove(side) \/ PointerUp(side)
  \/ requestClose \/ handleOpenProject \/ Picked \/ PopupTransitionEnd

Spec == Init /\ [][Next]_vars

-----------------------------------------------------------------------------
(***************************************************************************)
(* Properties.                                                             *)
(***************************************************************************)
PanelWidth == MIN_SHELL_PANEL_WIDTH .. MAX_SHELL_PANEL_WIDTH

TypeOK ==
  /\ \A k \in Surfaces : surfaces[k].reveals \subseteq {1, 2}
  /\ preferred \in [Sides -> PanelWidth]
  /\ \A side \in Sides : drags[side] # None => drags[side].pointer \in Pointers /\ gutters[side].mounted
  /\ gui.scale \in GUI_SCALE_MIN .. GUI_SCALE_MAX /\ gui.fit \in GUI_SCALE_MIN .. GUI_SCALE_MAX
  /\ reduce \in BOOLEAN /\ switched \in BOOLEAN /\ moved \in BOOLEAN

\* However fast a surface is shown and hidden, and whenever the preference for
\* reduced motion changes: once its transition and its frames are over it is there
\* exactly when it should be, and not transparent; so are the gutters and the right
\* panel's feature, and a popup that closes has gone, unless its transition was cancelled (the latches of
\* shellPanelSlot.tsx 51-67, shellSettingsPage.tsx 291-307, workspacePopup.tsx 56-64).
SurfacesSettle ==
  /\ \A k \in Surfaces :
       ~surfaces[k].moving /\ surfaces[k].reveals = {} =>
         surfaces[k].mounted = surfaces[k].open /\ (surfaces[k].open => surfaces[k].revealed)
  /\ feature.rendered = feature.active /\ (feature.reveals = {} => feature.revealed)
  /\ \A side \in Sides : ~gutters[side].timer => gutters[side].mounted = surfaces[side].open
  /\ popup.mounted /\ popup.exiting /\ ~switched => popup.moving \/ popup.frame

\* In every window and after every drag a shown panel keeps its least width, a
\* window of twice the panels' least and more leaves its middle a quarter of
\* itself but for the rounding, and the columns fill a window that has room for
\* them (shellColumnLayout.ts).
ColumnsFit ==
  LET columns == distributeShellColumnWidths
  IN  /\ TypeOK
      /\ \A side \in Sides : columns[side] \in (IF surfaces[side].open THEN PanelWidth ELSE {0})
      /\ available >= 4 * MIN_SHELL_PANEL_WIDTH => 4 * (columns.left + columns.right) <= 3 * available + 4
      /\ columns.left + columns.right + MIN_SHELL_CENTER_WIDTH <= available =>
           columns.left + columns.center + columns.right = available

\* Whatever the slider, the settings page and the monitors did while the window
\* was still answering: in the end the scale fits the work area the window is in
\* and the window has the size of that scale, unless the user resized or moved it
\* since (sessionRoot.tsx 122-152, sessionGuiScale.ts).
ScaleFits ==
  gui.calls = <<>> /\ ~moved =>
    /\ gui.scale <= maxGuiScaleForWorkArea(gui.area)
    /\ gui.window = scaledWindowSize(gui.scale, gui.area)
=============================================================================
