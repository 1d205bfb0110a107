---------------------------- MODULE ShellLayoutProofs ----------------------------
(***************************************************************************)
(* Proofs about the shell's layout, for any monitors, window widths, scales,*)
(* pointers and pointer positions, and any number of acts of the user.      *)
(***************************************************************************)
EXTENDS ShellLayout, TLAPS, SequenceTheorems

-----------------------------------------------------------------------------
(* The inductive invariant, in parts.                                       *)
Surface ==
  [open : BOOLEAN, mounted : BOOLEAN, revealed : BOOLEAN, reveals : SUBSET {1, 2},
   moving : BOOLEAN]

(* A surface that is shown is there, and seen or about to be; one that is   *)
(* hidden and still there is on its way out, or a page whose frames will    *)
(* start its transition.  With reduced motion it has gone at once.          *)
Settling(k, s, quiet) ==
  /\ s.open => s.mounted
  /\ s.open /\ ~s.revealed => s.reveals # {}
  /\ ~s.open /\ s.mounted =>
       /\ ~quiet
       /\ s.moving \/ (k \notin Sides /\ ~s.revealed /\ s.reveals # {})

SurfacesInv ==
  /\ surfaces \in [Surfaces -> Surface]
  /\ reduce \in BOOLEAN
  /\ \A k \in Surfaces : Settling(k, surfaces[k], reduce)

Features == {"files", "git"}

FeatureInv ==
  /\ feature \in [active : Features, rendered : Features, revealed : BOOLEAN, reveals : SUBSET {1, 2}]
  /\ feature.rendered = feature.active
  /\ ~feature.revealed => feature.reveals # {}

(* A gutter without a timeout is there with its panel; the timeout is that  *)
(* of a hidden panel.                                                       *)
GuttersInv ==
  /\ gutters \in [Sides -> [mounted : BOOLEAN, timer : BOOLEAN]]
  /\ \A side \in Sides :
       /\ gutters[side].timer => gutters[side].mounted /\ ~surfaces[side].open
       /\ ~gutters[side].timer => gutters[side].mounted = surfaces[side].open

(* A popup that closes goes on moving, or waits for the frame that starts   *)
(* its transition, unless the preference has changed since.                 *)
PopupInv ==
  /\ popup \in [mounted : BOOLEAN, revealed : BOOLEAN, exiting : BOOLEAN, moving : BOOLEAN,
                frame : BOOLEAN, picking : BOOLEAN]
  /\ switched \in BOOLEAN
  /\ popup.mounted /\ ~popup.exiting /\ ~popup.revealed => popup.frame
  /\ popup.mounted /\ popup.exiting /\ ~switched => ~reduce /\ (popup.moving \/ popup.frame)

Drag == [pointer : Pointers \cup {"none"}, startX : Int, startWidth : Int]

HandlesInv ==
  /\ preferred \in [Sides -> PanelWidth]
  /\ drags \in [Sides -> Drag]
  /\ \A side \in Sides :
       drags[side] # None => drags[side].pointer \in Pointers /\ gutters[side].mounted

Call == [kind : {"area", "settings", "size"}, live : BOOLEAN, scale : Int]
ScaleRange == GUI_SCALE_MIN .. GUI_SCALE_MAX

GuiShape(g) ==
  /\ DOMAIN g = {"scale", "area", "window", "fit", "calls"}
  /\ g.scale \in ScaleRange /\ g.fit \in ScaleRange
  /\ g.area \in Nat /\ g.window \in Nat /\ g.calls \in Seq(Call)

AsksForArea(calls) == \E i \in DOMAIN calls : calls[i].kind = "area" /\ calls[i].live

(* The last size that was asked for is that of the scale.                   *)
AsksForScale(calls, scale) ==
  \E i \in DOMAIN calls :
    /\ calls[i].kind = "size" /\ calls[i].scale = scale
    /\ \A j \in DOMAIN calls : j > i => calls[j].kind # "size"

AsksForNoSize(calls) == \A i \in DOMAIN calls : calls[i].kind # "size"

\* Nobody calls off the window's size, and it is that of one of the slider's scales.
SizesStand(calls) ==
  \A i \in DOMAIN calls : calls[i].kind = "size" => calls[i].live /\ calls[i].scale \in ScaleRange

(* The work area will be looked at, or the scale fits it and the window has  *)
(* its size or was asked to take it.                                        *)
Fitting(g) ==
  \/ AsksForArea(g.calls)
  \/ /\ g.scale <= maxGuiScaleForWorkArea(g.area)
     /\ \/ AsksForScale(g.calls, g.scale)
        \/ AsksForNoSize(g.calls) /\ g.window = scaledWindowSize(g.scale, g.area)

ScaleInv ==
  /\ GuiShape(gui) /\ moved \in BOOLEAN
  /\ SizesStand(gui.calls)
  /\ ~moved => Fitting(gui)

Invariant == SurfacesInv /\ FeatureInv /\ GuttersInv /\ PopupInv /\ HandlesInv /\ ScaleInv

-----------------------------------------------------------------------------
(* Arithmetic.                                                              *)

LEMMA MaxOfTwo ==
  ASSUME NEW a \in Int, NEW b \in Int
  PROVE  Max({a, b}) = IF a >= b THEN a ELSE b
<1> DEFINE S == {a, b}
           IsMax(x) == x \in S /\ \A y \in S : x >= y
           m == IF a >= b THEN a ELSE b
<1>1. IsMax(m)
  OBVIOUS
<1>2. \A x : IsMax(x) => x = m
  OBVIOUS
<1>3. Max(S) = CHOOSE x : IsMax(x)
  BY DEF Max
<1> HIDE DEF IsMax, m
<1>4. IsMax(CHOOSE x : IsMax(x))
  BY <1>1
<1>5. QED
  BY <1>2, <1>3, <1>4 DEF m

LEMMA MinOfTwo ==
  ASSUME NEW a \in Int, NEW b \in Int
  PROVE  Min({a, b}) = IF a <= b THEN a ELSE b
<1> DEFINE S == {a, b}
           IsMin(x) == x \in S /\ \A y \in S : x <= y
           m == IF a <= b THEN a ELSE b
<1>1. IsMin(m)
  OBVIOUS
<1>2. \A x : IsMin(x) => x = m
  OBVIOUS
<1>3. Min(S) = CHOOSE x : IsMin(x)
  BY DEF Min
<1> HIDE DEF IsMin, m
<1>4. IsMin(CHOOSE x : IsMin(x))
  BY <1>1
<1>5. QED
  BY <1>2, <1>3, <1>4 DEF m

LEMMA MinOfThree ==
  ASSUME NEW a \in Int, NEW b \in Int, NEW c \in Int
  PROVE  /\ Min({a, b, c}) \in {a, b, c}
         /\ Min({a, b, c}) <= a /\ Min({a, b, c}) <= b /\ Min({a, b, c}) <= c
<1> DEFINE S == {a, b, c}
           IsMin(x) == x \in S /\ \A y \in S : x <= y
<1>1. \E x : IsMin(x)
  <2>1. CASE a <= b /\ a <= c
    <3>1. IsMin(a)
      BY <2>1
    <3>2. QED
      BY <3>1
  <2>2. CASE b <= a /\ b <= c
    <3>1. IsMin(b)
      BY <2>2
    <3>2. QED
      BY <3>1
  <2>3. CASE c <= a /\ c <= b
    <3>1. IsMin(c)
      BY <2>3
    <3>2. QED
      BY <3>1
  <2>4. QED
    BY <2>1, <2>2, <2>3
<1>2. Min(S) = CHOOSE x : IsMin(x)
  BY DEF Min
<1> HIDE DEF IsMin
<1>3. IsMin(Min(S))
  BY <1>1, <1>2
<1>4. QED
  BY <1>3 DEF IsMin

\* A scale that is clamped is one of the slider's, and no larger than the fit.
LEMMA ScaleClamped ==
  ASSUME NEW scale \in Int, NEW fit \in Int
  PROVE  /\ clampGuiScale(scale, fit) \in ScaleRange
         /\ fit >= GUI_SCALE_MIN => clampGuiScale(scale, fit) <= fit
         /\ scale \in ScaleRange /\ scale <= fit => clampGuiScale(scale, fit) = scale
<1> DEFINE f == Max({GUI_SCALE_MIN, fit})
           s == Max({GUI_SCALE_MIN, scale})
<1>1. /\ f = (IF GUI_SCALE_MIN >= fit THEN GUI_SCALE_MIN ELSE fit)
      /\ s = (IF GUI_SCALE_MIN >= scale THEN GUI_SCALE_MIN ELSE scale)
  BY MaxOfTwo DEF GUI_SCALE_MIN
<1>2. clampGuiScale(scale, fit) = Min({GUI_SCALE_MAX, f, s})
  BY DEF clampGuiScale
<1> HIDE DEF f, s
<1>3. f \in Int /\ s \in Int /\ GUI_SCALE_MAX \in Int
  BY <1>1 DEF GUI_SCALE_MIN, GUI_SCALE_MAX
<1> DEFINE m == Min({GUI_SCALE_MAX, f, s})
<1>4. m \in {GUI_SCALE_MAX, f, s} /\ m <= GUI_SCALE_MAX /\ m <= f /\ m <= s
  BY <1>3, MinOfThree
<1> HIDE DEF m
<1>5. QED
  BY <1>1, <1>2, <1>4 DEF m, ScaleRange, GUI_SCALE_MIN, GUI_SCALE_MAX

LEMMA FitIsScale ==
  ASSUME NEW area \in Nat
  PROVE  maxGuiScaleForWorkArea(area) \in ScaleRange
<1>1. (area * 100) \div SHELL_WINDOW_WIDTH \in Int /\ GUI_SCALE_MAX \in Int
  BY DEF SHELL_WINDOW_WIDTH, GUI_SCALE_MAX
<1>2. QED
  BY <1>1, ScaleClamped DEF maxGuiScaleForWorkArea

LEMMA WindowSizeIsNat ==
  ASSUME NEW scale \in ScaleRange, NEW area \in Nat
  PROVE  scaledWindowSize(scale, area) \in Nat
<1>1. (SHELL_WINDOW_WIDTH * scale) \div 100 \in Nat
  BY DEF SHELL_WINDOW_WIDTH, ScaleRange, GUI_SCALE_MIN, GUI_SCALE_MAX
<1>2. QED
  BY <1>1, MinOfTwo DEF scaledWindowSize

LEMMA PanelClamped ==
  ASSUME NEW width \in Int
  PROVE  clampShellPanelWidth(width) \in PanelWidth
<1> DEFINE w == Max({MIN_SHELL_PANEL_WIDTH, width})
<1>1. w = (IF MIN_SHELL_PANEL_WIDTH >= width THEN MIN_SHELL_PANEL_WIDTH ELSE width)
  BY MaxOfTwo DEF MIN_SHELL_PANEL_WIDTH
<1> HIDE DEF w
<1>2. w \in Int /\ w >= MIN_SHELL_PANEL_WIDTH /\ MAX_SHELL_PANEL_WIDTH \in Int
  BY <1>1 DEF MIN_SHELL_PANEL_WIDTH, MAX_SHELL_PANEL_WIDTH
<1>3. Min({MAX_SHELL_PANEL_WIDTH, w}) = IF MAX_SHELL_PANEL_WIDTH <= w THEN MAX_SHELL_PANEL_WIDTH ELSE w
  BY <1>2, MinOfTwo
<1>4. QED
  BY <1>2, <1>3 DEF clampShellPanelWidth, PanelWidth, w, MIN_SHELL_PANEL_WIDTH, MAX_SHELL_PANEL_WIDTH

\* The shell's width, rounded, is a width.
LEMMA AvailableIsNat == ASSUME GuiShape(gui) PROVE available \in Nat
<1>. DEFINE s == gui.scale
<1>1. s \in ScaleRange /\ gui.window \in Nat
  BY DEF GuiShape
<1>. HIDE DEF s
<1>2. s \in Nat /\ s > 0 /\ gui.window \in Nat
  BY <1>1 DEF ScaleRange, GUI_SCALE_MIN, GUI_SCALE_MAX
<1>3. gui.window * 100 + s \div 2 \in Nat
  BY <1>2
<1>4. QED
  BY <1>2, <1>3 DEF available, s

-----------------------------------------------------------------------------
(* The surfaces.                                                            *)

LEMMA EffectFields ==
  ASSUME NEW s \in Surface, NEW quiet \in BOOLEAN
  PROVE  /\ Effect(s, quiet) \in Surface
         /\ Effect(s, quiet).open = s.open /\ Effect(s, quiet).moving = s.moving
         /\ s.open => /\ Effect(s, quiet).mounted /\ Effect(s, quiet).revealed = quiet
                      /\ ~quiet => Effect(s, quiet).reveals # {}
         /\ ~s.open => /\ Effect(s, quiet).mounted = (s.mounted /\ ~quiet)
                       /\ ~Effect(s, quiet).revealed /\ Effect(s, quiet).reveals = s.reveals
<1>1. CASE s.open
  BY <1>1 DEF Effect, Surface
<1>2. CASE ~s.open
  BY <1>2 DEF Effect, Surface
<1>3. QED
  BY <1>1, <1>2

LEMMA MovedFields ==
  ASSUME NEW k \in Surfaces, NEW s \in Surface, NEW t \in Surface, NEW quiet \in BOOLEAN,
         reduce \in BOOLEAN
  PROVE  /\ Moved(k, s, t, quiet) \in Surface
         /\ Moved(k, s, t, quiet).open = t.open /\ Moved(k, s, t, quiet).mounted = t.mounted
         /\ Moved(k, s, t, quiet).revealed = t.revealed /\ Moved(k, s, t, quiet).reveals = t.reveals
         /\ ~quiet /\ t.mounted /\ s.moving => Moved(k, s, t, quiet).moving
         /\ ~quiet /\ t.mounted /\ s.mounted /\ Styled(k, s, reduce) # Styled(k, t, quiet) =>
              Moved(k, s, t, quiet).moving
<1> DEFINE moving == /\ ~quiet /\ t.mounted
                     /\ s.moving \/ (s.mounted /\ Styled(k, s, reduce) # Styled(k, t, quiet))
<1>1. Moved(k, s, t, quiet) = [t EXCEPT !.moving = moving]
  BY DEF Moved
<1>2. moving \in BOOLEAN
  OBVIOUS
<1>3. /\ ~quiet /\ t.mounted /\ s.moving => moving
      /\ ~quiet /\ t.mounted /\ s.mounted /\ Styled(k, s, reduce) # Styled(k, t, quiet) => moving
  OBVIOUS
<1> HIDE DEF moving
<1>4. [t EXCEPT !.moving = moving] \in Surface
  BY <1>2 DEF Surface
<1>5. [t EXCEPT !.moving = moving].moving = moving
  BY DEF Surface
<1>6. QED
  BY <1>1, <1>3, <1>4, <1>5 DEF Surface

\* A surface that is shown or hidden, however it stood.
LEMMA ShownSettles ==
  ASSUME NEW k \in Surfaces, NEW open \in BOOLEAN, SurfacesInv
  PROVE  /\ Shown(k, open) \in Surface /\ Shown(k, open).open = open
         /\ Settling(k, Shown(k, open), reduce)
<1> DEFINE s == surfaces[k]
           o == [s EXCEPT !.open = open]
           t == Effect(o, reduce)
           r == Moved(k, s, t, reduce)
<1>1. s \in Surface /\ reduce \in BOOLEAN /\ Settling(k, s, reduce)
  BY DEF SurfacesInv
<1>2. /\ o \in Surface /\ o.open = open
      /\ o.mounted = s.mounted /\ o.revealed = s.revealed /\ o.reveals = s.reveals /\ o.moving = s.moving
  BY <1>1 DEF Surface
<1>3. Shown(k, open) = r
  BY DEF Shown
<1> HIDE DEF s, o
<1>4. /\ t \in Surface /\ t.open = open /\ t.moving = s.moving
      /\ open => t.mounted /\ t.revealed = reduce /\ (~reduce => t.reveals # {})
      /\ ~open => t.mounted = (s.mounted /\ ~reduce) /\ ~t.revealed /\ t.reveals = s.reveals
  BY <1>1, <1>2, EffectFields
<1> HIDE DEF t
<1>5. t \in Surface
  BY <1>4
<1>6. /\ r \in Surface
      /\ r.open = t.open /\ r.mounted = t.mounted /\ r.revealed = t.revealed /\ r.reveals = t.reveals
      /\ ~reduce /\ t.mounted /\ s.moving => r.moving
      /\ ~reduce /\ t.mounted /\ s.mounted /\ Styled(k, s, reduce) # Styled(k, t, reduce) => r.moving
  BY <1>1, <1>5, MovedFields
<1> HIDE DEF r
<1>7. CASE open
  BY <1>3, <1>4, <1>6, <1>7 DEF Settling
<1>8. CASE ~open /\ t.mounted
  <2>1. s.mounted /\ ~reduce /\ s.mounted \in BOOLEAN /\ s.open \in BOOLEAN /\ s.revealed \in BOOLEAN
    BY <1>1, <1>4, <1>8 DEF Surface
  <2>2. CASE k \in Sides
    <3>1. s.open \/ s.moving
      BY <1>1, <2>1, <2>2 DEF Settling
    <3>2. s.open => Styled(k, s, reduce) # Styled(k, t, reduce)
      BY <2>2, <1>4, <1>8 DEF Styled
    <3>3. QED
      BY <1>3, <1>4, <1>6, <1>8, <2>1, <3>1, <3>2 DEF Settling
  <2>3. CASE k \notin Sides
    <3>1. s.revealed \/ s.moving \/ s.reveals # {}
      BY <1>1, <2>1 DEF Settling
    <3>2. s.revealed => Styled(k, s, reduce) # Styled(k, t, reduce)
      BY <2>3, <1>4, <1>8, <2>1 DEF Styled
    <3>3. QED
      BY <1>3, <1>4, <1>6, <1>8, <2>1, <2>3, <3>1, <3>2 DEF Settling
  <2>4. QED
    BY <2>2, <2>3
<1>9. CASE ~open /\ ~t.mounted
  BY <1>3, <1>4, <1>6, <1>9 DEF Settling
<1>10. QED
  BY <1>7, <1>8, <1>9

\* The preference changes: a surface on its way out has gone before motion can come back.
LEMMA SwitchSettles ==
  ASSUME NEW k \in Surfaces, SurfacesInv
  PROVE  LET r == Moved(k, surfaces[k], Effect(surfaces[k], ~reduce), ~reduce)
         IN  r \in Surface /\ r.open = surfaces[k].open /\ Settling(k, r, ~reduce)
<1> DEFINE s == surfaces[k]
           t == Effect(s, ~reduce)
           r == Moved(k, s, t, ~reduce)
<1>1. s \in Surface /\ reduce \in BOOLEAN /\ Settling(k, s, reduce)
  BY DEF SurfacesInv
<1> HIDE DEF s
<1>2. /\ t \in Surface /\ t.open = s.open
      /\ s.open => t.mounted /\ t.revealed = (~reduce) /\ (reduce => t.reveals # {})
      /\ ~s.open => t.mounted = (s.mounted /\ reduce)
  BY <1>1, EffectFields
<1> HIDE DEF t
<1>3. /\ r \in Surface
      /\ r.open = t.open /\ r.mounted = t.mounted /\ r.revealed = t.revealed /\ r.reveals = t.reveals
  BY <1>1, <1>2, MovedFields
<1> HIDE DEF r
<1>4. Settling(k, r, ~reduce)
  BY <1>1, <1>2, <1>3 DEF Settling
<1>5. QED
  BY <1>2, <1>3, <1>4 DEF r, s, t

\* The next frame, which may start the page's transition.
LEMMA FrameSettles ==
  ASSUME NEW k \in Surfaces, SurfacesInv
  PROVE  LET r == Moved(k, surfaces[k], Framed(surfaces[k]), reduce)
         IN  r \in Surface /\ r.open = surfaces[k].open /\ Settling(k, r, reduce)
<1> DEFINE s == surfaces[k]
           t == Framed(s)
           r == Moved(k, s, t, reduce)
<1>1. s \in Surface /\ reduce \in BOOLEAN /\ Settling(k, s, reduce)
  BY DEF SurfacesInv
<1> HIDE DEF s
<1>2. t \in Surface
  BY <1>1 DEF Framed, Surface
<1>3. /\ t.open = s.open /\ t.mounted = s.mounted /\ t.moving = s.moving
      /\ t.reveals = (IF 2 \in s.reveals THEN {1} ELSE {})
      /\ t.revealed = (s.revealed \/ 1 \in s.reveals)
      /\ s.reveals \subseteq {1, 2}
  BY <1>1 DEF Framed, Surface
<1> HIDE DEF t
<1>4. /\ r \in Surface
      /\ r.open = t.open /\ r.mounted = t.mounted /\ r.revealed = t.revealed /\ r.reveals = t.reveals
      /\ ~reduce /\ t.mounted /\ s.moving => r.moving
      /\ ~reduce /\ t.mounted /\ s.mounted /\ Styled(k, s, reduce) # Styled(k, t, reduce) => r.moving
  BY <1>1, <1>2, MovedFields
<1> HIDE DEF r
<1>5. s.reveals # {} => 1 \in s.reveals \/ 2 \in s.reveals
  BY <1>3
<1>6. r.open => r.mounted /\ (~r.revealed => r.reveals # {})
  BY <1>1, <1>3, <1>4, <1>5 DEF Settling
<1>7. ~r.open /\ r.mounted => ~reduce /\ (r.moving \/ (k \notin Sides /\ ~r.revealed /\ r.reveals # {}))
  <2>1. SUFFICES ASSUME ~r.open, r.mounted, ~r.moving
                 PROVE  ~reduce /\ k \notin Sides /\ ~r.revealed /\ r.reveals # {}
    BY <1>1, <1>3, <1>4 DEF Settling
  <2>2. ~reduce /\ k \notin Sides /\ ~s.revealed /\ s.reveals # {} /\ s.mounted
    BY <1>1, <1>3, <1>4, <2>1 DEF Settling
  <2>3. 1 \notin s.reveals
    <3>1. SUFFICES ASSUME 1 \in s.reveals PROVE FALSE
      OBVIOUS
    <3>2. Styled(k, s, reduce) # Styled(k, t, reduce)
      BY <1>3, <2>2, <3>1 DEF Styled
    <3>3. QED
      BY <1>3, <1>4, <2>1, <2>2, <3>2
  <2>4. QED
    BY <1>3, <1>4, <1>5, <2>2, <2>3
<1>8. QED
  BY <1>3, <1>4, <1>6, <1>7 DEF Settling, r, s, t

LEMMA EndSettles ==
  ASSUME NEW k \in Surfaces, SurfacesInv
  PROVE  /\ Ended(surfaces[k]) \in Surface /\ Ended(surfaces[k]).open = surfaces[k].open
         /\ Settling(k, Ended(surfaces[k]), reduce)
<1>1. surfaces[k] \in Surface /\ Settling(k, surfaces[k], reduce)
  BY DEF SurfacesInv
<1>2. QED
  BY <1>1 DEF Ended, Surface, Settling

-----------------------------------------------------------------------------
(* The calls that the window has to answer.                                 *)

LEMMA OffCallFields ==
  ASSUME NEW calls \in Seq(Call), NEW kind
  PROVE  /\ OffCall(calls, kind) \in Seq(Call)
         /\ DOMAIN OffCall(calls, kind) = DOMAIN calls
         /\ \A i \in DOMAIN calls :
              /\ OffCall(calls, kind)[i].kind = calls[i].kind
              /\ OffCall(calls, kind)[i].scale = calls[i].scale
              /\ calls[i].kind # kind => OffCall(calls, kind)[i].live = calls[i].live
<1> DEFINE off(i) == [calls[i] EXCEPT !.live = @ /\ calls[i].kind # kind]
           n == Len(calls)
           f == [i \in 1 .. n |-> off(i)]
<1>1. n \in Nat /\ DOMAIN calls = 1 .. n /\ \A i \in 1 .. n : calls[i] \in Call
  OBVIOUS
<1>2. OffCall(calls, kind) = f
  BY <1>1 DEF OffCall
<1> HIDE DEF n
<1>3. \A i \in 1 .. n :
        /\ off(i) \in Call
        /\ off(i).kind = calls[i].kind /\ off(i).scale = calls[i].scale
        /\ calls[i].kind # kind => off(i).live = calls[i].live
  <2>1. SUFFICES ASSUME NEW i \in 1 .. n
                 PROVE  /\ off(i) \in Call
                        /\ off(i).kind = calls[i].kind /\ off(i).scale = calls[i].scale
                        /\ calls[i].kind # kind => off(i).live = calls[i].live
    OBVIOUS
  <2>2. calls[i] \in Call
    BY <1>1
  <2>3. off(i) \in Call
    BY <2>2 DEF Call
  <2>4. off(i).kind = calls[i].kind /\ off(i).scale = calls[i].scale
    BY <2>2 DEF Call
  <2>5. ASSUME calls[i].kind # kind PROVE off(i).live = calls[i].live
    BY <2>2, <2>5 DEF Call
  <2>6. QED
    BY <2>3, <2>4, <2>5
<1> HIDE DEF off
<1>4. f \in [1 .. n -> Call]
  BY <1>3
<1>5. f \in Seq(Call)
  BY <1>1, <1>4
<1>6. QED
  BY <1>1, <1>2, <1>3, <1>5

\* Calling off a question leaves what was asked of the window's size, and the other questions.
LEMMA OffCallKeeps ==
  ASSUME NEW calls \in Seq(Call), NEW kind
  PROVE  /\ SizesStand(calls) /\ kind # "size" => SizesStand(OffCall(calls, kind))
         /\ kind # "area" /\ AsksForArea(calls) => AsksForArea(OffCall(calls, kind))
         /\ \A scale : AsksForScale(calls, scale) => AsksForScale(OffCall(calls, kind), scale)
         /\ AsksForNoSize(calls) => AsksForNoSize(OffCall(calls, kind))
<1>1. /\ DOMAIN OffCall(calls, kind) = DOMAIN calls
      /\ \A i \in DOMAIN calls :
           /\ OffCall(calls, kind)[i].kind = calls[i].kind
           /\ OffCall(calls, kind)[i].scale = calls[i].scale
           /\ calls[i].kind # kind => OffCall(calls, kind)[i].live = calls[i].live
  BY OffCallFields
<1>2. SizesStand(calls) /\ kind # "size" => SizesStand(OffCall(calls, kind))
  BY <1>1 DEF SizesStand
<1>3. kind # "area" /\ AsksForArea(calls) => AsksForArea(OffCall(calls, kind))
  BY <1>1 DEF AsksForArea
<1>4. \A scale : AsksForScale(calls, scale) => AsksForScale(OffCall(calls, kind), scale)
  BY <1>1 DEF AsksForScale
<1>5. AsksForNoSize(calls) => AsksForNoSize(OffCall(calls, kind))
  BY <1>1 DEF AsksForNoSize
<1>6. QED
  BY <1>2, <1>3, <1>4, <1>5

LEMMA AppendKeeps ==
  ASSUME NEW calls \in Seq(Call), NEW call \in Call
  PROVE  /\ Append(calls, call) \in Seq(Call)
         /\ SizesStand(calls) /\ (call.kind = "size" => call.live /\ call.scale \in ScaleRange) =>
              SizesStand(Append(calls, call))
         /\ AsksForArea(calls) \/ (call.kind = "area" /\ call.live) => AsksForArea(Append(calls, call))
         /\ call.kind = "size" => AsksForScale(Append(calls, call), call.scale)
         /\ call.kind # "size" =>
              /\ \A scale : AsksForScale(calls, scale) => AsksForScale(Append(calls, call), scale)
              /\ AsksForNoSize(calls) => AsksForNoSize(Append(calls, call))
<1> DEFINE n == Len(calls)
           r == Append(calls, call)
<1>1. /\ n \in Nat /\ DOMAIN calls = 1 .. n
      /\ r \in Seq(Call) /\ DOMAIN r = 1 .. n + 1
      /\ r[n + 1] = call
      /\ \A i \in 1 .. n : r[i] = calls[i]
  OBVIOUS
<1> HIDE DEF n, r
<1>2. \A i \in 1 .. n + 1 : i \in 1 .. n \/ i = n + 1
  BY <1>1
<1>3. 1 .. n \subseteq 1 .. n + 1 /\ n + 1 \in 1 .. n + 1 /\ n + 1 \notin 1 .. n
  BY <1>1
<1>4. SizesStand(calls) /\ (call.kind = "size" => call.live /\ call.scale \in ScaleRange) => SizesStand(r)
  BY <1>1, <1>2 DEF SizesStand
<1>5. AsksForArea(calls) => AsksForArea(r)
  BY <1>1, <1>3 DEF AsksForArea
<1>6. call.kind = "area" /\ call.live => AsksForArea(r)
  BY <1>1, <1>3 DEF AsksForArea
<1>7. call.kind = "size" => AsksForScale(r, call.scale)
  BY <1>1, <1>3 DEF AsksForScale
<1>8. ASSUME call.kind # "size", NEW scale, AsksForScale(calls, scale)
      PROVE  AsksForScale(r, scale)
  <2>1. PICK i \in 1 .. n : /\ calls[i].kind = "size" /\ calls[i].scale = scale
                            /\ \A j \in 1 .. n : j > i => calls[j].kind # "size"
    BY <1>1, <1>8 DEF AsksForScale
  <2>2. i \in 1 .. n + 1 /\ r[i].kind = "size" /\ r[i].scale = scale
    BY <1>1, <1>3, <2>1
  <2>3. \A j \in 1 .. n + 1 : j > i => r[j].kind # "size"
    BY <1>1, <1>2, <1>8, <2>1
  <2>4. QED
    BY <1>1, <2>2, <2>3 DEF AsksForScale
<1>9. call.kind # "size" /\ AsksForNoSize(calls) => AsksForNoSize(r)
  BY <1>1, <1>2 DEF AsksForNoSize
<1>10. QED
  BY <1>1, <1>4, <1>5, <1>6, <1>7, <1>8, <1>9 DEF r

\* The first call is answered.
LEMMA TailKeeps ==
  ASSUME NEW calls \in Seq(Call), calls # <<>>
  PROVE  /\ Head(calls) \in Call /\ Tail(calls) \in Seq(Call)
         /\ SizesStand(calls) =>
              /\ SizesStand(Tail(calls))
              /\ Head(calls).kind = "size" => Head(calls).live /\ Head(calls).scale \in ScaleRange
         /\ AsksForArea(calls) =>
              AsksForArea(Tail(calls)) \/ (Head(calls).kind = "area" /\ Head(calls).live)
         /\ AsksForNoSize(calls) => Head(calls).kind # "size" /\ AsksForNoSize(Tail(calls))
         /\ \A scale : AsksForScale(calls, scale) =>
              \/ AsksForScale(Tail(calls), scale)
              \/ Head(calls).kind = "size" /\ Head(calls).scale = scale /\ AsksForNoSize(Tail(calls))
<1> DEFINE n == Len(calls)
           r == Tail(calls)
           h == Head(calls)
<1>1. /\ n \in Nat /\ n >= 1 /\ DOMAIN calls = 1 .. n /\ h = calls[1] /\ h \in Call
      /\ r \in Seq(Call) /\ DOMAIN r = 1 .. n - 1
      /\ \A i \in 1 .. n - 1 : r[i] = calls[i + 1]
  OBVIOUS
<1> HIDE DEF n, r, h
<1>2. /\ 1 \in 1 .. n
      /\ \A i \in 1 .. n - 1 : i + 1 \in 1 .. n
      /\ \A i \in 1 .. n : i = 1 \/ (i - 1 \in 1 .. n - 1 /\ (i - 1) + 1 = i)
  BY <1>1
<1>3. \A i \in 1 .. n : i = 1 \/ r[i - 1] = calls[i]
  BY <1>1, <1>2
<1>4. SizesStand(calls) => SizesStand(r) /\ (h.kind = "size" => h.live /\ h.scale \in ScaleRange)
  BY <1>1, <1>2 DEF SizesStand
<1>5. AsksForArea(calls) => AsksForArea(r) \/ (h.kind = "area" /\ h.live)
  BY <1>1, <1>2, <1>3 DEF AsksForArea
<1>6. AsksForNoSize(calls) => h.kind # "size" /\ AsksForNoSize(r)
  BY <1>1, <1>2 DEF AsksForNoSize
<1>7. ASSUME NEW scale, AsksForScale(calls, scale)
      PROVE  AsksForScale(r, scale) \/ (h.kind = "size" /\ h.scale = scale /\ AsksForNoSize(r))
  <2>1. PICK i \in 1 .. n : /\ calls[i].kind = "size" /\ calls[i].scale = scale
                            /\ \A j \in 1 .. n : j > i => calls[j].kind # "size"
    BY <1>1, <1>7 DEF AsksForScale
  <2>2. CASE i = 1
    <3>1. \A j \in 1 .. n - 1 : r[j].kind # "size"
      <4>1. \A j \in 1 .. n - 1 : j + 1 > i
        BY <1>1, <2>2
      <4>2. QED
        BY <1>1, <1>2, <2>1, <4>1
    <3>2. QED
      BY <1>1, <2>1, <2>2, <3>1 DEF AsksForNoSize
  <2>3. CASE i # 1
    <3>1. i - 1 \in 1 .. n - 1 /\ r[i - 1] = calls[i]
      BY <1>2, <1>3, <2>3
    <3>2. \A j \in 1 .. n - 1 : j > i - 1 => j + 1 > i
      BY <1>1
    <3>3. \A j \in 1 .. n - 1 : j > i - 1 => r[j].kind # "size"
      BY <1>1, <1>2, <2>1, <3>2
    <3>4. QED
      BY <1>1, <2>1, <3>1, <3>3 DEF AsksForScale
  <2>4. QED
    BY <2>2, <2>3
<1>8. QED
  BY <1>1, <1>4, <1>5, <1>6, <1>7 DEF r, h

-----------------------------------------------------------------------------
(* The scale.                                                               *)

\* A scale that differs is followed by a look at the work area.
LEMMA ScaleSet ==
  ASSUME NEW g, GuiShape(g), SizesStand(g.calls), NEW scale \in ScaleRange
  PROVE  /\ GuiShape(setGuiScale(g, scale)) /\ SizesStand(setGuiScale(g, scale).calls)
         /\ scale = g.scale => setGuiScale(g, scale) = g
         /\ scale # g.scale => AsksForArea(setGuiScale(g, scale).calls)
<1> DEFINE ask == [kind |-> "area", live |-> TRUE, scale |-> 0]
           off == OffCall(g.calls, "area")
           calls == Append(off, ask)
           r == [g EXCEPT !.scale = scale, !.calls = calls]
<1>1. CASE scale = g.scale
  BY <1>1 DEF setGuiScale
<1>2. CASE scale # g.scale
  <2>1. ask \in Call /\ ask.kind = "area" /\ ask.live
    BY DEF Call
  <2>2. g.calls \in Seq(Call)
    BY DEF GuiShape
  <2>3. off \in Seq(Call) /\ SizesStand(off)
    BY <2>2, OffCallFields, OffCallKeeps
  <2>4. setGuiScale(g, scale) = r
    BY <1>2 DEF setGuiScale
  <2> HIDE DEF ask, off
  <2>5. calls \in Seq(Call) /\ SizesStand(calls) /\ AsksForArea(calls)
    BY <2>1, <2>3, AppendKeeps
  <2> HIDE DEF calls
  <2>6. GuiShape(r) /\ r.calls = calls
    BY <2>5 DEF GuiShape
  <2>7. QED
    BY <1>2, <2>4, <2>5, <2>6
<1>3. QED
  BY <1>1, <1>2

\* What the effect and the settings page do with an answer: the scale that is
\* stored fits the work area, or the work area is looked at again.
LEMMA ScaleClampedStored ==
  ASSUME NEW g, GuiShape(g), SizesStand(g.calls)
  PROVE  LET scale == clampGuiScale(g.scale, maxGuiScaleForWorkArea(g.area))
             r == Clamped(g, scale)
         IN  /\ scale \in ScaleRange
             /\ GuiShape(r) /\ SizesStand(r.calls)
             /\ \/ AsksForArea(r.calls)
                \/ r = g /\ g.scale = scale /\ g.scale <= maxGuiScaleForWorkArea(g.area)
<1> DEFINE fit == maxGuiScaleForWorkArea(g.area)
           scale == clampGuiScale(g.scale, fit)
           r == Clamped(g, scale)
<1>1. g.scale \in ScaleRange /\ g.area \in Nat
  BY DEF GuiShape
<1>2. fit \in ScaleRange
  BY <1>1, FitIsScale
<1> HIDE DEF fit
<1>3. g.scale \in Int /\ fit \in Int /\ fit >= GUI_SCALE_MIN
  BY <1>1, <1>2 DEF ScaleRange, GUI_SCALE_MIN, GUI_SCALE_MAX
<1>4. scale \in ScaleRange /\ scale <= fit
  BY <1>3, ScaleClamped
<1> HIDE DEF scale
<1>5. /\ GuiShape(r) /\ SizesStand(r.calls)
      /\ scale = g.scale => r = g
      /\ scale # g.scale => AsksForArea(r.calls)
  BY <1>4, ScaleSet DEF Clamped
<1>6. QED
  BY <1>4, <1>5 DEF fit, scale, r

LEMMA SlideKeeps ==
  ASSUME ScaleInv, Slide
  PROVE  ScaleInv'
<1>1. PICK scale \in Scales : /\ scale # gui.scale
                              /\ gui' = setGuiScale(gui, clampGuiScale(scale, GUI_SCALE_MAX))
  BY DEF Slide
<1>2. scale \in ScaleRange /\ scale \in Int /\ GUI_SCALE_MAX \in Int /\ scale <= GUI_SCALE_MAX
  BY LayoutConstants DEF ScaleRange, GUI_SCALE_MIN, GUI_SCALE_MAX
<1>3. clampGuiScale(scale, GUI_SCALE_MAX) = scale
  BY <1>2, ScaleClamped
<1>4. GuiShape(gui') /\ SizesStand(gui'.calls) /\ AsksForArea(gui'.calls)
  <2>1. GuiShape(gui) /\ SizesStand(gui.calls)
    BY DEF ScaleInv
  <2>2. gui' = setGuiScale(gui, scale)
    BY <1>1, <1>3
  <2>3. QED
    BY <1>1, <1>2, <2>1, <2>2, ScaleSet
<1>5. moved' = FALSE
  BY DEF Slide
<1>6. QED
  BY <1>4, <1>5 DEF ScaleInv, Fitting

\* The window is resized or moved by the user: nothing is promised of it until
\* it is asked for a size again.
LEMMA WindowKeeps ==
  ASSUME ScaleInv, ResizeWindow \/ MoveWindow
  PROVE  ScaleInv'
<1>1. PICK x \in Nat : gui' = [gui EXCEPT !.window = x] \/ gui' = [gui EXCEPT !.area = x]
  BY LayoutConstants DEF ResizeWindow, MoveWindow
<1>2. GuiShape(gui') /\ gui'.calls = gui.calls
  BY <1>1 DEF ScaleInv, GuiShape
<1>3. moved' = TRUE
  BY DEF ResizeWindow, MoveWindow
<1>4. QED
  BY <1>2, <1>3 DEF ScaleInv

\* The settings page asks for the work area, or calls that off.
LEMMA SetKeepsScale ==
  ASSUME ScaleInv, NEW k \in Surfaces, NEW open \in BOOLEAN, Set(k, open), moved' = moved
  PROVE  ScaleInv'
<1> DEFINE ask == [kind |-> "settings", live |-> TRUE, scale |-> 0]
           added == Append(gui.calls, ask)
           off == OffCall(gui.calls, "settings")
<1>1. CASE gui' = gui
  BY <1>1 DEF ScaleInv
<1>2. CASE gui' # gui
  <2>1. gui.calls \in Seq(Call) /\ ask \in Call /\ ask.kind = "settings"
    BY DEF ScaleInv, GuiShape, Call
  <2>2. gui' = [gui EXCEPT !.calls = added] \/ gui' = [gui EXCEPT !.calls = off]
    BY <1>2 DEF Set
  <2>3. PICK calls : /\ calls = added \/ calls = off
                     /\ gui' = [gui EXCEPT !.calls = calls]
    BY <2>2
  <2> HIDE DEF ask
  <2>4. /\ added \in Seq(Call) /\ SizesStand(added)
        /\ AsksForArea(gui.calls) => AsksForArea(added)
        /\ \A scale : AsksForScale(gui.calls, scale) => AsksForScale(added, scale)
        /\ AsksForNoSize(gui.calls) => AsksForNoSize(added)
    BY <2>1, AppendKeeps DEF ScaleInv
  <2>5. /\ off \in Seq(Call) /\ SizesStand(off)
        /\ AsksForArea(gui.calls) => AsksForArea(off)
        /\ \A scale : AsksForScale(gui.calls, scale) => AsksForScale(off, scale)
        /\ AsksForNoSize(gui.calls) => AsksForNoSize(off)
    BY <2>1, OffCallFields, OffCallKeeps DEF ScaleInv
  <2> HIDE DEF added, off
  <2>6. /\ calls \in Seq(Call) /\ SizesStand(calls)
        /\ AsksForArea(gui.calls) => AsksForArea(calls)
        /\ AsksForScale(gui.calls, gui.scale) => AsksForScale(calls, gui.scale)
        /\ AsksForNoSize(gui.calls) => AsksForNoSize(calls)
    BY <2>3, <2>4, <2>5
  <2>7. /\ GuiShape(gui') /\ gui'.calls = calls
        /\ gui'.scale = gui.scale /\ gui'.area = gui.area /\ gui'.window = gui.window
    BY <2>3, <2>6 DEF ScaleInv, GuiShape
  <2>8. Fitting(gui) => Fitting(gui')
    BY <2>6, <2>7 DEF Fitting
  <2>9. QED
    BY <2>6, <2>7, <2>8 DEF ScaleInv
<1>3. QED
  BY <1>1, <1>2

\* The window answers: it has its size, or the scale is made to fit and is asked for.
LEMMA AnswerKeeps ==
  ASSUME ScaleInv, WindowAnswered
  PROVE  ScaleInv'
<1> DEFINE calls == gui.calls
           call == Head(calls)
           rest == Tail(calls)
           done == [gui EXCEPT !.calls = rest]
           fit == maxGuiScaleForWorkArea(gui.area)
           scale == clampGuiScale(gui.scale, fit)
           read == [done EXCEPT !.fit = fit]
           size == [kind |-> "size", live |-> TRUE, scale |-> scale]
           asked == [done EXCEPT !.calls = Append(@, size)]
<1>1. /\ GuiShape(gui) /\ calls \in Seq(Call) /\ calls # <<>> /\ SizesStand(calls) /\ moved' = moved
      /\ gui.area \in Nat /\ gui.scale \in ScaleRange /\ moved \in BOOLEAN
      /\ ~moved => Fitting(gui)
  BY DEF ScaleInv, GuiShape, WindowAnswered
<1>2. /\ call \in Call /\ rest \in Seq(Call) /\ SizesStand(rest)
      /\ call.kind = "size" => call.live /\ call.scale \in ScaleRange
      /\ AsksForArea(calls) => AsksForArea(rest) \/ (call.kind = "area" /\ call.live)
      /\ AsksForNoSize(calls) => call.kind # "size" /\ AsksForNoSize(rest)
      /\ \A x : AsksForScale(calls, x) =>
           AsksForScale(rest, x) \/ (call.kind = "size" /\ call.scale = x /\ AsksForNoSize(rest))
  BY <1>1, TailKeeps
<1>3. gui' = CASE call.kind = "size" -> [done EXCEPT !.window = scaledWindowSize(call.scale, gui.area)]
               [] ~call.live -> done
               [] call.kind = "settings" /\ call.live -> Clamped(read, scale)
               [] OTHER -> Clamped(asked, scale)
  BY DEF WindowAnswered
<1>4. /\ GuiShape(done) /\ done.calls = rest /\ done.scale = gui.scale /\ done.area = gui.area
      /\ done.window = gui.window
  BY <1>1, <1>2 DEF GuiShape
<1>5. fit \in ScaleRange
  BY <1>1, FitIsScale
<1> HIDE DEF calls, call, rest, done, fit
<1>6. call.kind \in {"area", "settings", "size"}
  BY <1>2 DEF Call
<1>7. call.kind # "size" /\ (call.kind # "area" \/ ~call.live) /\ Fitting(gui) =>
        \/ AsksForArea(rest)
        \/ /\ gui.scale <= maxGuiScaleForWorkArea(gui.area)
           /\ AsksForScale(rest, gui.scale) \/ (AsksForNoSize(rest) /\ gui.window = scaledWindowSize(gui.scale, gui.area))
  BY <1>2 DEF Fitting, calls
<1>8. CASE call.kind = "size"
  <2> DEFINE w == scaledWindowSize(call.scale, gui.area)
             r == [done EXCEPT !.window = w]
  <2>1. gui' = r
    BY <1>2, <1>3, <1>8
  <2>2. w \in Nat
    BY <1>1, <1>2, <1>8, WindowSizeIsNat
  <2> HIDE DEF w
  <2>3. /\ GuiShape(r) /\ r.calls = rest /\ r.scale = gui.scale /\ r.area = gui.area /\ r.window = w
    BY <1>4, <2>2 DEF GuiShape
  <2>4. Fitting(gui) => Fitting(r)
    BY <1>2, <1>8, <2>3 DEF Fitting, calls, w
  <2> HIDE DEF r
  <2>5. QED
    BY <1>1, <1>2, <2>1, <2>3, <2>4 DEF ScaleInv
<1>9. CASE call.kind # "size" /\ ~call.live
  <2>1. gui' = done
    BY <1>3, <1>9
  <2>2. Fitting(gui) => Fitting(done)
    BY <1>4, <1>7, <1>9 DEF Fitting
  <2>3. QED
    BY <1>1, <1>2, <1>4, <2>1, <2>2 DEF ScaleInv
<1>10. CASE call.kind = "settings" /\ call.live
  <2>1. gui' = Clamped(read, scale)
    BY <1>3, <1>10
  <2>2. /\ GuiShape(read) /\ read.calls = rest /\ read.scale = gui.scale /\ read.area = gui.area
        /\ read.window = gui.window
    BY <1>4, <1>5 DEF GuiShape
  <2>3. scale = clampGuiScale(read.scale, maxGuiScaleForWorkArea(read.area))
    BY <2>2 DEF fit
  <2> HIDE DEF read, scale
  <2>4. /\ GuiShape(gui') /\ SizesStand(gui'.calls)
        /\ \/ AsksForArea(gui'.calls)
           \/ gui' = read /\ read.scale = scale /\ read.scale <= maxGuiScaleForWorkArea(read.area)
    BY <1>2, <2>1, <2>2, <2>3, ScaleClampedStored
  <2>5. Fitting(gui) => Fitting(gui')
    BY <1>7, <1>10, <2>2, <2>4 DEF Fitting
  <2>6. QED
    BY <1>1, <2>4, <2>5 DEF ScaleInv
<1>11. CASE call.kind = "area" /\ call.live
  <2> DEFINE more == Append(rest, size)
  <2>1. gui' = Clamped(asked, scale)
    BY <1>3, <1>11
  <2>2. scale \in ScaleRange /\ scale \in Int
    <3>1. gui.scale \in Int /\ fit \in Int
      <4>1. ScaleRange \subseteq Int
        BY DEF ScaleRange, GUI_SCALE_MIN, GUI_SCALE_MAX
      <4>2. QED
        BY <1>1, <1>5, <4>1
    <3>2. scale \in ScaleRange
      BY <3>1, ScaleClamped
    <3>3. QED
      BY <3>2 DEF ScaleRange, GUI_SCALE_MIN, GUI_SCALE_MAX
  <2>3. asked = [done EXCEPT !.calls = more]
    BY <1>4
  <2>4. size \in Call /\ size.kind = "size" /\ size.live /\ size.scale = scale
    BY <2>2 DEF Call
  <2> HIDE DEF size
  <2>5. more \in Seq(Call) /\ SizesStand(more) /\ AsksForScale(more, scale)
    <3>1. more \in Seq(Call) /\ SizesStand(more) /\ AsksForScale(more, size.scale)
      BY <1>2, <2>2, <2>4, AppendKeeps
    <3>2. QED
      BY <2>4, <3>1
  <2> HIDE DEF more
  <2>6. /\ GuiShape(asked) /\ asked.calls = more /\ asked.scale = gui.scale /\ asked.area = gui.area
    BY <1>4, <2>3, <2>5 DEF GuiShape
  <2>7. scale = clampGuiScale(asked.scale, maxGuiScaleForWorkArea(asked.area))
    BY <2>6 DEF fit
  <2> HIDE DEF asked, scale
  <2>8. /\ GuiShape(gui') /\ SizesStand(gui'.calls)
        /\ \/ AsksForArea(gui'.calls)
           \/ gui' = asked /\ asked.scale = scale /\ asked.scale <= maxGuiScaleForWorkArea(asked.area)
    BY <2>1, <2>5, <2>6, <2>7, ScaleClampedStored
  <2>9. Fitting(gui')
    BY <2>5, <2>6, <2>8 DEF Fitting
  <2>10. QED
    BY <1>1, <2>8, <2>9 DEF ScaleInv
<1>12. QED
  BY <1>2, <1>6, <1>8, <1>9, <1>10, <1>11

-----------------------------------------------------------------------------
(* The steps.                                                               *)

\* A surface is shown or hidden, its gutter follows, and a handle stays where it is held.
LEMMA SetKeeps ==
  ASSUME SurfacesInv, GuttersInv, HandlesInv, NEW k \in Surfaces, NEW open \in BOOLEAN, Set(k, open),
         reduce' = reduce, preferred' = preferred, drags' = drags
  PROVE  SurfacesInv' /\ GuttersInv' /\ HandlesInv'
<1> DEFINE s == Shown(k, open)
<1>1. s \in Surface /\ s.open = open /\ Settling(k, s, reduce)
  BY ShownSettles
<1>2. surfaces' = [surfaces EXCEPT ![k] = s]
  BY DEF Set
<1> HIDE DEF s
<1>3. SurfacesInv'
  BY <1>1, <1>2 DEF SurfacesInv
<1>4. surfaces'[k].open = open /\ \A j \in Surfaces \ {k} : surfaces'[j].open = surfaces[j].open
  BY <1>1, <1>2 DEF SurfacesInv
<1>5. /\ gutters' \in [Sides -> [mounted : BOOLEAN, timer : BOOLEAN]]
      /\ \A side \in Sides \ {k} : gutters'[side] = gutters[side]
      /\ k \in Sides => gutters'[k] = Gutter(gutters[k], open)
  <2>1. CASE k \in Sides
    <3> DEFINE g == Gutter(gutters[k], open)
    <3>1. gutters' = [gutters EXCEPT ![k] = g]
      BY <2>1 DEF Set
    <3>2. g \in [mounted : BOOLEAN, timer : BOOLEAN]
      BY <2>1 DEF GuttersInv, Gutter
    <3> HIDE DEF g
    <3>3. QED
      BY <2>1, <3>1, <3>2 DEF GuttersInv, g
  <2>2. CASE k \notin Sides
    BY <2>2 DEF Set, GuttersInv
  <2>3. QED
    BY <2>1, <2>2
<1>6. \A side \in Sides : gutters[side].mounted => gutters'[side].mounted
  BY <1>5 DEF Gutter, GuttersInv
<1>7. GuttersInv'
  <2>1. SUFFICES ASSUME NEW side \in Sides
                 PROVE  /\ gutters'[side].timer => gutters'[side].mounted /\ ~surfaces'[side].open
                        /\ ~gutters'[side].timer => gutters'[side].mounted = surfaces'[side].open
    BY <1>5 DEF GuttersInv
  <2>2. side \in Surfaces
    BY DEF Surfaces
  <2>3. CASE side = k
    BY <1>4, <1>5, <2>3 DEF Gutter, GuttersInv
  <2>4. CASE side # k
    BY <1>4, <1>5, <2>2, <2>4 DEF GuttersInv
  <2>5. QED
    BY <2>3, <2>4
<1>8. HandlesInv'
  BY <1>6 DEF HandlesInv
<1>9. QED
  BY <1>3, <1>7, <1>8

LEMMA FeaturedKeeps ==
  ASSUME FeatureInv, reduce \in BOOLEAN, NEW active \in Features, feature' = Featured(active)
  PROVE  FeatureInv'
<1>1. CASE active = feature.active
  BY <1>1 DEF Featured, FeatureInv
<1>2. CASE active # feature.active
  BY <1>2 DEF Featured, FeatureInv
<1>3. QED
  BY <1>1, <1>2

LEMMA InitInvariant == Init => Invariant
<1>1. SUFFICES ASSUME Init PROVE Invariant
  OBVIOUS
<1>2. /\ surfaces = [k \in Surfaces |-> [open |-> k \in Sides, mounted |-> k \in Sides, revealed |-> k \in Sides,
                                         reveals |-> {}, moving |-> FALSE]]
      /\ reduce \in BOOLEAN
  BY <1>1, Zenon DEF Init
<1>3. SurfacesInv
  <2>1. \A k \in Surfaces : /\ surfaces[k] \in Surface
                            /\ ~surfaces[k].moving /\ surfaces[k].reveals = {}
                            /\ surfaces[k].open = (k \in Sides) /\ surfaces[k].mounted = (k \in Sides)
                            /\ surfaces[k].revealed = (k \in Sides)
    BY <1>2 DEF Surface
  <2>2. \A k \in Surfaces : Settling(k, surfaces[k], reduce)
    BY <2>1 DEF Settling
  <2>3. surfaces \in [Surfaces -> Surface]
    BY <1>2, <2>1
  <2>4. QED
    BY <1>2, <2>2, <2>3 DEF SurfacesInv
<1>4. FeatureInv
  <2>1. feature = [active |-> "files", rendered |-> "files", revealed |-> TRUE, reveals |-> {}]
    BY <1>1, Zenon DEF Init
  <2>2. QED
    BY <2>1 DEF FeatureInv, Features
<1>5. GuttersInv
  <2>1. /\ gutters = [side \in Sides |-> [mounted |-> TRUE, timer |-> FALSE]]
        /\ \A side \in Sides : surfaces[side].open = TRUE
    <3>1. gutters = [side \in Sides |-> [mounted |-> TRUE, timer |-> FALSE]]
      BY <1>1, Zenon DEF Init
    <3>2. \A side \in Sides : surfaces[side].open = TRUE
      BY <1>2 DEF Surfaces
    <3>3. QED
      BY <3>1, <3>2
  <2>2. QED
    BY <2>1 DEF GuttersInv
<1>6. PopupInv
  <2>1. /\ popup = [mounted |-> TRUE, revealed |-> FALSE, exiting |-> FALSE, moving |-> FALSE, frame |-> TRUE,
                    picking |-> FALSE]
        /\ switched = FALSE
    BY <1>1, Zenon DEF Init
  <2>2. QED
    BY <2>1 DEF PopupInv
<1>7. HandlesInv
  <2>1. DEFAULT_SHELL_PANEL_WIDTH \in PanelWidth
    BY DEF DEFAULT_SHELL_PANEL_WIDTH, PanelWidth, MIN_SHELL_PANEL_WIDTH, MAX_SHELL_PANEL_WIDTH
  <2>2. None \in Drag
    BY DEF None, Drag
  <2>3. /\ preferred = [side \in Sides |-> DEFAULT_SHELL_PANEL_WIDTH]
        /\ drags = [side \in Sides |-> None]
    BY <1>1, Zenon DEF Init
  <2>4. QED
    BY <2>1, <2>2, <2>3 DEF HandlesInv
<1>8. ScaleInv
  <2> DEFINE fit == maxGuiScaleForWorkArea(FirstArea)
             scale == clampGuiScale(100, fit)
             w == scaledWindowSize(scale, FirstArea)
  <2>1. /\ gui = [scale |-> scale, area |-> FirstArea, window |-> w, fit |-> GUI_SCALE_MAX, calls |-> <<>>]
        /\ moved = FALSE
    BY <1>1, Zenon DEF Init
  <2>2. FirstArea \in Nat
    BY LayoutConstants
  <2>3. fit \in ScaleRange
    BY <2>2, FitIsScale
  <2>4. fit \in Int /\ fit >= GUI_SCALE_MIN /\ 100 \in Int
    BY <2>3 DEF ScaleRange, GUI_SCALE_MIN, GUI_SCALE_MAX
  <2> HIDE DEF fit
  <2>5. scale \in ScaleRange /\ scale <= fit
    BY <2>4, ScaleClamped
  <2> HIDE DEF scale
  <2>6. w \in Nat
    BY <2>2, <2>5, WindowSizeIsNat
  <2>7. GUI_SCALE_MAX \in ScaleRange
    BY DEF ScaleRange, GUI_SCALE_MIN, GUI_SCALE_MAX
  <2> HIDE DEF w
  <2>8. GuiShape(gui) /\ gui.calls = <<>> /\ gui.scale = scale /\ gui.area = FirstArea /\ gui.window = w
    BY <2>1, <2>2, <2>5, <2>6, <2>7 DEF GuiShape
  <2>9. SizesStand(gui.calls) /\ AsksForNoSize(gui.calls)
    BY <2>8 DEF SizesStand, AsksForNoSize
  <2>10. Fitting(gui)
    BY <2>5, <2>8, <2>9 DEF Fitting, fit, w
  <2>11. QED
    BY <2>1, <2>8, <2>9, <2>10 DEF ScaleInv
<1>9. QED
  BY <1>3, <1>4, <1>5, <1>6, <1>7, <1>8 DEF Invariant

LEMMA StepInvariant == Invariant /\ [Next]_vars => Invariant'
<1>1. SUFFICES ASSUME Invariant, [Next]_vars PROVE Invariant'
  OBVIOUS
<1>2. SurfacesInv /\ FeatureInv /\ GuttersInv /\ PopupInv /\ HandlesInv /\ ScaleInv
  BY <1>1 DEF Invariant
<1>3. reduce \in BOOLEAN /\ \A k \in Surfaces : surfaces[k] \in Surface
  BY <1>2 DEF SurfacesInv
<1>4. Sides \subseteq Surfaces /\ "settings" \in Surfaces
  BY DEF Surfaces
\* The part of each component, when nothing of it changes.
<1>5. ASSUME UNCHANGED <<surfaces, reduce>> PROVE SurfacesInv'
  BY <1>2, <1>5 DEF SurfacesInv
<1>6. ASSUME UNCHANGED feature PROVE FeatureInv'
  BY <1>2, <1>6 DEF FeatureInv
<1>7. ASSUME UNCHANGED <<surfaces, gutters>> PROVE GuttersInv'
  BY <1>2, <1>7 DEF GuttersInv
<1>8. ASSUME UNCHANGED <<popup, reduce, switched>> PROVE PopupInv'
  BY <1>2, <1>8 DEF PopupInv
<1>9. ASSUME UNCHANGED <<gutters, preferred, drags>> PROVE HandlesInv'
  BY <1>2, <1>9 DEF HandlesInv
<1>10. ASSUME UNCHANGED windowVars PROVE ScaleInv'
  BY <1>2, <1>10 DEF ScaleInv, windowVars
<1>11. ASSUME NEW k \in Surfaces, NEW open \in BOOLEAN, Set(k, open),
              UNCHANGED <<popup, feature, reduce, preferred, drags, switched, moved>>
       PROVE  Invariant'
  <2>1. SurfacesInv' /\ GuttersInv' /\ HandlesInv'
    BY <1>2, <1>11, SetKeeps
  <2>2. ScaleInv'
    BY <1>2, <1>11, SetKeepsScale
  <2>3. FeatureInv' /\ PopupInv'
    BY <1>6, <1>8, <1>11
  <2>4. QED
    BY <2>1, <2>2, <2>3 DEF Invariant
<1>12. CASE UNCHANGED vars
  BY <1>5, <1>6, <1>7, <1>8, <1>9, <1>10, <1>12 DEF vars, windowVars, Invariant
<1>13. ASSUME NEW k \in Surfaces, onTransitionEnd(k) PROVE Invariant'
  <2> DEFINE e == Ended(surfaces[k])
  <2>1. e \in Surface /\ e.open = surfaces[k].open /\ Settling(k, e, reduce)
    BY <1>2, EndSettles
  <2>2. surfaces' = [surfaces EXCEPT ![k] = e]
    BY <1>13 DEF onTransitionEnd
  <2> HIDE DEF e
  <2>3. SurfacesInv'
    BY <1>2, <1>13, <2>1, <2>2 DEF SurfacesInv, onTransitionEnd
  <2>4. \A j \in Surfaces : surfaces'[j].open = surfaces[j].open
    BY <1>2, <2>1, <2>2 DEF SurfacesInv
  <2>5. GuttersInv'
    BY <1>2, <1>4, <1>13, <2>4 DEF GuttersInv, onTransitionEnd
  <2>6. FeatureInv' /\ PopupInv' /\ HandlesInv' /\ ScaleInv'
    BY <1>6, <1>8, <1>9, <1>10, <1>13 DEF onTransitionEnd
  <2>7. QED
    BY <2>3, <2>5, <2>6 DEF Invariant
<1>14. CASE setSettingsOpen
  <2>1. (~surfaces["settings"].open) \in BOOLEAN
    OBVIOUS
  <2>2. QED
    BY <1>4, <1>11, <1>14, <2>1 DEF setSettingsOpen
<1>15. ASSUME NEW side \in Sides, toggle(side) \/ setVisible(side) PROVE Invariant'
  <2>1. (~surfaces[side].open) \in BOOLEAN /\ side \in Surfaces
    BY <1>4
  <2>2. QED
    BY <1>11, <1>15, <2>1 DEF toggle, setVisible
<1>16. CASE resetPanelWidths
  <2>1. preferred' \in [Sides -> PanelWidth]
    BY <1>16 DEF resetPanelWidths, DEFAULT_SHELL_PANEL_WIDTH, PanelWidth, MIN_SHELL_PANEL_WIDTH,
                 MAX_SHELL_PANEL_WIDTH
  <2>2. HandlesInv'
    BY <1>2, <1>16, <2>1 DEF HandlesInv, resetPanelWidths, motionVars
  <2>3. QED
    BY <1>5, <1>6, <1>7, <1>8, <1>10, <1>16, <2>2 DEF resetPanelWidths, motionVars, Invariant
<1>17. CASE SetReduceMotion
  <2> DEFINE r(k) == Moved(k, surfaces[k], Effect(surfaces[k], ~reduce), ~reduce)
  <2>1. \A k \in Surfaces : r(k) \in Surface /\ r(k).open = surfaces[k].open /\ Settling(k, r(k), ~reduce)
    BY <1>2, SwitchSettles
  <2>2. surfaces' = [k \in Surfaces |-> r(k)] /\ reduce' = ~reduce
    BY <1>17 DEF SetReduceMotion
  <2> HIDE DEF r
  <2>3. SurfacesInv'
    BY <1>3, <2>1, <2>2 DEF SurfacesInv
  <2>4. \A k \in Surfaces : surfaces'[k].open = surfaces[k].open
    BY <2>1, <2>2
  <2>5. GuttersInv'
    <3>1. gutters' = gutters
      BY <1>17, Zenon DEF SetReduceMotion
    <3>2. QED
      BY <1>2, <1>4, <2>4, <3>1 DEF GuttersInv
  <2>6. PopupInv'
    <3> DEFINE moving == popup.moving /\ reduce
    <3>1. popup' = [popup EXCEPT !.moving = moving] /\ switched' = (switched \/ popup.exiting)
      BY <1>17 DEF SetReduceMotion
    <3>2. moving \in BOOLEAN
      OBVIOUS
    <3> HIDE DEF moving
    <3>3. QED
      BY <1>2, <3>1, <3>2 DEF PopupInv
  <2>7. FeatureInv' /\ HandlesInv' /\ ScaleInv'
    BY <1>6, <1>9, <1>10, <1>17 DEF SetReduceMotion
  <2>8. QED
    BY <2>3, <2>5, <2>6, <2>7 DEF Invariant
<1>18. CASE Frame
  <2> DEFINE r(k) == Moved(k, surfaces[k], Framed(surfaces[k]), reduce)
  <2>1. \A k \in Surfaces : r(k) \in Surface /\ r(k).open = surfaces[k].open /\ Settling(k, r(k), reduce)
    BY <1>2, FrameSettles
  <2>2. surfaces' = [k \in Surfaces |-> r(k)] /\ reduce' = reduce
    BY <1>18 DEF Frame
  <2> HIDE DEF r
  <2>3. SurfacesInv'
    BY <1>3, <2>1, <2>2 DEF SurfacesInv
  <2>4. \A k \in Surfaces : surfaces'[k].open = surfaces[k].open
    BY <2>1, <2>2
  <2>5. GuttersInv'
    <3>1. gutters' = gutters
      BY <1>18, Zenon DEF Frame
    <3>2. QED
      BY <1>2, <1>4, <2>4, <3>1 DEF GuttersInv
  <2>6. FeatureInv'
    BY <1>2, <1>18 DEF Frame, Framed, FeatureInv
  <2>7. PopupInv'
    BY <1>2, <1>3, <1>18 DEF Frame, PopupInv
  <2>8. HandlesInv' /\ ScaleInv'
    BY <1>9, <1>10, <1>18 DEF Frame
  <2>9. QED
    BY <2>3, <2>5, <2>6, <2>7, <2>8 DEF Invariant
<1>19. ASSUME NEW next \in Features, select(next) PROVE Invariant'
  <2>1. FeatureInv'
    BY <1>2, <1>3, <1>19, FeaturedKeeps DEF select
  <2>2. PopupInv'
    BY <1>8, <1>19 DEF select
  <2>3. CASE surfaces["right"].open
    BY <1>5, <1>7, <1>9, <1>10, <1>19, <2>1, <2>2, <2>3 DEF select, windowVars, Invariant
  <2>4. CASE ~surfaces["right"].open
    <3>1. "right" \in Surfaces /\ Set("right", TRUE)
      BY <1>4, <1>19, <2>4 DEF select, Sides
    <3>2. SurfacesInv' /\ GuttersInv' /\ HandlesInv'
      BY <1>2, <1>19, <3>1, SetKeeps DEF select
    <3>3. ScaleInv'
      BY <1>2, <1>19, <3>1, SetKeepsScale DEF select
    <3>4. QED
      BY <2>1, <2>2, <3>2, <3>3 DEF Invariant
  <2>5. QED
    BY <2>3, <2>4
<1>20. ASSUME NEW next \in Features, SwitchTrunk(next) PROVE Invariant'
  <2>1. FeatureInv'
    BY <1>2, <1>3, <1>20, FeaturedKeeps DEF SwitchTrunk
  <2>2. QED
    BY <1>5, <1>7, <1>8, <1>9, <1>10, <1>20, <2>1 DEF SwitchTrunk, Invariant
<1>21. CASE Slide \/ ResizeWindow \/ MoveWindow \/ WindowAnswered
  <2>1. ScaleInv'
    BY <1>2, <1>21, SlideKeeps, WindowKeeps, AnswerKeeps
  <2>2. QED
    BY <1>5, <1>6, <1>7, <1>8, <1>9, <1>21, <2>1
       DEF Slide, ResizeWindow, MoveWindow, WindowAnswered, motionVars, Invariant
<1>22. ASSUME NEW side \in Sides, GutterTimeout(side) PROVE Invariant'
  <2>1. GuttersInv'
    <3>1. /\ gutters' = [gutters EXCEPT ![side] = [mounted |-> FALSE, timer |-> FALSE]]
          /\ surfaces' = surfaces /\ gutters[side].timer
      BY <1>22 DEF GutterTimeout
    <3>2. surfaces[side].open = FALSE
      BY <1>2, <1>3, <1>4, <3>1 DEF GuttersInv, Surface
    <3>3. QED
      BY <1>2, <3>1, <3>2 DEF GuttersInv
  <2>2. HandlesInv'
    BY <1>2, <1>22 DEF HandlesInv, GuttersInv, GutterTimeout, None, Drag
  <2>3. QED
    BY <1>5, <1>6, <1>8, <1>10, <1>22, <2>1, <2>2 DEF GutterTimeout, Invariant
<1>23. ASSUME NEW side \in Sides, NEW pointer \in Pointers, PointerDown(side, pointer) PROVE Invariant'
  <2>1. PICK x \in Int :
          drags' = [drags EXCEPT ![side] = [pointer |-> pointer, startX |-> x, startWidth |-> preferred[side]]]
    BY <1>23, LayoutConstants DEF PointerDown
  <2>2. preferred[side] \in Int
    BY <1>2 DEF HandlesInv, PanelWidth, MIN_SHELL_PANEL_WIDTH, MAX_SHELL_PANEL_WIDTH
  <2>3. HandlesInv'
    BY <1>2, <1>23, <2>1, <2>2 DEF HandlesInv, PointerDown, motionVars, Drag
  <2>4. QED
    BY <1>5, <1>6, <1>7, <1>8, <1>10, <1>23, <2>3 DEF PointerDown, motionVars, Invariant
<1>24. ASSUME NEW side \in Sides, PointerMove(side) PROVE Invariant'
  <2>1. PICK x \in Int :
          preferred' = [preferred EXCEPT ![side] =
            clampShellPanelWidth(drags[side].startWidth
              + (IF side = "left" THEN x - drags[side].startX ELSE -(x - drags[side].startX)))]
    BY <1>24, LayoutConstants DEF PointerMove
  <2> DEFINE width == drags[side].startWidth
                      + (IF side = "left" THEN x - drags[side].startX ELSE -(x - drags[side].startX))
  <2>2. width \in Int
    BY <1>2 DEF HandlesInv, Drag
  <2> HIDE DEF width
  <2>3. clampShellPanelWidth(width) \in PanelWidth
    BY <2>2, PanelClamped
  <2>4. preferred' = [preferred EXCEPT ![side] = clampShellPanelWidth(width)]
    BY <2>1 DEF width
  <2>5. HandlesInv'
    BY <1>2, <1>24, <2>3, <2>4 DEF HandlesInv, PointerMove, motionVars
  <2>6. QED
    BY <1>5, <1>6, <1>7, <1>8, <1>10, <1>24, <2>5 DEF PointerMove, motionVars, Invariant
<1>25. ASSUME NEW side \in Sides, PointerUp(side) PROVE Invariant'
  <2>1. HandlesInv'
    BY <1>2, <1>25 DEF HandlesInv, PointerUp, motionVars, None, Drag
  <2>2. QED
    BY <1>5, <1>6, <1>7, <1>8, <1>10, <1>25, <2>1 DEF PointerUp, motionVars, Invariant
<1>26. CASE requestClose \/ handleOpenProject \/ Picked \/ PopupTransitionEnd
  <2>1. PopupInv'
    <3>1. CASE requestClose
      <4>1. CASE reduce
        BY <1>2, <3>1, <4>1 DEF requestClose, ClosedPopup, PopupInv
      <4>2. CASE ~reduce
        <5> DEFINE moving == popup.moving \/ popup.revealed
        <5>1. popup' = [popup EXCEPT !.exiting = TRUE, !.revealed = FALSE, !.moving = moving]
          BY <3>1, <4>2 DEF requestClose
        <5>2. moving \in BOOLEAN
          OBVIOUS
        <5>3. popup.mounted /\ ~popup.exiting /\ popup.revealed => moving
          OBVIOUS
        <5> HIDE DEF moving
        <5>4. QED
          BY <1>2, <3>1, <4>2, <5>1, <5>2, <5>3 DEF requestClose, PopupInv
      <4>3. QED
        BY <4>1, <4>2
    <3>2. CASE handleOpenProject
      BY <1>2, <3>2 DEF handleOpenProject, PopupInv
    <3>3. CASE Picked
      BY <1>2, <3>3 DEF Picked, ClosedPopup, PopupInv
    <3>4. CASE PopupTransitionEnd
      BY <1>2, <3>4 DEF PopupTransitionEnd, ClosedPopup, PopupInv
    <3>5. QED
      BY <1>26, <3>1, <3>2, <3>3, <3>4
  <2>2. QED
    BY <1>5, <1>6, <1>7, <1>9, <1>10, <1>26, <2>1
       DEF requestClose, handleOpenProject, Picked, PopupTransitionEnd, Invariant
<1>27. QED
  BY <1>1, <1>12, <1>13, <1>14, <1>15, <1>16, <1>17, <1>18, <1>19, <1>20, <1>21, <1>22, <1>23, <1>24,
     <1>25, <1>26 DEF Next, Features

-----------------------------------------------------------------------------
(* The results.                                                             *)

\* The inductive invariant: a surface, a feature, a gutter or a popup that is on its
\* way has what will bring it there, a handle is held by a pointer, and the window's
\* calls lead the scale to one that fits.
THEOREM LayoutInvariant == Spec => []Invariant
BY InitInvariant, StepInvariant, PTL DEF Spec

\* However often surfaces are shown and hidden and the preference changes, with any
\* number of gestures: what has come to rest is as it should be (SurfacesSettle).
THEOREM SurfacesAlwaysSettle == Spec => []SurfacesSettle
<1>1. Invariant => SurfacesSettle
  <2>1. SUFFICES ASSUME SurfacesInv, FeatureInv, GuttersInv, PopupInv PROVE SurfacesSettle
    BY DEF Invariant
  <2>2. ASSUME NEW k \in Surfaces, ~surfaces[k].moving, surfaces[k].reveals = {}
        PROVE  surfaces[k].mounted = surfaces[k].open /\ (surfaces[k].open => surfaces[k].revealed)
    <3>1. surfaces[k] \in Surface /\ Settling(k, surfaces[k], reduce)
      BY <2>1 DEF SurfacesInv
    <3>2. surfaces[k].mounted <=> surfaces[k].open
      BY <2>2, <3>1 DEF Settling
    <3>3. surfaces[k].mounted \in BOOLEAN /\ surfaces[k].open \in BOOLEAN
      BY <3>1 DEF Surface
    <3>4. QED
      BY <2>2, <3>1, <3>2, <3>3 DEF Settling
  <2>3. feature.rendered = feature.active /\ (feature.reveals = {} => feature.revealed)
    BY <2>1 DEF FeatureInv
  <2>4. \A side \in Sides : ~gutters[side].timer => gutters[side].mounted = surfaces[side].open
    BY <2>1 DEF GuttersInv
  <2>5. popup.mounted /\ popup.exiting /\ ~switched => popup.moving \/ popup.frame
    BY <2>1 DEF PopupInv
  <2>6. QED
    BY <2>2, <2>3, <2>4, <2>5 DEF SurfacesSettle
<1>2. QED
  BY <1>1, LayoutInvariant, PTL

\* On any monitors, whatever the slider and the settings page do while the window is
\* still answering: in the end the scale fits and the window has its size (ScaleFits).
THEOREM ScaleAlwaysFits == Spec => []ScaleFits
<1>1. Invariant => ScaleFits
  BY DEF Invariant, ScaleInv, ScaleFits, Fitting, AsksForArea, AsksForScale
<1>2. QED
  BY <1>1, LayoutInvariant, PTL

\* A panel's width below the reference width is at most three eighths of the shell's, rounded.
LEMMA ScaledBound ==
  ASSUME NEW p \in PanelWidth, available \in Nat
  PROVE  Scaled(p) \in Nat /\ 8 * Scaled(p) <= 3 * available + 4
<1> DEFINE av == available
           m == p * av
           q == (2 * m + 1280) \div 2560
<1>1. p \in Nat /\ p <= 480
  BY DEF PanelWidth, MIN_SHELL_PANEL_WIDTH, MAX_SHELL_PANEL_WIDTH
<1>2. Scaled(p) = (2 * p * av + 1280) \div (2 * 1280)
  BY DEF Scaled, SHELL_LAYOUT_REFERENCE_WIDTH
<1> HIDE DEF av
<1>3. av \in Nat
  BY DEF av
<1>4. m \in Nat /\ 2 * p * av = 2 * m
  BY <1>1, <1>3
<1>5. m <= 480 * av
  <2>1. (480 - p) \in Nat
    BY <1>1
  <2>2. \A d \in Nat : d * av \in Nat
    BY <1>3
  <2>3. (480 - p) * av = 480 * av - m
    BY <1>1, <1>3
  <2>4. (480 - p) * av \in Nat
    BY <2>1, <2>2
  <2>5. QED
    BY <1>3, <1>4, <2>3, <2>4
<1> HIDE DEF m
<1>6. Scaled(p) = q
  BY <1>2, <1>4
<1>7. q \in Nat /\ 2560 * q <= 2 * m + 1280
  BY <1>4
<1> HIDE DEF q
<1>8. 8 * q <= 3 * av + 4
  BY <1>3, <1>4, <1>5, <1>7
<1>9. QED
  BY <1>6, <1>7, <1>8 DEF av

LEMMA PanelFits ==
  ASSUME HandlesInv, available \in Nat, NEW side \in Sides
  PROVE  /\ Panel(side) \in (IF surfaces[side].open THEN PanelWidth ELSE {0})
         /\ available >= 4 * MIN_SHELL_PANEL_WIDTH => 2 * (4 * Panel(side)) <= 3 * available + 4
<1> DEFINE av == available
           p == preferred[side]
           w == IF av >= SHELL_LAYOUT_REFERENCE_WIDTH THEN p ELSE Scaled(p)
<1>1. p \in PanelWidth
  BY DEF HandlesInv
<1>2. Scaled(p) \in Nat /\ 8 * Scaled(p) <= 3 * av + 4
  BY <1>1, ScaledBound
<1>3. Panel(side) = IF ~surfaces[side].open THEN 0 ELSE Max({MIN_SHELL_PANEL_WIDTH, w})
  BY DEF Panel
<1> HIDE DEF av, p
<1>4. av \in Nat
  BY DEF av
<1>5. p \in Nat /\ p >= 160 /\ p <= 480
  BY <1>1 DEF PanelWidth, MIN_SHELL_PANEL_WIDTH, MAX_SHELL_PANEL_WIDTH
<1>6. /\ w \in Nat /\ w <= 480
      /\ av >= 640 => 8 * w <= 3 * av + 4
  BY <1>2, <1>4, <1>5 DEF SHELL_LAYOUT_REFERENCE_WIDTH
<1> HIDE DEF w
<1>7. Max({160, w}) = IF 160 >= w THEN 160 ELSE w
  BY <1>6, MaxOfTwo
<1>8. CASE ~surfaces[side].open
  <2>1. Panel(side) = 0
    BY <1>3, <1>8
  <2>2. QED
    BY <1>4, <1>8, <2>1 DEF av
<1>9. CASE surfaces[side].open
  <2>1. Panel(side) = IF 160 >= w THEN 160 ELSE w
    BY <1>3, <1>7, <1>9 DEF MIN_SHELL_PANEL_WIDTH
  <2>2. Panel(side) \in PanelWidth
    BY <1>6, <2>1 DEF PanelWidth, MIN_SHELL_PANEL_WIDTH, MAX_SHELL_PANEL_WIDTH
  <2>3. av >= 640 => 2 * (4 * Panel(side)) <= 3 * av + 4
    BY <1>4, <1>6, <2>1
  <2>4. QED
    BY <1>9, <2>2, <2>3 DEF av, MIN_SHELL_PANEL_WIDTH
<1>10. QED
  BY <1>8, <1>9

\* In every window, at every scale and after every drag: the panels and the middle of
\* the shell share its width as the layout promises (ColumnsFit).
THEOREM ColumnsAlwaysFit == Spec => []ColumnsFit
<1>1. Invariant => ColumnsFit
  <2>1. SUFFICES ASSUME SurfacesInv, PopupInv, HandlesInv, ScaleInv PROVE ColumnsFit
    BY DEF Invariant
  <2> DEFINE av == available
             l == Panel("left")
             r == Panel("right")
             columns == distributeShellColumnWidths
  <2>2. TypeOK
    <3>1. \A k \in Surfaces : surfaces[k].reveals \subseteq {1, 2}
      BY <2>1 DEF SurfacesInv, Surface
    <3>2. gui.scale \in GUI_SCALE_MIN .. GUI_SCALE_MAX /\ gui.fit \in GUI_SCALE_MIN .. GUI_SCALE_MAX
      BY <2>1 DEF ScaleInv, GuiShape, ScaleRange
    <3>3. reduce \in BOOLEAN /\ switched \in BOOLEAN /\ moved \in BOOLEAN
      BY <2>1 DEF SurfacesInv, PopupInv, ScaleInv
    <3>4. /\ preferred \in [Sides -> PanelWidth]
          /\ \A side \in Sides :
               drags[side] # None => drags[side].pointer \in Pointers /\ gutters[side].mounted
      BY <2>1 DEF HandlesInv
    <3>5. QED
      BY <3>1, <3>2, <3>3, <3>4 DEF TypeOK
  <2>3. av \in Nat
    BY <2>1, AvailableIsNat DEF ScaleInv
  <2>4. \A side \in Sides :
          /\ Panel(side) \in (IF surfaces[side].open THEN PanelWidth ELSE {0})
          /\ av >= 640 => 2 * (4 * Panel(side)) <= 3 * av + 4
    BY <2>1, <2>3, PanelFits DEF MIN_SHELL_PANEL_WIDTH
  <2>5. l \in Nat /\ r \in Nat
    <3>1. PanelWidth \subseteq Nat /\ "left" \in Sides /\ "right" \in Sides
      BY DEF PanelWidth, MIN_SHELL_PANEL_WIDTH, MAX_SHELL_PANEL_WIDTH, Sides
    <3>2. l \in PanelWidth \cup {0} /\ r \in PanelWidth \cup {0}
      BY <2>4, <3>1
    <3> HIDE DEF l, r
    <3>3. QED
      BY <3>1, <3>2
  <2>6. /\ columns.left = l /\ columns.right = r
        /\ columns.center = IF l + r + MIN_SHELL_CENTER_WIDTH <= av THEN av - (l + r)
                            ELSE MIN_SHELL_CENTER_WIDTH
    BY DEF distributeShellColumnWidths
  <2>7. \A side \in Sides : columns[side] = Panel(side)
    BY <2>6 DEF Sides
  <2>8. av >= 640 => 2 * (4 * l) <= 3 * av + 4 /\ 2 * (4 * r) <= 3 * av + 4
    BY <2>4 DEF Sides
  <2> HIDE DEF columns, av, l, r
  <2>9. av >= 4 * MIN_SHELL_PANEL_WIDTH => 4 * (columns.left + columns.right) <= 3 * av + 4
    BY <2>3, <2>5, <2>6, <2>8 DEF MIN_SHELL_PANEL_WIDTH
  <2>10. columns.left + columns.right + MIN_SHELL_CENTER_WIDTH <= av =>
           columns.left + columns.center + columns.right = av
    BY <2>3, <2>5, <2>6 DEF MIN_SHELL_CENTER_WIDTH
  <2>11. QED
    BY <2>2, <2>4, <2>7, <2>9, <2>10 DEF ColumnsFit, columns, av
<1>2. QED
  BY <1>1, LayoutInvariant, PTL
==============================================================================
