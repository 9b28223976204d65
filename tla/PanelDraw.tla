----------------------------- MODULE PanelDraw -----------------------------
(***************************************************************************)
(* The renderer, firmware/src/panel.cpp, and the part of loop() that calls *)
(* it, as operators on the panel:                                          *)
(*   glass       what each region holds.  The driving screen has four      *)
(*               regions that are painted separately; any other screen     *)
(*               fills them all, and each then holds a piece of it;        *)
(*   cached      the renderer's own g_shown, from which it decides which   *)
(*               regions to repaint;                                       *)
(*   shown       the loop's g_shown, the link state it last showed;        *)
(*   offerShown  the loop's g_offerShown.                                  *)
(* Geometry is left out but for this: the four regions cover the glass.    *)
(*                                                                         *)
(* X_Y is a variant of X with a plausible bug Y.                           *)
(***************************************************************************)
EXTENDS DisplayState

CONSTANT FlashPeriod    \* kFlashPeriodMs, in the units of the loop's clock

ASSUME FlashAssumption == FlashPeriod \in Nat \ {0}

Regions == {"bands", "gear", "left", "right"}

NothingShown == "nothing"

\* A screen that fills the glass.
Screen(icon, line) == [icon |-> icon, line |-> line]

FillScreen(panel, screen) == [panel EXCEPT !.glass = [r \in Regions |-> screen]]

-----------------------------------------------------------------------------
(***************************************************************************)
(* The link screen's icons: the five link conditions share the Wi-Fi fan,  *)
(* with one band hollow or not, the dot filled or not, and a mark on it;   *)
(* the other four have silhouettes of their own.                           *)
(***************************************************************************)
Fan(hollowBand, filledDot, mark) ==
    [motif |-> "fan", hollow |-> hollowBand, dot |-> filledDot, mark |-> mark]

Shape(motif, mark) == [motif |-> motif, hollow |-> 0, dot |-> FALSE, mark |-> mark]

\* Variant: the pause bars are left off, stale is a plain full signal with the
\* channel that unreachable is crossed out in.
LinkIcon_StalePlain(link) ==
    CASE link = "drivingPending"   -> Fan(0, FALSE, "none")
      [] link = "joining"          -> Fan(3, TRUE, "none")
      [] link = "unresolved"       -> Fan(0, TRUE, "question")
      [] link \in {"unreachable", "stale"} -> Fan(0, TRUE, "crossed")
      [] link = "noSim"            -> Shape("screen", "none")
      [] link = "unsupportedTitle" -> Shape("screen", "slash")
      [] link = "adapterFault"     -> Shape("triangle", "exclamation")
      [] link = "versionMismatch"  -> Shape("blocks", "gap")

LinkIcon(link) ==
    CASE link = "drivingPending"   -> Fan(0, FALSE, "none")
      [] link = "joining"          -> Fan(3, TRUE, "none")
      [] link = "unresolved"       -> Fan(0, TRUE, "question")
      [] link = "unreachable"      -> Fan(0, TRUE, "crossed")
      [] link = "stale"            -> Fan(0, TRUE, "pause")
      [] link = "noSim"            -> Shape("screen", "none")
      [] link = "unsupportedTitle" -> Shape("screen", "slash")
      [] link = "adapterFault"     -> Shape("triangle", "exclamation")
      [] link = "versionMismatch"  -> Shape("blocks", "gap")

NoIcon == Shape("none", "none")

DrawLink(panel, link, text) == FillScreen(panel, Screen(LinkIcon(link), LinkLine(link, text)))

\* The offer keeps the unreachable line, with no icon.
DrawWakeOffer(panel) == FillScreen(panel, Screen(NoIcon, PlainLine("unreachable")))

DrawMessage(panel) == FillScreen(panel, Screen(NoIcon, PlainLine("message")))

-----------------------------------------------------------------------------
(***************************************************************************)
(* The driving screen.                                                     *)
(***************************************************************************)
RampColour(position) ==
    IF position < 20 THEN "black"
    ELSE IF position < 47 THEN "green"
    ELSE IF position < 73 THEN "yellow"
    ELSE "amber"

Background(state, now) ==
    CASE state.shift = "ramping"  -> RampColour(state.rampPosition)
      [] state.shift = "flashing" -> IF FlashOn(now, FlashPeriod) THEN "red" ELSE "black"
      [] OTHER                    -> "black"

Paint(what) == [paint |-> what]

\* What each region shows: a colour, a glyph or none, a bar lit or not.
Rendering(state, now) ==
    [r \in Regions |->
        CASE r = "bands" -> Paint(Background(state, now))
          [] r = "gear"  -> Paint(state.gear)
          [] r = "left"  -> Paint(state.barLeft)
          [] r = "right" -> Paint(state.barRight)]

\* g_shown.valid is false: nothing on the glass can be relied on.
Invalid == [valid |-> FALSE]

Invalidate(panel) == [panel EXCEPT !.cached = Invalid]

\* Variant: after a repaint of one bar only that bar is redrawn.
Dirty_OneBar(cached, picture) ==
    IF ~cached.valid THEN Regions
    ELSE {r \in {"bands", "gear", "left"} : picture[r] # cached.picture[r]}

\* The regions drawDriving repaints: the bars go together.
Dirty(cached, picture) ==
    IF ~cached.valid THEN Regions
    ELSE {r \in {"bands", "gear"} : picture[r] # cached.picture[r]}
           \cup (IF \E r \in {"left", "right"} : picture[r] # cached.picture[r]
                 THEN {"left", "right"} ELSE {})

\* Nothing dirty leaves the cache alone; it holds the same picture then.
DrawDriving(panel, state, now) ==
    LET picture == Rendering(state, now)
        dirty   == Dirty(panel.cached, picture)
    IN  IF dirty = {} THEN panel
        ELSE [panel EXCEPT
                !.glass = [r \in Regions |-> IF r \in dirty THEN picture[r] ELSE panel.glass[r]],
                !.cached = [valid |-> TRUE, picture |-> picture]]

-----------------------------------------------------------------------------
(***************************************************************************)
(* What an iteration of loop() does to the panel, part after part.         *)
(***************************************************************************)
Forget(panel) == [panel EXCEPT !.shown = NothingShown]

\* Variant: the offer is withdrawn and its screen left standing.
LapseOffer_Remembers(panel) == [panel EXCEPT !.offerShown = FALSE]

\* tick() withdrew the offer.
LapseOffer(panel) == Forget([panel EXCEPT !.offerShown = FALSE])

\* The wake sequence answered a touch.
Touched(panel, answer) ==
    CASE answer = "offered" -> [DrawWakeOffer(panel) EXCEPT !.offerShown = TRUE]
      [] answer = "sent"    -> LapseOffer(panel)
      [] OTHER              -> panel

\* The backlight comes back.
Relit(panel) == Forget(Invalidate(panel))

\* "Wake sent", for a second and a half.
Confirmed(panel) == Invalidate(DrawMessage(panel))

\* Variant: coming from another screen the renderer's cache is still trusted.
ShowLink_KeepsCache(panel, link, text, state, now) ==
    IF link = "driving"
    THEN [DrawDriving(panel, state, now) EXCEPT !.shown = link]
    ELSE IF (panel.offerShown /\ link = "unreachable") \/ link = panel.shown
    THEN [panel EXCEPT !.shown = link]
    ELSE [DrawLink(panel, link, text) EXCEPT !.shown = link]

\* The choice of screen, at the end of loop().  A link screen that is up stays as
\* it is, whatever its line would say now.
ShowLink(panel, link, text, state, now) ==
    IF link = "driving"
    THEN [DrawDriving(IF panel.shown = "driving" THEN panel ELSE Invalidate(panel),
                      state, now) EXCEPT !.shown = link]
    ELSE IF (panel.offerShown /\ link = "unreachable") \/ link = panel.shown
    THEN [panel EXCEPT !.shown = link]
    ELSE [DrawLink(Invalidate(panel), link, text) EXCEPT !.shown = link]
=============================================================================
