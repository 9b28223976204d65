---------------------------- MODULE FrameToGlass ----------------------------
(***************************************************************************)
(* One frame's way from the simulator to the glass: the plugin's           *)
(* DataUpdate builds it (FrameSource), the network carries it or not, the  *)
(* panel's loop() believes it or not and paints (PanelDraw).               *)
(*                                                                         *)
(* The link state is the choice of the environment, within what the newest *)
(* frame allows: PanelLoop has where it comes from.  So are the answers of *)
(* the wake sequence and the backlight.  Stamps always advance here; Link  *)
(* has those that do not.                                                  *)
(***************************************************************************)
EXTENDS PanelDraw, FrameSource

CONSTANTS
    Readings,       \* what the simulator may show, a set of sources
    Peers           \* the versions of frames that the panel refuses

AtMostOne(property) == \A v, w \in property : v = w

\* A property that is read has one value.
ASSUME FrameToGlassAssumption ==
    /\ PluginMajor = ProtocolMajor
    /\ \A source \in Readings :
          /\ source.running \in BOOLEAN /\ source.throws \in BOOLEAN
          /\ AtMostOne(source.gear) /\ AtMostOne(source.proximity)
          /\ \A property \in {source.rpm, source.redline, source.slFirst, source.slShift} :
                property \subseteq Int /\ AtMostOne(property)

VARIABLES
    faultedTitle,   \* FrameBuilder._faultedTitle
    inbox,          \* at most one datagram, with the reading it was built from
    newest,         \* g_lastFrame as far as g_haveFrame, with its reading
    peer,           \* g_rejectedMajor and g_rejectedMinor as far as g_rejectedKnown
    state,          \* the link state of the last iteration
    now,            \* the time of the last iteration, within a flash period
    panel           \* the panel, see PanelDraw

vars == <<faultedTitle, inbox, newest, peer, state, now, panel>>

Message(source) == [source |-> source, frame |-> OnTheWire(Build(source, 0))]

\* What drawDriving can have painted.
IsPicture(picture) ==
    /\ DOMAIN picture = Regions
    /\ picture["bands"] \in {Paint(c) : c \in {"black", "green", "yellow", "amber", "red"}}
    /\ picture["gear"] \in {Paint({})} \cup {Paint({g}) : g \in GearDomain}
    /\ {picture["left"], picture["right"]} \subseteq {Paint(lit) : lit \in BOOLEAN}

TypeOK ==
    /\ faultedTitle \in SUBSET Supported
    /\ peer \in SUBSET Peers
    /\ \A m \in inbox \cup newest : m.source \in Readings /\ m = Message(m.source)
    /\ state \in LinkState \cup {NothingShown}
    /\ now \in 0 .. FlashPeriod - 1
    /\ panel.shown \in LinkState \cup {NothingShown}
    /\ panel.offerShown \in BOOLEAN
    /\ panel.cached.valid => IsPicture(panel.cached.picture)

\* The end of setup(): a boot screen that the renderer does not know of.
Init ==
    /\ faultedTitle = {}
    /\ inbox = {} /\ newest = {} /\ peer = {}
    /\ state = NothingShown /\ now = 0
    /\ panel = DrawMessage([glass |-> <<>>, cached |-> Invalid,
                            shown |-> NothingShown, offerShown |-> FALSE])

-----------------------------------------------------------------------------
(* The plugin. *)

\* Build and Publish; the datagram replaces one that is still waiting, or is lost.
DataUpdate(source) ==
    /\ faultedTitle' = Latch(source, faultedTitle)
    /\ inbox' \in {inbox, {Message(source)}}
    /\ UNCHANGED <<newest, peer, state, now, panel>>

-----------------------------------------------------------------------------
(* The panel. *)

\* poll(): a frame that is refused leaves the newest alone.
Believed == {m \in inbox : Validate(m.frame) = "accepted"}

Polled == IF Believed = {} THEN newest ELSE Believed

\* What the ladder may answer with this newest frame, when a version was refused
\* just now and when one has ever been.
Possible(newestNow, refused, peerNow) ==
    {"joining", "unresolved"}
      \cup (IF peerNow = {} THEN {} ELSE {"versionMismatch"})
      \cup (IF refused # {} THEN {}
            ELSE {"unreachable"}
                   \cup (IF newestNow = {} THEN {"drivingPending"}
                         ELSE {"stale"} \cup {FreshLink(m.frame.status) : m \in newestNow}))

\* g_lastFrame is a default frame before the first.
FrameOf(newestNow) ==
    IF newestNow = {} THEN Blank("noSim", {}, 0) ELSE (CHOOSE m \in newestNow : TRUE).frame

\* What the line of a link screen can name.
Text(newestNow, peerNow) == [title |-> FrameOf(newestNow).titleId, peer |-> peerNow]

\* tick(), the touch and its answer.  A packet that could not be sent is not
\* confirmed.
Lapses(p) == {p} \cup (IF p.offerShown THEN {LapseOffer(p)} ELSE {})

Answers(p, link) ==
    {"none"} \cup (IF link # "unreachable" THEN {} ELSE IF p.offerShown THEN {"sent"} ELSE {"offered"})

Iterate ==
    \E refused \in {{}} \cup {{version} : version \in Peers}, later \in 0 .. FlashPeriod - 1 :
        /\ peer' = IF refused = {} THEN peer ELSE refused
        /\ \E link \in Possible(Polled, refused, peer'), relit \in BOOLEAN, lapsed \in Lapses(panel) :
            \E answer \in Answers(lapsed, link) :
                LET touched == Touched(lapsed, answer)
                    lit     == IF relit THEN Relit(touched) ELSE touched
                IN  /\ inbox' = {}
                    /\ newest' = Polled
                    /\ state' = link
                    /\ now' = later
                    /\ \E ready \in {lit} \cup (IF answer = "sent" THEN {Confirmed(lit)} ELSE {}) :
                          panel' = ShowLink(ready, link, Text(Polled, peer'),
                                            Derive(FrameOf(Polled), link), later)
                    /\ UNCHANGED faultedTitle

Next == (\E source \in Readings : DataUpdate(source)) \/ Iterate

Spec == Init /\ [][Next]_vars

-----------------------------------------------------------------------------
(***************************************************************************)
(* What the panel promises.                                                *)
(***************************************************************************)
Pairs(source) == Resolve(source.slFirst, source.slShift, source.redline)

\* The two thresholds are one on the wire.
Collapsed(source) == \E pair \in Pairs(source) : Rounded(pair[1]) = Rounded(pair[2])

\* Every frame the plugin can make of any reading, a faulting adapter's
\* included, passes the panel's validation, unless the title supplies two
\* thresholds closer than the wire can tell apart: that whole frame is refused,
\* gear and bars with it (FrameBuilder.cs, IRacingAdapter.cs against
\* validate() in display_state.cpp).
FrameIsBelieved ==
    \A m \in inbox :
        ~(m.frame.status = "live" /\ Collapsed(m.source)) => Validate(m.frame) = "accepted"

\* While the driving screen is up, every region of the glass, repainted or
\* not, holds what the newest frame and the flash clock say: whatever was on
\* the glass since it was last painted (drawDriving's dirty regions with
\* invalidate(), and firmware.ino's g_shown).
GlassIsExact ==
    state = "driving" => panel.glass = Rendering(Derive(FrameOf(newest), "driving"), now)

\* Whatever is repainted or kept, the glass changes as if all of it were painted
\* in every iteration, by a renderer that may leave a link screen as it is while
\* the condition holds: the renderer's cache, the places that spoil it or the
\* loop's g_shown and the offer's branch are never seen, and g_shown only in the
\* line of a link screen that stays up (drawDriving() and invalidate() in
\* panel.cpp, loop() in firmware.ino).
Plain == INSTANCE WholeGlass WITH frame <- FrameOf(newest), offered <- panel.offerShown,
                                  glass <- panel.glass

LooksRepainted == Plain!Spec

\* Off the driving screen, and unless an offer stands over an unreachable rig, the
\* whole glass is one screen, and its icon alone tells which of the nine
\* conditions holds (drawLinkIcon(), loop()'s choice of screen).
GlassNamesTheCondition ==
    state \notin {"driving", NothingShown} /\ ~(panel.offerShown /\ state = "unreachable") =>
        /\ \A r, s \in Regions : panel.glass[r] = panel.glass[s]
        /\ {link \in LinkState \ {"driving"} : LinkIcon(link) = panel.glass["bands"].icon} = {state}

(***************************************************************************)
(* What the driving screen says is true of the reading it was made from,   *)
(* across the plugin's mapping, the wire's rounding and the panel's        *)
(* derivation: a bar is lit exactly when the spotter reports a car on that *)
(* side, on both for "both sides"; red means that the shift point was      *)
(* reached up to the rounding, and from the shift point on the bands are   *)
(* red in the flash's phase; without a usable pair they are black.         *)
(***************************************************************************)
CarOnLeft == {2, 4, 5}
CarOnRight == {3, 4, 6}

GlassTellsTheSim ==
    state = "driving" =>
        \A m \in newest :
            LET reading == m.source
            IN  /\ panel.glass["left"] = Paint(reading.proximity \cap CarOnLeft # {})
                /\ panel.glass["right"] = Paint(reading.proximity \cap CarOnRight # {})
                /\ panel.glass["bands"] = Paint("red") =>
                      \E rpm \in reading.rpm, pair \in Pairs(reading) : rpm + WireUnit > pair[2]
                /\ \A rpm \in reading.rpm, pair \in Pairs(reading) :
                      rpm >= pair[2] =>
                          panel.glass["bands"] = Paint(IF FlashOn(now, FlashPeriod) THEN "red" ELSE "black")
                /\ Pairs(reading) = {} => panel.glass["bands"] = Paint("black")

\* The line of a link screen is that of the newest frame and the newest refused
\* version: "Two lines interpolate a value: the unsupported title names the
\* running title", user-experience.md:297.  loop() looks at the link state only.
LineIsCurrent ==
    state \notin {"driving", NothingShown} /\ ~(panel.offerShown /\ state = "unreachable") =>
        \A r \in Regions : panel.glass[r].line = LinkLine(state, Text(newest, peer))
=============================================================================
