---------------------------- MODULE DisplayState ----------------------------
(***************************************************************************)
(* The display-state engine of the firmware, firmware/src/display_state.cpp: *)
(* the pure rules that decide whether a frame is believed, which link      *)
(* condition the panel is in, what the driving screen shows and whether    *)
(* the backlight is on.  It keeps no state; PanelLoop supplies it.         *)
(*                                                                         *)
(* An element of a frame that may be absent (the code's xPresent flag next *)
(* to its value) is a set that is empty or holds the one value.            *)
(*                                                                         *)
(* A definition named X_Y is a variant of X with a plausible bug Y.  No    *)
(* specification uses one: put in the place of X, it must break a property. *)
(***************************************************************************)
EXTENDS Integers

CONSTANTS
    ProtocolMajor,      \* the major version this device speaks
    StalenessMs,        \* how long an accepted frame stays fresh
    StaleDecayMs,       \* how long "stale" lasts before it is "unreachable"
    FirstFrameGraceMs   \* how long the first frame is waited for

ASSUME TimingAssumption ==
    /\ StalenessMs \in Nat
    /\ StaleDecayMs \in Nat
    /\ FirstFrameGraceMs \in Nat
    /\ StalenessMs < StaleDecayMs

Status == {"live", "noSim", "unsupportedTitle", "adapterFault"}

LinkState ==
    {"driving", "drivingPending", "joining", "unresolved", "unreachable",
     "stale", "noSim", "unsupportedTitle", "adapterFault", "versionMismatch"}

\* The gears of the wire: "R" is -1, "N" is 0, "1".."18" are themselves.
GearDomain == -1 .. 18

-----------------------------------------------------------------------------
(***************************************************************************)
(* Accepting a frame.                                                      *)
(***************************************************************************)

\* No telemetry element carries a value.
IsTelemetryNull(f) ==
    /\ f.gear = {} /\ f.rpm = {} /\ f.rampStart = {} /\ f.flash = {}
    /\ f.spotterLeft = "unavailable" /\ f.spotterRight = "unavailable"

\* The ramp thresholds come together or not at all, strictly ordered.
RampOrdered(f) ==
    /\ (f.rampStart = {}) = (f.flash = {})
    /\ \A start \in f.rampStart, flash \in f.flash : start < flash

\* What a frame must satisfy whatever came before it.
Validate(f) ==
    IF f.major # ProtocolMajor THEN "versionMajor"
    ELSE IF f.status # "live"
         THEN IF IsTelemetryNull(f) THEN "accepted" ELSE "statusInconsistent"
    ELSE IF /\ \A rpm \in f.rpm : rpm >= 0
            /\ f.gear \subseteq GearDomain
            /\ RampOrdered(f)
         THEN "accepted"
    ELSE "fieldRange"

\* Variant: a producer that restarts is not known.
AcceptsStamp_OneRun(newest, stamp) == \A n \in newest : stamp > n

\* Variant: any step back is a producer that restarted.
AcceptsStamp_AnyJump(newest, stamp) == \A n \in newest : stamp # n

(***************************************************************************)
(* StampTracker: newest is empty before the first frame and then holds the *)
(* newest stamp.  A stamp is accepted when it advances, or when it is so   *)
(* far behind that the producer must have restarted.                       *)
(***************************************************************************)
AcceptsStamp(newest, stamp) ==
    \A n \in newest : stamp > n \/ n - stamp > StalenessMs

\* Validation first: a frame that is refused for its contents never moves the
\* stamp tracker.
AcceptFrame(f, newest) ==
    IF Validate(f) = "accepted" /\ ~AcceptsStamp(newest, f.stamp)
    THEN "outOfOrder"
    ELSE Validate(f)

-----------------------------------------------------------------------------
(***************************************************************************)
(* The ladder: link-layer facts outrank freshness, freshness outranks what *)
(* the newest frame said.  The first row that matches wins.                *)
(***************************************************************************)
FreshLink(status) == IF status = "live" THEN "driving" ELSE status

\* Variant: row 6b is missing, stale is for ever.
DeriveLink_NoDecay(in, status) ==
    IF ~in.wifiAssociated THEN "joining"
    ELSE IF ~in.hostResolved THEN "unresolved"
    ELSE IF in.versionRejected THEN "versionMismatch"
    ELSE IF ~in.everAccepted
         THEN IF in.msSinceRegister < FirstFrameGraceMs
              THEN "drivingPending" ELSE "unreachable"
    ELSE IF in.msSinceAccepted > StalenessMs THEN "stale"
    ELSE FreshLink(status)

\* Variant: the newest frame's status outranks freshness.
DeriveLink_StatusFirst(in, status) ==
    IF ~in.wifiAssociated THEN "joining"
    ELSE IF ~in.hostResolved THEN "unresolved"
    ELSE IF in.versionRejected THEN "versionMismatch"
    ELSE IF ~in.everAccepted
         THEN IF in.msSinceRegister < FirstFrameGraceMs
              THEN "drivingPending" ELSE "unreachable"
    ELSE IF in.msSinceAccepted < StaleDecayMs THEN FreshLink(status)
    ELSE "unreachable"

DeriveLink(in, status) ==
    IF ~in.wifiAssociated THEN "joining"
    ELSE IF ~in.hostResolved THEN "unresolved"
    ELSE IF in.versionRejected THEN "versionMismatch"
    ELSE IF ~in.everAccepted
         THEN IF in.msSinceRegister < FirstFrameGraceMs
              THEN "drivingPending" ELSE "unreachable"
    ELSE IF in.msSinceAccepted > StalenessMs
         THEN IF in.msSinceAccepted < StaleDecayMs THEN "stale" ELSE "unreachable"
    ELSE FreshLink(status)

\* Variant: the version mismatch is not exempt.
BacklightShouldBeOn_BlanksMismatch(link, updateInProgress, msSinceDriving, blankAfter) ==
    \/ blankAfter = 0
    \/ updateInProgress
    \/ link = "driving"
    \/ msSinceDriving < blankAfter

\* The backlight policy; blankAfter = 0 disables blanking.
BacklightShouldBeOn(link, updateInProgress, msSinceDriving, blankAfter) ==
    \/ blankAfter = 0
    \/ updateInProgress
    \/ link \in {"versionMismatch", "driving"}
    \/ msSinceDriving < blankAfter

-----------------------------------------------------------------------------
(***************************************************************************)
(* What the driving screen shows.                                          *)
(***************************************************************************)
BarLit(spotter) == spotter \in {"one", "two"}

\* Where the revolutions are between the two thresholds, in whole hundredths:
\* what it is compared with are hundredths.
RampPosition(rpm, rampStart, flash) ==
    IF flash <= rampStart \/ rpm < rampStart THEN 0
    ELSE IF rpm > flash THEN 100
    ELSE (100 * (rpm - rampStart)) \div (flash - rampStart)

\* Variant: strictly above the flash threshold.
ShiftPhase_StrictFlash(f) ==
    IF {} \in {f.rpm, f.rampStart, f.flash} THEN "unavailable"
    ELSE IF \E rpm \in f.rpm, flash \in f.flash : rpm > flash THEN "flashing"
    ELSE IF \E rpm \in f.rpm, start \in f.rampStart : rpm >= start THEN "ramping"
    ELSE "neutral"

ShiftPhase(f) ==
    IF {} \in {f.rpm, f.rampStart, f.flash} THEN "unavailable"
    ELSE IF \E rpm \in f.rpm, flash \in f.flash : rpm >= flash THEN "flashing"
    ELSE IF \E rpm \in f.rpm, start \in f.rampStart : rpm >= start THEN "ramping"
    ELSE "neutral"

\* The display state; on any screen but the driving one it carries nothing.
Derive(f, link) ==
    IF link # "driving"
    THEN [gear |-> {}, shift |-> "unavailable", rampPosition |-> 0,
          barLeft |-> FALSE, barRight |-> FALSE]
    ELSE [gear |-> f.gear \cap GearDomain,
          shift |-> ShiftPhase(f),
          rampPosition |->
             IF ShiftPhase(f) = "ramping"
             THEN CHOOSE p \in 0 .. 100 : \E rpm \in f.rpm, start \in f.rampStart, flash \in f.flash :
                     p = RampPosition(rpm, start, flash)
             ELSE IF ShiftPhase(f) = "flashing" THEN 100 ELSE 0,
          barLeft |-> BarLit(f.spotterLeft),
          barRight |-> BarLit(f.spotterRight)]

\* The red half of the flash, from the clock alone.
FlashOn(now, period) == now % period < period \div 2

\* The plain line of a condition stands for its wording; the driving screen has
\* none.
PlainLine(link) == [says |-> link, names |-> {}]

\* The line of a link screen.  Of text, which has the newest frame's title and the
\* version that was refused, as far as they are known, two conditions name one.
LinkLine(link, text) ==
    [PlainLine(link) EXCEPT !.names = CASE link = "unsupportedTitle" -> text.title
                                        [] link = "versionMismatch"  -> text.peer
                                        [] OTHER                     -> {}]
=============================================================================
