---------------------------- MODULE FrameSource ----------------------------
(***************************************************************************)
(* How the plugin makes a frame: core/FrameBuilder.cs with its adapter     *)
(* registry, core/Adapters/IRacingAdapter.cs, core/ShiftThresholds.cs and  *)
(* core/Frame.cs.  Operators; the fault latch is the state that its user    *)
(* keeps.                                                                  *)
(*                                                                         *)
(* A reading of the simulator (ITelemetrySource) is a record whose         *)
(* elements are sets that are empty when the property cannot be read or is *)
(* not a number:                                                           *)
(*   running, game        whether a game runs, and its name;               *)
(*   throws               the adapter throws on this reading;              *)
(*   gear                 the gear as SimHub spells it;                    *)
(*   rpm, redline,                                                         *)
(*   slFirst, slShift     revolutions, in a unit finer than the wire's;    *)
(*   proximity            iRacing's CarLeftRight.                          *)
(* Frames are those of DisplayState, with a titleId.                       *)
(*                                                                         *)
(* X_Y is a variant of X with a plausible bug Y.                           *)
(***************************************************************************)
EXTENDS Integers

CONSTANTS
    PluginMajor,    \* Frame.ProtocolMajor
    Supported,      \* the titles that have an adapter
    RampPercent,    \* RampStartFraction, in hundredths
    FlashPercent,   \* FlashFraction, in hundredths
    WireUnit        \* units of the source in one unit of the wire

ASSUME FrameSourceAssumption ==
    /\ PluginMajor \in Nat
    /\ RampPercent \in 1 .. 99
    /\ FlashPercent \in 1 .. 100
    /\ RampPercent < FlashPercent
    /\ WireUnit \in Nat \ {0}

-----------------------------------------------------------------------------
(***************************************************************************)
(* The adapter's mappings.                                                 *)
(***************************************************************************)
Digits == <<"1", "2", "3", "4", "5", "6", "7", "8", "9">>

\* "R" is -1 and "N" is 0.
Spellings(gear) ==
    CASE gear = -1 -> {"R", "r"}
      [] gear = 0  -> {"N", "n", "0"}
      [] OTHER     -> {Digits[gear]}

\* Anything that is not a single known character is unavailable.
NormaliseGear(raw) == {gear \in -1 .. 9 : raw \in Spellings(gear)}

\* Variant: the sides are told apart by one value each.
LeftFromEnum_OnlyTwo(v) ==
    IF v = 2 THEN "one" ELSE IF v \in {0, 1, 3, 4, 5, 6} THEN "none" ELSE "unavailable"

\* 4 is a car on both sides, 5 two on the left, 6 two on the right.
LeftFromEnum(v) ==
    IF v \in {2, 4, 5} THEN "one" ELSE IF v \in {0, 1, 3, 6} THEN "none" ELSE "unavailable"

RightFromEnum(v) ==
    IF v \in {3, 4, 6} THEN "one" ELSE IF v \in {0, 1, 2, 5} THEN "none" ELSE "unavailable"

\* What cannot be read is as unavailable as what is outside the domain.
CarLeftRight(proximity) == IF proximity = {} THEN -1 ELSE CHOOSE v \in proximity : TRUE

\* Rung 1: the sim's own pair, when both are positive, in order, and the
\* second is within the redline as far as that is known.
NativePairs(slFirst, slShift, redline) ==
    {pair \in slFirst \X slShift :
        /\ pair[1] > 0 /\ pair[1] < pair[2]
        /\ \A max \in redline : pair[2] <= max}

\* Rung 2: fractions of the redline, as long as they are positive and in order.
RedlinePairs(redline) ==
    {pair \in {<<(max * RampPercent) \div 100, (max * FlashPercent) \div 100>> : max \in redline} :
        pair[1] > 0 /\ pair[1] < pair[2]}

\* The thresholds, as no pair or one.
Resolve(slFirst, slShift, redline) ==
    IF NativePairs(slFirst, slShift, redline) # {}
    THEN NativePairs(slFirst, slShift, redline)
    ELSE RedlinePairs(redline)

-----------------------------------------------------------------------------
(***************************************************************************)
(* Frames.                                                                 *)
(***************************************************************************)
Blank(status, titleId, stamp) ==
    [major |-> PluginMajor, status |-> status, titleId |-> titleId, stamp |-> stamp,
     gear |-> {}, rpm |-> {}, rampStart |-> {}, flash |-> {},
     spotterLeft |-> "unavailable", spotterRight |-> "unavailable"]

\* Each element by itself: one that cannot be read costs no other.
BuildFrame(source, title, stamp) ==
    LET pairs == Resolve(source.slFirst, source.slShift, source.redline)
    IN  [Blank("live", {title}, stamp) EXCEPT
            !.gear = UNION {NormaliseGear(raw) : raw \in source.gear},
            !.rpm = {rpm \in source.rpm : rpm >= 0},
            !.rampStart = {pair[1] : pair \in pairs},
            !.flash = {pair[2] : pair \in pairs},
            !.spotterLeft = LeftFromEnum(CarLeftRight(source.proximity)),
            !.spotterRight = RightFromEnum(CarLeftRight(source.proximity))]

NoGame(source) == ~source.running

\* AdapterRegistry.Select
Select(source) == source.game \cap Supported

\* Variant: a frame that could not be built keeps what was read of it.
Build_PartialFault(source, stamp) ==
    IF NoGame(source) THEN Blank("noSim", {}, stamp)
    ELSE IF Select(source) = {} THEN Blank("unsupportedTitle", source.game, stamp)
    ELSE IF source.throws
         THEN [BuildFrame(source, CHOOSE t \in Select(source) : TRUE, stamp)
                  EXCEPT !.status = "adapterFault"]
    ELSE BuildFrame(source, CHOOSE t \in Select(source) : TRUE, stamp)

\* FrameBuilder.Build's frame.
Build(source, stamp) ==
    IF NoGame(source) THEN Blank("noSim", {}, stamp)
    ELSE IF Select(source) = {} THEN Blank("unsupportedTitle", source.game, stamp)
    ELSE IF source.throws THEN Blank("adapterFault", Select(source), stamp)
    ELSE BuildFrame(source, CHOOSE t \in Select(source) : TRUE, stamp)

\* Variant: the host's name for the title, adapter or not.
Latch_AnyTitle(source, faultedTitle) ==
    IF ~NoGame(source) /\ source.throws THEN source.game ELSE {}

\* FrameBuilder.Build's _faultedTitle: the title whose fault was reported, until
\* anything else is built.
Latch(source, faultedTitle) ==
    IF ~NoGame(source) /\ source.throws THEN Select(source) ELSE {}

\* Whether Build reports a fault.
Reports(source, faultedTitle) ==
    ~NoGame(source) /\ source.throws /\ Select(source) \notin {{}, faultedTitle}

-----------------------------------------------------------------------------
(***************************************************************************)
(* The wire: ToJson keeps four decimals and the panel reads a float.       *)
(***************************************************************************)
Rounded(v) == (v + WireUnit \div 2) \div WireUnit

OnTheWire(f) ==
    [f EXCEPT !.rpm = {Rounded(v) : v \in @},
              !.rampStart = {Rounded(v) : v \in @},
              !.flash = {Rounded(v) : v \in @}]
=============================================================================
