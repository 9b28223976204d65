--------------------------- MODULE MCFrameToGlass ---------------------------
(* Readings of the simulator for TLC.  Revolutions are in half units of the *)
(* wire; WireUnit is 2.                                                     *)
EXTENDS FrameToGlass

CONSTANTS sim1, sim2, other

MCSupported == {sim1, sim2}

Idle == [running |-> TRUE, game |-> {sim1}, throws |-> FALSE, gear |-> {}, rpm |-> {},
         redline |-> {}, slFirst |-> {}, slShift |-> {}, proximity |-> {}]

\* A car with a redline of 200: ramp from 176, flash from 194.
Car(gear, rpm, proximity) ==
    [Idle EXCEPT !.gear = {gear}, !.rpm = {rpm}, !.redline = {200}, !.proximity = {proximity}]

MCReadings ==
    {Car("3", 184, 0), Car("N", 194, 2), Car("4", 193, 4), Car("R", -4, 6), Car("x", 150, 3),
     \* the sim's own pair: usable, above the redline, and too close for the wire
     [Car("2", 120, 5) EXCEPT !.slFirst = {110}, !.slShift = {120}],
     [Car("2", 196, 7) EXCEPT !.slFirst = {195}, !.slShift = {201}],
     [Car("2", 95, 2) EXCEPT !.slFirst = {95}, !.slShift = {96}],
     [Car("3", 184, 2) EXCEPT !.throws = TRUE],
     [Idle EXCEPT !.throws = TRUE, !.game = {sim2}],
     [Idle EXCEPT !.throws = TRUE, !.game = {other}],
     [Idle EXCEPT !.running = FALSE]}

\* Two titles that have no adapter, one after the other.
TwoTitles == {[Idle EXCEPT !.game = {title}] : title \in {other, sim2}}

\* A title that faults and comes back.
Faults == {Car("3", 184, 0), [Idle EXCEPT !.throws = TRUE]}
=============================================================================
