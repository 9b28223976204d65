---------------------------- MODULE MCPanelLoop ----------------------------
(* Traffic and answers of the outside world for the runs of PanelLoop. *)
EXTENDS PanelInvariant

CONSTANTS Rig, Stranger     \* the configured PC and another host of the LAN

MCAddr == {Rig, Stranger}

Blank(major, status, stamp) ==
    [major |-> major, status |-> status, stamp |-> stamp,
     gear |-> {}, rpm |-> {}, rampStart |-> {}, flash |-> {},
     spotterLeft |-> "unavailable", spotterRight |-> "unavailable"]

From(host, frame) == [parsed |-> TRUE, frame |-> frame, from |-> host]

Junk == [parsed |-> FALSE]

Live(stamp) == [Blank(ProtocolMajor, "live", stamp) EXCEPT !.gear = {3}]

\* Live and idle frames of the rig, a live frame of a stranger, a frame from a
\* producer that speaks another major version, one whose gear is out of its
\* domain, and a datagram that is no frame.
MixedTraffic ==
    {From(Rig, Live(1)), From(Rig, Blank(ProtocolMajor, "noSim", 2)),
     From(Stranger, Live(4)),
     From(Rig, Blank(ProtocolMajor + 1, "live", 1)),
     From(Rig, [Live(3) EXCEPT !.gear = {19}]), Junk}

\* A live frame of an earlier and of a later producer run, and an idle one.
LiveTraffic ==
    {From(Rig, Live(1)), From(Rig, Live(3)), From(Rig, Blank(ProtocolMajor, "noSim", 2))}

AlwaysRig == {{Rig}}
MayFail == {{}, {Rig}}
=============================================================================
