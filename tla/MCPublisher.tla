---------------------------- MODULE MCPublisher ----------------------------
(* Registrations for TLC to send to Publisher. *)
EXTENDS Publisher

CONSTANTS d1, d2, a1, a2

MCDevices == {d1, d2}
MCAddrs == {a1, a2}

Registration(device, major, from) ==
    [flat |-> TRUE, major |-> {major}, deviceId |-> {device}, from |-> from]

\* Two devices, one of which moves and has another major version for a while.
MCDatagrams ==
    {Registration(d1, PluginMajor, a1), Registration(d1, PluginMajor, a2),
     Registration(d1, PluginMajor + 1, a2), Registration(d2, PluginMajor, a2)}
=============================================================================
