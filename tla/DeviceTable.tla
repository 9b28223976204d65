---------------------------- MODULE DeviceTable ----------------------------
(***************************************************************************)
(* The publisher's table of registered devices, core/DeviceTable.cs, and   *)
(* what the parser makes of a datagram, core/RegistrationParser.cs.  Pure  *)
(* operators: the module that has the threads keeps the table.             *)
(*                                                                         *)
(* The table is a function on the devices that are in it.  The wall clock, *)
(* which the code reads twice and subtracts, can be set: it is real time   *)
(* plus an offset, skew.  An entry has the endpoint and, for LastSeenMs,   *)
(* since: real time now less the wall clock at the registration.           *)
(*                                                                         *)
(* X_Y is a variant of X with a plausible bug Y.                           *)
(***************************************************************************)
EXTENDS Integers

CONSTANTS
    Devices,        \* device identities, the well-formed ones
    Addrs,          \* endpoints on the LAN
    ForgetAfter,    \* ForgetAfterMs
    MaxSkew,        \* bound: how far the wall clock may be set off
    PluginMajor     \* Frame.ProtocolMajor

ASSUME DeviceTableAssumption ==
    /\ ForgetAfter \in Nat
    /\ MaxSkew \in Nat
    /\ PluginMajor \in Nat

\* From here on an entry is expired wherever the wall clock is set.
Expired == ForgetAfter + 1

Skews == 0 .. MaxSkew

Entry == [endPoint : Addrs, since : -MaxSkew .. Expired]

Older(age) == IF age < Expired THEN age + 1 ELSE age

\* nowMs - LastSeenMs.
SinceSeen(e, skew) == e.since + skew

(***************************************************************************)
(* A datagram as the parser sees it: whether it is a flat object within    *)
(* the size bounds (flat), its protocolMajor and its deviceId, each of     *)
(* which may be missing or malformed (the empty set).                      *)
(***************************************************************************)
TryParse(datagram) ==
    /\ datagram.flat
    /\ datagram.major # {}
    /\ datagram.deviceId # {}

\* Variant: the major version is not looked at.
ServesMajor_Any(datagram) == TryParse(datagram)

\* HandleDatagram's two refusals.
ServesMajor(datagram) ==
    /\ TryParse(datagram)
    /\ datagram.major = {PluginMajor}

\* Variant: a known device is refreshed but stays at its first endpoint.
Register_KeepsEndPoint(table, device, source, skew) ==
    [d \in DOMAIN table \cup {device} |->
        IF d = device
        THEN [endPoint |-> IF d \in DOMAIN table THEN table[d].endPoint ELSE source,
              since |-> -skew]
        ELSE table[d]]

\* Variant: a new device's endpoint is not set.
Register_NewUnset(table, device, source, skew) ==
    [d \in DOMAIN table \cup {device} |->
        IF d = device
        THEN [endPoint |-> IF d \in DOMAIN table THEN source ELSE {}, since |-> -skew]
        ELSE table[d]]

\* Variant: a known device's LastSeenMs is set only when it is new.
Register_NoRefresh(table, device, source, skew) ==
    [d \in DOMAIN table \cup {device} |->
        IF d = device /\ d \notin DOMAIN table
        THEN [endPoint |-> source, since |-> -skew]
        ELSE IF d = device THEN [table[d] EXCEPT !.endPoint = source]
        ELSE table[d]]

\* Add the device or refresh it; one entry per identity, at the endpoint it
\* was last heard from.
Register(table, device, source, skew) ==
    [d \in DOMAIN table \cup {device} |->
        IF d = device THEN [endPoint |-> source, since |-> -skew] ELSE table[d]]

\* Variant: off by one at the third keepalive.
ActiveDevices_Strict(table, skew) ==
    {d \in DOMAIN table : SinceSeen(table[d], skew) < ForgetAfter}

ActiveDevices(table, skew) ==
    {d \in DOMAIN table : SinceSeen(table[d], skew) <= ForgetAfter}

\* What ActiveDevices leaves in the table.
Kept(table, skew) == [d \in ActiveDevices(table, skew) |-> table[d]]

\* A unit of real time goes by.
Aged(table) == [d \in DOMAIN table |-> [table[d] EXCEPT !.since = Older(@)]]
=============================================================================
