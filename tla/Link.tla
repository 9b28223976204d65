-------------------------------- MODULE Link --------------------------------
(***************************************************************************)
(* The panel and the plugin over a LAN that loses, delays, duplicates and  *)
(* reorders: registrations one way (maintainRegistration() in net.cpp,     *)
(* HandleDatagram in UdpPublisher.cs), frames the other (Publish, poll()   *)
(* and the stamp tracker), in discrete time.  The plugin may be restarted, *)
(* or replaced by one of another major version, at any moment.             *)
(*                                                                         *)
(* A stamp is the time since the plugin started.  Every unit of time the   *)
(* plugin publishes one frame at least, of which the newest is followed    *)
(* here; each is on the network for MaxDelay and may arrive any number of  *)
(* times while it is, or never.  Registrations arrive at once, or are      *)
(* lost, but no more than MaxLost of them in a row.                        *)
(*                                                                         *)
(* X_Y is a variant of X with a plausible bug Y.                           *)
(***************************************************************************)
EXTENDS DisplayState

CONSTANTS
    Panel, PanelAddr,   \* the one device and its endpoint
    Majors,             \* the major versions a plugin may have
    ForgetAfter,        \* the plugin's ForgetAfterMs
    RegisterInterval,   \* kRegisterIntervalMs
    Jitter,             \* how much later an iteration of loop() may come
    MaxLost,            \* registrations lost in a row
    MaxDelay,           \* how long a frame is on the network
    MaxUptime,          \* bound: how long a plugin runs
    MaxRuns             \* bound: how often it starts

\* The three registrations of net.h:34 are more than enough: what the plugin
\* misses after them is not longer than a frame stays fresh.
ASSUME LinkAssumption ==
    /\ {ForgetAfter, RegisterInterval, Jitter, MaxLost, MaxDelay, MaxUptime} \subseteq Nat
    /\ MaxRuns \in Nat \ {0}
    /\ (MaxLost + 1) * (RegisterInterval + Jitter) <= ForgetAfter + StalenessMs
    /\ MaxDelay <= StalenessMs

\* The plugin's table, for a plugin of each major version; the wall clock is
\* right here.
Plugin(major) ==
    INSTANCE DeviceTable WITH Devices <- {Panel}, Addrs <- {PanelAddr}, MaxSkew <- 0,
                              PluginMajor <- major

VARIABLES
    major,          \* the plugin's major version
    run,            \* how often it was started
    uptime,         \* since then
    table,          \* its device table
    unserved,       \* history: how long the panel was not sent to, once it was
    flight,         \* frames on the network: [run, major, stamp, age]
    sinceRegister,  \* now - g_lastRegisterMs, as far as it matters
    lost,           \* registrations lost since the last that arrived
    newest,         \* the tracker's newest stamp, with the run it is of
    sinceAccepted,  \* since a frame was accepted, as far as it matters
    heard,          \* history: the frame of this unit arrived
    hearing,        \* history: for so many units on end each frame arrived in its unit
    versionRejected \* g_versionRejected

vars == <<major, run, uptime, table, unserved, flight, sinceRegister, lost,
          newest, sinceAccepted, heard, hearing, versionRejected>>

\* Times from here on are alike.
Horizon == StalenessMs + 3

UpTo(limit, n) == IF n > limit THEN limit ELSE n

TypeOK ==
    /\ major \in Majors
    /\ run \in 1 .. MaxRuns
    /\ uptime \in 0 .. MaxUptime
    /\ DOMAIN table \subseteq {Panel}
    /\ table \in [DOMAIN table -> [endPoint : {PanelAddr}, since : 0 .. ForgetAfter]]
    /\ unserved \in SUBSET (0 .. Horizon)
    /\ flight \subseteq [run : 1 .. run, major : Majors, stamp : 1 .. MaxUptime, age : 0 .. MaxDelay]
    /\ sinceRegister \in 0 .. RegisterInterval + Jitter
    /\ lost \in 0 .. MaxLost
    /\ newest \in SUBSET [run : 1 .. run, stamp : 1 .. MaxUptime]
    /\ sinceAccepted \in 0 .. Horizon
    /\ heard \in BOOLEAN
    /\ hearing \in 0 .. Horizon
    /\ versionRejected \in BOOLEAN

\* The panel has just booted: its first registration is due.
Init ==
    /\ major \in Majors
    /\ run = 1 /\ uptime = 0 /\ table = [d \in {} |-> 0]
    /\ unserved = {} /\ flight = {}
    /\ sinceRegister = RegisterInterval /\ lost = 0
    /\ newest = {} /\ sinceAccepted = 0 /\ heard = FALSE /\ hearing = 0
    /\ versionRejected = FALSE

-----------------------------------------------------------------------------
(* Registration. *)

RegisterDue == sinceRegister >= RegisterInterval

Registration == [flat |-> TRUE, major |-> {ProtocolMajor}, deviceId |-> {Panel}]

\* maintainRegistration(), and what HandleDatagram makes of it.
RegistrationArrives ==
    /\ RegisterDue
    /\ sinceRegister' = 0
    /\ lost' = 0
    /\ table' = IF Plugin(major)!ServesMajor(Registration)
                THEN Plugin(major)!Register(table, Panel, PanelAddr, 0)
                ELSE table
    /\ UNCHANGED <<major, run, uptime, unserved, flight, newest, sinceAccepted, heard, hearing, versionRejected>>

RegistrationIsLost ==
    /\ RegisterDue
    /\ lost < MaxLost
    /\ lost' = lost + 1
    /\ sinceRegister' = 0
    /\ UNCHANGED <<major, run, uptime, table, unserved, flight, newest, sinceAccepted, heard, hearing, versionRejected>>

-----------------------------------------------------------------------------
(* Frames. *)

FrameAt(r, m, stamp) == [run |-> r, major |-> m, stamp |-> stamp, age |-> 0]

\* A unit of time, at the end of which the plugin publishes.  A registration
\* that is due is not put off further.
Elapse ==
    /\ uptime < MaxUptime
    /\ sinceRegister < RegisterInterval + Jitter
    /\ uptime' = uptime + 1
    /\ sinceRegister' = sinceRegister + 1
    /\ sinceAccepted' = UpTo(Horizon, sinceAccepted + 1)
    /\ LET aged   == Plugin(major)!Aged(table)
           served == Plugin(major)!ActiveDevices(aged, 0)
           kept   == {[f EXCEPT !.age = @ + 1] : f \in {g \in flight : g.age < MaxDelay}}
       IN  /\ table' = Plugin(major)!Kept(aged, 0)
           /\ unserved' = IF served # {} THEN {0} ELSE {UpTo(Horizon, u + 1) : u \in unserved}
           /\ flight' = kept \cup {FrameAt(run, major, uptime') : d \in served}
    /\ heard' = FALSE
    /\ hearing' = IF heard THEN UpTo(Horizon, hearing + 1) ELSE 0
    /\ UNCHANGED <<major, run, lost, newest, versionRejected>>

\* poll() takes a frame, whose contents are in order.
Contents(f) ==
    [major |-> f.major, status |-> "noSim", stamp |-> f.stamp, gear |-> {}, rpm |-> {},
     rampStart |-> {}, flash |-> {}, spotterLeft |-> "unavailable", spotterRight |-> "unavailable"]

Verdict(f) == AcceptFrame(Contents(f), {n.stamp : n \in newest})

Deliver ==
    \E f \in flight :
        /\ newest' = IF Verdict(f) = "accepted" THEN {[run |-> f.run, stamp |-> f.stamp]} ELSE newest
        /\ sinceAccepted' = IF Verdict(f) = "accepted" THEN 0 ELSE sinceAccepted
        /\ versionRejected' = CASE Verdict(f) = "accepted"     -> FALSE
                                [] Verdict(f) = "versionMajor" -> TRUE
                                [] OTHER                       -> versionRejected
        /\ heard' = (heard \/ (f.run = run /\ f.age = 0))
        /\ UNCHANGED <<major, run, uptime, table, unserved, flight, sinceRegister, lost, hearing>>

\* A new plugin, which knows no device.
PluginRestarts ==
    /\ run < MaxRuns
    /\ run' = run + 1
    /\ major' \in Majors
    /\ uptime' = 0
    /\ table' = [d \in {} |-> 0]
    /\ unserved' = {}
    /\ heard' = FALSE /\ hearing' = 0
    /\ UNCHANGED <<flight, sinceRegister, lost, newest, sinceAccepted, versionRejected>>

Next ==
    \/ RegistrationArrives \/ RegistrationIsLost
    \/ Elapse \/ Deliver
    \/ PluginRestarts

Spec == Init /\ [][Next]_vars

-----------------------------------------------------------------------------
(***************************************************************************)
(* A plugin that has once sent to the panel never pauses for longer than a *)
(* frame stays fresh, as long as no more than MaxLost registrations in a   *)
(* row are lost: those alone never make the panel stale (the cadence of    *)
(* net.h:33 against DeviceTable's ForgetAfterMs and the staleness).        *)
(***************************************************************************)
ServedWithoutGaps == \A gap \in unserved : gap <= StalenessMs

\* When every unit's frame arrives in time for a staleness and two units, one of
\* them was accepted, whatever was accepted before: a restarted plugin's low
\* stamps, among late frames of the run before, lock the panel out no longer
\* (StampTracker::accept in display_state.cpp).
NewRunIsPickedUp == hearing >= StalenessMs + 2 => sinceAccepted <= StalenessMs + 2

\* Two frames of one run that are accepted one after the other are in the order
\* of their stamps: a frame that is late or comes twice does not take the panel
\* back (StampTracker::accept).
NoStepBack ==
    [][\A old \in newest, new \in newest' :
          newest' # newest /\ old.run = new.run => old.stamp < new.stamp]_vars

\* A panel whose registrations have reached a plugin of another major version
\* shows the mismatch: "The device shows the version-mismatch screen on its
\* side", UdpPublisher.cs:121, HandleDatagram.  The plugin answers nothing, and
\* only a frame makes the panel raise the flag (poll() in net.cpp).
MismatchIsShown ==
    major # ProtocolMajor /\ uptime > (MaxLost + 1) * (RegisterInterval + Jitter) => versionRejected
=============================================================================
