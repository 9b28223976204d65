----------------------------- MODULE Publisher -----------------------------
(***************************************************************************)
(* The plugin's publisher, core/UdpPublisher.cs with core/CaptureWriter.cs, *)
(* and the part of simhub/CydSimDashPlugin.cs that drives it.  Four flows   *)
(* of control share its fields:                                            *)
(*   the listener thread   ListenLoop and HandleDatagram;                  *)
(*   SimHub's data thread  DataUpdate and Publish;                         *)
(*   SimHub ending         End and Dispose, one assignment at a time;      *)
(*   whoever captures      StartCapture and StopCapture.                   *)
(* Only the table and the capture have locks; a locked region is one step, *)
(* every other access to a shared field is a step of its own.              *)
(*                                                                         *)
(* X_Y is a variant of X with a plausible bug Y.                           *)
(***************************************************************************)
EXTENDS DeviceTable

CONSTANTS
    Datagrams,      \* what may arrive: [flat, major, deviceId, from]
    CapturesHappen, \* whether captures are started at all
    PluginEnds      \* whether SimHub ever ends the plugin

ASSUME PublisherAssumption ==
    /\ \A g \in Datagrams :
         /\ g.flat \in BOOLEAN
         /\ g.major \subseteq Nat
         /\ g.deviceId \subseteq Devices
         /\ \A d, e \in g.deviceId : d = e
         /\ g.from \in Addrs
    /\ CapturesHappen \in BOOLEAN
    /\ PluginEnds \in BOOLEAN

VARIABLES
    table,      \* _devices
    socket,     \* _socket is not null
    bound,      \* the socket object is open
    running,    \* _running
    capture,    \* _capture: "none" is null, "disposed" is an object that writes nothing
    attached,   \* the plugin's _udp and _publisher are not null
    listener,   \* where the listener thread is
    received,   \* the datagram it is handling
    data,       \* where SimHub's data thread is
    targets,    \* the devices Publish has still to send to
    ending,     \* where End is
    skew,       \* the wall clock against real time
    heard       \* history: each device's newest registration that was served

pluginVars == <<socket, bound, running, attached>>
threadVars == <<listener, received, data, targets, ending>>

vars == <<table, capture, pluginVars, threadVars, skew, heard>>

-----------------------------------------------------------------------------

\* The age is empty once the wall clock was set after the registration.
Unheard == [from |-> {}, age |-> {Expired}]
Heard(from) == [from |-> {from}, age |-> {0}]

TypeOK ==
    /\ \E D \in SUBSET Devices : table \in [D -> Entry]
    /\ socket \in BOOLEAN /\ bound \in BOOLEAN /\ running \in BOOLEAN
    /\ capture \in {"none", "open", "disposed"}
    /\ attached \in BOOLEAN
    /\ listener \in {"unborn", "check", "enter", "blocked", "handle", "exited", "faulted"}
    /\ received \in SUBSET Datagrams
    /\ data \in {"idle", "called", "captured", "guarded", "sending"}
    /\ targets \in SUBSET Devices
    /\ ending \in {"no", "stopping", "closing", "nulling", "joining", "ended"}
    /\ skew \in Skews
    /\ heard \in [Devices -> [from : SUBSET Addrs, age : SUBSET (0 .. Expired)]]

Init ==
    /\ table = [d \in {} |-> {}]
    /\ socket = FALSE /\ bound = FALSE /\ running = FALSE /\ attached = FALSE
    /\ capture = "none"
    /\ listener = "unborn" /\ received = {}
    /\ data = "idle" /\ targets = {}
    /\ ending = "no"
    /\ skew = 0
    /\ heard = [d \in Devices |-> Unheard]

-----------------------------------------------------------------------------
(***************************************************************************)
(* Init.  A port that cannot be bound leaves the plugin without publisher, *)
(* which is Init's state, and is not tried again.                          *)
(***************************************************************************)
Start ==
    /\ listener = "unborn"
    /\ ending = "no"
    /\ socket' = TRUE /\ bound' = TRUE
    /\ running' = TRUE
    /\ attached' = TRUE
    /\ listener' = "check"
    /\ UNCHANGED <<table, capture, received, data, targets, ending, skew, heard>>

-----------------------------------------------------------------------------
(***************************************************************************)
(* The listener thread.                                                    *)
(***************************************************************************)
ListenerGoes(to) ==
    /\ listener' = to
    /\ UNCHANGED <<table, capture, pluginVars, data, targets, ending, skew>>

\* while (_running)
CheckRunning ==
    /\ listener = "check"
    /\ ListenerGoes(IF running THEN "enter" ELSE "exited")
    /\ UNCHANGED <<received, heard>>

\* Reading _socket again, unguarded: null is a fault of the listener, a closed
\* socket an ObjectDisposedException.
EnterReceive ==
    /\ listener = "enter"
    /\ ListenerGoes(IF ~socket THEN "faulted" ELSE IF bound THEN "blocked" ELSE "exited")
    /\ UNCHANGED <<received, heard>>

Receive(datagram) ==
    /\ listener = "blocked"
    /\ bound
    /\ received' = {datagram}
    /\ ListenerGoes("handle")
    /\ UNCHANGED heard

\* Variant: any socket error ends the listener.
ReceiveFails_Exits ==
    /\ listener = "blocked"
    /\ ListenerGoes("exited")
    /\ UNCHANGED <<received, heard>>

\* Receive throws: the socket was closed under it, or an earlier send was
\* refused by the host it went to.
ReceiveFails ==
    /\ listener = "blocked"
    /\ \/ ListenerGoes(IF running THEN "check" ELSE "exited")
       \/ ~bound /\ ListenerGoes("exited")
    /\ UNCHANGED <<received, heard>>

\* Variant: registering also drops whoever has expired.
HandleDatagram_Prunes ==
    /\ listener = "handle"
    /\ received' = {}
    /\ listener' = "check"
    /\ \E g \in received :
         IF ServesMajor(g)
         THEN \E d \in g.deviceId :
                /\ table' = Register(Kept(table, skew), d, g.from, skew)
                /\ heard' = [heard EXCEPT ![d] = Heard(g.from)]
         ELSE UNCHANGED <<table, heard>>
    /\ UNCHANGED <<capture, pluginVars, data, targets, ending, skew>>

\* HandleDatagram.  What is refused is counted and changes nothing.
HandleDatagram ==
    /\ listener = "handle"
    /\ received' = {}
    /\ listener' = "check"
    /\ \E g \in received :
         IF ServesMajor(g)
         THEN \E d \in g.deviceId :
                /\ table' = Register(table, d, g.from, skew)
                /\ heard' = [heard EXCEPT ![d] = Heard(g.from)]
         ELSE UNCHANGED <<table, heard>>
    /\ UNCHANGED <<capture, pluginVars, data, targets, ending, skew>>

Listen ==
    \/ CheckRunning
    \/ EnterReceive
    \/ \E g \in Datagrams : Receive(g)
    \/ ReceiveFails
    \/ HandleDatagram

-----------------------------------------------------------------------------
(***************************************************************************)
(* SimHub's data thread: one DataUpdate after the other.                   *)
(***************************************************************************)
DataGoes(to) ==
    /\ data' = to
    /\ UNCHANGED <<capture, pluginVars, listener, received, ending, skew, heard>>

\* if (_publisher != null)
DataUpdate ==
    /\ data = "idle"
    /\ attached
    /\ DataGoes("called")
    /\ UNCHANGED <<table, targets>>

\* Variant: a disposed writer is written to all the same.
WriteCapture_Disposed ==
    /\ data = "called"
    /\ \/ attached /\ DataGoes("captured")
       \/ (attached => capture # "none") /\ DataGoes("idle")
    /\ UNCHANGED <<table, targets>>

\* Publish's first region: an open capture may fail to be written, which throws
\* out of Publish.  So does _publisher when End has nulled it.  DataUpdate catches
\* both and the frame is gone.
WriteCapture ==
    /\ data = "called"
    /\ \/ attached /\ DataGoes("captured")
       \/ (attached => capture = "open") /\ DataGoes("idle")
    /\ UNCHANGED <<table, targets>>

\* if (_socket == null) return
GuardSocket ==
    /\ data = "captured"
    /\ DataGoes(IF socket THEN "guarded" ELSE "idle")
    /\ UNCHANGED <<table, targets>>

\* The devices to send this frame to; the others are dropped.
Snapshot ==
    /\ data = "guarded"
    /\ targets' = ActiveDevices(table, skew)
    /\ table' = Kept(table, skew)
    /\ DataGoes(IF targets' = {} THEN "idle" ELSE "sending")

\* One send.  The entry is the table's own, so a device that moved meanwhile
\* is reached where it is.  A send that fails, on a dead socket or by the
\* network, is counted.
SendTo(d) ==
    /\ data = "sending"
    /\ d \in targets
    /\ targets' = targets \ {d}
    /\ DataGoes(IF targets' = {} THEN "idle" ELSE "sending")
    /\ UNCHANGED table

Publish == WriteCapture \/ GuardSocket \/ Snapshot \/ \E d \in Devices : SendTo(d)

-----------------------------------------------------------------------------
(***************************************************************************)
(* Captures, each operation under the capture lock.                        *)
(***************************************************************************)
CaptureGoes(to) ==
    /\ attached
    /\ CapturesHappen
    /\ capture' = to
    /\ UNCHANGED <<table, pluginVars, threadVars, skew, heard>>

\* The old capture is disposed before the new file is opened: when that throws,
\* the field keeps an object that silently writes nothing.
StartCapture ==
    \/ CaptureGoes("open")
    \/ CaptureGoes(IF capture = "none" THEN "none" ELSE "disposed")

StopCapture == CaptureGoes("none")

-----------------------------------------------------------------------------
(***************************************************************************)
(* End, which is Dispose's five statements and then the plugin's own.      *)
(***************************************************************************)
EndGoes(from, to) ==
    /\ ending = from
    /\ ending' = to
    /\ UNCHANGED <<table, listener, received, data, targets, skew, heard>>

EndBegins ==
    /\ PluginEnds
    /\ attached
    /\ EndGoes("no", "stopping")
    /\ running' = FALSE
    /\ UNCHANGED <<socket, bound, attached, capture>>

EndStopsCapture ==
    /\ EndGoes("stopping", "closing")
    /\ capture' = "none"
    /\ UNCHANGED pluginVars

\* Variant: the socket is left to the garbage collector.
EndCloses_Not ==
    /\ EndGoes("closing", "nulling")
    /\ UNCHANGED <<pluginVars, capture>>

EndCloses ==
    /\ EndGoes("closing", "nulling")
    /\ bound' = FALSE
    /\ UNCHANGED <<socket, running, attached, capture>>

EndNulls ==
    /\ EndGoes("nulling", "joining")
    /\ socket' = FALSE
    /\ UNCHANGED <<bound, running, attached, capture>>

\* Join(500): the listener has stopped, or half a second has gone by.
EndJoins ==
    /\ EndGoes("joining", "ended")
    /\ attached' = FALSE
    /\ UNCHANGED <<socket, bound, running, capture>>

End == EndBegins \/ EndStopsCapture \/ EndCloses \/ EndNulls \/ EndJoins

-----------------------------------------------------------------------------
(***************************************************************************)
(* The environment.                                                        *)
(***************************************************************************)
Elapse ==
    /\ table' = Aged(table)
    /\ heard' = [d \in Devices |-> [heard[d] EXCEPT !.age = {Older(n) : n \in @}]]
    /\ UNCHANGED <<capture, pluginVars, threadVars, skew>>

\* The wall clock is set.
WallClockSteps ==
    /\ skew' \in Skews \ {skew}
    /\ heard' = [d \in Devices |-> [heard[d] EXCEPT !.age = {}]]
    /\ UNCHANGED <<table, capture, pluginVars, threadVars>>

Next ==
    \/ Start
    \/ Listen
    \/ DataUpdate \/ Publish
    \/ StartCapture \/ StopCapture
    \/ End
    \/ Elapse \/ WallClockSteps

(***************************************************************************)
(* A started thread runs; SimHub calls DataUpdate at some 60 Hz; End, once *)
(* called, runs through.  A blocked Receive returns only when something    *)
(* happens to its socket.                                                  *)
(***************************************************************************)
Fairness ==
    /\ WF_vars(CheckRunning \/ EnterReceive \/ HandleDatagram \/ (~bound /\ ReceiveFails))
    /\ WF_vars(DataUpdate \/ Publish)
    /\ WF_vars(EndStopsCapture \/ EndCloses \/ EndNulls \/ EndJoins)

Spec == Init /\ [][Next]_vars /\ Fairness

-----------------------------------------------------------------------------
(***************************************************************************)
(* Properties.                                                             *)
(***************************************************************************)

\* Publish walks its list of shared entries without the table's lock while the
\* listener registers.  Every device it has still to send to keeps its entry,
\* and the endpoint the send will use is where that device was last heard from,
\* also when it moved meanwhile (UdpPublisher.cs: Publish; DeviceTable.cs: only
\* ActiveDevices removes, Register replaces the endpoint).
SendsGoWhereHeard ==
    \A d \in targets : d \in DOMAIN table /\ table[d].endPoint \in heard[d].from

\* Who a frame is for.  Unless the wall clock was set since its newest served
\* registration, a device is sent the frame exactly if that registration is
\* at most the forget period old; a device that was refused, or never heard
\* from, never is (DeviceTable.cs: Register, ActiveDevices).
ExpiryIsExact ==
    [][data = "guarded" /\ data' # "guarded" =>
         \A d \in Devices : \A age \in heard[d].age :
            d \in targets' <=> age <= ForgetAfter]_vars

\* The listener thread outlives every error of the network and every datagram;
\* it stops, or faults on the nulled socket, only when the plugin is ending
\* (UdpPublisher.cs: ListenLoop, Dispose).
ListenerOutlivesErrors == listener \in {"exited", "faulted"} => ~running

\* Once End is called everything stops: the listener thread too, wherever it
\* was, and no capture of the publisher holds up the rest
\* (UdpPublisher.cs: Dispose).
ShutdownCompletes ==
    ending # "no" ~> ending = "ended" /\ listener \in {"exited", "faulted"} /\ ~socket

\* A device that keeps registering is sent frames again and again for as long
\* as the plugin is up and the wall clock is left alone, unless a capture is
\* open: its writes may fail, but one that could not be opened, or was stopped,
\* costs nothing (UdpPublisher.cs: Publish, StartCapture).
StreamSurvives ==
    \A d \in Devices :
       /\ <>[](attached /\ ending = "no")
       /\ <>[](\E age \in heard[d].age : age <= ForgetAfter)
       /\ <>[](capture # "open")
       => []<>(d \in targets)
=============================================================================
