---------------------------- MODULE Link_proofs ----------------------------
(***************************************************************************)
(* What Link promises, for every value of the constants that               *)
(* LinkAssumption allows: a late or repeated frame never takes the panel   *)
(* back within a run of the plugin, no plugin makes it show the mismatch,  *)
(* lost registrations alone never make it stale, and a restarted plugin    *)
(* is picked up.                                                           *)
(*                                                                         *)
(* The argument for the first: all frames of one run that are on the       *)
(* network read the same time, stamp plus age, which is the plugin's       *)
(* uptime for the run that goes on; and what was accepted is not ahead of  *)
(* it.  So an older stamp is older by no more than its age, which is no    *)
(* more than MaxDelay: too little for the tracker to take it for a new run. *)
(***************************************************************************)
EXTENDS Link, TLAPS

Frames == [run : Nat, major : Majors, stamp : Nat, age : 0 .. MaxDelay]

Types ==
    /\ major \in Majors /\ run \in Nat /\ uptime \in Nat
    /\ flight \subseteq Frames
    /\ newest \subseteq [run : Nat, stamp : Nat]

\* Nothing is of a run that did not begin.
Begun == (\A f \in flight : f.run <= run) /\ (\A n \in newest : n.run <= run)

\* The clock of a run, as its frames tell it.
OneClock == \A f, g \in flight : f.run = g.run => f.stamp + f.age = g.stamp + g.age

RunningClock == \A f \in flight : f.run = run => f.stamp + f.age = uptime

\* What was accepted is not ahead of the clock of its run.
Behind ==
    \A n \in newest :
        /\ n.run = run => n.stamp <= uptime
        /\ \A f \in flight : f.run = n.run => n.stamp <= f.stamp + f.age

Clocks == Types /\ Begun /\ OneClock /\ RunningClock /\ Behind

-----------------------------------------------------------------------------
\* The stamps of flight and of newest are untouched by registrations.
Untouched == UNCHANGED <<major, run, uptime, flight, newest>>

LEMMA UntouchedKeepsClocks ==
    ASSUME Clocks, Untouched PROVE Clocks'
<1>1. Types' /\ Begun'
  BY DEF Clocks, Types, Begun, Untouched
<1>2. OneClock' /\ RunningClock' /\ Behind'
  BY DEF Clocks, OneClock, RunningClock, Behind, Untouched
<1> QED BY <1>1, <1>2 DEF Clocks

\* Every frame that Elapse leaves on the network was there a unit before, or is
\* the one just published.
LEMMA ElapseAges ==
    ASSUME Clocks, Elapse
    PROVE  \A f \in flight' :
              \/ \E g \in flight : /\ g.age < MaxDelay
                                   /\ f.run = g.run /\ f.major = g.major /\ f.stamp = g.stamp
                                   /\ f.age = g.age + 1
                                   /\ f \in Frames
              \/ f = FrameAt(run, major, uptime')
<1> DEFINE served == Plugin(major)!ActiveDevices(Plugin(major)!Aged(table), 0)
<1>1. flight' = {[f EXCEPT !.age = @ + 1] : f \in {g \in flight : g.age < MaxDelay}}
                  \cup {FrameAt(run, major, uptime') : d \in served}
  BY DEF Elapse
<1> HIDE DEF served
<1>2. ASSUME NEW g \in flight, g.age < MaxDelay, NEW f, f = [g EXCEPT !.age = @ + 1]
      PROVE  /\ f.run = g.run /\ f.major = g.major /\ f.stamp = g.stamp
             /\ f.age = g.age + 1 /\ f \in Frames
  BY <1>2, LinkAssumption DEF Clocks, Types, Frames
<1> QED BY <1>1, <1>2

LEMMA ElapseKeepsClocks ==
    ASSUME Clocks, Elapse PROVE Clocks'
<1>1. /\ uptime' = uptime + 1
      /\ UNCHANGED <<major, run, newest>>
  BY DEF Elapse
<1> DEFINE new == FrameAt(run, major, uptime')
<1>2. new.run = run /\ new.stamp = uptime' /\ new.age = 0 /\ new \in Frames
  BY <1>1, LinkAssumption DEF Clocks, Types, Frames, FrameAt
<1>3. \A f \in flight' :
          \/ \E g \in flight : /\ g.age < MaxDelay
                               /\ f.run = g.run /\ f.major = g.major /\ f.stamp = g.stamp
                               /\ f.age = g.age + 1
                               /\ f \in Frames
          \/ f = new
  BY ElapseAges
<1> HIDE DEF new
<1>4. Types'
  BY <1>1, <1>2, <1>3 DEF Clocks, Types
<1>5. Begun'
  BY <1>1, <1>2, <1>3 DEF Clocks, Types, Begun, Frames
<1>6. RunningClock'
  BY <1>1, <1>2, <1>3 DEF Clocks, Types, RunningClock, Frames
<1>7. OneClock'
  BY <1>1, <1>2, <1>3, <1>6 DEF Clocks, Types, OneClock, RunningClock, Frames
<1>8. Behind'
  <2> SUFFICES ASSUME NEW n \in newest
               PROVE  /\ n.run = run => n.stamp <= uptime'
                      /\ \A f \in flight' : f.run = n.run => n.stamp <= f.stamp + f.age
    BY <1>1 DEF Behind
  <2>1. n.stamp \in Nat /\ (n.run = run => n.stamp <= uptime)
    BY DEF Clocks, Types, Behind
  <2>2. n.run = run => n.stamp <= uptime'
    BY <1>1, <2>1 DEF Clocks, Types
  <2>3. ASSUME NEW f \in flight', f.run = n.run PROVE n.stamp <= f.stamp + f.age
    BY <1>2, <1>3, <2>1, <2>2, <2>3 DEF Clocks, Types, Behind, Frames
  <2> QED BY <2>2, <2>3
<1> QED BY <1>4, <1>5, <1>6, <1>7, <1>8 DEF Clocks

LEMMA DeliverKeepsClocks ==
    ASSUME Clocks, Deliver PROVE Clocks'
<1>1. PICK f \in flight :
         newest' = IF Verdict(f) = "accepted" THEN {[run |-> f.run, stamp |-> f.stamp]} ELSE newest
  BY DEF Deliver
<1>2. UNCHANGED <<major, run, uptime, flight>>
  BY DEF Deliver
<1>3. CASE newest' = newest
  BY <1>2, <1>3, UntouchedKeepsClocks DEF Untouched
<1>4. CASE newest' = {[run |-> f.run, stamp |-> f.stamp]}
  <2>1. Types' /\ Begun' /\ OneClock' /\ RunningClock'
    BY <1>2, <1>4 DEF Clocks, Types, Begun, OneClock, RunningClock, Frames
  <2>2. Behind'
    BY <1>2, <1>4 DEF Clocks, Types, OneClock, RunningClock, Behind, Frames
  <2> QED BY <2>1, <2>2 DEF Clocks
<1> QED BY <1>1, <1>3, <1>4

LEMMA RestartKeepsClocks ==
    ASSUME Clocks, PluginRestarts PROVE Clocks'
BY DEF PluginRestarts, Clocks, Types, Begun, OneClock, RunningClock, Behind, Frames

LEMMA ClocksInvariant == Spec => []Clocks
<1>1. Init => Clocks
  BY DEF Init, Clocks, Types, Begun, OneClock, RunningClock, Behind
<1>2. Clocks /\ [Next]_vars => Clocks'
  <2> SUFFICES ASSUME Clocks, [Next]_vars PROVE Clocks'
    OBVIOUS
  <2>1. CASE RegistrationArrives \/ RegistrationIsLost \/ UNCHANGED vars
    BY <2>1, UntouchedKeepsClocks DEF RegistrationArrives, RegistrationIsLost, vars, Untouched
  <2>2. CASE Elapse
    BY <2>2, ElapseKeepsClocks
  <2>3. CASE Deliver
    BY <2>3, DeliverKeepsClocks
  <2>4. CASE PluginRestarts
    BY <2>4, RestartKeepsClocks
  <2> QED BY <2>1, <2>2, <2>3, <2>4 DEF Next
<1> QED BY <1>1, <1>2, PTL DEF Spec

-----------------------------------------------------------------------------
\* The tracker takes a frame of the newest one's run only if it is newer.
LEMMA AcceptedIsNewer ==
    ASSUME Clocks, NEW n \in newest, NEW f \in flight, n.run = f.run, Verdict(f) = "accepted"
    PROVE  n.stamp < f.stamp
<1>1. AcceptsStamp({m.stamp : m \in newest}, f.stamp)
  BY DEF Verdict, AcceptFrame, Contents
<1>2. f.stamp > n.stamp \/ n.stamp - f.stamp > StalenessMs
  BY <1>1 DEF AcceptsStamp
<1>3. n.stamp <= f.stamp + f.age /\ f.age <= MaxDelay
  BY DEF Clocks, Types, Behind, Frames
<1>4. n.stamp \in Nat /\ f.stamp \in Nat /\ f.age \in Nat
  BY DEF Clocks, Types, Frames
<1> QED BY <1>2, <1>3, <1>4, LinkAssumption, TimingAssumption

\* The panel never goes back within a run (StampTracker::accept in
\* display_state.cpp), whatever the network loses, repeats, reorders or delays
\* within a staleness, and however the plugin is restarted.
THEOREM PanelNeverStepsBack == Spec => NoStepBack
<1>1. ASSUME Clocks, Next,
             NEW old \in newest, NEW new \in newest', newest' # newest, old.run = new.run
      PROVE  old.stamp < new.stamp
  <2>1. Deliver
    BY <1>1 DEF Next, RegistrationArrives, RegistrationIsLost, Elapse, PluginRestarts
  <2>2. PICK f \in flight : Verdict(f) = "accepted" /\ newest' = {[run |-> f.run, stamp |-> f.stamp]}
    BY <1>1, <2>1 DEF Deliver
  <2> QED BY <1>1, <2>2, AcceptedIsNewer
<1>2. Clocks /\ [Next]_vars =>
         [\A old \in newest, new \in newest' :
             newest' # newest /\ old.run = new.run => old.stamp < new.stamp]_vars
  BY <1>1
<1> QED BY <1>2, ClocksInvariant, PTL DEF Spec, NoStepBack

-----------------------------------------------------------------------------
(***************************************************************************)
(* A plugin of another major version never makes the panel show the        *)
(* mismatch, although the screen for it exists.  A plugin that has a       *)
(* device in its table speaks the panel's version, and so does every frame *)
(* on the network.                                                         *)
(***************************************************************************)
Alike ==
    /\ DOMAIN table # {} => major = ProtocolMajor
    /\ \A f \in flight : f.major = ProtocolMajor

LEMMA ElapseKeepsAlike ==
    ASSUME Alike, Clocks, Elapse PROVE Alike'
<1> DEFINE aged == Plugin(major)!Aged(table)
           served == Plugin(major)!ActiveDevices(aged, 0)
<1>1. DOMAIN aged = DOMAIN table
  BY DEF Plugin!Aged
<1>2. served \subseteq DOMAIN aged
  BY DEF Plugin!ActiveDevices
<1>3. DOMAIN table' = served
  BY DEF Elapse, Plugin!Kept
<1>4. DOMAIN table' \subseteq DOMAIN table
  BY <1>1, <1>2, <1>3
<1>5. UNCHANGED major
  BY DEF Elapse
<1>6. \A f \in flight' : f.major = ProtocolMajor \/ (served # {} /\ f.major = major)
  <2>1. flight' = {[f EXCEPT !.age = @ + 1] : f \in {g \in flight : g.age < MaxDelay}}
                    \cup {FrameAt(run, major, uptime') : d \in served}
    BY DEF Elapse
  <2> HIDE DEF served
  <2>2. \A g \in flight : [g EXCEPT !.age = @ + 1].major = ProtocolMajor
    BY DEF Alike, Clocks, Types, Frames
  <2> DEFINE kept == {[f EXCEPT !.age = @ + 1] : f \in {g \in flight : g.age < MaxDelay}}
  <2>3. \A f \in kept : f.major = ProtocolMajor
    BY <2>2
  <2>4. FrameAt(run, major, uptime').major = major
    BY DEF FrameAt
  <2>5. \A f \in {FrameAt(run, major, uptime') : d \in served} : served # {} /\ f.major = major
    BY <2>4
  <2> HIDE DEF kept
  <2> QED BY <2>1, <2>3, <2>5 DEF kept
<1> HIDE DEF served, aged
<1> QED BY <1>1, <1>2, <1>4, <1>5, <1>6 DEF Alike

LEMMA AlikeInvariant == Spec => []Alike
<1>1. Init => Alike
  BY DEF Init, Alike
<1>2. Clocks /\ Alike /\ [Next]_vars => Alike'
  <2> SUFFICES ASSUME Clocks, Alike, [Next]_vars PROVE Alike'
    OBVIOUS
  <2>1. CASE RegistrationArrives
    <3>1. UNCHANGED <<major, flight>>
      BY <2>1 DEF RegistrationArrives
    <3>2. table' = table \/ Plugin(major)!ServesMajor(Registration)
      BY <2>1 DEF RegistrationArrives
    <3>3. Plugin(major)!ServesMajor(Registration) => major = ProtocolMajor
      BY DEF Plugin!ServesMajor, Registration
    <3> QED BY <3>1, <3>2, <3>3 DEF Alike
  <2>2. CASE RegistrationIsLost \/ Deliver \/ UNCHANGED vars
    BY <2>2 DEF RegistrationIsLost, Deliver, vars, Alike
  <2>3. CASE Elapse
    BY <2>3, ElapseKeepsAlike
  <2>4. CASE PluginRestarts
    BY <2>4 DEF PluginRestarts, Alike
  <2> QED BY <2>1, <2>2, <2>3, <2>4 DEF Next
<1> QED BY <1>1, <1>2, ClocksInvariant, PTL DEF Spec

\* No plugin ever makes the panel show the version mismatch, whatever the
\* constants: what is on the network is of the panel's own version (HandleDatagram
\* in UdpPublisher.cs, poll() in net.cpp).
THEOREM MismatchIsUnreachable == Spec => []~versionRejected
<1>1. Init => ~versionRejected
  BY DEF Init
<1>2. Alike /\ ~versionRejected /\ [Next]_vars => ~versionRejected'
  <2> SUFFICES ASSUME Alike, ~versionRejected, [Next]_vars PROVE ~versionRejected'
    OBVIOUS
  <2>1. CASE Deliver
    <3>1. PICK f \in flight :
             versionRejected' = CASE Verdict(f) = "accepted"     -> FALSE
                                  [] Verdict(f) = "versionMajor" -> TRUE
                                  [] OTHER                       -> versionRejected
      BY <2>1 DEF Deliver
    <3>2. Verdict(f) # "versionMajor"
      BY DEF Verdict, AcceptFrame, Validate, Contents, Alike
    <3> QED BY <3>1, <3>2
  <2>2. CASE ~Deliver
    BY <2>2 DEF Next, RegistrationArrives, RegistrationIsLost, Elapse, PluginRestarts, vars
  <2> QED BY <2>1, <2>2
<1> QED BY <1>1, <1>2, AlikeInvariant, PTL DEF Spec

-----------------------------------------------------------------------------
(***************************************************************************)
(* What a unit of time and a registration do to the plugin's table.        *)
(***************************************************************************)

LEMMA ConstantsAreNat ==
    /\ ForgetAfter \in Nat /\ RegisterInterval \in Nat /\ Jitter \in Nat
    /\ MaxLost \in Nat /\ MaxDelay \in Nat /\ MaxUptime \in Nat
    /\ MaxRuns \in Nat /\ MaxRuns >= 1
    /\ StalenessMs \in Nat
BY LinkAssumption, TimingAssumption

\* The table that Elapse leaves holds the entries that are not too old, each a
\* unit older.
LEMMA ElapseAgesTable ==
    ASSUME TypeOK, Elapse
    PROVE  /\ DOMAIN table' \subseteq DOMAIN table
           /\ table' \in [DOMAIN table' -> [endPoint : {PanelAddr}, since : 0 .. ForgetAfter]]
           /\ \A d \in DOMAIN table' : table'[d].since = table[d].since + 1
           /\ \A d \in DOMAIN table \ DOMAIN table' : table[d].since = ForgetAfter
<1> DEFINE aged == Plugin(major)!Aged(table)
           served == Plugin(major)!ActiveDevices(aged, 0)
<1>1. /\ \A d \in DOMAIN table : /\ table[d] \in [endPoint : {PanelAddr}, since : 0 .. ForgetAfter]
                                 /\ table[d].since \in 0 .. ForgetAfter
      /\ ForgetAfter \in Nat
  BY ConstantsAreNat DEF TypeOK
<1>2. DOMAIN aged = DOMAIN table
  BY DEF Plugin!Aged
<1>3. \A d \in DOMAIN table : aged[d] \in [endPoint : {PanelAddr}, since : Nat]
                              /\ aged[d].since = table[d].since + 1
  <2> SUFFICES ASSUME NEW d \in DOMAIN table
               PROVE  aged[d] \in [endPoint : {PanelAddr}, since : Nat]
                      /\ aged[d].since = table[d].since + 1
    OBVIOUS
  <2>1. aged[d] = [table[d] EXCEPT !.since = Plugin(major)!Older(@)]
    BY DEF Plugin!Aged
  <2>2. Plugin(major)!Older(table[d].since) = table[d].since + 1
    BY <1>1 DEF Plugin!Older, Plugin!Expired
  <2> HIDE DEF aged
  <2> QED BY <1>1, <2>1, <2>2
<1>4. served = {d \in DOMAIN aged : aged[d].since + 0 <= ForgetAfter}
  BY DEF Plugin!ActiveDevices, Plugin!SinceSeen
<1>5. table' = [d \in served |-> aged[d]]
  BY DEF Elapse, Plugin!Kept
<1> HIDE DEF aged, served
<1>6. served \subseteq DOMAIN table /\ DOMAIN table' = served
  BY <1>2, <1>4, <1>5
<1>7. \A d \in served : /\ table'[d] = aged[d] /\ aged[d].since <= ForgetAfter
                        /\ aged[d] \in [endPoint : {PanelAddr}, since : 0 .. ForgetAfter]
  BY <1>1, <1>2, <1>3, <1>4, <1>5
<1>8. table' \in [served -> [endPoint : {PanelAddr}, since : 0 .. ForgetAfter]]
  BY <1>5, <1>7
<1>9. \A d \in DOMAIN table \ served : table[d].since = ForgetAfter
  BY <1>1, <1>2, <1>3, <1>4
<1> QED BY <1>3, <1>6, <1>7, <1>8, <1>9

\* A registration that is served leaves one entry, just heard from.
LEMMA RegisterRefreshes ==
    ASSUME TypeOK
    PROVE  LET refreshed == Plugin(major)!Register(table, Panel, PanelAddr, 0)
           IN  /\ DOMAIN refreshed = {Panel}
               /\ refreshed \in [{Panel} -> [endPoint : {PanelAddr}, since : 0 .. ForgetAfter]]
               /\ refreshed[Panel].since = 0
<1> DEFINE refreshed == Plugin(major)!Register(table, Panel, PanelAddr, 0)
           entry == [endPoint |-> PanelAddr, since |-> -0]
<1>1. DOMAIN table \cup {Panel} = {Panel}
  BY DEF TypeOK
<1>2. refreshed = [d \in DOMAIN table \cup {Panel} |-> IF d = Panel THEN entry ELSE table[d]]
  BY DEF Plugin!Register
<1>3. entry.since = 0 /\ entry \in [endPoint : {PanelAddr}, since : 0 .. ForgetAfter]
  <2>1. -0 = 0
    <3>1. \A n \in Int : n + (-n) = 0 /\ -n \in Int
      OBVIOUS
    <3>2. PICK zero : zero = -0
      OBVIOUS
    <3>3. 0 + zero = 0 /\ zero \in Int
      BY <3>1, <3>2
    <3>4. zero = 0
      BY <3>3
    <3> QED BY <3>2, <3>4
  <2>3. 0 \in 0 .. ForgetAfter
    BY ConstantsAreNat
  <2>2. entry = [endPoint |-> PanelAddr, since |-> 0]
    BY <2>1
  <2> HIDE DEF entry
  <2> QED BY <2>2, <2>3
<1> HIDE DEF refreshed, entry
<1>4. refreshed = [d \in {Panel} |-> entry]
  BY <1>1, <1>2
<1> QED BY <1>3, <1>4 DEF refreshed

\* What RegistrationArrives leaves in the table.
LEMMA RegistrationOutcome ==
    ASSUME TypeOK, RegistrationArrives
    PROVE  \/ table' = table /\ ~Plugin(major)!ServesMajor(Registration)
           \/ /\ Plugin(major)!ServesMajor(Registration)
              /\ DOMAIN table' = {Panel} /\ table'[Panel].since = 0
              /\ table' \in [{Panel} -> [endPoint : {PanelAddr}, since : 0 .. ForgetAfter]]
<1>1. table' = IF Plugin(major)!ServesMajor(Registration)
               THEN Plugin(major)!Register(table, Panel, PanelAddr, 0) ELSE table
  BY DEF RegistrationArrives
<1> QED BY <1>1, RegisterRefreshes

-----------------------------------------------------------------------------
(***************************************************************************)
(* Types.                                                                  *)
(***************************************************************************)

LEMMA HorizonIsNat == Horizon \in Nat /\ Horizon = StalenessMs + 3 /\ StalenessMs \in Nat
BY TimingAssumption DEF Horizon

LEMMA UpToIsWithin ==
    ASSUME NEW n \in 0 .. Horizon
    PROVE  UpTo(Horizon, n + 1) \in 0 .. Horizon /\ UpTo(Horizon, n + 1) = IF n = Horizon THEN n ELSE n + 1
BY HorizonIsNat DEF UpTo

LEMMA ElapseKeepsTypes == ASSUME TypeOK, Elapse PROVE TypeOK'
<1>1. /\ uptime' = uptime + 1 /\ uptime < MaxUptime
      /\ sinceRegister' = sinceRegister + 1 /\ sinceRegister < RegisterInterval + Jitter
      /\ sinceAccepted' = UpTo(Horizon, sinceAccepted + 1)
      /\ heard' = FALSE
      /\ hearing' = IF heard THEN UpTo(Horizon, hearing + 1) ELSE 0
      /\ UNCHANGED <<major, run, lost, newest, versionRejected>>
  BY DEF Elapse
<1>2. uptime' \in 1 .. MaxUptime /\ sinceRegister' \in 0 .. RegisterInterval + Jitter
  BY <1>1, ConstantsAreNat DEF TypeOK
<1>3. sinceAccepted' \in 0 .. Horizon /\ hearing' \in 0 .. Horizon
  BY <1>1, UpToIsWithin, HorizonIsNat DEF TypeOK
<1>4. /\ DOMAIN table' \subseteq {Panel}
      /\ table' \in [DOMAIN table' -> [endPoint : {PanelAddr}, since : 0 .. ForgetAfter]]
  BY ElapseAgesTable DEF TypeOK
<1>5. unserved' \in SUBSET (0 .. Horizon)
  <2> DEFINE served == Plugin(major)!ActiveDevices(Plugin(major)!Aged(table), 0)
  <2>1. unserved' = IF served # {} THEN {0} ELSE {UpTo(Horizon, u + 1) : u \in unserved}
    BY DEF Elapse
  <2> HIDE DEF served
  <2>2. \A u \in unserved : UpTo(Horizon, u + 1) \in 0 .. Horizon
    BY UpToIsWithin DEF TypeOK
  <2> QED BY <2>1, <2>2, HorizonIsNat
<1>6. flight' \subseteq [run : 1 .. run, major : Majors, stamp : 1 .. MaxUptime, age : 0 .. MaxDelay]
  <2> DEFINE served == Plugin(major)!ActiveDevices(Plugin(major)!Aged(table), 0)
             kept == {[f EXCEPT !.age = @ + 1] : f \in {g \in flight : g.age < MaxDelay}}
             Ranges == [run : 1 .. run, major : Majors, stamp : 1 .. MaxUptime, age : 0 .. MaxDelay]
  <2>1. flight' = kept \cup {FrameAt(run, major, uptime') : d \in served}
    BY DEF Elapse
  <2> HIDE DEF served
  <2>2. FrameAt(run, major, uptime') \in Ranges
    BY <1>2, ConstantsAreNat DEF TypeOK, FrameAt
  <2>3. ASSUME NEW f \in flight, f.age < MaxDelay PROVE [f EXCEPT !.age = @ + 1] \in Ranges
    BY <2>3, ConstantsAreNat DEF TypeOK
  <2> HIDE DEF Ranges
  <2> QED BY <2>1, <2>2, <2>3 DEF Ranges
<1>7. uptime' \in 0 .. MaxUptime
  BY <1>2, ConstantsAreNat
<1>10. heard' \in BOOLEAN
  BY <1>1
<1>8. /\ major' \in Majors /\ run' \in 1 .. MaxRuns /\ lost' \in 0 .. MaxLost
      /\ newest' \in SUBSET [run : 1 .. run', stamp : 1 .. MaxUptime]
      /\ versionRejected' \in BOOLEAN
  BY <1>1 DEF TypeOK
<1>9. flight' \subseteq [run : 1 .. run', major : Majors, stamp : 1 .. MaxUptime, age : 0 .. MaxDelay]
  BY <1>1, <1>6
<1> QED BY <1>2, <1>3, <1>4, <1>5, <1>7, <1>8, <1>9, <1>10 DEF TypeOK

LEMMA DeliverKeepsTypes == ASSUME TypeOK, Deliver PROVE TypeOK'
<1>1. PICK f \in flight :
         /\ newest' = IF Verdict(f) = "accepted" THEN {[run |-> f.run, stamp |-> f.stamp]} ELSE newest
         /\ sinceAccepted' = IF Verdict(f) = "accepted" THEN 0 ELSE sinceAccepted
         /\ versionRejected' = CASE Verdict(f) = "accepted"     -> FALSE
                                 [] Verdict(f) = "versionMajor" -> TRUE
                                 [] OTHER                       -> versionRejected
         /\ heard' = (heard \/ (f.run = run /\ f.age = 0))
         /\ UNCHANGED <<major, run, uptime, table, unserved, flight, sinceRegister, lost, hearing>>
  BY DEF Deliver
<1>2. newest' \in SUBSET [run : 1 .. run, stamp : 1 .. MaxUptime]
  <2>1. [run |-> f.run, stamp |-> f.stamp] \in [run : 1 .. run, stamp : 1 .. MaxUptime]
    BY DEF TypeOK
  <2> QED BY <1>1, <2>1 DEF TypeOK
<1>3. sinceAccepted' \in 0 .. Horizon
  BY <1>1, HorizonIsNat DEF TypeOK
<1>4. versionRejected' \in BOOLEAN
  BY <1>1 DEF TypeOK
<1>5. heard' \in BOOLEAN
  BY <1>1
<1>6. UNCHANGED <<major, run, uptime, table, unserved, flight, sinceRegister, lost, hearing>>
  BY <1>1
<1> QED BY <1>2, <1>3, <1>4, <1>5, <1>6 DEF TypeOK

\* Every variable keeps its type: in particular no registration is put off for
\* longer than its interval and the jitter, and an entry the plugin would not
\* serve is not in its table (net.cpp, DeviceTable.cs).
THEOREM TypeCorrect == Spec => []TypeOK
<1>1. Init => TypeOK
  <2> SUFFICES ASSUME Init PROVE TypeOK
    OBVIOUS
  <2>1. table \in [DOMAIN table -> [endPoint : {PanelAddr}, since : 0 .. ForgetAfter]] /\ DOMAIN table = {}
    BY DEF Init
  <2>2. /\ run \in 1 .. MaxRuns /\ uptime \in 0 .. MaxUptime
        /\ sinceRegister \in 0 .. RegisterInterval + Jitter /\ lost \in 0 .. MaxLost
        /\ sinceAccepted \in 0 .. Horizon /\ hearing \in 0 .. Horizon
    BY ConstantsAreNat, HorizonIsNat DEF Init
  <2>3. major \in Majors /\ unserved = {} /\ flight = {} /\ newest = {}
        /\ heard \in BOOLEAN /\ versionRejected \in BOOLEAN
    BY DEF Init
  <2> QED BY <2>1, <2>2, <2>3 DEF TypeOK
<1>2. TypeOK /\ [Next]_vars => TypeOK'
  <2> SUFFICES ASSUME TypeOK, [Next]_vars PROVE TypeOK'
    OBVIOUS
  <2>1. CASE RegistrationArrives
    <3>1. /\ DOMAIN table' \subseteq {Panel}
          /\ table' \in [DOMAIN table' -> [endPoint : {PanelAddr}, since : 0 .. ForgetAfter]]
      BY <2>1, RegistrationOutcome DEF TypeOK
    <3>2. /\ sinceRegister' = 0 /\ lost' = 0
          /\ UNCHANGED <<major, run, uptime, unserved, flight, newest, sinceAccepted, heard, hearing, versionRejected>>
      BY <2>1 DEF RegistrationArrives
    <3> QED BY <3>1, <3>2, ConstantsAreNat DEF TypeOK
  <2>2. CASE RegistrationIsLost
    BY <2>2, ConstantsAreNat DEF RegistrationIsLost, TypeOK
  <2>3. CASE Elapse
    BY <2>3, ElapseKeepsTypes
  <2>4. CASE Deliver
    BY <2>4, DeliverKeepsTypes
  <2>5. CASE PluginRestarts
    <3>1. /\ run' = run + 1 /\ run < MaxRuns /\ major' \in Majors /\ uptime' = 0
          /\ DOMAIN table' = {} /\ unserved' = {} /\ heard' = FALSE /\ hearing' = 0
          /\ UNCHANGED <<flight, sinceRegister, lost, newest, sinceAccepted, versionRejected>>
      BY <2>5 DEF PluginRestarts
    <3>2. table' \in [DOMAIN table' -> [endPoint : {PanelAddr}, since : 0 .. ForgetAfter]]
      BY <2>5 DEF PluginRestarts
    <3>3. run' \in 1 .. MaxRuns /\ 1 .. run \subseteq 1 .. run'
      BY <3>1, ConstantsAreNat DEF TypeOK
    <3>4. \A f \in flight : f \in [run : 1 .. run', major : Majors, stamp : 1 .. MaxUptime, age : 0 .. MaxDelay]
      BY <3>3 DEF TypeOK
    <3>5. \A n \in newest : n \in [run : 1 .. run', stamp : 1 .. MaxUptime]
      BY <3>3 DEF TypeOK
    <3>6. uptime' \in 0 .. MaxUptime /\ hearing' \in 0 .. Horizon
      BY <3>1, ConstantsAreNat, HorizonIsNat
    <3>7. /\ sinceRegister' \in 0 .. RegisterInterval + Jitter /\ lost' \in 0 .. MaxLost
          /\ sinceAccepted' \in 0 .. Horizon /\ versionRejected' \in BOOLEAN
      BY <3>1 DEF TypeOK
    <3>8. /\ flight' \subseteq [run : 1 .. run', major : Majors, stamp : 1 .. MaxUptime, age : 0 .. MaxDelay]
          /\ newest' \in SUBSET [run : 1 .. run', stamp : 1 .. MaxUptime]
      BY <3>1, <3>4, <3>5
    <3>9. DOMAIN table' \subseteq {Panel} /\ unserved' \in SUBSET (0 .. Horizon) /\ heard' \in BOOLEAN
      BY <3>1
    <3> QED BY <3>1, <3>2, <3>3, <3>6, <3>7, <3>8, <3>9 DEF TypeOK
  <2>6. CASE UNCHANGED vars
    BY <2>6 DEF vars, TypeOK
  <2> QED BY <2>1, <2>2, <2>3, <2>4, <2>5, <2>6 DEF Next
<1> QED BY <1>1, <1>2, PTL DEF Spec

-----------------------------------------------------------------------------
(***************************************************************************)
(* The pauses in what the panel is sent.  With every registration that is  *)
(* lost, one interval and its jitter go by: what has gone by since the     *)
(* newest one that arrived is bounded by the number lost since, and so is  *)
(* the pause, which began when the entry had become too old.               *)
(***************************************************************************)
Period == RegisterInterval + Jitter

SinceArrival == lost * Period + sinceRegister

\* A gap is open only while the entry is gone, or has just come back; the
\* plugin that once sent speaks the panel's version, and can keep an entry.
Gaps ==
    /\ DOMAIN table # {} => major = ProtocolMajor
    /\ unserved # {} => major = ProtocolMajor /\ ForgetAfter > 0
    /\ \A d \in DOMAIN table : table[d].since <= SinceArrival
    /\ \A gap \in unserved :
          /\ gap <= StalenessMs
          /\ \A d \in DOMAIN table : table[d].since > 0 => gap = 0
          /\ DOMAIN table = {} => gap + ForgetAfter <= SinceArrival

\* The losses allowed are too few for a gap to outlast a staleness.
LEMMA FewAreLost ==
    ASSUME NEW losses \in 0 .. MaxLost, NEW since \in 0 .. RegisterInterval + Jitter
    PROVE  /\ losses * Period \in Nat /\ Period \in Nat
           /\ losses * Period + since <= ForgetAfter + StalenessMs
           /\ (losses + 1) * Period = losses * Period + Period
<1>1. /\ Period \in Nat /\ losses \in Nat /\ MaxLost \in Nat /\ losses <= MaxLost
      /\ since \in Nat /\ since <= Period
  BY ConstantsAreNat DEF Period
<1>2. (MaxLost + 1) * Period <= ForgetAfter + StalenessMs
  BY LinkAssumption DEF Period
<1>3. ASSUME NEW m \in Nat, NEW n \in Nat, n <= m, NEW p \in Nat
      PROVE  /\ n * p \in Nat /\ m * p \in Nat
             /\ (m + 1) * p = m * p + p /\ (n + 1) * p = n * p + p
             /\ n * p <= m * p
  <2>1. n * p \in Nat /\ m * p \in Nat
    OBVIOUS
  <2>2. (m + 1) * p = m * p + p /\ (n + 1) * p = n * p + p
    OBVIOUS
  <2>3. PICK k \in Nat : m = n + k
    BY <1>3
  <2>4. k * p \in Nat /\ m * p = n * p + k * p
    BY <2>3
  <2> QED BY <2>1, <2>2, <2>4
<1>4. /\ losses * Period \in Nat /\ MaxLost * Period \in Nat
      /\ (MaxLost + 1) * Period = MaxLost * Period + Period
      /\ (losses + 1) * Period = losses * Period + Period
      /\ losses * Period <= MaxLost * Period
  BY <1>1, <1>3
<1> QED BY <1>1, <1>2, <1>4, ConstantsAreNat

LEMMA ArrivalIsRecent ==
    ASSUME TypeOK
    PROVE  /\ SinceArrival \in Nat /\ lost * Period \in Nat /\ Period \in Nat
           /\ sinceRegister \in Nat /\ sinceRegister <= Period
           /\ (lost + 1) * Period = lost * Period + Period
<1>1. /\ lost * Period \in Nat /\ Period \in Nat
      /\ (lost + 1) * Period = lost * Period + Period
  BY FewAreLost DEF TypeOK
<1>2. sinceRegister \in Nat /\ sinceRegister <= Period
  BY ConstantsAreNat DEF TypeOK, Period
<1> QED BY <1>1, <1>2 DEF SinceArrival

LEMMA ElapseKeepsGaps == ASSUME TypeOK, Gaps, Elapse PROVE Gaps' /\ ServedWithoutGaps'
<1> DEFINE served == Plugin(major)!ActiveDevices(Plugin(major)!Aged(table), 0)
<1>1. /\ sinceRegister' = sinceRegister + 1 /\ lost' = lost /\ major' = major
      /\ unserved' = IF served # {} THEN {0} ELSE {UpTo(Horizon, u + 1) : u \in unserved}
      /\ DOMAIN table' = served
  BY DEF Elapse, Plugin!Kept
<1> HIDE DEF served
<1>2. /\ DOMAIN table' \subseteq DOMAIN table
      /\ \A d \in DOMAIN table' : table'[d].since = table[d].since + 1
      /\ \A d \in DOMAIN table \ DOMAIN table' : table[d].since = ForgetAfter
  BY ElapseAgesTable
<1>3. SinceArrival' = SinceArrival + 1
  <2>1. lost * Period \in Nat /\ sinceRegister \in Nat
    BY ArrivalIsRecent
  <2> QED BY <1>1, <2>1 DEF SinceArrival, Period
<1>4. \A d \in DOMAIN table : /\ table[d].since \in Nat /\ table[d].since <= ForgetAfter
                              /\ table[d].since <= SinceArrival
  BY ConstantsAreNat DEF TypeOK, Gaps
<1>5. \A u \in unserved : u \in Nat /\ u <= StalenessMs /\ UpTo(Horizon, u + 1) = u + 1
  BY HorizonIsNat DEF TypeOK, Gaps, UpTo
<1>6. SinceArrival \in Nat /\ SinceArrival' <= ForgetAfter + StalenessMs
  <2>1. lost' \in 0 .. MaxLost /\ sinceRegister' \in 0 .. RegisterInterval + Jitter
    BY ElapseKeepsTypes DEF TypeOK
  <2>2. lost' * Period + sinceRegister' <= ForgetAfter + StalenessMs
    BY <2>1, FewAreLost
  <2>3. SinceArrival' = lost' * Period + sinceRegister'
    BY DEF SinceArrival, Period
  <2> QED BY <2>2, <2>3, ArrivalIsRecent
<1>7. \A d \in DOMAIN table' : table'[d].since > 0 /\ table'[d].since <= SinceArrival'
  BY <1>2, <1>3, <1>4, <1>6
<1>8. DOMAIN table' # {} => major' = ProtocolMajor
  BY <1>1, <1>2 DEF Gaps
<1>9. CASE served # {}
  <2>1. unserved' = {0} /\ DOMAIN table' # {}
    BY <1>1, <1>9
  <2>2. PICK d \in DOMAIN table' : d \in DOMAIN table
    BY <1>2, <2>1
  <2>3. ForgetAfter > 0
    <3>1. d \in DOMAIN table' /\ table'[d].since \in 0 .. ForgetAfter
      BY ElapseAgesTable, <2>2
    <3> QED BY <1>7, <3>1, ConstantsAreNat
  <2> QED BY <1>1, <1>7, <1>8, <2>1, <2>3, ConstantsAreNat DEF Gaps, ServedWithoutGaps
<1>10. CASE served = {}
  <2>1. unserved' = {u + 1 : u \in unserved} /\ DOMAIN table' = {}
    BY <1>1, <1>5, <1>10
  <2>2. ASSUME NEW u \in unserved PROVE u + 1 + ForgetAfter <= SinceArrival'
    <3>1. CASE DOMAIN table = {}
      BY <1>3, <1>5, <1>6, <3>1, ConstantsAreNat DEF Gaps
    <3>2. CASE DOMAIN table # {}
      <4>1. PICK d : d \in DOMAIN table
        BY <3>2
      <4>2. table[d].since = ForgetAfter /\ ForgetAfter > 0
        BY <1>2, <2>1, <4>1 DEF Gaps
      <4>3. u = 0
        BY <4>1, <4>2 DEF Gaps
      <4> QED BY <1>3, <1>4, <1>6, <4>1, <4>2, <4>3, ConstantsAreNat
    <3> QED BY <3>1, <3>2
  <2>3. \A gap \in unserved' : gap + ForgetAfter <= SinceArrival' /\ gap <= StalenessMs
    <3> SUFFICES ASSUME NEW u \in unserved
                 PROVE  u + 1 + ForgetAfter <= SinceArrival' /\ u + 1 <= StalenessMs
      BY <2>1
    <3>1. u \in Nat /\ SinceArrival' \in Nat
      BY <1>3, <1>5, <1>6
    <3> QED BY <1>6, <2>2, <3>1, ConstantsAreNat
  <2>4. unserved' # {} => major' = ProtocolMajor /\ ForgetAfter > 0
    BY <1>1, <2>1 DEF Gaps
  <2> QED BY <1>8, <2>1, <2>3, <2>4 DEF Gaps, ServedWithoutGaps
<1> QED BY <1>9, <1>10

LEMMA RegistrationKeepsGaps == ASSUME TypeOK, Gaps, RegistrationArrives PROVE Gaps'
<1>1. /\ sinceRegister' = 0 /\ lost' = 0 /\ UNCHANGED <<major, unserved>>
  BY DEF RegistrationArrives
<1>2. SinceArrival' = 0
  BY <1>1, ConstantsAreNat DEF SinceArrival, Period
<1>3. CASE table' = table /\ ~Plugin(major)!ServesMajor(Registration)
  <2>1. major # ProtocolMajor
    BY <1>3 DEF Plugin!ServesMajor, Plugin!TryParse, Registration
  <2> QED BY <1>1, <1>3, <2>1 DEF Gaps
<1>4. CASE DOMAIN table' = {Panel} /\ table'[Panel].since = 0
           /\ Plugin(major)!ServesMajor(Registration)
  <2>1. major = ProtocolMajor
    BY <1>4 DEF Plugin!ServesMajor, Registration
  <2> QED BY <1>1, <1>2, <1>4, <2>1 DEF Gaps
<1>5. \/ table' = table /\ ~Plugin(major)!ServesMajor(Registration)
      \/ DOMAIN table' = {Panel} /\ table'[Panel].since = 0 /\ Plugin(major)!ServesMajor(Registration)
  BY RegistrationOutcome
<1> QED BY <1>3, <1>4, <1>5

\* As long as no more than MaxLost registrations in a row are lost, a plugin
\* that once sent to the panel never pauses for longer than a frame stays fresh
\* (net.h's cadence against DeviceTable.cs and the staleness).
THEOREM NoPauseOutlastsFreshness == Spec => []ServedWithoutGaps
<1>1. Init => Gaps
  BY DEF Init, Gaps
<1>2. TypeOK /\ Gaps /\ [Next]_vars => Gaps'
  <2> SUFFICES ASSUME TypeOK, Gaps, [Next]_vars PROVE Gaps'
    OBVIOUS
  <2>1. CASE RegistrationArrives
    BY <2>1, RegistrationKeepsGaps
  <2>2. CASE RegistrationIsLost
    <3>1. /\ RegisterDue /\ lost' = lost + 1 /\ sinceRegister' = 0
          /\ UNCHANGED <<major, table, unserved>>
      BY <2>2 DEF RegistrationIsLost
    <3>2. SinceArrival' = lost * Period + Period
      BY <3>1, ArrivalIsRecent DEF SinceArrival, Period
    <3>3. SinceArrival <= SinceArrival'
      BY <3>2, ArrivalIsRecent DEF SinceArrival
    <3>4. SinceArrival \in Nat /\ SinceArrival' \in Nat
      BY <3>2, ArrivalIsRecent
    <3>5. /\ \A d \in DOMAIN table : table[d].since \in Nat
          /\ \A gap \in unserved : gap \in Nat
      BY ConstantsAreNat, HorizonIsNat DEF TypeOK
    <3> HIDE DEF SinceArrival
    <3>6. \A d \in DOMAIN table : table[d].since <= SinceArrival'
      BY <3>3, <3>4, <3>5 DEF Gaps
    <3>7. \A gap \in unserved : DOMAIN table = {} => gap + ForgetAfter <= SinceArrival'
      BY <3>3, <3>4, <3>5, ConstantsAreNat DEF Gaps
    <3> QED BY <3>1, <3>6, <3>7 DEF Gaps
  <2>3. CASE Elapse
    BY <2>3, ElapseKeepsGaps
  <2>4. CASE Deliver \/ UNCHANGED vars
    <3>1. UNCHANGED <<major, table, unserved, sinceRegister, lost>>
      BY <2>4 DEF Deliver, vars
    <3> QED BY <3>1 DEF Gaps, SinceArrival
  <2>5. CASE PluginRestarts
    BY <2>5 DEF PluginRestarts, Gaps
  <2> QED BY <2>1, <2>2, <2>3, <2>4, <2>5 DEF Next
<1>3. Gaps => ServedWithoutGaps
  BY DEF Gaps, ServedWithoutGaps
<1> QED BY <1>1, <1>2, <1>3, TypeCorrect, PTL DEF Spec

-----------------------------------------------------------------------------
(***************************************************************************)
(* A run that is heard of is picked up.  A fresh frame's stamp is the      *)
(* uptime; when it is refused, the newest stamp is not behind it, and not  *)
(* ahead by more than a staleness.  While nothing is accepted the newest   *)
(* stamp stands and the uptime passes it by: that goes on for no more      *)
(* than a staleness and a unit.                                            *)
(***************************************************************************)

\* The frame of this unit was accepted in it, or the newest stamp refused it.
HeardHeld ==
    heard => /\ newest # {}
             /\ sinceAccepted = 0 \/ \A n \in newest : uptime <= n.stamp /\ n.stamp <= uptime + StalenessMs

\* The newest stamp refused the frames of all units that are over, heard and
\* after the acceptance: of the last, and of the first.
HearingHeld ==
    /\ newest = {} => hearing = 0
    /\ \A units \in 1 .. StalenessMs + 2 :
          hearing >= units /\ sinceAccepted > units =>
             \A n \in newest : uptime - 1 <= n.stamp /\ n.stamp + units <= uptime + StalenessMs

Refusals == HeardHeld /\ HearingHeld

LEMMA ElapseKeepsRefusals == ASSUME TypeOK, Refusals, Elapse PROVE Refusals'
<1>1. /\ uptime' = uptime + 1 /\ heard' = FALSE /\ newest' = newest
      /\ sinceAccepted' = UpTo(Horizon, sinceAccepted + 1)
      /\ hearing' = IF heard THEN UpTo(Horizon, hearing + 1) ELSE 0
  BY DEF Elapse
<1>2. /\ uptime \in Nat /\ sinceAccepted \in 0 .. Horizon /\ hearing \in 0 .. Horizon
      /\ \A n \in newest : n.stamp \in Nat
  BY ConstantsAreNat DEF TypeOK
<1>3. HeardHeld'
  BY <1>1 DEF HeardHeld
<1>5. newest = {} => hearing' = 0
  BY <1>1 DEF Refusals, HeardHeld
<1>6. ASSUME NEW units \in 1 .. StalenessMs + 2, hearing' >= units, sinceAccepted' > units,
             NEW n \in newest
      PROVE  uptime' - 1 <= n.stamp /\ n.stamp + units <= uptime' + StalenessMs
  <2>1. heard
    BY <1>1, <1>6, ConstantsAreNat
  <2>2. hearing >= units - 1 /\ sinceAccepted > units - 1
    BY <1>1, <1>2, <1>6, <2>1, UpToIsWithin, HorizonIsNat
  <2>3. uptime <= n.stamp /\ n.stamp <= uptime + StalenessMs
    BY <1>2, <2>1, <2>2, ConstantsAreNat DEF Refusals, HeardHeld
  <2>4. CASE units = 1
    BY <1>1, <1>2, <2>3, <2>4, ConstantsAreNat
  <2>5. CASE units # 1
    <3>1. units - 1 \in 1 .. StalenessMs + 2
      BY <2>5, ConstantsAreNat
    <3>2. n.stamp + (units - 1) <= uptime + StalenessMs
      BY <2>2, <3>1 DEF Refusals, HearingHeld
    <3> QED BY <1>1, <1>2, <2>3, <3>2, ConstantsAreNat
  <2> QED BY <2>4, <2>5
<1> QED BY <1>1, <1>3, <1>5, <1>6 DEF Refusals, HearingHeld

\* A frame on the network is of the panel's version and in order, so only its
\* stamp can have it refused.
LEMMA OnlyStampsRefuse ==
    ASSUME TypeOK, Alike, NEW f \in flight, Verdict(f) # "accepted"
    PROVE  /\ newest # {}
           /\ \E n \in newest : f.stamp <= n.stamp /\ n.stamp <= f.stamp + StalenessMs
<1>1. Validate(Contents(f)) = "accepted"
  BY DEF Validate, IsTelemetryNull, Contents, Alike
<1>2. Contents(f).stamp = f.stamp
  BY DEF Contents
<1>3. ~AcceptsStamp({n.stamp : n \in newest}, f.stamp)
  BY <1>1, <1>2 DEF Verdict, AcceptFrame
<1>4. PICK n \in newest : ~(f.stamp > n.stamp \/ n.stamp - f.stamp > StalenessMs)
  BY <1>3 DEF AcceptsStamp
<1>5. f.stamp \in Nat /\ n.stamp \in Nat
  BY ConstantsAreNat DEF TypeOK
<1> QED BY <1>4, <1>5, ConstantsAreNat

\* There is one newest stamp.
Single == \A m, n \in newest : m = n

LEMMA DeliverKeepsRefusals ==
    ASSUME TypeOK, Clocks, Alike, Single, Refusals, Deliver PROVE Refusals'
<1>1. PICK f \in flight :
         /\ newest' = IF Verdict(f) = "accepted" THEN {[run |-> f.run, stamp |-> f.stamp]} ELSE newest
         /\ sinceAccepted' = IF Verdict(f) = "accepted" THEN 0 ELSE sinceAccepted
         /\ heard' = (heard \/ (f.run = run /\ f.age = 0))
         /\ UNCHANGED <<uptime, hearing>>
  BY DEF Deliver
<1>2. CASE Verdict(f) = "accepted"
  <2>1. newest' # {} /\ sinceAccepted' = 0
    BY <1>1, <1>2
  <2>2. \A units \in 1 .. StalenessMs + 2 : ~(sinceAccepted' > units)
    BY <2>1, ConstantsAreNat
  <2> QED BY <2>1, <2>2 DEF Refusals, HeardHeld, HearingHeld
<1>3. CASE Verdict(f) # "accepted"
  <2>1. newest' = newest /\ sinceAccepted' = sinceAccepted
    BY <1>1, <1>3
  <2>2. PICK n \in newest : f.stamp <= n.stamp /\ n.stamp <= f.stamp + StalenessMs
    BY <1>3, OnlyStampsRefuse
  <2>3. f.run = run /\ f.age = 0 => f.stamp = uptime
    BY ConstantsAreNat DEF Clocks, RunningClock, TypeOK
  <2>4. f.run = run /\ f.age = 0 =>
           \A m \in newest : uptime <= m.stamp /\ m.stamp <= uptime + StalenessMs
    BY <2>2, <2>3 DEF Single
  <2>5. HeardHeld'
    BY <1>1, <2>1, <2>2, <2>4 DEF Refusals, HeardHeld
  <2>6. HearingHeld'
    BY <1>1, <2>1 DEF Refusals, HearingHeld
  <2> QED BY <2>5, <2>6 DEF Refusals
<1> QED BY <1>2, <1>3

\* A plugin of which every frame arrives in time, after a restart too, is not
\* locked out by stamps of before for longer than a staleness and two units
\* (StampTracker::accept in display_state.cpp).
THEOREM RestartedRunsAreHeard == Spec => []NewRunIsPickedUp
<1> DEFINE Inv == Single /\ Refusals
<1>1. Init => Inv
  BY ConstantsAreNat DEF Init, Single, Refusals, HeardHeld, HearingHeld
<1>2. TypeOK /\ Clocks /\ Alike /\ Inv /\ [Next]_vars => Inv'
  <2> SUFFICES ASSUME TypeOK, Clocks, Alike, Single, Refusals, [Next]_vars PROVE Inv'
    OBVIOUS
  <2>1. CASE RegistrationArrives \/ RegistrationIsLost \/ UNCHANGED vars
    <3>1. UNCHANGED <<uptime, newest, sinceAccepted, heard, hearing>>
      BY <2>1 DEF RegistrationArrives, RegistrationIsLost, vars
    <3> QED BY <3>1 DEF Single, Refusals, HeardHeld, HearingHeld
  <2>2. CASE Elapse
    BY <2>2, ElapseKeepsRefusals DEF Elapse, Single
  <2>3. CASE Deliver
    <3>1. Single'
      BY <2>3 DEF Deliver, Single
    <3> QED BY <2>3, <3>1, DeliverKeepsRefusals
  <2>4. CASE PluginRestarts
    <3>1. heard' = FALSE /\ hearing' = 0 /\ newest' = newest
      BY <2>4 DEF PluginRestarts
    <3> QED BY <3>1, ConstantsAreNat DEF Single, Refusals, HeardHeld, HearingHeld
  <2> QED BY <2>1, <2>2, <2>3, <2>4 DEF Next
<1>3. TypeOK /\ Inv => NewRunIsPickedUp
  <2> SUFFICES ASSUME TypeOK, Single, Refusals, hearing >= StalenessMs + 2, sinceAccepted > StalenessMs + 2
               PROVE  FALSE
    BY ConstantsAreNat, HorizonIsNat DEF TypeOK, NewRunIsPickedUp
  <2>1. PICK n \in newest : n.stamp \in Nat
    BY ConstantsAreNat DEF Refusals, HearingHeld, TypeOK
  <2>2. uptime - 1 <= n.stamp /\ n.stamp + (StalenessMs + 2) <= uptime + StalenessMs
    BY ConstantsAreNat DEF Refusals, HearingHeld
  <2> QED BY <2>1, <2>2, ConstantsAreNat DEF TypeOK
<1> QED BY <1>1, <1>2, <1>3, TypeCorrect, ClocksInvariant, AlikeInvariant, PTL DEF Spec
=============================================================================
