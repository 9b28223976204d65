-------------------------- MODULE PanelLoop_proofs --------------------------
(***************************************************************************)
(* Proofs about PanelLoop, for every value of its constants.               *)
(***************************************************************************)
EXTENDS PanelLoop, TLAPS

-----------------------------------------------------------------------------
(***************************************************************************)
(* Lemmas about the engine and about ages.                                 *)
(***************************************************************************)

\* The ladder answers one of the ten link states.
LEMMA DeriveLinkType ==
    ASSUME NEW in, NEW status \in Status
    PROVE  DeriveLink(in, status) \in LinkState
BY DEF DeriveLink, FreshLink, Status, LinkState

\* Ageing stays within its limit and never makes younger.
LEMMA OlderType ==
    ASSUME NEW limit \in Nat, NEW age \in 0 .. limit
    PROVE  Older(age, limit) \in 0 .. limit /\ Older(age, limit) >= age
BY DEF Older

-----------------------------------------------------------------------------
(***************************************************************************)
(* Type correctness.                                                       *)
(***************************************************************************)

\* A group of variables that a step leaves alone keeps its types.
LEMMA TypesKept ==
    /\ NetTypes /\ UNCHANGED netVars => NetTypes'
    /\ LinkTypes /\ UNCHANGED linkVars => LinkTypes'
    /\ WakeTypes /\ UNCHANGED wakeVars => WakeTypes'
    /\ ScreenTypes /\ UNCHANGED screenVars => ScreenTypes'
    /\ AgeTypes /\ UNCHANGED ageVars => AgeTypes'
    /\ EnvTypes /\ UNCHANGED envVars => EnvTypes'
BY DEF NetTypes, netVars, LinkTypes, linkVars, WakeTypes, wakeVars, ScreenTypes, screenVars,
       AgeTypes, ageVars, EnvTypes, envVars

\* The empty poll result is one.
LEMMA NoResultType ==
    NoResult \in [accepted : BOOLEAN, status : Status, from : SUBSET Addr,
                  versionRejected : BOOLEAN, polled : 0 .. PollBudget]
BY PanelAssumption DEF NoResult, Status

\* setup() hands over a state of the right type.
LEMMA InitType == Init => TypeOK
<1> SUFFICES ASSUME Init PROVE TypeOK
  OBVIOUS
<1>1. NetTypes
  BY NoResultType DEF Init, Booted, NetTypes
<1>2. LinkTypes
  BY PanelAssumption DEF Init, Booted, LinkTypes, LinkState, Status
<1>3. WakeTypes /\ ScreenTypes
  BY DEF Init, Booted, WakeTypes, ScreenTypes, Glass
<1>4. AgeTypes
  BY PanelAssumption, TimingAssumption DEF Init, Booted, AgeTypes
<1>5. QED
  BY <1>1, <1>2, <1>3, <1>4 DEF Init, Booted, EnvTypes, TypeOK

\* A restart hands over a state of the right type.
LEMMA RestartType == ASSUME TypeOK, Restart PROVE TypeOK'
<1>1. NetTypes'
  BY NoResultType DEF Restart, NetTypes
<1>2. LinkTypes'
  BY PanelAssumption DEF Restart, TypeOK, LinkTypes, EnvTypes, LinkState, Status
<1>3. WakeTypes' /\ ScreenTypes'
  BY DEF Restart, WakeTypes, ScreenTypes, Glass
<1>4. AgeTypes'
  BY PanelAssumption, TimingAssumption DEF Restart, AgeTypes
<1>5. QED
  BY <1>1, <1>2, <1>3, <1>4 DEF Restart, EnvTypes, TypeOK

\* The rest of the environment keeps the types.
LEMMA EnvironmentType ==
    ASSUME TypeOK, UploadFails \/ Elapse \/ WifiChanges \/ DnsChanges
    PROVE  TypeOK'
<1>1. CASE UploadFails
  BY <1>1, TypesKept DEF UploadFails, TypeOK, ScreenTypes, Glass
<1>2. CASE Elapse
  <2>1. AgeTypes'
    BY <1>2, OlderType, PanelAssumption, TimingAssumption DEF Elapse, TypeOK, AgeTypes
  <2>2. QED
    BY <1>2, <2>1, TypesKept DEF Elapse, TypeOK, EnvTypes
<1>3. CASE WifiChanges
  BY <1>3, TypesKept, PanelAssumption DEF WifiChanges, TypeOK, EnvTypes
<1>4. CASE DnsChanges
  BY <1>4, TypesKept DEF DnsChanges, TypeOK, EnvTypes
<1>5. QED
  BY <1>1, <1>2, <1>3, <1>4

\* Polling keeps the types.
LEMMA PollType == ASSUME TypeOK, NEW d \in Datagrams, PollDatagram(d) PROVE TypeOK'
<1>1. VerdictOf(d) = "accepted" =>
        d.from \in Addr /\ d.frame.stamp \in Nat /\ d.frame.status \in Status
  BY PanelAssumption DEF VerdictOf
<1>2. got.polled + 1 \in 0 .. PollBudget
  BY PanelAssumption DEF PollDatagram, TypeOK, NetTypes
<1>3. got' \in [accepted : BOOLEAN, status : Status, from : SUBSET Addr,
                versionRejected : BOOLEAN, polled : 0 .. PollBudget]
  <2>1. CASE VerdictOf(d) = "accepted"
    <3>1. got' = [[got EXCEPT !.polled = @ + 1]
                    EXCEPT !.accepted = TRUE, !.status = d.frame.status, !.from = {d.from}]
      BY <2>1 DEF PollDatagram, TakeDatagram
    <3>2. QED
      BY <1>1, <1>2, <2>1, <3>1 DEF TypeOK, NetTypes
  <2>2. CASE VerdictOf(d) = "versionMajor"
    BY <1>2, <2>2 DEF PollDatagram, TakeDatagram, TypeOK, NetTypes
  <2>3. CASE VerdictOf(d) \notin {"accepted", "versionMajor"}
    BY <1>2, <2>3 DEF PollDatagram, TakeDatagram, TypeOK, NetTypes
  <2>4. QED
    BY <2>1, <2>2, <2>3
<1>4. newestStamp' \subseteq Nat /\ \A s, t \in newestStamp' : s = t
  BY <1>1 DEF PollDatagram, TakeDatagram, TypeOK, NetTypes
<1>5. everAccepted' \in BOOLEAN /\ newestVerdict' \in {"none", "accepted", "versionMajor"}
  BY DEF PollDatagram, TakeDatagram, TypeOK, NetTypes
<1>6. NetTypes'
  BY <1>3, <1>4, <1>5 DEF NetTypes
<1>7. QED
  BY <1>6, TypesKept DEF PollDatagram, TypeOK

\* Each remaining part of an iteration keeps the types.
LEMMA IterationType ==
    ASSUME TypeOK,
           \/ Service \/ Digest \/ NoPress \/ PressLights \/ PressOffers \/ PressSends
           \/ Light \/ Show
    PROVE  TypeOK'
<1>1. CASE Service
  <2>1. NetTypes'
    BY <1>1, NoResultType DEF Service, TypeOK, NetTypes
  <2>2. LinkTypes'
    BY <1>1 DEF Service, ConfigPage, TypeOK, LinkTypes
  <2>3. QED
    BY <1>1, <2>1, <2>2, TypesKept DEF Service, TypeOK
<1>2. CASE Digest
  <2>1. lastStatus' \in Status /\ versionRejected' \in BOOLEAN
    BY <1>2 DEF Digest, VersionFlag, TypeOK, NetTypes, LinkTypes
  <2>2. link' \in LinkState
    BY <1>2, <2>1, DeriveLinkType DEF Digest
  <2>3. LinkTypes'
    BY <1>2, <2>1, <2>2, PanelAssumption
       DEF Digest, ObserveSender, ResolveHost, TypeOK, LinkTypes, EnvTypes
  <2>4. sinceAccepted' \in 0 .. StaleDecayMs
    BY <1>2, TimingAssumption DEF Digest, TypeOK, AgeTypes
  <2>5. sinceReresolve' \in 0 .. ReresolveGap
    <3>1. sinceReresolve' \in {sinceReresolve, 0}
      BY <1>2 DEF Digest, ObserveSender
    <3>2. QED
      BY <3>1, PanelAssumption DEF TypeOK, AgeTypes
  <2>6. AgeTypes'
    BY <1>2, <2>4, <2>5 DEF Digest, TypeOK, AgeTypes
  <2>7. QED
    BY <1>2, <2>3, <2>6, TypesKept DEF Digest, TypeOK
<1>3. CASE NoPress
  <2>1. AgeTypes'
    BY <1>3, PanelAssumption DEF NoPress, TypeOK, AgeTypes
  <2>2. WakeTypes' /\ ScreenTypes'
    BY <1>3 DEF NoPress, StillArmed, OwedRedraw, TypeOK, WakeTypes, ScreenTypes
  <2>3. QED
    BY <1>3, <2>1, <2>2, TypesKept DEF NoPress, TypeOK
<1>4. CASE PressLights
  <2>1. AgeTypes'
    BY <1>4, PanelAssumption DEF PressLights, Press, TypeOK, AgeTypes
  <2>2. EnvTypes'
    BY <1>4 DEF PressLights, Press, TypeOK, EnvTypes
  <2>3. WakeTypes' /\ ScreenTypes'
    BY <1>4 DEF PressLights, Press, StillArmed, OwedRedraw, TypeOK, WakeTypes, ScreenTypes
  <2>4. QED
    BY <1>4, <2>1, <2>2, <2>3, TypesKept DEF PressLights, Press, TypeOK
<1>5. CASE PressOffers
  <2>1. AgeTypes'
    BY <1>5, PanelAssumption DEF PressOffers, Press, TypeOK, AgeTypes
  <2>2. EnvTypes'
    BY <1>5 DEF PressOffers, Press, TypeOK, EnvTypes
  <2>3. WakeTypes' /\ ScreenTypes'
    BY <1>5 DEF PressOffers, Press, OwedRedraw, TypeOK, WakeTypes, ScreenTypes, Glass
  <2>4. QED
    BY <1>5, <2>1, <2>2, <2>3, TypesKept DEF PressOffers, Press, TypeOK
<1>6. CASE PressSends
  <2>1. AgeTypes'
    BY <1>6, PanelAssumption DEF PressSends, Press, TypeOK, AgeTypes
  <2>2. EnvTypes'
    BY <1>6 DEF PressSends, Press, TypeOK, EnvTypes
  <2>3. WakeTypes' /\ ScreenTypes'
    BY <1>6 DEF PressSends, Press, TypeOK, WakeTypes, ScreenTypes
  <2>4. QED
    BY <1>6, <2>1, <2>2, <2>3, TypesKept DEF PressSends, Press, TypeOK
<1>7. CASE Light
  <2>1. AgeTypes'
    BY <1>7, PanelAssumption DEF Light, TypeOK, AgeTypes
  <2>2. ScreenTypes'
    BY <1>7 DEF Light, BacklightShouldBeOn, TypeOK, ScreenTypes
  <2>3. QED
    BY <1>7, <2>1, <2>2, TypesKept DEF Light, TypeOK
<1>8. CASE Show
  <2>1. WakeTypes' /\ ScreenTypes'
    BY <1>8 DEF Show, TypeOK, LinkTypes, WakeTypes, ScreenTypes, Glass
  <2>2. QED
    BY <1>8, <2>1, TypesKept DEF Show, TypeOK
<1>9. QED
  BY <1>1, <1>2, <1>3, <1>4, <1>5, <1>6, <1>7, <1>8

\* Every variable keeps to the values its code counterpart can take.
THEOREM TypeCorrect == Spec => []TypeOK
<1>1. TypeOK /\ [Next]_vars => TypeOK'
  <2> SUFFICES ASSUME TypeOK, [Next]_vars PROVE TypeOK'
    OBVIOUS
  <2>1. CASE Loop
    BY <2>1, PollType, IterationType DEF Loop
  <2>2. CASE Restart
    BY <2>2, RestartType
  <2>3. CASE UploadFails \/ Elapse \/ WifiChanges \/ DnsChanges
    BY <2>3, EnvironmentType
  <2>4. CASE UNCHANGED vars
    BY <2>4, TypesKept DEF vars, TypeOK
  <2>5. QED
    BY <2>1, <2>2, <2>3, <2>4 DEF Next
<1>2. QED
  BY InitType, <1>1, PTL DEF Spec
=============================================================================
