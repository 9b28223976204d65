------------------------- MODULE PanelSafety_proofs -------------------------
(***************************************************************************)
(* Proofs of the safety properties of PanelLoop, for every value of its    *)
(* constants: the inductive invariant of PanelInvariant, one lemma per part *)
(* of it, and what follows from it.                                        *)
(***************************************************************************)
EXTENDS PanelInvariant, PanelLoop_proofs

(***************************************************************************)
(* What an answer of the ladder tells about its inputs.                    *)
(***************************************************************************)

\* Row 7: driving is said of a fresh live frame only.
LEMMA LadderDriving ==
    ASSUME TypeOK, DeriveLink(LinkInputs, lastStatus) = "driving"
    PROVE  /\ everAccepted /\ lastStatus = "live" /\ sinceAccepted <= StalenessMs
           /\ wifi /\ hostResolved /\ ~versionRejected
<1>1. lastStatus \in Status
  BY DEF TypeOK, LinkTypes
<1>2. QED
  BY <1>1, TimingAssumption DEF DeriveLink, FreshLink, LinkInputs, Status, TypeOK, AgeTypes

\* Rows 5 and 6b: unreachable is said of a rig that was never heard, or not for
\* the whole decay period.
LEMMA LadderUnreachable ==
    ASSUME TypeOK, DeriveLink(LinkInputs, lastStatus) = "unreachable"
    PROVE  /\ wifi /\ ~versionRejected
           /\ ~everAccepted \/ sinceAccepted >= StaleDecayMs
<1>1. lastStatus \in Status
  BY DEF TypeOK, LinkTypes
<1>2. QED
  BY <1>1, TimingAssumption DEF DeriveLink, FreshLink, LinkInputs, Status, TypeOK, AgeTypes

\* What a polled datagram leaves behind: an acceptance, a refusal for its major
\* version, or nothing.
LEMMA PollOutcome ==
    ASSUME TypeOK, NEW d \in Datagrams, PollDatagram(d)
    PROVE  \/ got'.accepted /\ everAccepted' /\ newestVerdict' = "accepted"
           \/ /\ got'.versionRejected /\ got'.accepted = got.accepted
              /\ UNCHANGED everAccepted
           \/ /\ got'.versionRejected = got.versionRejected /\ got'.accepted = got.accepted
              /\ UNCHANGED <<everAccepted, newestVerdict>>
<1>1. got \in [accepted : BOOLEAN, status : Status, from : SUBSET Addr,
               versionRejected : BOOLEAN, polled : 0 .. PollBudget]
  BY DEF TypeOK, NetTypes
<1>2. CASE VerdictOf(d) = "accepted"
  <2>1. got' = [[got EXCEPT !.polled = @ + 1]
                  EXCEPT !.accepted = TRUE, !.status = d.frame.status, !.from = {d.from}]
        /\ everAccepted' = TRUE /\ newestVerdict' = "accepted"
    BY <1>2 DEF PollDatagram, TakeDatagram
  <2>2. QED
    BY <1>1, <2>1
<1>3. CASE VerdictOf(d) = "versionMajor"
  BY <1>1, <1>3 DEF PollDatagram, TakeDatagram
<1>4. CASE VerdictOf(d) \notin {"accepted", "versionMajor"}
  BY <1>1, <1>4 DEF PollDatagram, TakeDatagram
<1>5. QED
  BY <1>2, <1>3, <1>4

-----------------------------------------------------------------------------
(***************************************************************************)
(* The inductive invariant, part by part.                                  *)
(***************************************************************************)

\* Each part holds when setup() hands over, and after a restart.
LEMMA IInvInit == Init => IInv
<1> SUFFICES ASSUME Init PROVE IInv
  OBVIOUS
<1>1. LadderHeld /\ UploadAlone /\ DarkHeld /\ MismatchHeld
  BY DEF Init, Booted, LadderHeld, UploadAlone, DarkHeld, MismatchHeld
<1>2. WakeHeld /\ GlassHeld /\ OfferHeld
  BY DEF Init, Booted, WakeHeld, GlassHeld, OfferHeld
<1>3. QED
  BY <1>1, <1>2, InitType DEF IInv

LEMMA IInvRestart == ASSUME Restart, TypeOK' PROVE IInv'
<1>1. LadderHeld' /\ UploadAlone' /\ DarkHeld' /\ MismatchHeld'
  BY DEF Restart, LadderHeld, UploadAlone, DarkHeld, MismatchHeld
<1>2. WakeHeld' /\ GlassHeld' /\ OfferHeld'
  BY DEF Restart, WakeHeld, GlassHeld, OfferHeld
<1>3. QED
  BY <1>1, <1>2 DEF IInv

\* A step of the loop or its environment other than a restart.
Step == Loop \/ UploadFails \/ Elapse \/ WifiChanges \/ DnsChanges

\* The steps that neither the glass nor the wake sequence can see.
Unseen ==
    \/ Service \/ \E d \in Datagrams : PollDatagram(d)
    \/ WifiChanges \/ DnsChanges

\* The ladder's inputs stay as they are from its answer to the end of the
\* iteration.
LEMMA LadderStep == ASSUME IInv, Step PROVE LadderHeld'
<1>1. CASE pc' \notin {"touch", "light", "show"}
  BY <1>1 DEF LadderHeld
<1>2. CASE Digest
  BY <1>2 DEF Digest, LadderHeld
<1>3. CASE NoPress \/ PressLights \/ PressOffers \/ PressSends \/ Light
  <2>1. LinkInputs' = LinkInputs
    BY <1>3 DEF NoPress, PressLights, PressOffers, PressSends, Press, Light, LinkInputs,
                netVars, linkVars, envVars
  <2>2. UNCHANGED <<link, lastStatus>> /\ pc \in {"touch", "light"}
    BY <1>3 DEF NoPress, PressLights, PressOffers, PressSends, Press, Light, linkVars
  <2>3. DeriveLink(LinkInputs, lastStatus)' = DeriveLink(LinkInputs', lastStatus')
    OBVIOUS
  <2>4. QED
    BY <2>1, <2>2, <2>3 DEF IInv, LadderHeld
<1>4. pc' \notin {"touch", "light", "show"} \/ Digest
      \/ NoPress \/ PressLights \/ PressOffers \/ PressSends \/ Light
  BY DEF Step, Loop, Service, PollDatagram, Show, UploadFails, Elapse, WifiChanges, DnsChanges
<1>5. QED
  BY <1>1, <1>2, <1>3, <1>4

\* Service waits for the flag to be down, and no later part of loop() raises it.
LEMMA UploadStep == ASSUME IInv, Step PROVE UploadAlone'
BY DEF IInv, UploadAlone, Step, Loop, Service, PollDatagram, Digest, NoPress, PressLights,
       PressOffers, PressSends, Press, Light, Show, UploadFails, Elapse, WifiChanges, DnsChanges

\* The glass goes dark in Light only, and only as the policy has it; the age of
\* the driving screen does not shrink before the next decision but by a touch.
LEMMA DarkStep == ASSUME IInv, Step PROVE DarkHeld'
<1>1. CASE pc' \in {"touch", "light"}
  BY <1>1 DEF DarkHeld
<1>2. CASE Light
  <2>1. ~lit' => /\ BlankAfter # 0 /\ ~(sinceDriving' < BlankAfter)
                 /\ link \notin {"driving", "versionMismatch"}
    BY <1>2 DEF Light, BacklightShouldBeOn
  <2>2. sinceDriving' \in Nat /\ link' = link
    BY <1>2 DEF Light, linkVars, IInv, TypeOK, AgeTypes
  <2>3. QED
    BY <2>1, <2>2, PanelAssumption DEF DarkHeld
<1>3. CASE Elapse
  <2>1. sinceDriving' >= sinceDriving /\ sinceDriving' \in Nat /\ sinceDriving \in Nat
    BY <1>3, OlderType, PanelAssumption DEF Elapse, IInv, TypeOK, AgeTypes
  <2>2. UNCHANGED <<pc, lit, link>>
    BY <1>3 DEF Elapse, screenVars, linkVars
  <2>3. QED
    BY <1>3, <2>1, <2>2, PanelAssumption DEF IInv, DarkHeld
<1>4. CASE Unseen \/ UploadFails \/ Show
  <2>1. UNCHANGED <<lit, link, sinceDriving>>
    BY <1>4 DEF Unseen, Service, PollDatagram, UploadFails, Show, WifiChanges, DnsChanges,
                linkVars, screenVars, ageVars
  <2>2. pc \in {"top", "poll", "show"}
    BY <1>4 DEF Unseen, Service, PollDatagram, UploadFails, Show, WifiChanges, DnsChanges
  <2>3. QED
    BY <2>1, <2>2 DEF IInv, DarkHeld
<1>5. pc' \in {"touch", "light"} \/ Light \/ Elapse \/ Unseen \/ UploadFails \/ Show
  BY DEF Step, Loop, Unseen, Digest, NoPress, PressLights, PressOffers, PressSends, Press
<1>6. QED
  BY <1>1, <1>2, <1>3, <1>4, <1>5

\* Polling remembers a refusal until a frame is accepted; Digest turns what is
\* remembered into the flag.
LEMMA MismatchStep == ASSUME IInv, Step PROVE MismatchHeld'
<1>1. CASE Service
  BY <1>1 DEF Service, NoResult, VersionFlag, linkVars, IInv, MismatchHeld
<1>2. CASE \E d \in Datagrams : PollDatagram(d)
  <2>1. PICK d \in Datagrams : PollDatagram(d)
    BY <1>2
  <2>2. pc = "poll" /\ pc' = "poll" /\ UNCHANGED versionRejected
    BY <2>1 DEF PollDatagram, linkVars
  <2>3. QED
    BY <2>1, <2>2, PollOutcome DEF IInv, MismatchHeld, VersionFlag
<1>3. CASE Digest
  BY <1>3 DEF Digest, netVars, IInv, MismatchHeld
<1>4. CASE pc # "poll" /\ pc' # "poll" /\ UNCHANGED <<newestVerdict, versionRejected>>
  BY <1>4 DEF IInv, MismatchHeld
<1>5. \/ Service \/ (\E d \in Datagrams : PollDatagram(d)) \/ Digest
      \/ pc # "poll" /\ pc' # "poll" /\ UNCHANGED <<newestVerdict, versionRejected>>
  BY DEF Step, Loop, NoPress, PressLights, PressOffers, PressSends, Press, Light, Show,
         UploadFails, Elapse, WifiChanges, DnsChanges, netVars, linkVars
<1>6. QED
  BY <1>1, <1>2, <1>3, <1>4, <1>5

\* No driving screen is left under an offer that still stands once the rig is
\* taken for dead: the offer is younger than the silence.
LEMMA NoDrivingUnderOffer ==
    ASSUME IInv, pc = "touch", StillArmed, link = "unreachable"
    PROVE  glass # "driving"
<1>1. ~everAccepted \/ sinceAccepted >= StaleDecayMs
  BY LadderUnreachable DEF IInv, LadderHeld
<1>2. glass = "driving" => everAccepted /\ sinceAccepted <= sinceArmed /\ sinceArmed < OfferWindow
  BY DEF IInv, OfferHeld, StillArmed
<1>3. QED
  BY <1>1, <1>2, PanelAssumption, TimingAssumption DEF IInv, TypeOK, AgeTypes

\* The loop's flag and the sequence move together, and the window is measured
\* before the screen is chosen.
LEMMA WakeStep == ASSUME IInv, Step PROVE WakeHeld'
<1> USE PanelAssumption
<1>1. CASE Unseen \/ UploadFails \/ Show \/ Digest
  <2>1. UNCHANGED <<armed, offerShown, sinceArmed>> /\ pc' \notin {"light", "show"}
    BY <1>1 DEF Unseen, Service, PollDatagram, Digest, UploadFails, Show, WifiChanges,
                DnsChanges, wakeVars, ageVars
  <2>2. QED
    BY <2>1 DEF IInv, WakeHeld
<1>2. CASE NoPress
  <2>1. /\ armed' = StillArmed /\ sinceArmed' = (IF StillArmed THEN sinceArmed ELSE 0)
        /\ offerShown' = (offerShown /\ StillArmed)
        /\ UNCHANGED <<link, glass>> /\ pc = "touch"
    BY <1>2 DEF NoPress, linkVars
  <2>2. QED
    BY <2>1, NoDrivingUnderOffer DEF IInv, WakeHeld, StillArmed
<1>3. CASE PressLights
  <2>1. /\ ~armed' /\ sinceArmed' = 0 /\ offerShown' = (offerShown /\ StillArmed)
        /\ UNCHANGED <<link, glass, macKnown>> /\ pc = "touch"
    BY <1>3 DEF PressLights, Press, linkVars
  <2>2. link # "unreachable" \/ ~macKnown
    BY <1>3 DEF PressLights, Press, TouchAction
  <2>3. QED
    BY <2>1, <2>2, NoDrivingUnderOffer DEF WakeHeld
<1>4. CASE PressOffers
  BY <1>4 DEF PressOffers, WakeHeld
<1>5. CASE PressSends
  BY <1>5 DEF PressSends, WakeHeld
<1>6. CASE Light
  BY <1>6 DEF Light, wakeVars, linkVars, IInv, WakeHeld
<1>7. CASE Elapse
  BY <1>7 DEF Elapse, wakeVars, IInv, WakeHeld
<1>8. QED
  BY <1>1, <1>2, <1>3, <1>4, <1>5, <1>6, <1>7 DEF Step, Loop, Unseen

\* What paints or spoils the glass behind g_shown's back spoils g_shown too, or
\* leaves an offer standing that explains the glass.
LEMMA GlassStep == ASSUME IInv, Step PROVE GlassHeld'
<1>1. CASE UploadFails
  BY <1>1 DEF UploadFails, GlassHeld
<1>2. CASE Service \/ \E d \in Datagrams : PollDatagram(d)
  <2>1. UNCHANGED <<otaInProgress, shown, glass, offerShown, link>> /\ pc' = "poll"
        /\ pc \in {"top", "poll"}
    BY <1>2 DEF Service, PollDatagram, screenVars, wakeVars, linkVars
  <2>2. QED
    BY <2>1 DEF IInv, GlassHeld
<1>3. CASE WifiChanges \/ DnsChanges \/ Elapse
  <2>1. UNCHANGED <<pc, otaInProgress, shown, glass, offerShown, link>>
    BY <1>3 DEF WifiChanges, DnsChanges, Elapse, screenVars, wakeVars, linkVars
  <2>2. QED
    BY <2>1 DEF IInv, GlassHeld
<1>4. CASE Digest
  <2>1. UNCHANGED <<otaInProgress, shown, glass, offerShown>> /\ pc = "poll" /\ pc' = "touch"
    BY <1>4 DEF Digest, screenVars, wakeVars
  <2>2. QED
    BY <2>1 DEF IInv, GlassHeld
<1>5. CASE NoPress \/ PressLights
  <2>1. /\ UNCHANGED <<otaInProgress, glass>> /\ pc = "touch" /\ pc' = "light"
        /\ offerShown' = (offerShown /\ StillArmed) /\ shown' = OwedRedraw
    BY <1>5 DEF NoPress, PressLights, Press
  <2>2. QED
    BY <2>1 DEF IInv, GlassHeld, OwedRedraw, NothingShown
<1>6. CASE PressOffers
  <2>1. offerShown' /\ pc' = "light" /\ link' = link
    BY <1>6 DEF PressOffers, Press, linkVars
  <2>2. link = "unreachable"
    BY <1>6 DEF PressOffers, Press, TouchAction
  <2>3. QED
    BY <2>1, <2>2 DEF GlassHeld
<1>7. CASE PressSends
  BY <1>7 DEF PressSends, Press, GlassHeld
<1>8. CASE Light
  <2>1. UNCHANGED <<otaInProgress, glass, offerShown, link>> /\ pc = "light" /\ pc' = "show"
        /\ shown' \in {shown, NothingShown}
    BY <1>8 DEF Light, screenVars, wakeVars, linkVars
  <2>2. QED
    BY <2>1 DEF IInv, GlassHeld
<1>9. CASE Show
  <2>1. /\ UNCHANGED <<otaInProgress, offerShown, link>> /\ pc = "show" /\ pc' = "top"
        /\ shown' = link /\ glass' = IF KeepsGlass THEN glass ELSE link
    BY <1>9 DEF Show, linkVars
  <2>2. link # NothingShown
    BY DEF IInv, TypeOK, LinkTypes, LinkState, NothingShown
  <2>3. QED
    BY <2>1, <2>2 DEF IInv, GlassHeld, KeepsGlass
<1>10. QED
  BY <1>1, <1>2, <1>3, <1>4, <1>5, <1>6, <1>7, <1>8, <1>9 DEF Step, Loop

\* An offer is made to a dead rig, and ages more slowly than the silence does.
LEMMA OfferStep == ASSUME IInv, Step PROVE OfferHeld'
<1> USE PanelAssumption, TimingAssumption
<1>1. sinceArmed \in Nat /\ sinceAccepted \in Nat /\ sinceAccepted <= StaleDecayMs
      /\ sinceArmed <= OfferWindow
  BY DEF IInv, TypeOK, AgeTypes
<1>2. CASE UNCHANGED <<armed, sinceArmed, everAccepted, sinceAccepted>>
           /\ glass' \in {glass, "updating"} /\ pc # "poll"
  BY <1>2 DEF IInv, OfferHeld
<1>3. CASE \E d \in Datagrams : PollDatagram(d)
  <2>1. PICK d \in Datagrams : PollDatagram(d)
    BY <1>3
  <2>2. UNCHANGED <<armed, sinceArmed, sinceAccepted, glass, pc>>
    BY <2>1 DEF PollDatagram, wakeVars, ageVars, screenVars
  <2>3. \/ got'.accepted /\ everAccepted'
        \/ got'.accepted = got.accepted /\ UNCHANGED everAccepted
    BY <2>1, PollOutcome DEF IInv
  <2>4. pc = "poll"
    BY <2>1 DEF PollDatagram
  <2>5. QED
    BY <2>2, <2>3, <2>4 DEF IInv, OfferHeld
<1>4. CASE Digest
  <2>1. UNCHANGED <<armed, sinceArmed, everAccepted, glass>>
        /\ sinceAccepted' = IF got.accepted THEN 0 ELSE sinceAccepted
    BY <1>4 DEF Digest, netVars, wakeVars, screenVars
  <2>2. QED
    BY <1>1, <2>1 DEF IInv, OfferHeld
<1>5. CASE NoPress
  <2>1. UNCHANGED <<everAccepted, sinceAccepted, glass>> /\ pc = "touch" /\ armed' = StillArmed
        /\ sinceArmed' = IF StillArmed THEN sinceArmed ELSE 0
    BY <1>5 DEF NoPress, netVars
  <2>2. QED
    BY <2>1 DEF IInv, OfferHeld, StillArmed
<1>6. CASE PressLights \/ PressSends
  BY <1>6 DEF PressLights, PressSends, OfferHeld
<1>7. CASE PressOffers
  <2>1. UNCHANGED <<everAccepted, sinceAccepted>> /\ glass' = "offer" /\ pc = "touch"
    BY <1>7 DEF PressOffers, Press, netVars
  <2>2. link = "unreachable"
    BY <1>7 DEF PressOffers, Press, TouchAction
  <2>3. ~everAccepted \/ sinceAccepted >= StaleDecayMs
    BY <2>1, <2>2, LadderUnreachable DEF IInv, LadderHeld
  <2>4. QED
    BY <2>1, <2>3 DEF OfferHeld
<1>8. CASE Show
  <2>1. UNCHANGED <<armed, sinceArmed, everAccepted, sinceAccepted>> /\ pc = "show"
        /\ glass' \in {glass, link}
    BY <1>8 DEF Show, netVars, ageVars
  <2>2. link = "driving" => everAccepted /\ sinceAccepted <= StalenessMs
    BY <2>1, LadderDriving DEF IInv, LadderHeld
  <2>3. QED
    BY <1>1, <2>1, <2>2 DEF IInv, OfferHeld
<1>9. CASE Elapse
  <2>1. UNCHANGED <<armed, everAccepted, glass>> /\ pc = "top"
    BY <1>9 DEF Elapse, netVars, wakeVars, screenVars
  <2> SUFFICES ASSUME armed, sinceArmed' < OfferWindow, everAccepted
               PROVE  /\ \/ sinceAccepted' >= StaleDecayMs
                         \/ sinceAccepted' <= sinceArmed'
                      /\ glass = "driving" => sinceAccepted' <= sinceArmed'
    <3>1. ~everAccepted /\ armed /\ sinceArmed' < OfferWindow => glass # "driving"
      <4>1. armed /\ sinceArmed' < OfferWindow => sinceArmed < OfferWindow
        BY <1>1, <1>9 DEF Elapse, Older
      <4>2. QED
        BY <4>1 DEF IInv, OfferHeld
    <3>2. QED
      BY <2>1, <3>1 DEF OfferHeld
  <2>2. sinceAccepted' = Older(sinceAccepted, StaleDecayMs)
        /\ sinceArmed' = Older(sinceArmed, OfferWindow)
    BY <1>9 DEF Elapse
  <2>3. sinceArmed < OfferWindow /\ sinceArmed' = sinceArmed + 1
    BY <1>1, <2>2 DEF Older
  <2>4. sinceAccepted >= StaleDecayMs => sinceAccepted' >= StaleDecayMs
    BY <1>1, <2>2 DEF Older
  <2>5. sinceAccepted <= sinceArmed => sinceAccepted' = sinceAccepted + 1
    BY <1>1, <2>2 DEF Older
  <2>6. sinceAccepted >= StaleDecayMs \/ sinceAccepted <= sinceArmed
    BY <2>1, <2>3 DEF IInv, OfferHeld
  <2>7. glass = "driving" => sinceAccepted <= sinceArmed
    BY <2>3 DEF IInv, OfferHeld
  <2>8. QED
    BY <1>1, <2>3, <2>4, <2>5, <2>6, <2>7
<1>10. \/ UNCHANGED <<armed, sinceArmed, everAccepted, sinceAccepted>>
          /\ glass' \in {glass, "updating"} /\ pc # "poll"
       \/ \E d \in Datagrams : PollDatagram(d)
       \/ Digest \/ NoPress \/ PressLights \/ PressSends \/ PressOffers \/ Show \/ Elapse
  BY DEF Step, Loop, Service, Light, UploadFails, WifiChanges, DnsChanges,
         netVars, wakeVars, screenVars, ageVars
<1>11. QED
  BY <1>2, <1>3, <1>4, <1>5, <1>6, <1>7, <1>8, <1>9, <1>10

\* Every step keeps the invariant.
LEMMA IInvStep == ASSUME IInv, [Next]_vars, TypeOK' PROVE IInv'
<1>1. CASE Restart
  BY <1>1, IInvRestart
<1>2. CASE Step
  BY <1>2, LadderStep, UploadStep, DarkStep, WakeStep, MismatchStep, GlassStep, OfferStep DEF IInv
<1>3. CASE UNCHANGED vars
  <2>1. UNCHANGED <<pc, otaInProgress, everAccepted, got, newestVerdict, lastStatus,
                    versionRejected, hostResolved, macKnown, link, armed, offerShown>>
        /\ UNCHANGED <<shown, lit, glass, sinceAccepted, sinceConnected, sinceDriving,
                       sinceArmed, wifi>>
    BY <1>3 DEF vars, netVars, linkVars, wakeVars, screenVars, ageVars, envVars
  <2>2. LadderHeld' /\ UploadAlone' /\ DarkHeld' /\ MismatchHeld'
    BY <2>1 DEF IInv, LadderHeld, UploadAlone, LinkInputs, DeriveLink, DarkHeld, MismatchHeld, VersionFlag
  <2>3. WakeHeld' /\ GlassHeld' /\ OfferHeld'
    BY <2>1 DEF IInv, WakeHeld, GlassHeld, OfferHeld
  <2>4. QED
    BY <2>2, <2>3 DEF IInv
<1>4. QED
  BY <1>1, <1>2, <1>3 DEF Next, Step

\* The parts hold together at every moment of every run.
THEOREM Invariance == Spec => []IInv
<1>1. TypeOK /\ TypeOK' /\ IInv /\ [Next]_vars => IInv'
  BY IInvStep
<1>2. QED
  BY IInvInit, TypeCorrect, <1>1, PTL DEF Spec

-----------------------------------------------------------------------------
(***************************************************************************)
(* The safety properties.                                                  *)
(***************************************************************************)

\* The panel is dark only after a whole blanking period with neither a driving
\* screen nor a touch (firmware.ino:421-435).
THEOREM DarknessIsEarned == Spec => []DarkIsEarned
<1>1. IInv => DarkIsEarned
  BY DEF IInv, DarkHeld, DarkIsEarned
<1>2. QED
  BY Invariance, <1>1, PTL

\* Between iterations the glass shows the ladder's answer or a wake offer
\* (firmware.ino:444-473).
THEOREM GlassIsRight == Spec => []GlassFollowsLadder
<1>1. IInv => GlassFollowsLadder
  BY DEF IInv, GlassHeld, GlassFollowsLadder, TypeOK, LinkTypes, LinkState, NothingShown
<1>2. QED
  BY Invariance, <1>1, PTL

\* The loop's flag and the wake sequence agree (firmware.ino:349-386).
THEOREM OfferAgreement == Spec => []OfferFlagFollowsSequence
<1>1. IInv => OfferFlagFollowsSequence
  BY DEF IInv, WakeHeld, OfferFlagFollowsSequence
<1>2. QED
  BY Invariance, <1>1, PTL

\* A standing refusal is never hidden by an older good frame
\* (firmware.ino:278-320).
THEOREM MismatchStands == Spec => []MismatchIsNotHidden
<1>1. IInv => MismatchIsNotHidden
  BY DEF IInv, MismatchHeld, MismatchIsNotHidden
<1>2. QED
  BY Invariance, <1>1, PTL

\* The steps that leave pc = "show".
LEMMA FromShow ==
    ASSUME pc = "show", [Next]_vars
    PROVE  Show \/ Restart \/ UNCHANGED vars
BY DEF Next, Loop, Service, PollDatagram, Digest, NoPress, PressLights, PressOffers,
       PressSends, Press, Light, UploadFails, Elapse, WifiChanges, DnsChanges

\* INV-FRESH-RENDER: the driving screen is painted, or left standing, for a
\* fresh live frame only (display_state.cpp:102-132, firmware.ino:444-473).
THEOREM FreshRendering == Spec => FreshRender
<1> DEFINE Fresh ==
      pc = "show" /\ glass' = "driving" =>
         /\ everAccepted /\ lastStatus = "live" /\ sinceAccepted <= StalenessMs
         /\ wifi /\ hostResolved /\ ~versionRejected
<1>1. IInv /\ [Next]_vars => [Fresh]_vars
  <2> SUFFICES ASSUME IInv, [Next]_vars, vars' # vars, pc = "show", glass' = "driving"
               PROVE  /\ everAccepted /\ lastStatus = "live" /\ sinceAccepted <= StalenessMs
                      /\ wifi /\ hostResolved /\ ~versionRejected
    OBVIOUS
  <2>1. Show
    BY FromShow DEF Restart
  <2>2. link = DeriveLink(LinkInputs, lastStatus)
    BY DEF IInv, LadderHeld
  <2>3. CASE link = "driving"
    BY <2>2, <2>3, LadderDriving DEF IInv
  <2>4. CASE link # "driving"
    <3>1. glass = "driving" /\ KeepsGlass
      BY <2>1, <2>4 DEF Show
    <3>2. ~otaInProgress /\ link # NothingShown
      BY DEF IInv, UploadAlone, TypeOK, LinkTypes, LinkState, NothingShown
    <3>3. offerShown /\ link = "unreachable"
      BY <2>4, <3>1, <3>2 DEF KeepsGlass, IInv, GlassHeld
    <3>4. QED
      BY <3>1, <3>3 DEF IInv, WakeHeld
  <2>5. QED
    BY <2>3, <2>4
<1>2. QED
  BY Invariance, <1>1, PTL DEF Spec, FreshRender

\* A packet is sent only to a rig silent for the whole decay period
\* (wake.cpp:19-49).
THEOREM OnlyTheDeadAreWoken == Spec => WakesOnlyTheDead
<1> DEFINE Dead ==
      wakeSent' /\ ~wakeSent =>
         /\ macKnown /\ wifi /\ ~versionRejected
         /\ everAccepted => sinceAccepted >= StaleDecayMs
<1>1. IInv /\ [Next]_vars => [Dead]_vars
  <2> SUFFICES ASSUME IInv, [Next]_vars, wakeSent', ~wakeSent
               PROVE  /\ macKnown /\ wifi /\ ~versionRejected
                      /\ everAccepted => sinceAccepted >= StaleDecayMs
    OBVIOUS
  <2>1. PressSends
    BY DEF Next, Loop, Service, PollDatagram, Digest, NoPress, PressLights, PressOffers,
           Press, Light, Show, Restart, UploadFails, Elapse, WifiChanges, DnsChanges, wakeVars, vars
  <2>2. link = "unreachable" /\ macKnown /\ pc = "touch"
    BY <2>1 DEF PressSends, Press, TouchAction
  <2>3. link = DeriveLink(LinkInputs, lastStatus)
    BY <2>2 DEF IInv, LadderHeld
  <2>4. QED
    BY <2>2, <2>3, LadderUnreachable DEF IInv
<1>2. QED
  BY Invariance, <1>1, PTL DEF Spec, WakesOnlyTheDead

-----------------------------------------------------------------------------
(***************************************************************************)
(* The loop implements TwoTouch.                                           *)
(***************************************************************************)

\* Every step of the loop is a step of the wake sequence or leaves it alone.
LEMMA WakeRefines == ASSUME IInv, [Next]_vars PROVE [Wake!Next]_(Wake!vars)
<1> USE DEF Wake!Next, Wake!vars
<1>1. CASE UNCHANGED wakeVars /\ UNCHANGED sinceArmed
  BY <1>1 DEF wakeVars
<1>2. CASE NoPress
  BY <1>2 DEF NoPress, StillArmed, IInv, WakeHeld, Wake!Withdraw
<1>3. CASE PressLights
  BY <1>3 DEF PressLights, Wake!Withdraw
<1>4. CASE PressOffers
  <2>1. ~StillArmed
    BY <1>4 DEF PressOffers, Press, TouchAction
  <2>2. ~armed \/ sinceArmed >= OfferWindow
    BY <2>1, PanelAssumption DEF StillArmed, IInv, TypeOK, AgeTypes
  <2>3. QED
    BY <1>4, <2>2 DEF PressOffers, Wake!Offer
<1>5. CASE PressSends
  <2>1. StillArmed
    BY <1>5 DEF PressSends, Press, TouchAction
  <2>2. QED
    BY <1>5, <2>1 DEF PressSends, StillArmed, Wake!Accept
<1>6. CASE Show
  BY <1>6 DEF Show, ageVars, Wake!Done
<1>7. CASE Restart
  BY <1>7 DEF Restart, Wake!Withdraw
<1>8. CASE Elapse
  <2>1. UNCHANGED <<armed, wakeSent>>
    BY <1>8 DEF Elapse, wakeVars
  <2>2. (armed /\ sinceArmed' = sinceArmed + 1) \/ sinceArmed' = sinceArmed
    BY <1>8 DEF Elapse, Older, IInv, WakeHeld
  <2>3. QED
    BY <2>1, <2>2 DEF Wake!Age
<1>9. \/ UNCHANGED wakeVars /\ UNCHANGED sinceArmed
      \/ NoPress \/ PressLights \/ PressOffers \/ PressSends \/ Show \/ Restart \/ Elapse
  BY DEF Next, Loop, Service, PollDatagram, Digest, Light, UploadFails, WifiChanges, DnsChanges,
         vars, ageVars
<1>10. QED
  BY <1>1, <1>2, <1>3, <1>4, <1>5, <1>6, <1>7, <1>8, <1>9

\* CAP-WAKE-RIG: a packet leaves only on the second of two touches within the
\* window, and uses the offer up (wake.cpp:15-49, firmware.ino:349-386).
THEOREM TwoTouchesHold == Spec => TwoTouches
<1>1. Init => Wake!Init
  BY DEF Init, Booted, Wake!Init
<1>2. QED
  BY Invariance, WakeRefines, <1>1, PTL DEF Spec, TwoTouches, Wake!Spec
=============================================================================
