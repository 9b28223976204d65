----------------------------- MODULE PanelLoop -----------------------------
(***************************************************************************)
(* The loop of the panel's firmware, firmware/firmware.ino: one thread that *)
(* polls the socket, asks the ladder where the link stands, reads the      *)
(* glass for a touch, decides the backlight and paints a screen.  The      *)
(* environment is the LAN (any datagram, any number of times, in any       *)
(* order), Wi-Fi, the name service, a finger, firmware uploads and power.  *)
(*                                                                         *)
(* An iteration of loop() is cut where the code calls the next part:       *)
(*   Service -> PollDatagram* -> Digest -> NoPress or a press -> Light ->  *)
(*   Show.                                                                 *)
(* loop() reads millis() once, so time passes between iterations.  The     *)
(* code keeps timestamps and subtracts them; here each timestamp is its    *)
(* age, in time units, stopping at the largest value it is compared with:  *)
(* a larger one cannot be told apart.  What happens when a 32-bit          *)
(* millisecond difference wraps, after 49.7 days, is not modelled here.    *)
(*                                                                         *)
(* X_Y is a variant of X with a plausible bug Y; see DisplayState.         *)
(***************************************************************************)
EXTENDS DisplayState

CONSTANTS
    Addr,           \* addresses on the LAN
    Datagrams,      \* what may arrive: [parsed, frame, from]
    DnsAnswers,     \* what looking pcHost up may give: {} is a failure
    WifiStates,     \* what WiFi.status() may say after boot
    PollBudget,     \* datagrams taken per iteration (maxDatagrams)
    OfferWindow,    \* how long a wake offer stands (kOfferWindowMs)
    ReresolveGap,   \* shortest time between two host lookups
    BlankAfter,     \* the blanking period, 0 for never
    UploadsHappen,  \* whether firmware uploads are made at all
    RestartsHappen, \* whether the panel is ever restarted
    FlashFails      \* whether writing to flash may fail

\* What a panel can be told from the outside.  The blanking period is at least
\* a minute and the offer stands for ten seconds.
ASSUME PanelAssumption ==
    /\ \A d \in Datagrams :
         d.parsed => d.from \in Addr /\ d.frame.stamp \in Nat /\ d.frame.status \in Status
    /\ DnsAnswers \subseteq SUBSET Addr
    /\ \A answer \in DnsAnswers : \A a, b \in answer : a = b
    /\ WifiStates \subseteq BOOLEAN
    /\ PollBudget \in Nat \ {0}
    /\ OfferWindow \in Nat \ {0}
    /\ OfferWindow < StaleDecayMs
    /\ ReresolveGap \in Nat
    /\ BlankAfter \in Nat
    /\ UploadsHappen \in BOOLEAN
    /\ RestartsHappen \in BOOLEAN
    /\ FlashFails \in BOOLEAN

VARIABLES
    pc,              \* the part of loop() that runs next
    otaInProgress,   \* g_otaInProgress
    newestStamp,     \* g_stamps
    everAccepted,    \* net's g_everAccepted
    got,             \* the PollResult being filled, and how many it polled
    lastStatus,      \* g_lastFrame.status
    versionRejected, \* g_versionRejected
    hostResolved,    \* g_hostResolved
    pcAddr,          \* g_pcAddr, empty unless g_pcAddrKnown
    macKnown,        \* rigaddr::known(), kept in flash
    link,            \* the ladder's answer in this iteration
    armed,           \* g_wake.armed_
    offerShown,      \* g_offerShown
    wakeSent,        \* a packet was sent in this iteration
    shown,           \* g_shown
    lit,             \* g_backlightOn
    glass,           \* what is painted on the panel
    sinceAccepted,   \* now - g_lastAcceptedMs, 0 until a frame is accepted
    sinceConnected,  \* now - g_connectedAtMs
    sinceDriving,    \* now - g_lastDrivingMs
    sinceArmed,      \* now - armedAtMs_, 0 while not armed
    sinceReresolve,  \* now - g_lastReresolveMs
    wifi,            \* what WiFi.status() says
    dns,             \* what looking pcHost up gives
    fingerOff,       \* the glass has been clear since the last press
    newestVerdict    \* history: the last datagram accepted or refused for its major

netVars    == <<newestStamp, everAccepted, got, newestVerdict>>
linkVars   == <<lastStatus, versionRejected, hostResolved, pcAddr, macKnown, link>>
wakeVars   == <<armed, offerShown, wakeSent>>
screenVars == <<shown, lit, glass>>
ageVars    == <<sinceAccepted, sinceConnected, sinceDriving, sinceArmed, sinceReresolve>>
envVars    == <<wifi, dns, fingerOff>>

vars == <<pc, otaInProgress, netVars, linkVars, wakeVars, screenVars, ageVars, envVars>>

-----------------------------------------------------------------------------

\* g_shown's "nothing drawn yet", 0xFF.
NothingShown == "nothing"

\* Besides the ten screens named after a link state: the identity screen of
\* boot, the wake offer and the update message.
Glass == LinkState \cup {"boot", "offer", "updating"}

NoResult == [accepted |-> FALSE, status |-> "noSim", from |-> {},
             versionRejected |-> FALSE, polled |-> 0]

NetTypes ==
    /\ newestStamp \subseteq Nat
    /\ \A s, t \in newestStamp : s = t
    /\ everAccepted \in BOOLEAN
    /\ got \in [accepted : BOOLEAN, status : Status, from : SUBSET Addr,
                versionRejected : BOOLEAN, polled : 0 .. PollBudget]
    /\ newestVerdict \in {"none", "accepted", "versionMajor"}

LinkTypes ==
    /\ lastStatus \in Status
    /\ versionRejected \in BOOLEAN
    /\ hostResolved \in BOOLEAN
    /\ pcAddr \in SUBSET Addr
    /\ macKnown \in BOOLEAN
    /\ link \in LinkState

WakeTypes == armed \in BOOLEAN /\ offerShown \in BOOLEAN /\ wakeSent \in BOOLEAN

ScreenTypes ==
    /\ shown \in LinkState \cup {NothingShown}
    /\ lit \in BOOLEAN
    /\ glass \in Glass

AgeTypes ==
    /\ sinceAccepted \in 0 .. StaleDecayMs
    /\ sinceConnected \in 0 .. FirstFrameGraceMs
    /\ sinceDriving \in 0 .. BlankAfter
    /\ sinceArmed \in 0 .. OfferWindow
    /\ sinceReresolve \in 0 .. ReresolveGap

EnvTypes == wifi \in BOOLEAN /\ dns \in DnsAnswers /\ fingerOff \in BOOLEAN

TypeOK ==
    /\ pc \in {"top", "poll", "touch", "light", "show"}
    /\ otaInProgress \in BOOLEAN
    /\ NetTypes /\ LinkTypes /\ WakeTypes /\ ScreenTypes /\ AgeTypes /\ EnvTypes

-----------------------------------------------------------------------------
(***************************************************************************)
(* Boot.                                                                   *)
(***************************************************************************)

\* The state in which setup() hands over to loop().  Wi-Fi has just joined;
\* the host is looked up once; macKnown comes from flash.
\* g_lastReresolveMs is zero, which the code reads as "long ago".
Booted ==
    /\ pc = "top" /\ otaInProgress = FALSE
    /\ newestStamp = {} /\ everAccepted = FALSE /\ got = NoResult
    /\ lastStatus = "noSim" /\ versionRejected = FALSE
    /\ pcAddr = dns /\ hostResolved = (dns # {})
    /\ link = "joining"
    /\ armed = FALSE /\ offerShown = FALSE /\ wakeSent = FALSE
    /\ shown = NothingShown /\ lit = TRUE /\ glass = "boot"
    /\ sinceAccepted = 0 /\ sinceConnected = 0 /\ sinceDriving = 0
    /\ sinceArmed = 0 /\ sinceReresolve = ReresolveGap
    /\ wifi = TRUE /\ fingerOff = TRUE
    /\ newestVerdict = "none"

Init == macKnown \in BOOLEAN /\ dns \in DnsAnswers /\ Booted

\* Power lost, a crash, a saved configuration or a finished update, at any
\* point of an iteration: only what is in flash survives.  A save that changes
\* pcHost and an erase take the rig's address out of flash; flash that cannot
\* be written may still hold one that the running panel had forgotten.
Restart ==
    /\ RestartsHappen
    /\ UNCHANGED dns
    /\ macKnown' \in IF FlashFails THEN BOOLEAN ELSE {macKnown, FALSE}
    /\ pc' = "top" /\ otaInProgress' = FALSE
    /\ newestStamp' = {} /\ everAccepted' = FALSE /\ got' = NoResult
    /\ lastStatus' = "noSim" /\ versionRejected' = FALSE
    /\ pcAddr' = dns /\ hostResolved' = (dns # {})
    /\ link' = "joining"
    /\ armed' = FALSE /\ offerShown' = FALSE /\ wakeSent' = FALSE
    /\ shown' = NothingShown /\ lit' = TRUE /\ glass' = "boot"
    /\ sinceAccepted' = 0 /\ sinceConnected' = 0 /\ sinceDriving' = 0
    /\ sinceArmed' = 0 /\ sinceReresolve' = ReresolveGap
    /\ wifi' = TRUE /\ fingerOff' = TRUE
    /\ newestVerdict' = "none"

-----------------------------------------------------------------------------
(***************************************************************************)
(* The head of loop().                                                     *)
(***************************************************************************)

\* ArduinoOTA.handle() runs a whole upload.  One that fails leaves the message
\* of onStart on the glass and the flag of onStart up; one that succeeds
\* reboots (Restart).
UploadFails ==
    /\ UploadsHappen
    /\ pc = "top"
    /\ otaInProgress' = TRUE
    /\ glass' = "updating"
    /\ UNCHANGED <<pc, netVars, linkVars, wakeVars, shown, lit, ageVars, envVars>>

\* web::handle(): a save from the config page that changes pcHost forgets the
\* rig's address before it writes to flash.  When the write succeeds the panel
\* restarts; when it fails the panel goes on without the address.
ConfigPage == macKnown' \in IF FlashFails THEN {macKnown, FALSE} ELSE {macKnown}

\* The iteration starts; poll() begins with an empty result.  The registration
\* sent in between changes nothing that the loop reads.
Service ==
    /\ pc = "top"
    /\ ~otaInProgress
    /\ pc' = "poll"
    /\ ConfigPage
    /\ got' = NoResult
    /\ UNCHANGED <<otaInProgress, newestStamp, everAccepted, newestVerdict, lastStatus,
                   versionRejected, hostResolved, pcAddr, link, wakeVars, screenVars,
                   ageVars, envVars>>

-----------------------------------------------------------------------------
(***************************************************************************)
(* net::poll().                                                            *)
(***************************************************************************)

\* Oversized datagrams and those parseFrame refuses are only counted.
VerdictOf(d) == IF d.parsed THEN AcceptFrame(d.frame, newestStamp) ELSE "malformed"

\* The newest accepted frame of the batch is the one reported.
TakeDatagram(d) ==
    LET seen == [got EXCEPT !.polled = @ + 1] IN
    CASE VerdictOf(d) = "accepted" ->
           /\ newestStamp' = {d.frame.stamp}
           /\ everAccepted' = TRUE
           /\ got' = [seen EXCEPT !.accepted = TRUE, !.status = d.frame.status,
                                  !.from = {d.from}]
           /\ newestVerdict' = "accepted"
      [] VerdictOf(d) = "versionMajor" ->
           /\ got' = [seen EXCEPT !.versionRejected = TRUE]
           /\ newestVerdict' = "versionMajor"
           /\ UNCHANGED <<newestStamp, everAccepted>>
      [] OTHER ->
           /\ got' = seen
           /\ UNCHANGED <<newestStamp, everAccepted, newestVerdict>>

\* Variant: the batch is not bounded.
PollDatagram_Unbounded(d) ==
    /\ pc = "poll"
    /\ TakeDatagram(d)
    /\ UNCHANGED <<pc, otaInProgress, linkVars, wakeVars, screenVars, ageVars, envVars>>

PollDatagram(d) ==
    /\ pc = "poll"
    /\ got.polled < PollBudget
    /\ TakeDatagram(d)
    /\ UNCHANGED <<pc, otaInProgress, linkVars, wakeVars, screenVars, ageVars, envVars>>

-----------------------------------------------------------------------------
(***************************************************************************)
(* What the loop makes of the poll's result.                               *)
(***************************************************************************)

\* resolveHost(): the old address is dropped before the lookup.
ResolveHost == pcAddr' = dns /\ hostResolved' = (dns # {})

\* A frame from the configured host teaches the rig's hardware address if the
\* ARP cache has it.  A frame from elsewhere has the host looked up again, not
\* too often.  Neither happens while no address is known.
ObserveSender ==
    \/ /\ got.accepted /\ pcAddr # {} /\ got.from = pcAddr
       /\ macKnown' \in {macKnown, TRUE}
       /\ UNCHANGED <<pcAddr, hostResolved, sinceReresolve>>
    \/ /\ got.accepted /\ pcAddr # {} /\ got.from # pcAddr
       /\ sinceReresolve >= ReresolveGap
       /\ sinceReresolve' = 0
       /\ ResolveHost
       /\ UNCHANGED macKnown
    \/ /\ \/ ~got.accepted
          \/ pcAddr = {}
          \/ got.from # pcAddr /\ sinceReresolve < ReresolveGap
       /\ UNCHANGED <<pcAddr, hostResolved, sinceReresolve, macKnown>>

\* Variant: the flag is cleared last.
VersionFlag_ClearedLast == (got.versionRejected \/ versionRejected) /\ ~got.accepted

\* A good frame clears the flag and a refused one raises it, in that order.
VersionFlag == got.versionRejected \/ (versionRejected /\ ~got.accepted)

LinkInputs ==
    [wifiAssociated  |-> wifi,
     hostResolved    |-> hostResolved,
     everAccepted    |-> everAccepted,
     versionRejected |-> versionRejected,
     msSinceRegister |-> sinceConnected,
     msSinceAccepted |-> sinceAccepted]

\* Variant: only net's copy of g_lastAcceptedMs is set.
Digest_KeepsTime ==
    /\ pc = "poll"
    /\ pc' = "touch"
    /\ lastStatus' = IF got.accepted THEN got.status ELSE lastStatus
    /\ versionRejected' = VersionFlag
    /\ ObserveSender
    /\ UNCHANGED <<otaInProgress, netVars, wakeVars, screenVars, sinceAccepted,
                   sinceConnected, sinceDriving, sinceArmed, envVars>>
    /\ link' = DeriveLink(LinkInputs', lastStatus')

\* The socket is empty or the budget is spent.
Digest ==
    /\ pc = "poll"
    /\ pc' = "touch"
    /\ lastStatus' = IF got.accepted THEN got.status ELSE lastStatus
    /\ sinceAccepted' = IF got.accepted THEN 0 ELSE sinceAccepted
    /\ versionRejected' = VersionFlag
    /\ ObserveSender
    /\ UNCHANGED <<otaInProgress, netVars, wakeVars, screenVars,
                   sinceConnected, sinceDriving, sinceArmed, envVars>>
    /\ link' = DeriveLink(LinkInputs', lastStatus')

-----------------------------------------------------------------------------
(***************************************************************************)
(* The touch, and the wake sequence it drives.                             *)
(***************************************************************************)

\* Variant: an offer never lapses.
StillArmed_ForEver == armed

\* Sequence::tick(): the sequence is still armed, its offer has not lapsed.
StillArmed == armed /\ sinceArmed < OfferWindow

\* Variant: the sequence no longer asks the link whether the rig is alive.
TouchAction_AnyLink ==
    IF ~macKnown THEN "lit" ELSE IF StillArmed THEN "sent" ELSE "offered"

\* What Sequence::onTouch() answers.  The first row is every link state but
\* one, and a rig whose hardware address was never learned.
TouchAction ==
    IF link # "unreachable" \/ ~macKnown THEN "lit"
    ELSE IF StillArmed THEN "sent" ELSE "offered"

\* Variant: g_shown is not spoilt when an offer lapses.
OwedRedraw_Forgotten == shown

\* The loop owes the link screen a redraw when the offer it showed has lapsed.
OwedRedraw == IF offerShown /\ ~StillArmed THEN NothingShown ELSE shown

\* Variant: the loop leaves its own flag up when the sequence disarms.
NoPress_KeepsOffer ==
    /\ pc = "touch"
    /\ pc' = "light"
    /\ armed' = StillArmed
    /\ sinceArmed' = IF StillArmed THEN sinceArmed ELSE 0
    /\ shown' = OwedRedraw
    /\ UNCHANGED <<otaInProgress, netVars, linkVars, offerShown, wakeSent, lit, glass,
                   sinceAccepted, sinceConnected, sinceDriving, sinceReresolve, envVars>>

NoPress ==
    /\ pc = "touch"
    /\ pc' = "light"
    /\ armed' = StillArmed
    /\ sinceArmed' = IF StillArmed THEN sinceArmed ELSE 0
    /\ offerShown' = (offerShown /\ StillArmed)
    /\ shown' = OwedRedraw
    /\ UNCHANGED <<otaInProgress, netVars, linkVars, wakeSent, lit, glass, sinceAccepted,
                   sinceConnected, sinceDriving, sinceReresolve, envVars>>

\* Every press restarts the blanking period; touch::pressed() reports the next
\* one only after the glass has been clear for a while.
Press(action) ==
    /\ pc = "touch"
    /\ pc' = "light"
    /\ fingerOff
    /\ fingerOff' = FALSE
    /\ TouchAction = action
    /\ sinceDriving' = 0
    /\ UNCHANGED <<otaInProgress, netVars, linkVars, lit, sinceAccepted,
                   sinceConnected, sinceReresolve, wifi, dns>>

PressLights ==
    /\ Press("lit")
    /\ armed' = FALSE
    /\ sinceArmed' = 0
    /\ offerShown' = (offerShown /\ StillArmed)
    /\ shown' = OwedRedraw
    /\ UNCHANGED <<wakeSent, glass>>

\* Variant: the time of the offer is kept from an earlier one.
PressOffers_KeepsTime ==
    /\ Press("offered")
    /\ armed' = TRUE
    /\ sinceArmed' = sinceArmed
    /\ offerShown' = TRUE
    /\ shown' = OwedRedraw
    /\ glass' = "offer"
    /\ UNCHANGED wakeSent

PressOffers ==
    /\ Press("offered")
    /\ armed' = TRUE
    /\ sinceArmed' = 0
    /\ offerShown' = TRUE
    /\ shown' = OwedRedraw
    /\ glass' = "offer"
    /\ UNCHANGED wakeSent

\* net::sendWake() may fail.  "Wake sent" is on the glass for 1.5 s and then
\* painted over in the same iteration, so Glass has no value for it.
PressSends ==
    /\ Press("sent")
    /\ armed' = FALSE
    /\ sinceArmed' = 0
    /\ offerShown' = FALSE
    /\ shown' = NothingShown
    /\ wakeSent' \in BOOLEAN
    /\ UNCHANGED glass

-----------------------------------------------------------------------------
(***************************************************************************)
(* The backlight and the screen.                                           *)
(***************************************************************************)

\* Variant: any fresh frame restarts the blanking period, not only a live one.
Light_AnyFrame ==
    /\ pc = "light"
    /\ pc' = "show"
    /\ sinceDriving' = IF link \in Status \cup {"driving"} THEN 0 ELSE sinceDriving
    /\ lit' = BacklightShouldBeOn(link, otaInProgress, sinceDriving', BlankAfter)
    /\ shown' = IF lit' /\ ~lit THEN NothingShown ELSE shown
    /\ UNCHANGED <<otaInProgress, netVars, linkVars, wakeVars, glass, sinceAccepted,
                   sinceConnected, sinceArmed, sinceReresolve, envVars>>

\* Coming back from dark, nothing on the glass is trusted.
Light ==
    /\ pc = "light"
    /\ pc' = "show"
    /\ sinceDriving' = IF link = "driving" THEN 0 ELSE sinceDriving
    /\ lit' = BacklightShouldBeOn(link, otaInProgress, sinceDriving', BlankAfter)
    /\ shown' = IF lit' /\ ~lit THEN NothingShown ELSE shown
    /\ UNCHANGED <<otaInProgress, netVars, linkVars, wakeVars, glass, sinceAccepted,
                   sinceConnected, sinceArmed, sinceReresolve, envVars>>

\* The offer owns the glass, or the glass is thought to be right already.
KeepsGlass == (link = "unreachable" /\ offerShown) \/ link = shown

\* A driving screen that is already up is only touched up.
Show ==
    /\ pc = "show"
    /\ pc' = "top"
    /\ glass' = IF KeepsGlass THEN glass ELSE link
    /\ shown' = link
    /\ wakeSent' = FALSE
    /\ UNCHANGED <<otaInProgress, netVars, linkVars, armed, offerShown, lit, ageVars, envVars>>

-----------------------------------------------------------------------------
(***************************************************************************)
(* The environment.                                                        *)
(***************************************************************************)

\* One unit of time more, up to the largest value that can be told apart.
Older(age, limit) == IF age < limit THEN age + 1 ELSE age

\* Time passes between iterations; long enough for the glass to have cleared.
Elapse ==
    /\ pc = "top"
    /\ sinceAccepted' = IF everAccepted THEN Older(sinceAccepted, StaleDecayMs) ELSE 0
    /\ sinceConnected' = Older(sinceConnected, FirstFrameGraceMs)
    /\ sinceDriving' = Older(sinceDriving, BlankAfter)
    /\ sinceArmed' = IF armed THEN Older(sinceArmed, OfferWindow) ELSE 0
    /\ sinceReresolve' = Older(sinceReresolve, ReresolveGap)
    /\ fingerOff' = TRUE
    /\ UNCHANGED <<pc, otaInProgress, netVars, linkVars, wakeVars, screenVars, wifi, dns>>

\* Each is read once per iteration, so it is enough to let them change between
\* iterations.
WifiChanges ==
    /\ pc = "top"
    /\ wifi' \in WifiStates
    /\ UNCHANGED <<pc, otaInProgress, netVars, linkVars, wakeVars, screenVars, ageVars,
                   dns, fingerOff>>

DnsChanges ==
    /\ pc = "top"
    /\ dns' \in DnsAnswers
    /\ UNCHANGED <<pc, otaInProgress, netVars, linkVars, wakeVars, screenVars, ageVars,
                   wifi, fingerOff>>

-----------------------------------------------------------------------------
Loop ==
    \/ Service
    \/ \E d \in Datagrams : PollDatagram(d)
    \/ Digest
    \/ NoPress \/ PressLights \/ PressOffers \/ PressSends
    \/ Light
    \/ Show

Next ==
    \/ Loop
    \/ UploadFails
    \/ Restart
    \/ Elapse
    \/ WifiChanges
    \/ DnsChanges

Spec == Init /\ [][Next]_vars

\* The Arduino core calls loop() for ever, and each iteration ends in a delay:
\* the clock is advanced between iterations again and again.
Fairness == WF_vars(Loop) /\ SF_vars(Elapse)

FairSpec == Spec /\ Fairness

-----------------------------------------------------------------------------
(***************************************************************************)
(* What must be true of it.                                                *)
(***************************************************************************)

\* The glass is blanked only after a whole blanking period with neither a
\* driving screen nor a touch, and never while it shows telemetry or a
\* version mismatch: the policy is asked with the age of the last driving
\* screen, which three parts of the loop reset (firmware.ino:357, 423-435).
DarkIsEarned ==
    pc \in {"top", "poll"} /\ ~lit =>
        /\ BlankAfter > 0
        /\ sinceDriving >= BlankAfter
        /\ link \notin {"driving", "versionMismatch"}

\* Between iterations the glass shows the screen of the ladder's answer, or a
\* standing wake offer in the one state that has one, although the loop paints
\* only on a change and the offer, a lapse, a packet and the backlight all
\* paint or spoil the glass behind its back (firmware.ino:349-386, 426-471).
GlassFollowsLadder ==
    pc = "top" /\ ~otaInProgress /\ glass # "boot" =>
        \/ glass = link
        \/ link = "unreachable" /\ offerShown

\* A touch sends only while the loop holds an offer to be on the glass: the
\* sequence and the loop's own flag (firmware.ino:86-92) agree whenever the
\* screen is chosen, unless the rig's address was forgotten under the offer: then
\* a touch disarms the sequence one iteration before the loop takes it down.
OfferFlagFollowsSequence ==
    /\ armed => offerShown
    /\ pc \in {"light", "show"} /\ link = "unreachable" /\ macKnown => (offerShown => armed)

\* Whatever refused a frame for its major version last is never hidden by an
\* older good frame (firmware.ino:278-320).
MismatchIsNotHidden ==
    pc \in {"touch", "light", "show"} /\ newestVerdict = "versionMajor" => versionRejected

\* INV-FRESH-RENDER on the glass: painting or keeping the driving screen is
\* done only for a live frame that is fresh, with Wi-Fi up, the host known and
\* no mismatch standing.
FreshRender ==
    [][pc = "show" /\ glass' = "driving" =>
         /\ everAccepted /\ lastStatus = "live" /\ sinceAccepted <= StalenessMs
         /\ wifi /\ hostResolved /\ ~versionRejected]_vars

\* A packet is sent only to a rig that has been silent for the whole decay
\* period, or was never heard (wake.cpp:19-49 on the ladder of this iteration).
WakesOnlyTheDead ==
    [][wakeSent' /\ ~wakeSent =>
         /\ macKnown /\ wifi /\ ~versionRejected
         /\ everAccepted => sinceAccepted >= StaleDecayMs]_vars

\* CAP-WAKE-RIG's two touches: see TwoTouch.
Wake == INSTANCE TwoTouch WITH standing <- armed, age <- sinceArmed, packet <- wakeSent

TwoTouches == Wake!Spec

\* Between power cuts, and while no upload has failed and shut the loop off:

\* "Stale is a transient, not a resting place" (ladder row 6b): the panel
\* leaves it, for fresh telemetry or for unreachable.
StaleDecays == link = "stale" ~> link # "stale" \/ otaInProgress

\* Once the panel is no longer touched no offer stands for ever
\* (wake.cpp:15-17, firmware.ino:349-353).
OfferIsWithdrawn == <>[](fingerOff /\ ~otaInProgress) => <>[]~offerShown

\* The power stays on: what boot painted has been painted over for good.
KeepsRunning == ~otaInProgress /\ glass # "boot"

\* A panel that is left alone, with no telemetry and no mismatch to show, goes
\* dark and stays dark (CAP-BLANK).
IdlePanelGoesDark ==
    (BlankAfter > 0 /\ <>[](KeepsRunning /\ fingerOff /\ link \notin {"driving", "versionMismatch"}))
        => <>[]~lit

\* A panel that accepts frames for ever, all live, with Wi-Fi up and the host
\* known, and that refuses no more of them for their version, comes back to the
\* driving screen whatever was on the glass: a mismatch that stood included.
TelemetryReturns ==
    (/\ <>[](KeepsRunning /\ wifi /\ hostResolved /\ ~got.versionRejected /\ lastStatus = "live")
     /\ []<>(got.accepted))
        => []<>(glass = "driving")

-----------------------------------------------------------------------------
(***************************************************************************)
(* What a comment or a document says and the code does not do.             *)
(***************************************************************************)

\* docs/architecture.md:226, ADR-OTA-EXCLUSIVE: "A failed update clears the
\* flag, so a botched transfer cannot leave the panel mute".
FailedUpdateClears == otaInProgress ~> ~otaInProgress

\* docs/architecture.md:212, PATTERN-RECONNECT: failure to resolve the host
\* triggers retry, and the device never requires a reboot to recover.
\* Not even a host that sends frames is found again.
HostIsFoundAgain ==
    <>[](dns # {}) /\ []<>(got.accepted /\ got.from = dns) => []<>hostResolved
=============================================================================
