--------------------------- MODULE PanelInvariant ---------------------------
(***************************************************************************)
(* The inductive invariant of PanelLoop.  The safety properties there speak *)
(* of some of the stages of an iteration; the parts below say what holds at *)
(* each stage, so that every step can be told to lead from one to the next. *)
(* PanelSafety_proofs proves it.                                           *)
(***************************************************************************)
EXTENDS PanelLoop

\* Once asked, the ladder's answer holds for the rest of the iteration.
LadderHeld ==
    pc \in {"touch", "light", "show"} => link = DeriveLink(LinkInputs, lastStatus)

\* An upload is handled at the head of loop() and nothing else runs after it.
UploadAlone == otaInProgress => pc = "top"

\* DarkIsEarned from the backlight decision on.
DarkHeld ==
    pc \in {"top", "poll", "show"} /\ ~lit =>
        /\ BlankAfter > 0
        /\ sinceDriving >= BlankAfter
        /\ link \notin {"driving", "versionMismatch"}

\* The sequence and the loop's flag: an armed sequence has its offer up; past
\* the touch it has not lapsed, and no driving screen is left under an offer.
WakeHeld ==
    /\ armed => offerShown
    /\ ~armed => sinceArmed = 0
    /\ pc \in {"light", "show"} =>
         /\ armed => sinceArmed < OfferWindow
         /\ link = "unreachable" /\ offerShown => (macKnown => armed) /\ glass # "driving"

\* A refusal that nothing has overtaken is in the poll's result or in the flag.
MismatchHeld ==
    newestVerdict = "versionMajor" =>
        IF pc = "poll" THEN VersionFlag ELSE versionRejected

\* g_shown tells what is on the glass, up to an offer.  Between iterations it
\* is the ladder's answer, once there has been one.
GlassHeld ==
    ~otaInProgress =>
        /\ shown # NothingShown =>
             \/ glass = shown
             \/ /\ offerShown
                /\ shown = "unreachable" \/ (pc \in {"light", "show"} /\ link = "unreachable")
        /\ pc = "top" => shown = link \/ (shown = NothingShown /\ glass = "boot")

\* While an offer stands, either nothing has been accepted since the rig was
\* taken for dead, or a frame has been accepted since the offer was made; a
\* driving screen during an offer comes from the latter.
OfferHeld ==
    armed /\ sinceArmed < OfferWindow =>
        /\ \/ ~everAccepted
           \/ sinceAccepted >= StaleDecayMs
           \/ sinceAccepted <= sinceArmed
           \/ pc = "poll" /\ got.accepted
        /\ glass = "driving" => everAccepted /\ sinceAccepted <= sinceArmed

\* All of it holds at every moment: the loop's flags, ages, glass and wake
\* sequence never drift apart, whatever the LAN, the finger and the power do
\* (firmware.ino:255-474).
IInv ==
    TypeOK /\ LadderHeld /\ UploadAlone /\ DarkHeld /\ WakeHeld /\ MismatchHeld /\ GlassHeld
    /\ OfferHeld
=============================================================================
