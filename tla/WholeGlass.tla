----------------------------- MODULE WholeGlass -----------------------------
(***************************************************************************)
(* What the glass looks like to somebody in front of it, iteration after   *)
(* iteration of loop(): as if everything were painted anew each time, by a *)
(* renderer that remembers nothing.  Two things are left standing: a wake  *)
(* offer, and what came over it, while the rig is unreachable; and, if the *)
(* renderer likes, a link screen while its condition holds, with the title *)
(* or the version that it named when it came up.  An abstract              *)
(* specification; FrameToGlass implements it with partial repaints, a      *)
(* cache and the loop's g_shown.                                           *)
(***************************************************************************)
EXTENDS PanelDraw

VARIABLES
    frame,      \* the newest frame that was believed
    peer,       \* the newest version that was refused
    state,      \* the link state
    now,        \* the flash clock
    offered,    \* a wake offer stands
    glass       \* what each region shows

vars == <<frame, peer, state, now, offered, glass>>

Filled(screen) == [r \in Regions |-> screen]

\* The end of setup().
Init ==
    /\ state = NothingShown /\ ~offered
    /\ glass = Filled(Screen(NoIcon, PlainLine("message")))

\* A link screen, of which the line is that of now.
Linked(link, text) == Filled(Screen(LinkIcon(link), LinkLine(link, text)))

\* An iteration: the frame, the version, the state and the clock are what they
\* are.
Repaint ==
    \E offering \in BOOLEAN :
        /\ state' \in LinkState /\ offered' \in BOOLEAN
        /\ IF offering THEN offered' /\ state' = "unreachable" ELSE offered' => offered
        /\ IF state' = "driving" THEN glass' = Rendering(Derive(frame', "driving"), now')
           ELSE IF offered' /\ state' = "unreachable"
           THEN glass' = IF offering THEN Filled(Screen(NoIcon, PlainLine("unreachable"))) ELSE glass
           ELSE \/ glass' = Linked(state', [title |-> frame'.titleId, peer |-> peer'])
                \/ glass' = glass /\ state' = state /\ ~(offered /\ state = "unreachable")

Spec == Init /\ [][Repaint]_vars
=============================================================================
