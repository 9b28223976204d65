------------------------------ MODULE TwoTouch ------------------------------
(***************************************************************************)
(* What CAP-WAKE-RIG promises, with no loop, no screen and no link ladder: *)
(* a wake packet leaves only on a touch made while an offer from an        *)
(* earlier touch is standing, an offer stands for less than OfferWindow,   *)
(* and a packet uses its offer up.                                         *)
(***************************************************************************)
EXTENDS Naturals

CONSTANT OfferWindow

VARIABLES
    standing,   \* an offer is standing
    age,        \* for how long
    packet      \* the touch being handled sent a wake packet

vars == <<standing, age, packet>>

Init == ~standing /\ age = 0 /\ ~packet

\* A touch that offers, when no offer stands or the last one has lapsed.
Offer == /\ ~standing \/ age >= OfferWindow
         /\ standing' = TRUE
         /\ age' = 0
         /\ UNCHANGED packet

\* A touch on a standing offer: the packet is handed to the network, which
\* may fail to take it.
Accept == /\ standing /\ age < OfferWindow
          /\ standing' = FALSE
          /\ age' = 0
          /\ packet' \in BOOLEAN

\* The offer lapses, or is taken back by a touch in another link state or by a
\* restart, which ends the handling of a packet too.
Withdraw == /\ standing' = FALSE
            /\ age' = 0
            /\ packet' \in {packet, FALSE}

Age == /\ standing
       /\ age' = age + 1
       /\ UNCHANGED <<standing, packet>>

\* The touch has been dealt with.
Done == packet' = FALSE /\ UNCHANGED <<standing, age>>

Next == Offer \/ Accept \/ Withdraw \/ Age \/ Done

Spec == Init /\ [][Next]_vars
=============================================================================
