-------------------------- MODULE PanelDraw_proofs --------------------------
(***************************************************************************)
(* What the engine's and the renderer's rules say of every frame, whatever *)
(* the staleness period and the thresholds: that the bands only advance as *)
(* the revolutions rise, and that a stamp cannot lock a producer out.      *)
(***************************************************************************)
EXTENDS PanelDraw, TLAPS

\* The colours in the order in which rising revolutions bring them.
Stage == [black |-> 0, green |-> 1, yellow |-> 2, amber |-> 3, red |-> 4]

LEMMA DivisionIsMonotone ==
    ASSUME NEW a \in Int, NEW b \in Int, NEW d \in Nat \ {0}, a <= b
    PROVE  a \div d <= b \div d
<1> DEFINE p == a \div d
           q == b \div d
<1>1. p \in Int /\ q \in Int
  OBVIOUS
<1>2. d * p <= a /\ b < d * (q + 1)
  OBVIOUS
<1> HIDE DEF p, q
<1>3. SUFFICES ASSUME q < p PROVE FALSE
  BY <1>1 DEF p, q
<1>4. d * (q + 1) <= d * p
  BY <1>1, <1>3
<1>5. d * p \in Int /\ d * (q + 1) \in Int
  BY <1>1
<1> QED BY <1>2, <1>4, <1>5

LEMMA RampIsMonotone ==
    ASSUME NEW start \in Int, NEW flash \in Int, start < flash,
           NEW r \in Int, NEW t \in Int, start <= r, r <= t, t <= flash
    PROVE  /\ RampPosition(r, start, flash) \in 0 .. 100
           /\ RampPosition(r, start, flash) <= RampPosition(t, start, flash)
<1> DEFINE width == flash - start
           position(x) == (100 * (x - start)) \div width
<1>1. width \in Nat \ {0}
  OBVIOUS
<1>2. \A x \in Int : start <= x /\ x <= flash => RampPosition(x, start, flash) = position(x)
  BY DEF RampPosition
<1>3. position(r) <= position(t)
  BY <1>1, DivisionIsMonotone
<1>4. position(r) \in 0 .. 100
  <2>1. 0 \div width <= position(r) /\ position(r) <= (100 * width) \div width
    BY <1>1, DivisionIsMonotone
  <2> HIDE DEF width
  <2>2. 0 \div width = 0 /\ (100 * width) \div width = 100
    BY <1>1
  <2>3. position(r) \in Int
    BY <1>1
  <2> QED BY <2>1, <2>2, <2>3
<1> HIDE DEF position
<1> QED BY <1>2, <1>3, <1>4

LEMMA ColoursAdvance ==
    ASSUME NEW p \in 0 .. 100, NEW q \in 0 .. 100, p <= q
    PROVE  Stage[RampColour(p)] <= Stage[RampColour(q)]
BY DEF Stage, RampColour

\* A frame's revolutions and thresholds, each one number at most, and what a
\* frame that is believed says of them.
Numbers(f) ==
    /\ f.rpm \subseteq Int /\ f.rampStart \subseteq Int /\ f.flash \subseteq Int
    /\ \A v, w \in f.rpm : v = w
    /\ \A v, w \in f.rampStart : v = w
    /\ \A v, w \in f.flash : v = w

Believed(f) == Validate(f) = "accepted" /\ f.status = "live"

\* The bands of a frame, with the flash in its red half.
LEMMA BandsOf ==
    ASSUME NEW f, Numbers(f), Believed(f), NEW now, FlashOn(now, FlashPeriod),
           NEW rpm \in f.rpm, NEW start \in f.rampStart, NEW flash \in f.flash
    PROVE  /\ start < flash
           /\ Background(Derive(f, "driving"), now) =
                IF rpm < start THEN "black"
                ELSE IF rpm < flash THEN RampColour(RampPosition(rpm, start, flash))
                ELSE "red"
<1> DEFINE s == Derive(f, "driving")
<1>1. f.rpm = {rpm} /\ f.rampStart = {start} /\ f.flash = {flash}
  BY DEF Numbers
<1>2. rpm \in Int /\ start \in Int /\ flash \in Int
  BY DEF Numbers
<1>3. start < flash
  BY DEF Believed, Validate, RampOrdered
<1>4. s.shift = IF rpm >= flash THEN "flashing" ELSE IF rpm >= start THEN "ramping" ELSE "neutral"
  BY <1>1 DEF Derive, ShiftPhase
<1>5. CASE rpm < start
  <2>1. s.shift = "neutral"
    BY <1>2, <1>3, <1>4, <1>5
  <2> HIDE DEF s
  <2> QED BY <1>3, <1>5, <2>1 DEF Background, s
<1>6. CASE rpm >= flash
  <2>1. s.shift = "flashing" /\ ~(rpm < start) /\ ~(rpm < flash)
    BY <1>2, <1>3, <1>4, <1>6
  <2> HIDE DEF s
  <2> QED BY <1>3, <2>1 DEF Background, s
<1>7. CASE start <= rpm /\ rpm < flash
  <2>1. s.shift = "ramping" /\ ShiftPhase(f) = "ramping" /\ ~(rpm < start)
    BY <1>2, <1>4, <1>7 DEF Derive
  <2>2. RampPosition(rpm, start, flash) \in 0 .. 100
    <3>1. rpm <= rpm /\ rpm <= flash
      BY <1>2, <1>7
    <3> QED BY <1>2, <1>3, <1>7, <3>1, RampIsMonotone
  <2>3. s.rampPosition = RampPosition(rpm, start, flash)
    <3>1. s.rampPosition =
             CHOOSE p \in 0 .. 100 : \E r \in f.rpm, t \in f.rampStart, u \in f.flash :
                p = RampPosition(r, t, u)
      BY <2>1 DEF Derive
    <3>2. s.rampPosition = CHOOSE p \in 0 .. 100 : p = RampPosition(rpm, start, flash)
      BY <1>1, <3>1
    <3> HIDE DEF s
    <3> QED BY <2>2, <3>2
  <2> HIDE DEF s
  <2>4. Background(s, now) = RampColour(RampPosition(rpm, start, flash))
    BY <2>1, <2>3 DEF Background
  <2> QED BY <1>3, <1>7, <2>1, <2>4 DEF s
<1> QED BY <1>2, <1>5, <1>6, <1>7

\* As the revolutions rise between the same thresholds, the bands go through
\* black, green, yellow and amber to the flash, and never back: each colour is
\* painted once per climb (rampColour() in panel.cpp, derive() in display_state.cpp).
THEOREM BandsNeverStepBack ==
    ASSUME NEW f, NEW g, Numbers(f), Numbers(g), Believed(f), Believed(g),
           f.rampStart = g.rampStart, f.flash = g.flash,
           f.rpm # {}, \A r \in f.rpm, t \in g.rpm : r <= t,
           NEW now, FlashOn(now, FlashPeriod),
           g.rpm # {}
    PROVE  Stage[Background(Derive(f, "driving"), now)] <= Stage[Background(Derive(g, "driving"), now)]
<1>1. PICK r \in f.rpm, t \in g.rpm : r <= t
  OBVIOUS
<1>2. r \in Int /\ t \in Int
  BY DEF Numbers
<1>3. CASE f.rampStart = {} \/ f.flash = {}
  <2>1. ShiftPhase(f) = "unavailable" /\ ShiftPhase(g) = "unavailable"
    BY <1>3 DEF ShiftPhase
  <2>2. Derive(f, "driving").shift = "unavailable" /\ Derive(g, "driving").shift = "unavailable"
    BY <2>1 DEF Derive
  <2> QED BY <2>2 DEF Background, Stage
<1>4. ASSUME NEW start \in f.rampStart, NEW flash \in f.flash
      PROVE  Stage[Background(Derive(f, "driving"), now)] <= Stage[Background(Derive(g, "driving"), now)]
  <2> DEFINE at(x) == IF x < start THEN "black"
                      ELSE IF x < flash THEN RampColour(RampPosition(x, start, flash))
                      ELSE "red"
  <2>1. start \in Int /\ flash \in Int
    BY DEF Numbers
  <2>2. /\ start < flash
        /\ Background(Derive(f, "driving"), now) = at(r)
        /\ Background(Derive(g, "driving"), now) = at(t)
    BY BandsOf
  <2>3. ASSUME start <= r, r <= t, t < flash
        PROVE  Stage[at(r)] <= Stage[at(t)]
    <3>1. /\ RampPosition(r, start, flash) \in 0 .. 100
          /\ RampPosition(t, start, flash) \in 0 .. 100
          /\ RampPosition(r, start, flash) <= RampPosition(t, start, flash)
      <4>1. t <= flash
        BY <1>2, <2>1, <2>3
      <4>2. t <= t /\ start <= t
        BY <1>2, <2>1, <2>3
      <4> QED BY <1>2, <2>1, <2>2, <2>3, <4>1, <4>2, RampIsMonotone
    <3>2. /\ at(r) = RampColour(RampPosition(r, start, flash))
          /\ at(t) = RampColour(RampPosition(t, start, flash))
      BY <1>2, <2>1, <2>3
    <3> QED BY <3>1, <3>2, ColoursAdvance
  <2>4. \A x \in Int : start <= x /\ x < flash => Stage[at(x)] \in 0 .. 3
    <3> SUFFICES ASSUME NEW x \in Int, start <= x, x < flash PROVE Stage[at(x)] \in 0 .. 3
      OBVIOUS
    <3>1. RampPosition(x, start, flash) \in 0 .. 100
      <4>1. x <= x /\ x <= flash
        BY <2>1
      <4> QED BY <2>1, <2>2, <4>1, RampIsMonotone
    <3>2. at(x) = RampColour(RampPosition(x, start, flash))
      BY <2>1
    <3> HIDE DEF at
    <3>3. \A q \in 0 .. 100 : Stage[RampColour(q)] \in 0 .. 3
      BY DEF Stage, RampColour
    <3> QED BY <3>1, <3>2, <3>3
  <2>5. Stage["black"] = 0 /\ Stage["red"] = 4
    BY DEF Stage
  <2>6. /\ \A x \in Int : x < start => at(x) = "black"
        /\ \A x \in Int : flash <= x => at(x) = "red"
    BY <2>1, <2>2
  <2>7. \A x \in Int : Stage[at(x)] \in 0 .. 4
    BY <2>1, <2>4, <2>5, <2>6
  <2> HIDE DEF at
  <2>8. CASE r < start
    BY <1>2, <2>2, <2>5, <2>6, <2>7, <2>8
  <2>9. CASE flash <= t
    BY <1>2, <2>2, <2>5, <2>6, <2>7, <2>9
  <2> QED BY <1>1, <1>2, <2>1, <2>2, <2>3, <2>8, <2>9
<1> QED BY <1>3, <1>4

-----------------------------------------------------------------------------

\* A producer whose stamps advance is heard again, whatever stamp the panel took
\* last and wherever the producer begins: of any StalenessMs + 2 frames in a row
\* one is accepted (StampTracker in display_state.h).
THEOREM LockoutIsBounded ==
    ASSUME NEW n \in Int, NEW stamps \in [Nat -> Int],
           \A i, j \in Nat : i <= j => stamps[j] - stamps[i] >= j - i
    PROVE  \E k \in 0 .. StalenessMs + 1 : AcceptsStamp({n}, stamps[k])
<1>1. StalenessMs \in Nat
  BY TimingAssumption
<1> DEFINE last == StalenessMs + 1
<1>2. 0 \in 0 .. last /\ last \in 0 .. last /\ last \in Nat
  BY <1>1
<1>3. stamps[last] - stamps[0] >= last /\ stamps[0] \in Int /\ stamps[last] \in Int
  BY <1>1, <1>2
<1>4. CASE stamps[0] > n \/ n - stamps[0] > StalenessMs
  BY <1>2, <1>4 DEF AcceptsStamp
<1>5. CASE ~(stamps[0] > n \/ n - stamps[0] > StalenessMs)
  <2>1. stamps[last] > n
    BY <1>1, <1>3, <1>5
  <2> QED BY <1>2, <2>1 DEF AcceptsStamp
<1> QED BY <1>4, <1>5
=============================================================================
