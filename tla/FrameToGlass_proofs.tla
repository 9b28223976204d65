------------------------ MODULE FrameToGlass_proofs ------------------------
(***************************************************************************)
(* That repainting in parts is as good as repainting the whole glass, that *)
(* every frame the plugin makes is believed, and that what the driving     *)
(* screen says is true of the reading: for any simulator, fractions,       *)
(* rounding, flash period and sequence of screens.                         *)
(***************************************************************************)
EXTENDS FrameToGlass, TLAPS

Blinds == LinkState \ {"driving"}

\* One screen in every region.
Whole(link, text) == [r \in Regions |-> Screen(LinkIcon(link), LinkLine(link, text))]

Shaped(p) ==
    /\ p = [glass |-> p.glass, cached |-> p.cached, shown |-> p.shown, offerShown |-> p.offerShown]
    /\ p.cached.valid \in BOOLEAN
    /\ p.offerShown \in BOOLEAN

\* The choice of screen leaves the glass to the offer.
OfferStands(p, link) == p.offerShown /\ link = "unreachable"

OfferScreen == [r \in Regions |-> Screen(NoIcon, PlainLine("unreachable"))]

\* What the renderer and the loop believe of the glass, as far as they do: a
\* valid cache after a driving screen is the glass, and what the loop has shown
\* is on it, with the text of some time, unless that is left to an offer.
Trust(p) ==
    /\ p.shown = "driving" /\ p.cached.valid =>
          /\ p.glass = p.cached.picture
          /\ p.cached.picture = [r \in Regions |-> p.cached.picture[r]]
    /\ p.shown \in Blinds /\ ~OfferStands(p, p.shown) => \E text : p.glass = Whole(p.shown, text)

Messages == \A m \in inbox \cup newest : m.source \in Readings /\ m = Message(m.source)

GlassHeld ==
    /\ Shaped(panel) /\ Trust(panel)
    /\ state \in LinkState \cup {NothingShown}
    /\ state = "driving" => panel.glass = Rendering(Derive(FrameOf(newest), "driving"), now)
    /\ state \in Blinds /\ ~OfferStands(panel, state) => \E text : panel.glass = Whole(state, text)

\* The driving screen is of one message, which is live.
LiveHeld ==
    /\ AtMostOne(inbox) /\ AtMostOne(newest)
    /\ state = "driving" => \A m \in newest : m.frame.status = "live"

\* What the loop has shown is the state of its last iteration, and the renderer's
\* cache, when it is valid, was painted by it.
CacheHeld ==
    /\ panel.shown = state
    /\ panel.cached.valid => IsPicture(panel.cached.picture)

IInv == Messages /\ GlassHeld /\ LiveHeld /\ CacheHeld

-----------------------------------------------------------------------------
(***************************************************************************)
(* The renderer.                                                           *)
(***************************************************************************)

\* Regions that are not dirty hold the picture already.
LEMMA PartsAreTheWhole ==
    ASSUME NEW p, NEW s, NEW t, Shaped(p),
           p.cached.valid => /\ p.glass = p.cached.picture
                             /\ p.cached.picture = [r \in Regions |-> p.cached.picture[r]]
    PROVE  LET q == DrawDriving(p, s, t)
           IN  /\ q = [glass |-> Rendering(s, t), cached |-> q.cached,
                       shown |-> p.shown, offerShown |-> p.offerShown]
               /\ Shaped(q)
               /\ q.cached.valid => q.cached.picture = Rendering(s, t)
<1> DEFINE picture == Rendering(s, t)
           dirty == Dirty(p.cached, picture)
<1>1. picture = [r \in Regions |-> picture[r]]
  <2> DEFINE piece(r) == CASE r = "bands" -> Paint(Background(s, t))
                           [] r = "gear"  -> Paint(s.gear)
                           [] r = "left"  -> Paint(s.barLeft)
                           [] r = "right" -> Paint(s.barRight)
  <2>1. picture = [r \in Regions |-> piece(r)]
    BY DEF Rendering
  <2> HIDE DEF piece, picture
  <2> QED BY <2>1
<1>2. p.cached.valid => \A r \in Regions : r \notin dirty => picture[r] = p.cached.picture[r]
  BY DEF Dirty, Regions
<1>3. ~p.cached.valid => dirty = Regions
  BY DEF Dirty
<1> HIDE DEF picture, dirty
<1>4. CASE dirty = {}
  <2>1. p.cached.valid
    BY <1>3, <1>4 DEF Regions
  <2>2. p.cached.picture = picture
    BY <1>1, <1>2, <1>4, <2>1
  <2>3. DrawDriving(p, s, t) = p
    BY <1>4 DEF DrawDriving, dirty, picture
  <2> QED BY <2>1, <2>2, <2>3 DEF picture, Shaped
<1>5. CASE dirty # {}
  <2> DEFINE glass == [r \in Regions |-> IF r \in dirty THEN picture[r] ELSE p.glass[r]]
  <2>1. \A r \in Regions : glass[r] = picture[r]
    BY <1>2, <1>3
  <2>2. glass = picture
    BY <1>1, <2>1
  <2>3. DrawDriving(p, s, t)
          = [p EXCEPT !.glass = glass, !.cached = [valid |-> TRUE, picture |-> picture]]
    BY <1>5 DEF DrawDriving, dirty, picture
  <2> HIDE DEF glass
  <2>4. DrawDriving(p, s, t)
          = [glass |-> glass, cached |-> [valid |-> TRUE, picture |-> picture],
             shown |-> p.shown, offerShown |-> p.offerShown]
    BY <2>3 DEF Shaped
  <2>5. PICK q : q = DrawDriving(p, s, t)
    OBVIOUS
  <2>6. Shaped(q) /\ q.cached.picture = picture
    <3>1. PICK c : c = [valid |-> TRUE, picture |-> picture]
      OBVIOUS
    <3>2. c.valid \in BOOLEAN /\ c.picture = picture
      BY <3>1
    <3>3. q = [glass |-> glass, cached |-> c, shown |-> p.shown, offerShown |-> p.offerShown]
      BY <2>4, <2>5, <3>1
    <3> QED BY <3>2, <3>3 DEF Shaped
  <2> QED BY <2>2, <2>4, <2>5, <2>6 DEF picture
<1> QED BY <1>4, <1>5

\* What is still believed to be shown is left on the glass, unless an offer came
\* over it.
Stays(p, link, q) ==
    q.shown # NothingShown =>
        /\ q.shown = p.shown
        /\ OfferStands(q, link) \/ (q.glass = p.glass /\ q.offerShown = p.offerShown)

\* The steps of an iteration before the choice of screen keep the trust, or the
\* glass is left to an offer, which was made now or stood before.
Prepared(p, link, q) ==
    /\ Shaped(q) /\ q.cached \in {p.cached, Invalid}
    /\ Trust(q) \/ OfferStands(q, link)
    /\ \/ OfferStands(q, link) /\ q.glass = OfferScreen
       \/ q.offerShown => p.offerShown /\ q.glass = p.glass
    /\ Stays(p, link, q)

LEMMA BeforeTheChoice ==
    ASSUME NEW p, Shaped(p), Trust(p),
           NEW link, NEW lapsed \in Lapses(p), NEW answer \in Answers(lapsed, link),
           NEW lit \in {Touched(lapsed, answer), Relit(Touched(lapsed, answer))},
           NEW ready \in {lit} \cup (IF answer = "sent" THEN {Confirmed(lit)} ELSE {})
    PROVE  Prepared(p, link, ready)
<1> USE DEF Shaped
<1>1. NothingShown # "driving" /\ NothingShown \notin Blinds
  BY DEF NothingShown, Blinds, LinkState
<1>2. ASSUME NEW q, Shaped(q)
      PROVE  /\ Shaped(LapseOffer(q)) /\ Trust(LapseOffer(q)) /\ LapseOffer(q).cached = q.cached
             /\ ~LapseOffer(q).offerShown /\ LapseOffer(q).shown = NothingShown
  <2>1. LapseOffer(q) = [glass |-> q.glass, cached |-> q.cached,
                         shown |-> NothingShown, offerShown |-> FALSE]
    <3>1. PICK r : r = [q EXCEPT !.offerShown = FALSE]
      OBVIOUS
    <3>2. r = [glass |-> q.glass, cached |-> q.cached, shown |-> q.shown, offerShown |-> FALSE]
      BY <1>2, <3>1
    <3>3. PICK w : w = [r EXCEPT !.shown = NothingShown] /\ w = LapseOffer(q)
      BY <3>1 DEF LapseOffer, Forget
    <3> QED BY <3>2, <3>3
  <2> QED BY <1>1, <1>2, <2>1 DEF Trust
<1>3. /\ Shaped(lapsed) /\ Trust(lapsed) /\ lapsed.cached = p.cached
      /\ lapsed.offerShown => p.offerShown /\ lapsed.glass = p.glass
      /\ lapsed.shown # NothingShown => lapsed = p
  BY <1>2 DEF Lapses
<1>4. answer \in {"none", "sent", "offered"} /\ (answer = "offered" => link = "unreachable")
  BY DEF Answers
<1> DEFINE touched == Touched(lapsed, answer)
<1>5. /\ Shaped(touched) /\ touched.cached = p.cached
      /\ Trust(touched) \/ OfferStands(touched, link)
      /\ \/ OfferStands(touched, link) /\ touched.glass = OfferScreen
         \/ touched.offerShown => p.offerShown /\ touched.glass = p.glass
      /\ Stays(p, link, touched)
      /\ answer = "sent" => touched.shown = NothingShown /\ ~touched.offerShown
  <2>1. CASE answer = "none"
    <3>1. touched = lapsed
      BY <2>1 DEF Touched
    <3> HIDE DEF touched
    <3> QED BY <1>3, <2>1, <3>1 DEF Stays
  <2>2. CASE answer = "sent"
    <3>1. touched = LapseOffer(lapsed)
      BY <2>2 DEF Touched
    <3>2. touched.shown = NothingShown
      BY <1>3, <3>1 DEF LapseOffer, Forget
    <3> QED BY <1>2, <1>3, <3>1, <3>2 DEF Stays
  <2>3. CASE answer = "offered"
    <3>1. touched = [lapsed EXCEPT !.glass = OfferScreen, !.offerShown = TRUE]
      <4>1. touched = [DrawWakeOffer(lapsed) EXCEPT !.offerShown = TRUE]
        BY <2>3 DEF Touched
      <4>2. DrawWakeOffer(lapsed) = [lapsed EXCEPT !.glass = OfferScreen]
        BY DEF DrawWakeOffer, FillScreen, OfferScreen
      <4> QED BY <1>3, <4>1, <4>2
    <3>2. touched = [glass |-> OfferScreen, cached |-> lapsed.cached,
                     shown |-> lapsed.shown, offerShown |-> TRUE]
      BY <1>3, <3>1
    <3> HIDE DEF touched
    <3> QED BY <1>3, <1>4, <2>3, <3>2 DEF OfferStands, Stays
  <2> QED BY <1>4, <2>1, <2>2, <2>3
<1> HIDE DEF touched
<1>6. /\ Shaped(lit) /\ lit.cached \in {p.cached, Invalid}
      /\ Trust(lit) \/ OfferStands(lit, link)
      /\ \/ OfferStands(lit, link) /\ lit.glass = OfferScreen
         \/ lit.offerShown => p.offerShown /\ lit.glass = p.glass
      /\ Stays(p, link, lit)
      /\ answer = "sent" => lit.shown = NothingShown /\ ~lit.offerShown
  <2>1. CASE lit = touched
    BY <1>5, <2>1
  <2>2. CASE lit = Relit(touched)
    <3>1. lit = [glass |-> touched.glass, cached |-> Invalid,
                 shown |-> NothingShown, offerShown |-> touched.offerShown]
      BY <1>5, <2>2 DEF Relit, Forget, Invalidate
    <3> QED BY <1>1, <1>5, <3>1 DEF Trust, Invalid, OfferStands, Stays
  <2> QED BY <2>1, <2>2 DEF touched
<1>7. CASE ready = lit
  BY <1>6, <1>7 DEF Prepared
<1>8. CASE answer = "sent" /\ ready = Confirmed(lit)
  <2>1. PICK glass : DrawMessage(lit) = [lit EXCEPT !.glass = glass]
    BY DEF DrawMessage, FillScreen
  <2>2. ready = [glass |-> glass, cached |-> Invalid,
                 shown |-> NothingShown, offerShown |-> lit.offerShown]
    BY <1>6, <1>8, <2>1 DEF Confirmed, Invalidate
  <2>3. ready.offerShown = lit.offerShown /\ ready.cached = Invalid /\ ready.shown = NothingShown
    BY <2>2
  <2>4. Shaped(ready)
    BY <1>6, <2>2, <2>3 DEF Invalid
  <2>5. Trust(ready)
    BY <1>1, <2>3 DEF Trust
  <2>6. ~ready.offerShown
    BY <1>6, <1>8, <2>3
  <2> QED BY <2>3, <2>4, <2>5, <2>6 DEF Prepared, Stays
<1> QED BY <1>7, <1>8

\* The driving screen comes out whole.
Drives(p, s, t, q) ==
    /\ Shaped(q) /\ Trust(q) /\ q.shown = "driving"
    /\ q.glass = Rendering(s, t) /\ q.offerShown = p.offerShown

LEMMA DrivingIsWhole ==
    ASSUME NEW p, Shaped(p), Trust(p), NEW text, NEW s, NEW t
    PROVE  Drives(p, s, t, ShowLink(p, "driving", text, s, t))
<1> DEFINE from == IF p.shown = "driving" THEN p ELSE Invalidate(p)
           drawn == DrawDriving(from, s, t)
           q == ShowLink(p, "driving", text, s, t)
<1>1. /\ Shaped(from) /\ from.offerShown = p.offerShown
      /\ from.cached.valid => /\ from.glass = from.cached.picture
                              /\ from.cached.picture = [r \in Regions |-> from.cached.picture[r]]
  <2>1. CASE p.shown = "driving"
    <3>1. from = p
      BY <2>1
    <3> HIDE DEF from
    <3> QED BY <2>1, <3>1 DEF Trust
  <2>2. CASE p.shown # "driving"
    <3>1. from = [p EXCEPT !.cached = Invalid]
      BY <2>2 DEF Invalidate
    <3> HIDE DEF from
    <3>2. from = [glass |-> p.glass, cached |-> Invalid, shown |-> p.shown, offerShown |-> p.offerShown]
      BY <3>1 DEF Shaped
    <3> QED BY <3>2 DEF Invalid, Shaped
  <2> QED BY <2>1, <2>2
<1> HIDE DEF from
<1>2. /\ drawn = [glass |-> Rendering(s, t), cached |-> drawn.cached,
                  shown |-> from.shown, offerShown |-> from.offerShown]
      /\ Shaped(drawn)
      /\ drawn.cached.valid => drawn.cached.picture = Rendering(s, t)
  BY <1>1, PartsAreTheWhole
<1>3. q = [drawn EXCEPT !.shown = "driving"]
  BY DEF ShowLink, from
<1> HIDE DEF drawn, q
<1>4. q = [glass |-> Rendering(s, t), cached |-> drawn.cached,
           shown |-> "driving", offerShown |-> p.offerShown]
  BY <1>1, <1>2, <1>3
<1>5. Rendering(s, t) = [r \in Regions |-> Rendering(s, t)[r]]
  <2> DEFINE piece(r) == CASE r = "bands" -> Paint(Background(s, t))
                           [] r = "gear"  -> Paint(s.gear)
                           [] r = "left"  -> Paint(s.barLeft)
                           [] r = "right" -> Paint(s.barRight)
  <2>1. Rendering(s, t) = [r \in Regions |-> piece(r)]
    BY DEF Rendering
  <2> HIDE DEF piece
  <2> QED BY <2>1
<1>6. Shaped(q) /\ Trust(q)
  BY <1>1, <1>2, <1>4, <1>5 DEF Trust, Blinds, Shaped
<1> QED BY <1>4, <1>6 DEF q, Drives

\* Any other screen is on the glass, whether it was drawn now or before.
Shows(p, link, text, q) ==
    /\ Shaped(q) /\ Trust(q) /\ q.shown = link /\ q.cached \in {p.cached, Invalid}
    /\ q.offerShown = p.offerShown
    /\ q.glass = IF OfferStands(p, link) \/ link = p.shown THEN p.glass ELSE Whole(link, text)

LEMMA BlindIsWhole ==
    ASSUME NEW p, NEW link \in Blinds, NEW text, NEW s, NEW t, Shaped(p),
           Trust(p) \/ OfferStands(p, link)
    PROVE  Shows(p, link, text, ShowLink(p, link, text, s, t))
<1> USE DEF Shaped, Shows
<1> DEFINE q == ShowLink(p, link, text, s, t)
<1>1. link # "driving"
  BY DEF Blinds
<1>2. CASE OfferStands(p, link) \/ link = p.shown
  <2>1. q = [p EXCEPT !.shown = link]
    BY <1>1, <1>2 DEF ShowLink, OfferStands
  <2> HIDE DEF q
  <2>2. q = [glass |-> p.glass, cached |-> p.cached, shown |-> link, offerShown |-> p.offerShown]
    BY <2>1
  <2>3. ~OfferStands(p, link) => \E was : p.glass = Whole(link, was)
    BY <1>2 DEF Trust
  <2>4. Shaped(q) /\ Trust(q)
    BY <1>1, <2>2, <2>3 DEF Trust, OfferStands
  <2> QED BY <1>2, <2>2, <2>4 DEF q
<1>3. CASE ~(OfferStands(p, link) \/ link = p.shown)
  <2>1. q = [DrawLink(Invalidate(p), link, text) EXCEPT !.shown = link]
    BY <1>1, <1>3 DEF ShowLink, OfferStands
  <2>2. DrawLink(Invalidate(p), link, text) = [Invalidate(p) EXCEPT !.glass = Whole(link, text)]
    BY DEF DrawLink, FillScreen, Whole
  <2>3. Invalidate(p) = [p EXCEPT !.cached = Invalid]
    BY DEF Invalidate
  <2> HIDE DEF q
  <2>4. q = [glass |-> Whole(link, text), cached |-> Invalid, shown |-> link, offerShown |-> p.offerShown]
    BY <2>1, <2>2, <2>3
  <2>5. Shaped(q) /\ Trust(q)
    BY <1>1, <2>4 DEF Trust, Invalid
  <2> QED BY <1>3, <2>4, <2>5 DEF q
<1> QED BY <1>2, <1>3

-----------------------------------------------------------------------------
(***************************************************************************)
(* The plugin's frames.                                                    *)
(***************************************************************************)

LEMMA EveryReading ==
    ASSUME NEW source \in Readings
    PROVE  /\ source.running \in BOOLEAN /\ source.throws \in BOOLEAN
           /\ source.rpm \subseteq Int
           /\ source.redline \subseteq Int /\ \A v, w \in source.redline : v = w
           /\ source.slFirst \subseteq Int /\ \A v, w \in source.slFirst : v = w
           /\ source.slShift \subseteq Int /\ \A v, w \in source.slShift : v = w
           /\ \A v, w \in source.gear : v = w
           /\ \A v, w \in source.proximity : v = w
BY FrameToGlassAssumption DEF AtMostOne

\* The two rules of ShiftThresholds yield one ordered pair at most.
LEMMA OnePair ==
    ASSUME NEW source \in Readings
    PROVE  /\ \A pair \in Pairs(source) : pair[1] \in Int /\ pair[2] \in Int /\ pair[1] < pair[2]
           /\ \A p, q \in Pairs(source) : p[1] = q[1] /\ p[2] = q[2]
<1> DEFINE native == NativePairs(source.slFirst, source.slShift, source.redline)
           derived == RedlinePairs(source.redline)
<1>1. /\ \A pair \in native : pair[1] \in Int /\ pair[2] \in Int /\ pair[1] < pair[2]
      /\ \A p, q \in native : p[1] = q[1] /\ p[2] = q[2]
  <2>1. \A pair \in native : pair[1] \in source.slFirst /\ pair[2] \in source.slShift /\ pair[1] < pair[2]
    BY DEF NativePairs
  <2> HIDE DEF native
  <2> QED BY <2>1, EveryReading
<1>2. /\ \A pair \in derived : pair[1] \in Int /\ pair[2] \in Int /\ pair[1] < pair[2]
      /\ \A p, q \in derived : p[1] = q[1] /\ p[2] = q[2]
  <2>1. \A pair \in derived :
           /\ pair[1] < pair[2]
           /\ \E max \in source.redline : pair = <<(max * RampPercent) \div 100, (max * FlashPercent) \div 100>>
    BY DEF RedlinePairs
  <2>2. \A max \in Int : (max * RampPercent) \div 100 \in Int /\ (max * FlashPercent) \div 100 \in Int
    BY FrameSourceAssumption
  <2> HIDE DEF derived
  <2>3. \A pair \in derived : pair[1] \in Int /\ pair[2] \in Int
    BY <2>1, <2>2, EveryReading
  <2>4. \A p, q \in derived : p = q
    BY <2>1, EveryReading
  <2> QED BY <2>1, <2>3, <2>4
<1> QED BY <1>1, <1>2 DEF Pairs, Resolve

\* Rounding to the wire keeps the order, but for what it makes equal.
LEMMA RoundingIsMonotone ==
    /\ \A v \in Int : Rounded(v) \in Int
    /\ \A v \in Int : v >= 0 => Rounded(v) >= 0
    /\ \A v, w \in Int : v < w => Rounded(v) <= Rounded(w)
<1>1. WireUnit \in Int /\ WireUnit > 0
  BY FrameSourceAssumption
<1>2. WireUnit \div 2 \in Int /\ WireUnit \div 2 >= 0
  BY <1>1
<1>3. \A a \in Int : /\ a \div WireUnit \in Int
                     /\ a >= 0 => a \div WireUnit >= 0
  BY <1>1
<1>4. ASSUME NEW a \in Int, NEW b \in Int, a < b
      PROVE  a \div WireUnit <= b \div WireUnit
  BY <1>1, <1>4
<1> QED BY <1>2, <1>3, <1>4 DEF Rounded

\* The four kinds of frame.
LEMMA KindsOfFrame ==
    ASSUME NEW source \in Readings
    PROVE  /\ Message(source).source = source
           /\ \/ \E status \in Status \ {"live"} : \E title :
                    Build(source, 0) = Blank(status, title, 0)
              \/ \E title : Build(source, 0) = BuildFrame(source, title, 0)
BY DEF Message, Build, Status

LEMMA StatusOnTheWire ==
    ASSUME NEW source \in Readings
    PROVE  /\ Message(source).frame = OnTheWire(Build(source, 0))
           /\ Message(source).frame.status \in Status
<1>1. Message(source).frame = OnTheWire(Build(source, 0))
  BY DEF Message
<1>2. \A status \in Status \ {"live"} : \A title : OnTheWire(Blank(status, title, 0)).status = status
  BY DEF OnTheWire, Blank
<1>3. \A title : OnTheWire(BuildFrame(source, title, 0)).status = "live"
  BY DEF OnTheWire, BuildFrame, Blank
<1> QED BY <1>1, <1>2, <1>3, KindsOfFrame DEF Status

\* A frame without telemetry passes.
LEMMA BlankIsBelieved ==
    ASSUME NEW status \in Status \ {"live"}, NEW title
    PROVE  Validate(OnTheWire(Blank(status, title, 0))) = "accepted"
<1> DEFINE f == OnTheWire(Blank(status, title, 0))
<1>1. /\ f.major = PluginMajor /\ f.status = status
      /\ f.gear = {} /\ f.spotterLeft = "unavailable" /\ f.spotterRight = "unavailable"
      /\ f.rpm = {Rounded(v) : v \in {}}
      /\ f.rampStart = {Rounded(v) : v \in {}} /\ f.flash = {Rounded(v) : v \in {}}
  BY DEF OnTheWire, Blank
<1>2. {Rounded(v) : v \in {}} = {}
  OBVIOUS
<1> HIDE DEF f
<1>3. Validate(f) = "accepted"
  BY <1>1, <1>2, FrameToGlassAssumption DEF Validate, IsTelemetryNull
<1> QED BY <1>3 DEF f

\* A live one passes unless rounding has made its thresholds equal.
LEMMA LiveIsBelieved ==
    ASSUME NEW source \in Readings, ~Collapsed(source), NEW title
    PROVE  Validate(OnTheWire(BuildFrame(source, title, 0))) = "accepted"
<1> DEFINE built == BuildFrame(source, title, 0)
           f == OnTheWire(built)
           pairs == Pairs(source)
<1>1. /\ built.major = PluginMajor /\ built.status = "live"
      /\ built.gear = UNION {NormaliseGear(raw) : raw \in source.gear}
      /\ built.rpm = {rpm \in source.rpm : rpm >= 0}
      /\ built.rampStart = {pair[1] : pair \in pairs}
      /\ built.flash = {pair[2] : pair \in pairs}
  BY DEF BuildFrame, Blank, Pairs
<1>2. /\ f.major = built.major /\ f.status = built.status /\ f.gear = built.gear
      /\ f.rpm = {Rounded(v) : v \in built.rpm}
      /\ f.rampStart = {Rounded(v) : v \in built.rampStart}
      /\ f.flash = {Rounded(v) : v \in built.flash}
  BY DEF OnTheWire, BuildFrame, Blank
<1>3. pairs = Pairs(source)
  OBVIOUS
<1> HIDE DEF built, f, pairs
<1>4. \A rpm \in f.rpm : rpm >= 0
  BY <1>1, <1>2, EveryReading, RoundingIsMonotone
<1>5. f.gear \subseteq GearDomain
  <2>1. \A raw : NormaliseGear(raw) \subseteq -1 .. 9
    BY DEF NormaliseGear
  <2>2. -1 .. 9 \subseteq GearDomain
    BY DEF GearDomain
  <2> QED BY <1>1, <1>2, <2>1, <2>2
<1>6. RampOrdered(f)
  <2>1. (f.rampStart = {}) = (f.flash = {})
    <3>1. (built.rampStart = {} <=> pairs = {}) /\ (built.flash = {} <=> pairs = {})
      <4>1. CASE pairs = {}
        <5>1. \A v : v \notin built.rampStart /\ v \notin built.flash
          BY <1>1, <4>1
        <5> QED BY <4>1, <5>1
      <4>2. CASE pairs # {}
        <5>1. PICK pair : pair \in pairs
          BY <4>2
        <5>2. pair[1] \in built.rampStart /\ pair[2] \in built.flash
          BY <1>1, <5>1
        <5> QED BY <4>2, <5>2
      <4> QED BY <4>1, <4>2
    <3>2. (f.rampStart = {} <=> built.rampStart = {}) /\ (f.flash = {} <=> built.flash = {})
      BY <1>2
    <3> QED BY <3>1, <3>2
  <2>2. ASSUME NEW start \in f.rampStart, NEW flash \in f.flash
        PROVE  start < flash
    <3>1. PICK p \in pairs : start = Rounded(p[1])
      BY <1>1, <1>2
    <3>2. PICK q \in pairs : flash = Rounded(q[2])
      BY <1>1, <1>2
    <3>3. p[1] \in Int /\ p[2] \in Int /\ p[1] < p[2] /\ q[2] = p[2]
      BY <1>3, OnePair
    <3>4. Rounded(p[1]) <= Rounded(p[2]) /\ Rounded(p[1]) \in Int /\ Rounded(p[2]) \in Int
      BY <3>3, RoundingIsMonotone
    <3>5. Rounded(p[1]) # Rounded(p[2])
      BY <1>3 DEF Collapsed
    <3> QED BY <3>1, <3>2, <3>3, <3>4, <3>5
  <2> QED BY <2>1, <2>2 DEF RampOrdered
<1>7. Validate(f) = "accepted"
  BY <1>1, <1>2, <1>4, <1>5, <1>6, FrameToGlassAssumption DEF Validate
<1> QED BY <1>7 DEF f, built

LEMMA MessageIsBelieved ==
    ASSUME NEW source \in Readings,
           ~(Message(source).frame.status = "live" /\ Collapsed(source))
    PROVE  Validate(Message(source).frame) = "accepted"
<1>1. Message(source).frame = OnTheWire(Build(source, 0))
  BY StatusOnTheWire
<1>2. CASE \E status \in Status \ {"live"} : \E title : Build(source, 0) = Blank(status, title, 0)
  BY <1>1, <1>2, BlankIsBelieved
<1>3. CASE \E title : Build(source, 0) = BuildFrame(source, title, 0)
  <2>1. \A title : OnTheWire(BuildFrame(source, title, 0)).status = "live"
    BY DEF OnTheWire, BuildFrame, Blank
  <2>2. Message(source).frame.status = "live"
    BY <1>1, <1>3, <2>1
  <2> QED BY <1>1, <1>3, <2>2, LiveIsBelieved
<1> QED BY <1>2, <1>3, KindsOfFrame

-----------------------------------------------------------------------------
(***************************************************************************)
(* What the driving screen can look like.                                  *)
(***************************************************************************)

\* A spelling names one gear.
LEMMA OneGear == \A raw : \A g, h \in NormaliseGear(raw) : g = h
<1> DEFINE Named(raw) ==
              IF raw \in {"R", "r"} THEN -1
              ELSE IF raw \in {"N", "n", "0"} THEN 0
              ELSE IF raw = "1" THEN 1 ELSE IF raw = "2" THEN 2 ELSE IF raw = "3" THEN 3
              ELSE IF raw = "4" THEN 4 ELSE IF raw = "5" THEN 5 ELSE IF raw = "6" THEN 6
              ELSE IF raw = "7" THEN 7 ELSE IF raw = "8" THEN 8 ELSE 9
<1>1. ASSUME NEW gear \in -1 .. 9, NEW raw \in Spellings(gear) PROVE gear = Named(raw)
  <2>1. CASE gear = -1
    BY <2>1 DEF Spellings
  <2>2. CASE gear = 0
    BY <2>2 DEF Spellings
  <2>3. CASE gear \in 1 .. 9
    <3>1. raw = Digits[gear]
      BY <2>3 DEF Spellings
    <3>2. gear \in {1, 2, 3, 4, 5, 6, 7, 8, 9}
      BY <2>3
    <3> QED BY <3>1, <3>2 DEF Digits
  <2> QED BY <2>1, <2>2, <2>3
<1> HIDE DEF Named
<1>2. ASSUME NEW raw, NEW g \in NormaliseGear(raw) PROVE g = Named(raw)
  BY <1>1 DEF NormaliseGear
<1> QED BY <1>2

\* The gear of a frame is a known one, or none.
LEMMA GearIsPlain ==
    ASSUME NEW source \in Readings
    PROVE  LET gear == Message(source).frame.gear
           IN  gear \subseteq GearDomain /\ \A g, h \in gear : g = h
<1>1. Message(source).frame.gear = Build(source, 0).gear
  <2>1. \A status, title : OnTheWire(Blank(status, title, 0)).gear = Blank(status, title, 0).gear
    BY DEF OnTheWire, Blank
  <2>2. \A title : OnTheWire(BuildFrame(source, title, 0)).gear = BuildFrame(source, title, 0).gear
    BY DEF OnTheWire, BuildFrame, Blank
  <2> QED BY <2>1, <2>2, StatusOnTheWire, KindsOfFrame
<1>2. CASE \E status \in Status \ {"live"} : \E title : Build(source, 0) = Blank(status, title, 0)
  <2>1. \A status, title : Blank(status, title, 0).gear = {}
    BY DEF Blank
  <2> QED BY <1>1, <1>2, <2>1
<1>3. CASE \E title : Build(source, 0) = BuildFrame(source, title, 0)
  <2>1. \A title : BuildFrame(source, title, 0).gear = UNION {NormaliseGear(raw) : raw \in source.gear}
    BY DEF BuildFrame, Blank
  <2>2. Message(source).frame.gear = UNION {NormaliseGear(raw) : raw \in source.gear}
    BY <1>1, <1>3, <2>1
  <2>3. \A raw : NormaliseGear(raw) \subseteq GearDomain
    BY DEF NormaliseGear, GearDomain
  <2> QED BY <2>2, <2>3, OneGear, EveryReading
<1> QED BY <1>2, <1>3, KindsOfFrame

\* The regions of a picture.
LEMMA RenderingParts ==
    ASSUME NEW s, NEW t
    PROVE  /\ DOMAIN Rendering(s, t) = Regions
           /\ Rendering(s, t)["bands"] = Paint(Background(s, t))
           /\ Rendering(s, t)["gear"] = Paint(s.gear)
           /\ Rendering(s, t)["left"] = Paint(s.barLeft)
           /\ Rendering(s, t)["right"] = Paint(s.barRight)
BY DEF Rendering, Regions

\* The parts of the display state behind the driving screen.
LEMMA DrivingParts ==
    ASSUME NEW f
    PROVE  LET s == Derive(f, "driving")
           IN  /\ s.gear = f.gear \cap GearDomain
               /\ s.shift = ShiftPhase(f)
               /\ s.barLeft = BarLit(f.spotterLeft)
               /\ s.barRight = BarLit(f.spotterRight)
BY DEF Derive

\* A frame with one gear at most gives a picture.
LEMMA DrivingIsPicture ==
    ASSUME NEW f, \A g, h \in f.gear : g = h, NEW t
    PROVE  IsPicture(Rendering(Derive(f, "driving"), t))
<1> DEFINE s == Derive(f, "driving")
           picture == Rendering(s, t)
<1>1. /\ DOMAIN picture = Regions
      /\ picture["bands"] = Paint(Background(s, t)) /\ picture["gear"] = Paint(s.gear)
      /\ picture["left"] = Paint(s.barLeft) /\ picture["right"] = Paint(s.barRight)
  BY RenderingParts
<1>2. /\ s.gear = f.gear \cap GearDomain
      /\ s.barLeft = BarLit(f.spotterLeft) /\ s.barRight = BarLit(f.spotterRight)
  BY DrivingParts
<1> HIDE DEF s, picture
<1>3. Background(s, t) \in {"black", "green", "yellow", "amber", "red"}
  BY DEF Background, RampColour
<1>4. s.gear = {} \/ \E g \in GearDomain : s.gear = {g}
  BY <1>2
<1>5. \A spotter : BarLit(spotter) \in BOOLEAN
  BY DEF BarLit
<1>6. picture["gear"] \in {Paint({})} \cup {Paint({g}) : g \in GearDomain}
  BY <1>1, <1>4
<1>7. IsPicture(picture)
  BY <1>1, <1>2, <1>3, <1>5, <1>6 DEF IsPicture
<1> QED BY <1>7 DEF picture, s

-----------------------------------------------------------------------------
(***************************************************************************)
(* What the driving screen says of the reading.                            *)
(***************************************************************************)

\* A live frame is of a reading that an adapter mapped.
LEMMA LiveFrame ==
    ASSUME NEW source \in Readings, Message(source).frame.status = "live"
    PROVE  LET f == Message(source).frame
           IN  /\ f.rpm = {Rounded(rpm) : rpm \in {r \in source.rpm : r >= 0}}
               /\ f.rampStart = {Rounded(v) : v \in {pair[1] : pair \in Pairs(source)}}
               /\ f.flash = {Rounded(v) : v \in {pair[2] : pair \in Pairs(source)}}
               /\ f.spotterLeft = LeftFromEnum(CarLeftRight(source.proximity))
               /\ f.spotterRight = RightFromEnum(CarLeftRight(source.proximity))
<1>1. \A status, title : OnTheWire(Blank(status, title, 0)).status = status
  BY DEF OnTheWire, Blank
<1>2. PICK title : Message(source).frame = OnTheWire(BuildFrame(source, title, 0))
  BY <1>1, StatusOnTheWire, KindsOfFrame
<1>3. LET f == OnTheWire(BuildFrame(source, title, 0))
      IN  /\ f.rpm = {Rounded(rpm) : rpm \in {r \in source.rpm : r >= 0}}
          /\ f.rampStart = {Rounded(v) : v \in {pair[1] : pair \in Pairs(source)}}
          /\ f.flash = {Rounded(v) : v \in {pair[2] : pair \in Pairs(source)}}
          /\ f.spotterLeft = LeftFromEnum(CarLeftRight(source.proximity))
          /\ f.spotterRight = RightFromEnum(CarLeftRight(source.proximity))
  BY DEF OnTheWire, BuildFrame, Blank, Pairs
<1> QED BY <1>2, <1>3

\* A bar is lit exactly for a car on its side.
LEMMA BarsTell ==
    ASSUME NEW source \in Readings
    PROVE  /\ BarLit(LeftFromEnum(CarLeftRight(source.proximity)))
                 <=> source.proximity \cap CarOnLeft # {}
           /\ BarLit(RightFromEnum(CarLeftRight(source.proximity)))
                 <=> source.proximity \cap CarOnRight # {}
<1> DEFINE v == CarLeftRight(source.proximity)
<1>1. source.proximity = {} => v = -1
  BY DEF CarLeftRight
<1>2. source.proximity # {} => source.proximity = {v}
  BY EveryReading DEF CarLeftRight
<1> HIDE DEF v
<1>3. (BarLit(LeftFromEnum(v)) <=> v \in CarOnLeft) /\ (BarLit(RightFromEnum(v)) <=> v \in CarOnRight)
  BY DEF BarLit, LeftFromEnum, RightFromEnum, CarOnLeft, CarOnRight
<1>4. -1 \notin CarOnLeft /\ -1 \notin CarOnRight
  BY DEF CarOnLeft, CarOnRight
<1>5. CASE source.proximity = {}
  BY <1>1, <1>3, <1>4, <1>5 DEF v
<1>6. CASE source.proximity # {}
  BY <1>2, <1>3, <1>6 DEF v
<1> QED BY <1>5, <1>6

\* What is not below another value on the wire is not a whole unit below it.
LEMMA RoundingIsClose ==
    ASSUME NEW v \in Int, NEW w \in Int, Rounded(v) >= Rounded(w)
    PROVE  v + WireUnit > w
<1>1. WireUnit \in Int /\ WireUnit > 0
  BY FrameSourceAssumption
<1>2. WireUnit \div 2 \in Int
  BY <1>1
<1>3. \A a, b \in Int : a \div WireUnit >= b \div WireUnit => a + WireUnit > b
  BY <1>1
<1> DEFINE half == WireUnit \div 2
<1>4. (v + half) \div WireUnit >= (w + half) \div WireUnit
  BY DEF Rounded
<1> HIDE DEF half
<1>5. half \in Int
  BY <1>2 DEF half
<1>6. (v + half) + WireUnit > w + half
  BY <1>3, <1>4, <1>5
<1> QED BY <1>1, <1>5, <1>6

\* Thresholds are positive.
LEMMA PairsArePositive ==
    ASSUME NEW source \in Readings PROVE \A pair \in Pairs(source) : pair[1] > 0
BY DEF Pairs, Resolve, NativePairs, RedlinePairs

\* Red means that the shift point was reached, up to the rounding; from the
\* shift point on the bands flash; without thresholds they are black.
LEMMA BandsTell ==
    ASSUME NEW source \in Readings, Message(source).frame.status = "live", NEW t
    PROVE  LET bands == Background(Derive(Message(source).frame, "driving"), t)
           IN  /\ bands = "red" =>
                     \E rpm \in source.rpm, pair \in Pairs(source) : rpm + WireUnit > pair[2]
               /\ \A rpm \in source.rpm, pair \in Pairs(source) :
                     rpm >= pair[2] => bands = IF FlashOn(t, FlashPeriod) THEN "red" ELSE "black"
               /\ Pairs(source) = {} => bands = "black"
<1> DEFINE f == Message(source).frame
           s == Derive(f, "driving")
           bands == Background(s, t)
<1>1. /\ f.rpm = {Rounded(rpm) : rpm \in {r \in source.rpm : r >= 0}}
      /\ f.rampStart = {Rounded(v) : v \in {pair[1] : pair \in Pairs(source)}}
      /\ f.flash = {Rounded(v) : v \in {pair[2] : pair \in Pairs(source)}}
  BY LiveFrame
<1>2. s.shift = ShiftPhase(f)
  BY DrivingParts
<1> HIDE DEF f, s
<1>3. /\ bands = "red" => s.shift = "flashing"
      /\ s.shift = "flashing" => bands = IF FlashOn(t, FlashPeriod) THEN "red" ELSE "black"
      /\ s.shift = "unavailable" => bands = "black"
  BY DEF Background, RampColour
<1> HIDE DEF bands
<1>4. ASSUME s.shift = "flashing"
      PROVE  \E rpm \in source.rpm, pair \in Pairs(source) : rpm + WireUnit > pair[2]
  <2>1. PICK onWire \in f.rpm, flash \in f.flash : onWire >= flash
    BY <1>2, <1>4 DEF ShiftPhase
  <2>2. PICK rpm \in source.rpm : onWire = Rounded(rpm)
    BY <1>1, <2>1
  <2>3. PICK pair \in Pairs(source) : flash = Rounded(pair[2])
    BY <1>1, <2>1
  <2>4. rpm + WireUnit > pair[2]
    BY <2>1, <2>2, <2>3, RoundingIsClose, EveryReading, OnePair
  <2> QED BY <2>4
<1>5. ASSUME NEW rpm \in source.rpm, NEW pair \in Pairs(source), rpm >= pair[2]
      PROVE  s.shift = "flashing"
  <2>1. pair[1] \in Int /\ pair[2] \in Int /\ pair[1] > 0 /\ pair[1] < pair[2] /\ rpm \in Int
    BY OnePair, PairsArePositive, EveryReading
  <2>2. rpm >= 0
    BY <1>5, <2>1
  <2>3. Rounded(rpm) \in f.rpm /\ Rounded(pair[1]) \in f.rampStart /\ Rounded(pair[2]) \in f.flash
    BY <1>1, <2>2
  <2>4. Rounded(rpm) >= Rounded(pair[2])
    <3>1. CASE rpm = pair[2]
      BY <2>1, <3>1, RoundingIsMonotone
    <3>2. CASE pair[2] < rpm
      BY <2>1, <3>2, RoundingIsMonotone
    <3> QED BY <1>5, <2>1, <3>1, <3>2
  <2> QED BY <1>2, <2>3, <2>4 DEF ShiftPhase
<1>6. ASSUME Pairs(source) = {} PROVE s.shift = "unavailable"
  <2>1. f.rampStart = {}
    BY <1>1, <1>6
  <2> QED BY <1>2, <2>1 DEF ShiftPhase
<1> QED BY <1>3, <1>4, <1>5, <1>6 DEF bands, s, f

-----------------------------------------------------------------------------
(***************************************************************************)
(* The invariant.                                                          *)
(***************************************************************************)

LEMMA AtTheStart == Init => IInv
<1> SUFFICES ASSUME Init PROVE IInv
  OBVIOUS
<1>1. Messages
  BY DEF Init, Messages
<1>2. NothingShown \notin LinkState
  BY DEF NothingShown, LinkState
<1>3. PICK glass : panel = [glass |-> glass, cached |-> Invalid,
                            shown |-> NothingShown, offerShown |-> FALSE]
  BY DEF Init, DrawMessage, FillScreen
<1>4. Trust(panel)
  BY <1>2, <1>3 DEF Trust, Blinds, LinkState
<1>5. Shaped(panel)
  BY <1>3 DEF Shaped, Invalid
<1>6. GlassHeld
  BY <1>2, <1>4, <1>5 DEF Init, GlassHeld, Blinds, LinkState
<1>7. LiveHeld
  BY <1>2 DEF Init, LiveHeld, AtMostOne, NothingShown
<1>8. CacheHeld
  BY <1>3 DEF Init, CacheHeld, Invalid
<1> QED BY <1>1, <1>6, <1>7, <1>8 DEF IInv

LEMMA BuildingKeeps == ASSUME IInv, NEW source \in Readings, DataUpdate(source) PROVE IInv'
<1>1. inbox' \in {inbox, {Message(source)}} /\ UNCHANGED <<newest, peer, state, now, panel>>
  BY DEF DataUpdate
<1>2. Messages'
  <2>1. Message(source).source = source
    BY KindsOfFrame
  <2> QED BY <1>1, <2>1 DEF IInv, Messages
<1>3. GlassHeld'
  BY <1>1 DEF IInv, GlassHeld, Trust, Shaped
<1>4. LiveHeld'
  BY <1>1 DEF IInv, LiveHeld, AtMostOne
<1>5. CacheHeld'
  BY <1>1 DEF IInv, CacheHeld
<1> QED BY <1>2, <1>3, <1>4, <1>5 DEF IInv

\* An iteration comes to the choice of screen with a panel that is prepared.
Paints(link, ready) ==
    /\ link \in {"joining", "unresolved", "versionMismatch", "unreachable", "drivingPending", "stale"}
                  \cup {FreshLink(m.frame.status) : m \in Polled}
    /\ Prepared(panel, link, ready)
    /\ panel' = ShowLink(ready, link, Text(Polled, peer'), Derive(FrameOf(Polled), link), now')
    /\ inbox' = {} /\ newest' = Polled /\ state' = link

LEMMA IterationPaints ==
    ASSUME IInv, Iterate
    PROVE  \E link \in LinkState : \E ready : Paints(link, ready)
<1>1. PICK refused \in {{}} \cup {{version} : version \in Peers}, later \in 0 .. FlashPeriod - 1 :
         \E link \in Possible(Polled, refused, peer'), relit \in BOOLEAN, lapsed \in Lapses(panel) :
            \E answer \in Answers(lapsed, link) :
               LET touched == Touched(lapsed, answer)
                   lit     == IF relit THEN Relit(touched) ELSE touched
               IN  /\ inbox' = {} /\ newest' = Polled /\ state' = link /\ now' = later
                   /\ \E ready \in {lit} \cup (IF answer = "sent" THEN {Confirmed(lit)} ELSE {}) :
                         panel' = ShowLink(ready, link, Text(Polled, peer'),
                                           Derive(FrameOf(Polled), link), later)
  BY DEF Iterate
<1>2. PICK link \in Possible(Polled, refused, peer'), relit \in BOOLEAN, lapsed \in Lapses(panel) :
         \E answer \in Answers(lapsed, link) :
            LET touched == Touched(lapsed, answer)
                lit     == IF relit THEN Relit(touched) ELSE touched
            IN  /\ inbox' = {} /\ newest' = Polled /\ state' = link /\ now' = later
                /\ \E ready \in {lit} \cup (IF answer = "sent" THEN {Confirmed(lit)} ELSE {}) :
                      panel' = ShowLink(ready, link, Text(Polled, peer'),
                                        Derive(FrameOf(Polled), link), later)
  BY <1>1
<1>3. PICK answer \in Answers(lapsed, link) :
         LET touched == Touched(lapsed, answer)
             lit     == IF relit THEN Relit(touched) ELSE touched
         IN  /\ inbox' = {} /\ newest' = Polled /\ state' = link /\ now' = later
             /\ \E ready \in {lit} \cup (IF answer = "sent" THEN {Confirmed(lit)} ELSE {}) :
                   panel' = ShowLink(ready, link, Text(Polled, peer'),
                                     Derive(FrameOf(Polled), link), later)
  BY <1>2
<1> DEFINE lit == IF relit THEN Relit(Touched(lapsed, answer)) ELSE Touched(lapsed, answer)
           derived == Derive(FrameOf(Polled), link)
           text == Text(Polled, peer')
<1>4. PICK ready \in {lit} \cup (IF answer = "sent" THEN {Confirmed(lit)} ELSE {}) :
         panel' = ShowLink(ready, link, text, derived, later)
  BY <1>3
<1>5. lit \in {Touched(lapsed, answer), Relit(Touched(lapsed, answer))}
  OBVIOUS
<1> HIDE DEF lit, derived, text
<1>6. Prepared(panel, link, ready)
  BY <1>4, <1>5, BeforeTheChoice DEF IInv, GlassHeld
<1>7. inbox' = {} /\ newest' = Polled /\ state' = link /\ now' = later
  BY <1>3
<1>8. link \in {"joining", "unresolved", "versionMismatch", "unreachable", "drivingPending", "stale"}
          \cup {FreshLink(m.frame.status) : m \in Polled}
  <2>1. link \in {"joining", "unresolved"} \cup {"versionMismatch"}
           \cup ({"unreachable"} \cup ({"drivingPending"} \cup ({"stale"}
                   \cup {FreshLink(m.frame.status) : m \in Polled})))
    BY DEF Possible
  <2> QED BY <2>1
<1>9. link \in LinkState
  <2>1. \A m \in Polled : m.frame.status \in Status
    BY StatusOnTheWire DEF IInv, Messages, Polled, Believed
  <2>2. \A status \in Status : FreshLink(status) \in LinkState
    BY DEF Status, FreshLink, LinkState
  <2> QED BY <1>8, <2>1, <2>2 DEF LinkState
<1>10. Paints(link, ready)
  BY <1>4, <1>6, <1>7, <1>8 DEF Paints, derived, text
<1> QED BY <1>9, <1>10

LEMMA IteratingKeeps == ASSUME IInv, Iterate PROVE IInv'
<1>0. PICK link \in LinkState : \E ready : Paints(link, ready)
  BY IterationPaints
<1>1. PICK ready : Paints(link, ready)
  BY <1>0
<1> DEFINE derived == Derive(FrameOf(Polled), link)
           text == Text(Polled, peer')
<1>3. panel' = ShowLink(ready, link, text, derived, now')
  BY <1>1 DEF Paints
<1> HIDE DEF derived, text
<1>5. /\ Shaped(ready) /\ ready.cached \in {panel.cached, Invalid}
      /\ Trust(ready) \/ OfferStands(ready, link)
  BY <1>1 DEF Paints, Prepared
<1>6. inbox' = {} /\ newest' = Polled /\ state' = link
  BY <1>1 DEF Paints
<1>7. Messages'
  BY <1>6 DEF IInv, Messages, Polled, Believed
<1>9. link \in LinkState
  OBVIOUS
<1>12. LiveHeld'
  <2>1. AtMostOne(inbox') /\ AtMostOne(newest')
    BY <1>6 DEF IInv, LiveHeld, AtMostOne, Polled, Believed
  <2>2. ASSUME link = "driving", NEW m \in Polled PROVE m.frame.status = "live"
    <3>1. link \in {"joining", "unresolved", "versionMismatch", "unreachable", "drivingPending", "stale"}
             \cup {FreshLink(n.frame.status) : n \in Polled}
      BY <1>1 DEF Paints
    <3>2. PICK n \in Polled : FreshLink(n.frame.status) = "driving"
      BY <2>2, <3>1
    <3>3. n = m /\ n.frame.status \in Status
      BY <1>6, <2>1, StatusOnTheWire DEF AtMostOne, IInv, Messages, Polled, Believed
    <3> QED BY <3>2, <3>3 DEF FreshLink, Status
  <2> QED BY <1>6, <2>1, <2>2 DEF LiveHeld
<1>10. CASE link = "driving"
  <2> DEFINE q == ShowLink(ready, "driving", text, derived, now')
  <2>1. q.glass = Rendering(derived, now') /\ Shaped(q) /\ Trust(q) /\ q.shown = "driving"
    <3>1. Trust(ready)
      BY <1>5, <1>10 DEF OfferStands
    <3>2. Drives(ready, derived, now', q)
      BY <1>5, <3>1, DrivingIsWhole
    <3> QED BY <3>2 DEF Drives
  <2>2. panel' = q
    BY <1>3, <1>10
  <2> HIDE DEF q
  <2>3. GlassHeld'
    BY <1>6, <1>9, <1>10, <2>1, <2>2 DEF GlassHeld, Trust, Shaped, Blinds, derived
  <2>4. CacheHeld'
    <3>1. \A g, h \in FrameOf(Polled).gear : g = h
      <4>1. \A m \in Polled : \A g, h \in m.frame.gear : g = h
        BY GearIsPlain DEF IInv, Messages, Polled, Believed
      <4>2. Blank("noSim", {}, 0).gear = {}
        BY DEF Blank
      <4> QED BY <4>1, <4>2 DEF FrameOf
    <3>2. IsPicture(Rendering(derived, now'))
      BY <1>10, <3>1, DrivingIsPicture DEF derived
    <3>3. q.cached.valid => q.cached.picture = Rendering(derived, now')
      BY <2>1 DEF Trust
    <3> QED BY <1>6, <1>10, <2>1, <2>2, <3>2, <3>3 DEF CacheHeld
  <2> QED BY <1>7, <1>12, <2>3, <2>4 DEF IInv
<1>11. CASE link # "driving"
  <2> DEFINE q == ShowLink(ready, link, text, derived, now')
  <2>1. link \in Blinds
    BY <1>9, <1>11 DEF Blinds
  <2>2. /\ Shaped(q) /\ Trust(q) /\ q.shown = link /\ q.cached \in {ready.cached, Invalid}
        /\ q.offerShown = ready.offerShown
    <3>1. Shows(ready, link, text, q)
      BY <1>5, <2>1, BlindIsWhole
    <3> QED BY <3>1 DEF Shows
  <2>3. panel' = q
    BY <1>3
  <2> HIDE DEF q
  <2>4. GlassHeld'
    BY <1>6, <1>9, <1>11, <2>2, <2>3 DEF GlassHeld, Trust, Shaped, Blinds, OfferStands
  <2>5. CacheHeld'
    <3>1. q.cached \in {panel.cached, Invalid}
      BY <1>5, <2>2
    <3>2. ~Invalid.valid
      BY DEF Invalid
    <3> QED BY <1>6, <2>2, <2>3, <3>1, <3>2 DEF IInv, CacheHeld
  <2> QED BY <1>7, <1>12, <2>4, <2>5 DEF IInv
<1> QED BY <1>10, <1>11

\* What the renderer and the loop believe holds between any two steps of plugin
\* and panel (panel.cpp, firmware.ino, FrameBuilder.cs).
THEOREM Invariance == Spec => []IInv
<1>1. Init => IInv
  BY AtTheStart
<1>2. IInv /\ [Next]_vars => IInv'
  <2> SUFFICES ASSUME IInv, [Next]_vars PROVE IInv'
    OBVIOUS
  <2>1. CASE UNCHANGED vars
    BY <2>1 DEF vars, IInv, Messages, GlassHeld, Shaped, Trust, OfferStands,
                    LiveHeld, CacheHeld, AtMostOne
  <2> QED BY <2>1, BuildingKeeps, IteratingKeeps DEF Next
<1> QED BY <1>1, <1>2, PTL DEF Spec

-----------------------------------------------------------------------------

\* Every variable keeps its type: in particular a cache the renderer trusts was
\* painted by it, and only titles that have an adapter are reported
\* (panel.cpp, FrameBuilder.cs).
THEOREM TypeCorrect == Spec => []TypeOK
<1> DEFINE Ranges == /\ faultedTitle \in SUBSET Supported
                     /\ peer \in SUBSET Peers
                     /\ now \in 0 .. FlashPeriod - 1
<1>1. Init => Ranges
  BY FlashAssumption DEF Init
<1>2. Ranges /\ [Next]_vars => Ranges'
  <2> SUFFICES ASSUME Ranges, [Next]_vars PROVE Ranges'
    OBVIOUS
  <2>1. ASSUME NEW source \in Readings, DataUpdate(source) PROVE Ranges'
    BY <2>1 DEF DataUpdate, Latch, Select
  <2>2. CASE Iterate
    <3>1. PICK refused \in {{}} \cup {{version} : version \in Peers}, later \in 0 .. FlashPeriod - 1 :
             peer' = (IF refused = {} THEN peer ELSE refused) /\ now' = later /\ faultedTitle' = faultedTitle
      BY <2>2 DEF Iterate
    <3> QED BY <3>1
  <2>3. CASE UNCHANGED vars
    BY <2>3 DEF vars
  <2> QED BY <2>1, <2>2, <2>3 DEF Next
<1>3. IInv /\ Ranges => TypeOK
  BY DEF IInv, Messages, GlassHeld, Shaped, CacheHeld, TypeOK
<1> HIDE DEF Ranges
<1> QED BY <1>1, <1>2, <1>3, Invariance, PTL DEF Spec

\* What the driving screen says is true of the reading it was made from: the
\* bars, the flash from the shift point on and only from there up to the
\* rounding, and the black bands without thresholds (IRacingAdapter.cs,
\* ShiftThresholds.cs, Frame.cs, display_state.cpp, panel.cpp).
THEOREM TheGlassIsTrue == Spec => []GlassTellsTheSim
<1>1. IInv => GlassTellsTheSim
  <2> SUFFICES ASSUME IInv, state = "driving", NEW m \in newest
               PROVE  LET reading == m.source
                      IN  /\ panel.glass["left"] = Paint(reading.proximity \cap CarOnLeft # {})
                          /\ panel.glass["right"] = Paint(reading.proximity \cap CarOnRight # {})
                          /\ panel.glass["bands"] = Paint("red") =>
                                \E rpm \in reading.rpm, pair \in Pairs(reading) : rpm + WireUnit > pair[2]
                          /\ \A rpm \in reading.rpm, pair \in Pairs(reading) :
                                rpm >= pair[2] =>
                                    panel.glass["bands"] = Paint(IF FlashOn(now, FlashPeriod) THEN "red" ELSE "black")
                          /\ Pairs(reading) = {} => panel.glass["bands"] = Paint("black")
    BY DEF GlassTellsTheSim
  <2>1. m.source \in Readings /\ m = Message(m.source) /\ m.frame.status = "live"
    BY DEF IInv, Messages, LiveHeld
  <2>2. FrameOf(newest) = m.frame
    BY DEF IInv, LiveHeld, AtMostOne, FrameOf
  <2>3. panel.glass = Rendering(Derive(m.frame, "driving"), now)
    BY <2>2 DEF IInv, GlassHeld
  <2> DEFINE s == Derive(m.frame, "driving")
  <2>4. /\ panel.glass["bands"] = Paint(Background(s, now))
        /\ panel.glass["left"] = Paint(BarLit(m.frame.spotterLeft))
        /\ panel.glass["right"] = Paint(BarLit(m.frame.spotterRight))
    BY <2>3, RenderingParts, DrivingParts
  <2>5. /\ m.frame.spotterLeft = LeftFromEnum(CarLeftRight(m.source.proximity))
        /\ m.frame.spotterRight = RightFromEnum(CarLeftRight(m.source.proximity))
    BY <2>1, LiveFrame
  <2>6. \A c, d : Paint(c) = Paint(d) => c = d
    BY DEF Paint
  <2>7. /\ Background(s, now) = "red" =>
              \E rpm \in m.source.rpm, pair \in Pairs(m.source) : rpm + WireUnit > pair[2]
        /\ \A rpm \in m.source.rpm, pair \in Pairs(m.source) :
              rpm >= pair[2] => Background(s, now) = IF FlashOn(now, FlashPeriod) THEN "red" ELSE "black"
        /\ Pairs(m.source) = {} => Background(s, now) = "black"
    BY <2>1, BandsTell
  <2> HIDE DEF s
  <2>8. /\ panel.glass["left"] = Paint(m.source.proximity \cap CarOnLeft # {})
        /\ panel.glass["right"] = Paint(m.source.proximity \cap CarOnRight # {})
    <3>1. \A spotter : BarLit(spotter) \in BOOLEAN
      BY DEF BarLit
    <3>2. /\ BarLit(m.frame.spotterLeft) = (m.source.proximity \cap CarOnLeft # {})
          /\ BarLit(m.frame.spotterRight) = (m.source.proximity \cap CarOnRight # {})
      BY <2>1, <2>5, <3>1, BarsTell
    <3> QED BY <2>4, <3>2
  <2> QED BY <2>4, <2>6, <2>7, <2>8
<1> QED BY <1>1, Invariance, PTL

\* Every frame the plugin makes of any reading is believed by the panel, unless
\* two thresholds are one on the wire (FrameBuilder.cs, IRacingAdapter.cs,
\* ShiftThresholds.cs against validate() in display_state.cpp).
THEOREM FramesAreBelieved == Spec => []FrameIsBelieved
<1>1. IInv => FrameIsBelieved
  <2> SUFFICES ASSUME IInv, NEW m \in inbox, ~(m.frame.status = "live" /\ Collapsed(m.source))
               PROVE  Validate(m.frame) = "accepted"
    BY DEF FrameIsBelieved
  <2>1. m.source \in Readings /\ m = Message(m.source)
    BY DEF IInv, Messages
  <2> QED BY <2>1, MessageIsBelieved
<1> QED BY <1>1, Invariance, PTL

\* Repainting only what is dirty leaves on the glass what a full repaint would,
\* whatever screens, offers, confirmations and dark spells came before
\* (drawDriving() and invalidate() in panel.cpp, loop() in firmware.ino).
THEOREM PartialRepaintIsFull == Spec => []GlassIsExact
<1>1. IInv => GlassIsExact
  BY DEF IInv, GlassHeld, GlassIsExact
<1> QED BY <1>1, Invariance, PTL

\* No two conditions look alike, and what the panel is in is what it shows, on
\* the whole glass (drawLinkIcon() in panel.cpp, loop() in firmware.ino).
THEOREM ConditionsAreTold == Spec => []GlassNamesTheCondition
<1>1. ASSUME NEW a \in Blinds, NEW b \in Blinds, LinkIcon(a) = LinkIcon(b)
      PROVE  a = b
  BY <1>1 DEF Blinds, LinkState, LinkIcon, Fan, Shape
<1>2. IInv => GlassNamesTheCondition
  <2> SUFFICES ASSUME IInv, state \notin {"driving", NothingShown},
                      ~(panel.offerShown /\ state = "unreachable")
               PROVE  /\ \A r, s \in Regions : panel.glass[r] = panel.glass[s]
                      /\ {link \in LinkState \ {"driving"} :
                             LinkIcon(link) = panel.glass["bands"].icon} = {state}
    BY DEF GlassNamesTheCondition
  <2>1. PICK text : state \in Blinds /\ panel.glass = Whole(state, text)
    BY DEF IInv, GlassHeld, Blinds, OfferStands
  <2>2. \A r \in Regions : panel.glass[r] = Screen(LinkIcon(state), LinkLine(state, text))
    BY <2>1 DEF Whole
  <2>3. panel.glass["bands"].icon = LinkIcon(state)
    BY <2>2 DEF Regions, Screen
  <2> QED BY <1>1, <2>1, <2>2, <2>3 DEF Blinds
<1> QED BY <1>2, Invariance, PTL

-----------------------------------------------------------------------------
(***************************************************************************)
(* The renderer that remembers nothing.  An instance has operators of its  *)
(* own: they are the same.                                                 *)
(***************************************************************************)

LEMMA SameScreens ==
    /\ Plain!Regions = Regions /\ Plain!LinkState = LinkState /\ Plain!NothingShown = NothingShown
    /\ Plain!NoIcon = NoIcon
    /\ \A screen : Plain!Filled(screen) = [r \in Regions |-> screen]
    /\ \A icon, line : Plain!Screen(icon, line) = Screen(icon, line)
    /\ \A link : Plain!LinkIcon(link) = LinkIcon(link) /\ Plain!PlainLine(link) = PlainLine(link)
    /\ \A link, text : Plain!LinkLine(link, text) = LinkLine(link, text)
BY DEF Plain!Regions, Regions, Plain!LinkState, LinkState, Plain!NothingShown, NothingShown,
       Plain!NoIcon, NoIcon, Plain!Screen, Screen, Plain!LinkIcon, LinkIcon,
       Plain!LinkLine, LinkLine, Plain!PlainLine, PlainLine, Plain!Shape, Shape, Plain!Fan, Fan, Plain!Filled

LEMMA SameDerive == \A f, link : Plain!Derive(f, link) = Derive(f, link)
<1> SUFFICES ASSUME NEW f, NEW link PROVE Plain!Derive(f, link) = Derive(f, link)
  OBVIOUS
<1>1. Plain!ShiftPhase(f) = ShiftPhase(f)
  BY DEF Plain!ShiftPhase, ShiftPhase
<1>2. \A a, b, c : Plain!RampPosition(a, b, c) = RampPosition(a, b, c)
  BY DEF Plain!RampPosition, RampPosition
<1>3. \A spotter : Plain!BarLit(spotter) = BarLit(spotter)
  BY DEF Plain!BarLit, BarLit
<1>4. Plain!GearDomain = GearDomain
  BY DEF Plain!GearDomain, GearDomain
<1> QED BY <1>1, <1>2, <1>3, <1>4 DEF Plain!Derive, Derive

LEMMA SameRendering == \A s, t : Plain!Rendering(s, t) = Rendering(s, t)
<1> SUFFICES ASSUME NEW s, NEW t PROVE Plain!Rendering(s, t) = Rendering(s, t)
  OBVIOUS
<1> DEFINE plain(r) == CASE r = "bands" -> Plain!Paint(Plain!Background(s, t))
                         [] r = "gear"  -> Plain!Paint(s.gear)
                         [] r = "left"  -> Plain!Paint(s.barLeft)
                         [] r = "right" -> Plain!Paint(s.barRight)
           piece(r) == CASE r = "bands" -> Paint(Background(s, t))
                         [] r = "gear"  -> Paint(s.gear)
                         [] r = "left"  -> Paint(s.barLeft)
                         [] r = "right" -> Paint(s.barRight)
<1>1. Plain!Background(s, t) = Background(s, t)
  BY DEF Plain!Background, Background, Plain!RampColour, RampColour, Plain!FlashOn, FlashOn
<1>2. \A x : Plain!Paint(x) = Paint(x)
  BY DEF Plain!Paint, Paint
<1>3. \A r \in Regions : plain(r) = piece(r)
  BY <1>1, <1>2 DEF Regions
<1>4. Plain!Rendering(s, t) = [r \in Regions |-> plain(r)]
  BY SameScreens DEF Plain!Rendering
<1>5. Rendering(s, t) = [r \in Regions |-> piece(r)]
  BY DEF Rendering
<1> HIDE DEF plain, piece
<1> QED BY <1>3, <1>4, <1>5

\* An iteration is a repaint of the whole glass.
LEMMA IterationRepaints == ASSUME IInv, Iterate PROVE Plain!Repaint
<1>1. PICK link \in LinkState : \E ready : Paints(link, ready)
  BY IterationPaints
<1>2. PICK ready : Paints(link, ready)
  BY <1>1
<1> DEFINE frame == FrameOf(Polled)
           text == Text(Polled, peer')
           derived == Derive(frame, link)
           offering == OfferStands(ready, link) /\ ready.glass = OfferScreen
<1>3. state' = link /\ FrameOf(newest)' = frame
  BY <1>2 DEF FrameOf, Paints
<1>4. /\ Shaped(ready)
      /\ Trust(ready) \/ OfferStands(ready, link)
      /\ ~offering => (ready.offerShown => panel.offerShown /\ ready.glass = panel.glass)
      /\ Stays(panel, link, ready)
  BY <1>2 DEF Paints, Prepared
<1>5. panel' = ShowLink(ready, link, text, derived, now')
  BY <1>2 DEF Paints
<1>6. text = [title |-> FrameOf(newest)'.titleId, peer |-> peer']
  BY <1>3 DEF Text
<1> HIDE DEF frame, derived, text
<1>7. panel'.offerShown = ready.offerShown /\ ready.offerShown \in BOOLEAN
  <2>1. CASE link = "driving"
    <3>1. Trust(ready)
      BY <1>4, <2>1 DEF OfferStands
    <3>2. Drives(ready, derived, now', panel')
      BY <1>4, <1>5, <2>1, <3>1, DrivingIsWhole
    <3> QED BY <1>4, <3>2 DEF Drives, Shaped
  <2>2. CASE link # "driving"
    <3>1. Shows(ready, link, text, panel')
      BY <1>4, <1>5, <2>2, BlindIsWhole DEF Blinds
    <3> QED BY <1>4, <3>1 DEF Shows, Shaped
  <2> QED BY <2>1, <2>2
<1>8. /\ link = "driving" => panel'.glass = Rendering(Derive(frame, "driving"), now')
      /\ link # "driving" =>
            panel'.glass = IF OfferStands(ready, link) \/ link = ready.shown
                           THEN ready.glass ELSE Whole(link, text)
  <2>1. CASE link = "driving"
    <3>1. Trust(ready)
      BY <1>4, <2>1 DEF OfferStands
    <3>2. Drives(ready, derived, now', panel')
      BY <1>4, <1>5, <2>1, <3>1, DrivingIsWhole
    <3> QED BY <2>1, <3>2 DEF Drives, derived
  <2>2. CASE link # "driving"
    <3>1. Shows(ready, link, text, panel')
      BY <1>4, <1>5, <2>2, BlindIsWhole DEF Blinds
    <3> QED BY <2>2, <3>1 DEF Shows
  <2> QED BY <2>1, <2>2
<1>9. IF offering THEN panel'.offerShown /\ link = "unreachable"
                  ELSE panel'.offerShown => panel.offerShown
  BY <1>4, <1>7 DEF OfferStands
<1>10. ASSUME link # "driving", panel'.offerShown /\ link = "unreachable"
       PROVE  panel'.glass = IF offering THEN OfferScreen ELSE panel.glass
  BY <1>4, <1>7, <1>8, <1>10 DEF OfferStands
<1>11. ASSUME link # "driving", ~(panel'.offerShown /\ link = "unreachable")
       PROVE  \/ panel'.glass = Whole(link, text)
              \/ /\ panel'.glass = panel.glass /\ state' = state
                 /\ ~(panel.offerShown /\ state = "unreachable")
  <2>1. ~OfferStands(ready, link)
    BY <1>7, <1>11 DEF OfferStands
  <2>2. CASE link = ready.shown
    <3>1. ready.shown # NothingShown
      BY <2>2 DEF NothingShown, LinkState
    <3>2. ready.shown = panel.shown /\ ready.glass = panel.glass /\ ready.offerShown = panel.offerShown
      BY <1>4, <2>1, <3>1 DEF Stays
    <3>3. panel.shown = state
      BY DEF IInv, CacheHeld
    <3> QED BY <1>3, <1>8, <1>11, <2>1, <2>2, <3>2, <3>3 DEF OfferStands
  <2>3. CASE link # ready.shown
    BY <1>8, <1>11, <2>1, <2>3
  <2> QED BY <2>2, <2>3
<1>12. offering \in BOOLEAN
  OBVIOUS
<1> HIDE DEF offering
<1>13. /\ OfferScreen = Plain!Filled(Plain!Screen(Plain!NoIcon, Plain!PlainLine("unreachable")))
       /\ Whole(link, text) = Plain!Linked(link, text)
       /\ Rendering(Derive(frame, "driving"), now')
            = Plain!Rendering(Plain!Derive(frame, "driving"), now')
  BY SameScreens, SameDerive, SameRendering DEF OfferScreen, Whole, Plain!Linked
<1> QED BY <1>3, <1>6, <1>7, <1>8, <1>9, <1>10, <1>11, <1>12, <1>13, SameScreens DEF Plain!Repaint

\* Whatever is repainted or kept, the glass changes as if all of it were painted
\* in every iteration, up to the line of a link screen that stays up
\* (drawDriving() and invalidate() in panel.cpp, loop() in firmware.ino).
THEOREM NobodySeesTheCache == Spec => LooksRepainted
<1>1. Init => Plain!Init
  <2> SUFFICES ASSUME Init PROVE Plain!Init
    OBVIOUS
  <2>1. PICK start : start = [glass |-> <<>>, cached |-> Invalid,
                              shown |-> NothingShown, offerShown |-> FALSE]
    OBVIOUS
  <2> DEFINE boot == [r \in Regions |-> Screen(NoIcon, PlainLine("message"))]
  <2>2. panel = [start EXCEPT !.glass = boot]
    BY <2>1 DEF Init, DrawMessage, FillScreen
  <2> HIDE DEF boot
  <2>3. panel.glass = boot /\ ~panel.offerShown
    BY <2>1, <2>2
  <2>4. boot = Plain!Filled(Plain!Screen(Plain!NoIcon, Plain!PlainLine("message")))
    BY SameScreens DEF boot
  <2> QED BY <2>3, <2>4, SameScreens DEF Init, Plain!Init
<1>2. IInv /\ [Next]_vars => [Plain!Repaint]_(Plain!vars)
  <2> SUFFICES ASSUME IInv, [Next]_vars PROVE [Plain!Repaint]_(Plain!vars)
    OBVIOUS
  <2>1. CASE Iterate
    BY <2>1, IterationRepaints
  <2>2. ASSUME NEW source \in Readings, DataUpdate(source) PROVE UNCHANGED Plain!vars
    BY <2>2 DEF DataUpdate, Plain!vars, FrameOf
  <2>3. CASE UNCHANGED vars
    BY <2>3 DEF vars, Plain!vars, FrameOf
  <2> QED BY <2>1, <2>2, <2>3 DEF Next
<1> QED BY <1>1, <1>2, Invariance, PTL DEF Spec, LooksRepainted, Plain!Spec

\* The screens that the model lets the network choose from are all the screens
\* that the ladder can answer with, whatever its inputs: a mismatch that is
\* raised has a version, and a version that is refused raises one (deriveLink()
\* in display_state.cpp under loop() in firmware.ino).
THEOREM LadderStaysWithin ==
    ASSUME NEW in, NEW frames, in.everAccepted <=> frames # {},
           NEW refused, NEW known,
           in.versionRejected => known # {},
           refused # {} => in.versionRejected
    PROVE  DeriveLink(in, FrameOf(frames).status) \in Possible(frames, refused, known)
<1>1. CASE frames = {}
  BY <1>1 DEF DeriveLink, Possible
<1>2. CASE frames # {}
  <2>1. PICK m \in frames : FrameOf(frames) = m.frame
    BY <1>2 DEF FrameOf
  <2> QED BY <1>2, <2>1 DEF DeriveLink, Possible
<1> QED BY <1>1, <1>2
=============================================================================
