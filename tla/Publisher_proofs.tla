-------------------------- MODULE Publisher_proofs --------------------------
(***************************************************************************)
(* What the publisher's threads keep true of the device table, proved for  *)
(* any devices, addresses, traffic, forget period and setting of the wall  *)
(* clock.  IInv is the inductive invariant: TypeOK and three parts.        *)
(***************************************************************************)
EXTENDS Publisher, TLAPS

\* TypeOK's first conjunct says only that a domain exists; this one names it.
TableTyped == DOMAIN table \subseteq Devices /\ table \in [DOMAIN table -> Entry]

\* Register is the only writer of endpoints and registers the endpoint it
\* records; whoever Publish has still to send to has an entry.
Placed ==
    /\ \A d \in DOMAIN table : table[d].endPoint \in heard[d].from
    /\ targets \subseteq DOMAIN table

\* Why the listener stops: the loop's flag, the closed socket and the null
\* socket are all later than the flag's reset.
ListenerHeld ==
    /\ listener = "unborn" => ending = "no" /\ ~attached
    /\ listener # "unborn" /\ running => socket /\ bound
    /\ running => ending = "no"
    /\ listener \in {"exited", "faulted"} => ~running

\* A registration younger than the forget period has its entry, with its date;
\* an older one has none, or one that the next snapshot drops.
Dated ==
    \A d \in Devices : \A n \in heard[d].age :
       /\ n <= ForgetAfter => d \in DOMAIN table /\ SinceSeen(table[d], skew) = n
       /\ n > ForgetAfter /\ d \in DOMAIN table => SinceSeen(table[d], skew) > ForgetAfter

IInv == TypeOK /\ TableTyped /\ Placed /\ ListenerHeld /\ Dated

-----------------------------------------------------------------------------
(***************************************************************************)
(* The table's operators.                                                  *)
(***************************************************************************)

\* One entry more or less, at the source and with the date of the registration;
\* the others are left alone.
LEMMA RegisterFacts ==
    ASSUME NEW t, DOMAIN t \subseteq Devices, t \in [DOMAIN t -> Entry],
           NEW d \in Devices, NEW source \in Addrs, NEW s \in Skews
    PROVE  LET r == Register(t, d, source, s)
           IN  /\ DOMAIN r = DOMAIN t \cup {d}
               /\ r \in [DOMAIN r -> Entry]
               /\ r[d] = [endPoint |-> source, since |-> -s]
               /\ \A e \in DOMAIN t : e # d => r[e] = t[e]
<1> DEFINE r == Register(t, d, source, s)
<1>1. -s \in -MaxSkew .. Expired
  BY DeviceTableAssumption DEF Skews, Expired
<1>2. [endPoint |-> source, since |-> -s] \in Entry
  BY <1>1 DEF Entry
<1>3. DOMAIN r = DOMAIN t \cup {d}
  BY DEF Register
<1>4. r[d] = [endPoint |-> source, since |-> -s] /\ \A e \in DOMAIN t : e # d => r[e] = t[e]
  BY DEF Register
<1>5. r = [e \in DOMAIN r |-> r[e]]
  BY <1>3 DEF Register
<1>6. \A e \in DOMAIN r : r[e] \in Entry
  BY <1>2, <1>3, <1>4
<1>7. r \in [DOMAIN r -> Entry]
  <2> HIDE DEF r
  <2> QED BY <1>5, <1>6
<1> QED BY <1>3, <1>4, <1>7

\* ActiveDevices removes the expired entries and changes none.
LEMMA KeptFacts ==
    ASSUME NEW t, DOMAIN t \subseteq Devices, t \in [DOMAIN t -> Entry], NEW s \in Skews
    PROVE  LET k == Kept(t, s)
           IN  /\ DOMAIN k = ActiveDevices(t, s)
               /\ ActiveDevices(t, s) \subseteq DOMAIN t
               /\ k \in [DOMAIN k -> Entry]
               /\ \A e \in DOMAIN k : k[e] = t[e]
<1>1. ActiveDevices(t, s) \subseteq DOMAIN t
  BY DEF ActiveDevices
<1>2. DOMAIN Kept(t, s) = ActiveDevices(t, s) /\ \A e \in DOMAIN Kept(t, s) : Kept(t, s)[e] = t[e]
  BY DEF Kept
<1>3. Kept(t, s) \in [ActiveDevices(t, s) -> Entry]
  BY <1>1 DEF Kept
<1> QED BY <1>1, <1>2, <1>3

\* Time moves the dates of the entries and nothing else.
LEMMA AgedFacts ==
    ASSUME NEW t, DOMAIN t \subseteq Devices, t \in [DOMAIN t -> Entry]
    PROVE  /\ DOMAIN Aged(t) = DOMAIN t
           /\ Aged(t) \in [DOMAIN t -> Entry]
           /\ \A e \in DOMAIN t : /\ Aged(t)[e].endPoint = t[e].endPoint
                                  /\ Aged(t)[e].since = Older(t[e].since)
<1>1. \A e \in DOMAIN t : t[e] \in Entry
  OBVIOUS
<1>2. \A n \in -MaxSkew .. Expired : Older(n) \in -MaxSkew .. Expired
  BY DeviceTableAssumption DEF Older, Expired
<1>3. ASSUME NEW e \in DOMAIN t
      PROVE  /\ [t[e] EXCEPT !.since = Older(@)] \in Entry
             /\ [t[e] EXCEPT !.since = Older(@)].endPoint = t[e].endPoint
             /\ [t[e] EXCEPT !.since = Older(@)].since = Older(t[e].since)
  BY <1>1, <1>2, <1>3 DEF Entry
<1> QED BY <1>3 DEF Aged

-----------------------------------------------------------------------------
(***************************************************************************)
(* The invariant.                                                          *)
(***************************************************************************)

LEMMA Start0 == Init => IInv
<1> SUFFICES ASSUME Init PROVE IInv
  OBVIOUS
<1>1. table = [d \in {} |-> {}] /\ DOMAIN table = {} /\ table \in [{} -> Entry]
  BY DEF Init
<1>2. TableTyped
  BY <1>1 DEF TableTyped
<1>3. Unheard \in [from : SUBSET Addrs, age : SUBSET (0 .. Expired)] /\ 0 \in Skews
  BY DeviceTableAssumption DEF Unheard, Expired, Skews
<1>4. TypeOK
  BY <1>1, <1>3 DEF TypeOK, Init
<1>5. Placed /\ ListenerHeld
  BY <1>1 DEF Placed, ListenerHeld, Init
<1>6. \A d \in Devices : heard[d].age = {Expired}
  BY DEF Init, Unheard
<1>7. Dated
  BY <1>1, <1>6, DeviceTableAssumption DEF Dated, Expired
<1> QED BY <1>2, <1>4, <1>5, <1>7 DEF IInv

\* A step of another thread leaves the table and its history alone.
LEMMA TableLeftAlone ==
    ASSUME IInv, UNCHANGED <<table, heard, skew>>, targets' \subseteq targets
    PROVE  TableTyped' /\ Placed' /\ Dated'
<1>1. TableTyped'
  BY DEF IInv, TableTyped
<1>2. Placed'
  BY DEF IInv, Placed
<1>3. Dated'
  BY DEF IInv, Dated, SinceSeen
<1> QED BY <1>1, <1>2, <1>3

LEMMA ListenerLeftAlone ==
    ASSUME IInv, UNCHANGED <<socket, bound, running, attached, listener, ending>>
    PROVE  ListenerHeld'
BY DEF IInv, ListenerHeld

\* What the snapshot keeps.
LEMMA SnapshotFacts ==
    ASSUME IInv, Snapshot
    PROVE  TableTyped' /\ Placed' /\ Dated'
<1> DEFINE k == Kept(table, skew)
<1>1. /\ DOMAIN table \subseteq Devices /\ table \in [DOMAIN table -> Entry] /\ skew \in Skews
      /\ table' = k /\ targets' = ActiveDevices(table, skew) /\ UNCHANGED <<skew, heard>>
  BY DEF IInv, TypeOK, TableTyped, Snapshot, DataGoes
<1>2. /\ DOMAIN k = ActiveDevices(table, skew)
      /\ ActiveDevices(table, skew) \subseteq DOMAIN table
      /\ k \in [DOMAIN k -> Entry]
      /\ \A e \in DOMAIN k : k[e] = table[e]
  BY <1>1, KeptFacts
<1> HIDE DEF k
<1>3. TableTyped'
  BY <1>1, <1>2 DEF TableTyped
<1>4. Placed'
  BY <1>1, <1>2 DEF Placed, IInv
<1>5. ASSUME NEW d \in Devices, NEW n \in heard[d].age
      PROVE  /\ n <= ForgetAfter => d \in DOMAIN k /\ SinceSeen(k[d], skew) = n
             /\ n > ForgetAfter /\ d \in DOMAIN k => SinceSeen(k[d], skew) > ForgetAfter
  <2>1. CASE n <= ForgetAfter
    <3>1. d \in DOMAIN table /\ SinceSeen(table[d], skew) = n
      BY <2>1 DEF IInv, Dated
    <3>2. d \in DOMAIN k
      BY <1>2, <2>1, <3>1 DEF ActiveDevices
    <3>3. ~ (n > ForgetAfter)
      BY <2>1, DeviceTableAssumption, <1>5 DEF IInv, TypeOK, Expired
    <3> QED BY <1>2, <3>1, <3>2, <3>3
  <2>2. CASE ~ (n <= ForgetAfter)
    <3>1. n > ForgetAfter /\ d \in DOMAIN k => SinceSeen(k[d], skew) > ForgetAfter
      BY <1>2 DEF IInv, Dated
    <3> QED BY <2>2, <3>1
  <2> QED BY <2>1, <2>2
<1>6. Dated'
  BY <1>1, <1>5 DEF Dated
<1> QED BY <1>3, <1>4, <1>6

\* A registration that is served has its entry, here and now.
LEMMA HandleFacts ==
    ASSUME IInv, HandleDatagram
    PROVE  /\ TableTyped' /\ Placed' /\ Dated'
           /\ heard' \in [Devices -> [from : SUBSET Addrs, age : SUBSET (0 .. Expired)]]
<1> USE DeviceTableAssumption
<1>1. PICK g \in received :
         IF ServesMajor(g)
         THEN \E d \in g.deviceId :
                /\ table' = Register(table, d, g.from, skew)
                /\ heard' = [heard EXCEPT ![d] = Heard(g.from)]
         ELSE UNCHANGED <<table, heard>>
  BY DEF HandleDatagram
<1>2. UNCHANGED <<skew, targets>>
  BY DEF HandleDatagram
<1>3. g \in Datagrams
  BY DEF IInv, TypeOK
<1>4. CASE ~ServesMajor(g)
  <2>1. UNCHANGED <<table, heard, skew>> /\ targets' \subseteq targets
    BY <1>1, <1>2, <1>4
  <2> QED BY <2>1, TableLeftAlone DEF IInv, TypeOK
<1>5. CASE ServesMajor(g)
  <2>1. PICK d \in g.deviceId : /\ table' = Register(table, d, g.from, skew)
                                  /\ heard' = [heard EXCEPT ![d] = Heard(g.from)]
    BY <1>1, <1>5
  <2>2. d \in Devices /\ g.from \in Addrs
    BY <1>3, PublisherAssumption
  <2>3. DOMAIN table \subseteq Devices /\ table \in [DOMAIN table -> Entry] /\ skew \in Skews
    BY DEF IInv, TypeOK, TableTyped
  <2>4. /\ DOMAIN table' = DOMAIN table \cup {d}
        /\ table' \in [DOMAIN table' -> Entry]
        /\ table'[d] = [endPoint |-> g.from, since |-> -skew]
        /\ \A e \in DOMAIN table : e # d => table'[e] = table[e]
    <3> DEFINE r == Register(table, d, g.from, skew)
    <3>1. /\ DOMAIN r = DOMAIN table \cup {d}
          /\ r \in [DOMAIN r -> Entry]
          /\ r[d] = [endPoint |-> g.from, since |-> -skew]
          /\ \A e \in DOMAIN table : e # d => r[e] = table[e]
      BY <2>2, <2>3, RegisterFacts
    <3>2. table' = r
      BY <2>1
    <3> HIDE DEF r
    <3> QED BY <3>1, <3>2
  <2>5. heard \in [Devices -> [from : SUBSET Addrs, age : SUBSET (0 .. Expired)]]
    BY DEF IInv, TypeOK
  <2>6. Heard(g.from) \in [from : SUBSET Addrs, age : SUBSET (0 .. Expired)]
    BY <2>2 DEF Heard, Expired
  <2>7. heard' \in [Devices -> [from : SUBSET Addrs, age : SUBSET (0 .. Expired)]]
    BY <2>1, <2>5, <2>6
  <2>8. /\ heard'[d].from = {g.from} /\ heard'[d].age = {0}
        /\ \A e \in Devices : e # d => heard'[e] = heard[e]
    BY <2>1, <2>2, <2>5 DEF Heard
  <2>9. TableTyped'
    BY <2>2, <2>3, <2>4 DEF TableTyped
  <2>10. Placed'
    BY <1>2, <2>3, <2>4, <2>8 DEF Placed, IInv
  <2>11. SinceSeen(table'[d], skew) = 0
    BY <2>3, <2>4 DEF SinceSeen, Skews
  <2>12. \A e \in Devices : \A n \in heard'[e].age :
            /\ n <= ForgetAfter => e \in DOMAIN table' /\ SinceSeen(table'[e], skew) = n
            /\ n > ForgetAfter /\ e \in DOMAIN table' => SinceSeen(table'[e], skew) > ForgetAfter
    <3> SUFFICES ASSUME NEW e \in Devices, NEW n \in heard'[e].age
                 PROVE  /\ n <= ForgetAfter => e \in DOMAIN table' /\ SinceSeen(table'[e], skew) = n
                        /\ n > ForgetAfter /\ e \in DOMAIN table' => SinceSeen(table'[e], skew) > ForgetAfter
      OBVIOUS
    <3>1. CASE e = d
      BY <2>4, <2>8, <2>11, <3>1
    <3>2. CASE e # d
      <4>1. n \in heard[e].age
        BY <2>8, <3>2
      <4>2. /\ n <= ForgetAfter => e \in DOMAIN table /\ SinceSeen(table[e], skew) = n
            /\ n > ForgetAfter /\ e \in DOMAIN table => SinceSeen(table[e], skew) > ForgetAfter
        BY <4>1 DEF IInv, Dated
      <4> QED BY <2>4, <3>2, <4>2
    <3> QED BY <3>1, <3>2
  <2>13. Dated'
    BY <1>2, <2>12 DEF Dated
  <2> QED BY <2>7, <2>9, <2>10, <2>13
<1> QED BY <1>4, <1>5

\* The entry and the registration grow old together, as far as expiry can tell.
LEMMA ElapseFacts ==
    ASSUME IInv, Elapse
    PROVE  /\ TableTyped' /\ Placed' /\ Dated'
           /\ heard' \in [Devices -> [from : SUBSET Addrs, age : SUBSET (0 .. Expired)]]
<1> USE DeviceTableAssumption
<1>1. /\ table' = Aged(table)
      /\ heard' = [d \in Devices |-> [heard[d] EXCEPT !.age = {Older(n) : n \in @}]]
      /\ UNCHANGED <<skew, targets>>
  BY DEF Elapse, threadVars
<1>2. /\ DOMAIN table \subseteq Devices /\ table \in [DOMAIN table -> Entry] /\ skew \in Skews
      /\ heard \in [Devices -> [from : SUBSET Addrs, age : SUBSET (0 .. Expired)]]
  BY DEF IInv, TypeOK, TableTyped
<1>3. /\ DOMAIN table' = DOMAIN table
      /\ table' \in [DOMAIN table -> Entry]
      /\ \A e \in DOMAIN table : /\ table'[e].endPoint = table[e].endPoint
                                 /\ table'[e].since = Older(table[e].since)
  BY <1>1, <1>2, AgedFacts
<1>4. \A d \in Devices : /\ heard'[d].from = heard[d].from
                         /\ heard'[d].age = {Older(n) : n \in heard[d].age}
  BY <1>1, <1>2
<1>5. \A n \in 0 .. Expired : Older(n) \in 0 .. Expired
  BY DEF Older, Expired
<1>6. heard' \in [Devices -> [from : SUBSET Addrs, age : SUBSET (0 .. Expired)]]
  <2>1. ASSUME NEW d \in Devices
        PROVE  [heard[d] EXCEPT !.age = {Older(n) : n \in @}]
                 \in [from : SUBSET Addrs, age : SUBSET (0 .. Expired)]
    <3>1. heard[d] \in [from : SUBSET Addrs, age : SUBSET (0 .. Expired)]
      BY <1>2
    <3>2. {Older(n) : n \in heard[d].age} \in SUBSET (0 .. Expired)
      BY <1>5, <3>1
    <3> QED BY <3>1, <3>2
  <2> QED BY <1>1, <2>1
<1>7. TableTyped'
  BY <1>2, <1>3 DEF TableTyped
<1>8. Placed'
  BY <1>1, <1>2, <1>3, <1>4 DEF Placed, IInv
<1>9. ASSUME NEW d \in Devices, NEW n \in heard'[d].age
      PROVE  /\ n <= ForgetAfter => d \in DOMAIN table' /\ SinceSeen(table'[d], skew) = n
             /\ n > ForgetAfter /\ d \in DOMAIN table' => SinceSeen(table'[d], skew) > ForgetAfter
  <2>1. PICK m \in heard[d].age : n = Older(m)
    BY <1>4
  <2>2. m \in 0 .. Expired
    BY <1>2
  <2>3. /\ m <= ForgetAfter => d \in DOMAIN table /\ table[d].since + skew = m
        /\ m > ForgetAfter /\ d \in DOMAIN table => table[d].since + skew > ForgetAfter
    BY DEF IInv, Dated, SinceSeen
  <2>4. skew \in 0 .. MaxSkew
    BY <1>2 DEF Skews
  <2>5. d \in DOMAIN table => table[d].since \in -MaxSkew .. Expired
    BY <1>2 DEF Entry
  <2>6. d \in DOMAIN table => table'[d].since = Older(table[d].since)
    BY <1>3
  <2>7. n <= ForgetAfter => d \in DOMAIN table /\ Older(table[d].since) + skew = n
    BY <2>1, <2>2, <2>3, <2>4, <2>5 DEF Older, Expired
  <2>8. n > ForgetAfter /\ d \in DOMAIN table => Older(table[d].since) + skew > ForgetAfter
    BY <2>1, <2>2, <2>3, <2>4, <2>5 DEF Older, Expired
  <2> QED BY <1>3, <2>6, <2>7, <2>8 DEF SinceSeen
<1>10. Dated'
  BY <1>1, <1>9 DEF Dated
<1> QED BY <1>6, <1>7, <1>8, <1>10

\* The threads' own steps, and End's, as the invariant sees them.
LEMMA ListenerSteps == ASSUME IInv, CheckRunning \/ EnterReceive \/ (\E g \in Datagrams : Receive(g))
                                    \/ ReceiveFails
                       PROVE  IInv'
<1>1. UNCHANGED <<table, heard, skew, targets, capture, pluginVars, data, ending>>
  BY DEF CheckRunning, EnterReceive, Receive, ReceiveFails, ListenerGoes
<1>2. TableTyped' /\ Placed' /\ Dated'
  BY <1>1, TableLeftAlone
<1>3. received' \in SUBSET Datagrams
      /\ listener' \in {"check", "enter", "blocked", "handle", "exited", "faulted"}
      /\ (listener' \in {"exited", "faulted"} => ~running)
      /\ listener # "unborn"
  <2>1. CASE CheckRunning
    BY <2>1 DEF IInv, TypeOK, CheckRunning, ListenerGoes
  <2>2. CASE EnterReceive
    BY <2>2 DEF IInv, TypeOK, ListenerHeld, EnterReceive, ListenerGoes
  <2>3. CASE \E g \in Datagrams : Receive(g)
    BY <2>3 DEF IInv, TypeOK, Receive, ListenerGoes
  <2>4. CASE ReceiveFails
    BY <2>4 DEF IInv, TypeOK, ListenerHeld, ReceiveFails, ListenerGoes
  <2> QED BY <2>1, <2>2, <2>3, <2>4
<1>4. ListenerHeld'
  BY <1>1, <1>3 DEF IInv, ListenerHeld, pluginVars
<1>5. TypeOK'
  BY <1>1, <1>2, <1>3 DEF IInv, TypeOK, TableTyped, pluginVars
<1> QED BY <1>2, <1>4, <1>5 DEF IInv

LEMMA DataSteps == ASSUME IInv, DataUpdate \/ Publish PROVE IInv'
<1>1. UNCHANGED <<capture, pluginVars, listener, received, ending, skew, heard>>
      /\ data' \in {"idle", "called", "captured", "guarded", "sending"}
  BY DEF DataUpdate, Publish, WriteCapture, GuardSocket, Snapshot, SendTo, DataGoes
<1>2. TableTyped' /\ Placed' /\ Dated'
  <2>1. CASE Snapshot
    BY <2>1, SnapshotFacts
  <2>2. CASE DataUpdate \/ WriteCapture \/ GuardSocket \/ \E d \in Devices : SendTo(d)
    <3>1. UNCHANGED <<table, heard, skew>> /\ targets' \subseteq targets
      BY <1>1, <2>2 DEF DataUpdate, WriteCapture, GuardSocket, SendTo
    <3> QED BY <3>1, TableLeftAlone
  <2> QED BY <2>1, <2>2 DEF Publish
<1>3. ListenerHeld'
  BY <1>1, ListenerLeftAlone DEF pluginVars
<1>4. TypeOK'
  BY <1>1, <1>2 DEF IInv, TypeOK, TableTyped, Placed, pluginVars
<1> QED BY <1>2, <1>3, <1>4 DEF IInv

LEMMA EndSteps == ASSUME IInv, End PROVE IInv'
<1>1. UNCHANGED <<table, listener, received, data, targets, skew, heard>>
  BY DEF End, EndBegins, EndStopsCapture, EndCloses, EndNulls, EndJoins, EndGoes
<1>2. TableTyped' /\ Placed' /\ Dated'
  BY <1>1, TableLeftAlone
<1>3. ListenerHeld'
  BY <1>1 DEF IInv, ListenerHeld, End, EndBegins, EndStopsCapture, EndCloses, EndNulls, EndJoins,
              EndGoes, pluginVars
<1>4. /\ socket' \in BOOLEAN /\ bound' \in BOOLEAN /\ running' \in BOOLEAN /\ attached' \in BOOLEAN
      /\ capture' \in {"none", "open", "disposed"}
      /\ ending' \in {"no", "stopping", "closing", "nulling", "joining", "ended"}
  BY DEF IInv, TypeOK, End, EndBegins, EndStopsCapture, EndCloses, EndNulls, EndJoins,
         EndGoes, pluginVars
<1>5. TypeOK'
  BY <1>1, <1>2, <1>4 DEF IInv, TypeOK, TableTyped
<1> QED BY <1>2, <1>3, <1>5 DEF IInv

LEMMA Inductive == IInv /\ [Next]_vars => IInv'
<1> SUFFICES ASSUME IInv, [Next]_vars PROVE IInv'
  OBVIOUS
<1>1. CASE Start
  <2>1. UNCHANGED <<table, heard, skew>> /\ targets' \subseteq targets
    BY <1>1 DEF Start
  <2>2. TableTyped' /\ Placed' /\ Dated'
    BY <2>1, TableLeftAlone
  <2>3. ListenerHeld'
    BY <1>1 DEF ListenerHeld, Start
  <2>4. TypeOK'
    BY <1>1, <2>2 DEF IInv, TypeOK, TableTyped, Start
  <2> QED BY <2>2, <2>3, <2>4 DEF IInv
<1>2. CASE Listen
  <2>1. CASE HandleDatagram
    <3>1. /\ TableTyped' /\ Placed' /\ Dated'
          /\ heard' \in [Devices -> [from : SUBSET Addrs, age : SUBSET (0 .. Expired)]]
      BY <2>1, HandleFacts
    <3>2. ListenerHeld'
      BY <2>1 DEF IInv, ListenerHeld, HandleDatagram, pluginVars
    <3>3. TypeOK'
      BY <2>1, <3>1 DEF IInv, TypeOK, TableTyped, HandleDatagram, pluginVars
    <3> QED BY <3>1, <3>2, <3>3 DEF IInv
  <2> QED BY <1>2, <2>1, ListenerSteps DEF Listen
<1>3. CASE DataUpdate \/ Publish
  BY <1>3, DataSteps
<1>4. CASE StartCapture \/ StopCapture
  <2>1. /\ UNCHANGED <<table, pluginVars, threadVars, skew, heard>>
        /\ capture' \in {"none", "open", "disposed"}
    BY <1>4 DEF StartCapture, StopCapture, CaptureGoes
  <2>2. TableTyped' /\ Placed' /\ Dated' /\ ListenerHeld'
    BY <2>1, TableLeftAlone, ListenerLeftAlone DEF pluginVars, threadVars
  <2>3. TypeOK'
    BY <2>1, <2>2 DEF IInv, TypeOK, TableTyped, pluginVars, threadVars
  <2> QED BY <2>2, <2>3 DEF IInv
<1>5. CASE End
  BY <1>5, EndSteps
<1>6. CASE Elapse
  <2>1. /\ TableTyped' /\ Placed' /\ Dated'
        /\ heard' \in [Devices -> [from : SUBSET Addrs, age : SUBSET (0 .. Expired)]]
    BY <1>6, ElapseFacts
  <2>2. ListenerHeld'
    BY <1>6, ListenerLeftAlone DEF Elapse, pluginVars, threadVars
  <2>3. TypeOK'
    BY <1>6, <2>1 DEF IInv, TypeOK, TableTyped, Elapse, pluginVars, threadVars
  <2> QED BY <2>1, <2>2, <2>3 DEF IInv
<1>7. CASE WallClockSteps
  <2>1. /\ UNCHANGED <<table, capture, pluginVars, threadVars>> /\ skew' \in Skews
        /\ \A d \in Devices : heard'[d].age = {} /\ heard'[d].from = heard[d].from
        /\ heard' \in [Devices -> [from : SUBSET Addrs, age : SUBSET (0 .. Expired)]]
    BY <1>7 DEF WallClockSteps, IInv, TypeOK
  <2>2. Dated'
    BY <2>1 DEF Dated
  <2>3. TableTyped' /\ Placed'
    BY <2>1 DEF IInv, TableTyped, Placed, threadVars
  <2>4. ListenerHeld'
    BY <2>1, ListenerLeftAlone DEF pluginVars, threadVars
  <2>5. TypeOK'
    BY <2>1 DEF IInv, TypeOK, pluginVars, threadVars
  <2> QED BY <2>2, <2>3, <2>4, <2>5 DEF IInv
<1>8. CASE UNCHANGED vars
  <2>1. TableTyped' /\ Placed' /\ Dated' /\ ListenerHeld'
    BY <1>8, TableLeftAlone, ListenerLeftAlone DEF vars, pluginVars, threadVars
  <2>2. TypeOK'
    BY <1>8 DEF IInv, TypeOK, vars, pluginVars, threadVars
  <2> QED BY <2>1, <2>2 DEF IInv
<1> QED BY <1>1, <1>2, <1>3, <1>4, <1>5, <1>6, <1>7, <1>8 DEF Next

\* The invariant holds at every step of every interleaving of the listener,
\* SimHub's data thread, End and the captures (UdpPublisher.cs, DeviceTable.cs).
THEOREM Invariance == Spec => []IInv
<1>1. Init => IInv
  BY Start0
<1>2. IInv /\ [Next]_vars => IInv'
  BY Inductive
<1> QED BY <1>1, <1>2, PTL DEF Spec

-----------------------------------------------------------------------------

\* Every variable of the publisher's model keeps its type (UdpPublisher.cs).
THEOREM TypeCorrect == Spec => []TypeOK
<1>1. IInv => TypeOK
  BY DEF IInv
<1> QED BY <1>1, Invariance, PTL

\* A device Publish has still to send to keeps its entry, at the endpoint it was
\* last heard from, for any number of devices that register and move meanwhile
\* (UdpPublisher.cs: Publish; DeviceTable.cs: Register, ActiveDevices).
THEOREM SendsReachTheLastEndPoint == Spec => []SendsGoWhereHeard
<1>1. IInv => SendsGoWhereHeard
  BY DEF IInv, Placed, SendsGoWhereHeard
<1> QED BY <1>1, Invariance, PTL

\* The listener stops only once the plugin is ending (UdpPublisher.cs: ListenLoop).
THEOREM ListenerStaysUp == Spec => []ListenerOutlivesErrors
<1>1. IInv => ListenerOutlivesErrors
  BY DEF IInv, ListenerHeld, ListenerOutlivesErrors
<1> QED BY <1>1, Invariance, PTL

\* A frame goes exactly to the devices whose newest served registration is at
\* most the forget period old, for any period and number of devices, and unless
\* the wall clock was set in between (DeviceTable.cs: Register, ActiveDevices).
THEOREM FramesGoToTheLiving == Spec => ExpiryIsExact
<1> DEFINE A == data = "guarded" /\ data' # "guarded" =>
                  \A d \in Devices : \A age \in heard[d].age :
                     d \in targets' <=> age <= ForgetAfter
<1>1. IInv /\ [Next]_vars => [A]_vars
  <2> SUFFICES ASSUME IInv, Next, data = "guarded", data' # "guarded",
                      NEW d \in Devices, NEW age \in heard[d].age
               PROVE  d \in targets' <=> age <= ForgetAfter
    OBVIOUS
  <2>1. Snapshot
    BY DEF Next, Start, Listen, CheckRunning, EnterReceive, Receive, ReceiveFails, HandleDatagram,
           ListenerGoes, DataUpdate, Publish, WriteCapture, GuardSocket, SendTo, DataGoes,
           StartCapture, StopCapture, CaptureGoes, End, EndBegins, EndStopsCapture, EndCloses,
           EndNulls, EndJoins, EndGoes, Elapse, WallClockSteps, threadVars
  <2>2. targets' = ActiveDevices(table, skew)
    BY <2>1 DEF Snapshot
  <2>3. /\ age <= ForgetAfter => d \in DOMAIN table /\ SinceSeen(table[d], skew) = age
        /\ age > ForgetAfter /\ d \in DOMAIN table => SinceSeen(table[d], skew) > ForgetAfter
    BY DEF IInv, Dated
  <2>4. age \in Int /\ ForgetAfter \in Int
    BY DeviceTableAssumption DEF IInv, TypeOK, Expired
  <2>5. d \in DOMAIN table => SinceSeen(table[d], skew) \in Int
    BY DeviceTableAssumption DEF IInv, TypeOK, TableTyped, Entry, Skews, Expired, SinceSeen
  <2>6. d \in ActiveDevices(table, skew)
          <=> d \in DOMAIN table /\ SinceSeen(table[d], skew) <= ForgetAfter
    BY DEF ActiveDevices
  <2> QED BY <2>2, <2>3, <2>4, <2>5, <2>6
<1>2. []IInv /\ [][Next]_vars => [][A]_vars
  BY <1>1, PTL
<1> QED BY <1>2, Invariance, PTL DEF Spec, ExpiryIsExact
=============================================================================
