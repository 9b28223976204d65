------------------------- MODULE ConfigStore_proofs -------------------------
(***************************************************************************)
(* What the power and flash can do to the record and to the learned        *)
(* address, for any hosts, credentials, forms and first records, and any   *)
(* number of power cuts.                                                   *)
(*                                                                         *)
(* The argument: the writes that are left say what the flash is going to   *)
(* be.  Each part of the invariant relates those writes to the flash at    *)
(* every point between two of them, so that it holds wherever the power is *)
(* cut, which only drops them.                                             *)
(***************************************************************************)
EXTENDS ConfigStore, SequenceTheorems, TLAPS

Rigs == {PutRig({}), PutRig({Broadcast})}

\* The writes that the program knows.
Ops ==
    Rigs \cup {Clear} \cup {Put("schema", SchemaVersion)}
      \cup {Put("host", v) : v \in Values.host} \cup {Put("cred", v) : v \in Values.cred}
      \cup {Put("blank", v) : v \in Values.blank}

FieldNames == {"host", "cred", "blank"}

\* What save(c) leaves under each key, and its writes.
Saved(c) == [schema |-> SchemaVersion, host |-> c.host, cred |-> c.cred, blank |-> c.blank]

Puts(c) == {Put(key, Saved(c)[key]) : key \in Keys}

Left == Range(todo)

FlashHost == Stored(flash, "host", Unset)

\* There is something to write in one phase only; the boot writes what it
\* loaded or was told, and a save that failed writes no part of the record.  A
\* boot that could not read the record has no promise and no attempt to keep.
PhaseHeld ==
    /\ phase # "writing" => todo = <<>> /\ after = "off"
    /\ phase = "writing" => after \in {"starting", "running", "restarting"}
    /\ after = "starting" => Left \subseteq Puts(cfg)
    /\ after = "running" => Left \subseteq Rigs
    /\ phase = "restarting" => attempt = {}
    /\ phase \in {"joining", "portal"} =>
          cfg = Loaded(flash) \/ (cfg = DefaultConfig /\ promised = {} /\ attempt = {})

\* What is promised is in the record, and what is still written is the same.
PromiseHeld ==
    \A p \in promised :
        /\ promised = {p}
        /\ Readable(flash) /\ FieldsOf(flash) = p
        /\ Left \subseteq Rigs \cup Puts(p)

\* Of a save, each key is written or will be.
SaveHeld ==
    after = "restarting" /\ attempt # {} =>
        /\ Left \subseteq Rigs \cup Puts(cfg)
        /\ \A key \in Keys :
              \/ key \in DOMAIN flash /\ flash[key] = Saved(cfg)[key]
              \/ Put(key, Saved(cfg)[key]) \in Left

\* The values a field may have after an attempt.
Mix(a, field) == {fields[field] : fields \in a.old \cup {a.new}}

MixHeld ==
    \A a \in attempt :
        /\ \A field \in FieldNames : FieldsOf(flash)[field] \in Mix(a, field)
        /\ ~Readable(flash) => DefaultConfig \in a.old
        /\ \A op \in Left :
              \/ op \in Rigs \cup {Put("schema", SchemaVersion)}
              \/ \E field \in FieldNames : \E v \in Mix(a, field) : op = Put(field, v)

\* Of an erase, the record will be cleared and is not written after that, and
\* the removal of the address comes last.
EraseLeft ==
    /\ \A i, j \in DOMAIN todo : i < j /\ todo[i].kind # "put" => todo[j].kind = "rig"
    /\ \A i \in DOMAIN todo : todo[i].kind = "put" => \E j \in DOMAIN todo : i < j /\ todo[j] = Clear
    /\ DOMAIN flash = {} \/ Clear \in Left
    /\ todo = <<>> => rig = {}
    /\ todo # <<>> => todo[Len(todo)] = PutRig({})

ErasedHeld ==
    erased =>
        /\ mac = {}
        /\ IF "restarting" \in {phase, after}
           THEN EraseLeft
           ELSE /\ FlashHost = Unset /\ Stored(flash, "cred", Unset) = Unset
                /\ rig = {}
                /\ cfg.host = Unset /\ cfg.cred = Unset
                /\ Left \subseteq Puts(cfg)

\* The stored address is the stored host's, and is gone before another host is
\* written; what is known in memory is the host's that is in memory.
AddressHeld ==
    ~strayed =>
        /\ FlashHost \in Hosts => rig \subseteq {FlashHost, Broadcast}
        /\ \A i \in DOMAIN todo, h \in Hosts :
              todo[i] = Put("host", h) =>
                  rig \subseteq {h, Broadcast} \/ \E j \in DOMAIN todo : j < i /\ todo[j] = PutRig({})
        /\ cfg.host \in Hosts =>
              /\ phase \in {"starting", "running"} \/ after = "running" => FlashHost = cfg.host
              /\ after = "starting" => FlashHost = cfg.host \/ Put("host", cfg.host) \in Left
              /\ "running" \in {phase, after} => mac \subseteq {cfg.host, Broadcast}
        /\ "running" \in {phase, after} => pc \subseteq {cfg.host}

IInv ==
    /\ TypeOK /\ todo \in Seq(Ops)
    /\ PhaseHeld /\ PromiseHeld /\ SaveHeld /\ MixHeld /\ ErasedHeld /\ AddressHeld

-----------------------------------------------------------------------------
(***************************************************************************)
(* The writes.                                                             *)
(***************************************************************************)

LEMMA Shapes ==
    /\ \A key, v : Put(key, v).kind = "put" /\ Put(key, v).key = key /\ Put(key, v).value = v
    /\ \A k, l, v, w : Put(k, v) = Put(l, w) => k = l /\ v = w
    /\ Clear.kind = "clear"
    /\ \A m : PutRig(m).kind = "rig" /\ PutRig(m).value = m
    /\ \A m, n : PutRig(m) = PutRig(n) => m = n
    /\ \A op \in Rigs : op.kind = "rig" /\ op.value \subseteq {Broadcast}
<1>1. \A m : PutRig(m).kind = "rig" /\ PutRig(m).value = m
  BY DEF PutRig
<1>2. \A m, n : PutRig(m) = PutRig(n) => m = n
  BY <1>1
<1> QED BY <1>1, <1>2 DEF Put, Clear, Rigs

LEMMA Apart ==
    /\ \A key, v : Put(key, v) \notin Rigs /\ Put(key, v) # Clear
    /\ Clear \notin Rigs
<1>1. "put" # "rig" /\ "put" # "clear" /\ "rig" # "clear"
  OBVIOUS
<1>2. \A key, v : Put(key, v) \notin Rigs
  BY <1>1, Shapes
<1>3. \A key, v : Put(key, v) # Clear
  BY <1>1, Shapes
<1>4. Clear \notin Rigs
  BY <1>1, Shapes
<1> QED BY <1>2, <1>3, <1>4

LEMMA KindsOfOp ==
    ASSUME NEW op \in Ops
    PROVE  \/ \E key \in Keys : \E v \in Values[key] : op = Put(key, v)
           \/ op \in Rigs
           \/ op = Clear
<1>1. CASE op \in Rigs \cup {Clear}
  BY <1>1
<1>2. CASE op = Put("schema", SchemaVersion)
  <2>1. SchemaVersion \in Values["schema"] /\ "schema" \in Keys
    BY ConfigStoreAssumption DEF Values, Keys
  <2> QED BY <1>2, <2>1
<1>3. CASE \E v \in Values.host : op = Put("host", v)
  <2>1. Values.host = Values["host"] /\ "host" \in Keys
    BY DEF Keys
  <2> QED BY <1>3, <2>1
<1>4. CASE \E v \in Values.cred : op = Put("cred", v)
  <2>1. Values.cred = Values["cred"] /\ "cred" \in Keys
    BY DEF Keys
  <2> QED BY <1>4, <2>1
<1>5. CASE \E v \in Values.blank : op = Put("blank", v)
  <2>1. Values.blank = Values["blank"] /\ "blank" \in Keys
    BY DEF Keys
  <2> QED BY <1>5, <2>1
<1> QED BY <1>1, <1>2, <1>3, <1>4, <1>5 DEF Ops

LEMMA PutsAreOps ==
    ASSUME NEW c \in Fields
    PROVE  /\ Puts(c) \subseteq Ops
           /\ Puts(c) = {Put("schema", SchemaVersion), Put("host", c.host), Put("cred", c.cred),
                         Put("blank", c.blank)}
           /\ \A key \in Keys : Saved(c)[key] \in Values[key]
<1>1. Puts(c) = {Put("schema", SchemaVersion), Put("host", c.host), Put("cred", c.cred),
                 Put("blank", c.blank)}
  BY DEF Puts, Keys, Saved
<1>2. c.host \in Values.host /\ c.cred \in Values.cred /\ c.blank \in Values.blank
  BY DEF Fields
<1>3. Puts(c) \subseteq Ops
  BY <1>1, <1>2 DEF Ops
<1>4. \A key \in Keys : Saved(c)[key] \in Values[key]
  <2>1. /\ Saved(c)["schema"] \in Values["schema"]
        /\ Saved(c)["host"] = c.host /\ Saved(c)["cred"] = c.cred /\ Saved(c)["blank"] = c.blank
    BY ConfigStoreAssumption DEF Saved, Values
  <2>2. Values["host"] = Values.host /\ Values["cred"] = Values.cred /\ Values["blank"] = Values.blank
    OBVIOUS
  <2> QED BY <1>2, <2>1, <2>2 DEF Keys
<1> QED BY <1>1, <1>3, <1>4

\* The elements of a list, and of what is left when its head was done.
LEMMA Elements ==
    ASSUME NEW s \in Seq(Ops)
    PROVE  /\ Len(s) \in Nat /\ DOMAIN s = 1 .. Len(s)
           /\ Range(s) \subseteq Ops
           /\ s # <<>> => Len(s) > 0
           /\ s = <<>> => Range(s) = {}
<1>1. Len(s) \in Nat /\ DOMAIN s = 1 .. Len(s) /\ s \in [1 .. Len(s) -> Ops]
  BY LenProperties
<1>2. s # <<>> => Len(s) > 0
  BY EmptySeq
<1>3. Range(s) \subseteq Ops
  BY <1>1 DEF Range
<1>4. ASSUME s = <<>> PROVE Range(s) = {}
  <2>1. Len(s) = 0
    BY <1>4, EmptySeq
  <2> QED BY <1>1, <2>1 DEF Range
<1> QED BY <1>1, <1>2, <1>3, <1>4

LEMMA Popped ==
    ASSUME NEW s \in Seq(Ops), s # <<>>, NEW t, t = Tail(s)
    PROVE  /\ t \in Seq(Ops) /\ Len(t) = Len(s) - 1
           /\ Head(s) = s[1] /\ s[1] \in Ops /\ 1 \in DOMAIN s
           /\ \A i \in DOMAIN t : i + 1 \in DOMAIN s /\ t[i] = s[i + 1]
           /\ \A i \in DOMAIN s : i # 1 => i - 1 \in DOMAIN t /\ t[i - 1] = s[i]
           /\ Range(t) \subseteq Range(s)
           /\ Range(s) \subseteq Range(t) \cup {s[1]}
<1>1. /\ t \in Seq(Ops) /\ Len(t) = Len(s) - 1
      /\ \A i \in 1 .. Len(t) : t[i] = s[i + 1]
  BY HeadTailProperties
<1>2. /\ Len(s) \in Nat /\ DOMAIN s = 1 .. Len(s) /\ Len(s) > 0
      /\ Len(t) \in Nat /\ DOMAIN t = 1 .. Len(t)
  BY <1>1, Elements
<1>3. Head(s) = s[1] /\ 1 \in DOMAIN s /\ s[1] \in Ops
  BY <1>2, Elements DEF Range
<1>4. \A i \in DOMAIN t : i + 1 \in DOMAIN s /\ t[i] = s[i + 1]
  BY <1>1, <1>2
<1>5. \A i \in DOMAIN s : i # 1 => i - 1 \in DOMAIN t /\ t[i - 1] = s[i]
  <2> SUFFICES ASSUME NEW i \in DOMAIN s, i # 1 PROVE i - 1 \in DOMAIN t /\ t[i - 1] = s[i]
    OBVIOUS
  <2>1. i - 1 \in 1 .. Len(t) /\ (i - 1) + 1 = i
    BY <1>1, <1>2
  <2> QED BY <1>1, <1>2, <2>1
<1>6. Range(t) \subseteq Range(s)
  BY <1>4 DEF Range
<1>7. Range(s) \subseteq Range(t) \cup {s[1]}
  <2> SUFFICES ASSUME NEW i \in DOMAIN s, i # 1 PROVE s[i] \in Range(t)
    BY DEF Range
  <2> QED BY <1>5 DEF Range
<1> QED BY <1>1, <1>3, <1>4, <1>5, <1>6, <1>7

\* The elements of a list of each length that occurs.
LEMMA SaveList ==
    ASSUME NEW c \in Fields
    PROVE  SaveWrites(c) \in Seq(Ops) /\ Range(SaveWrites(c)) = Puts(c) /\ Len(SaveWrites(c)) = 4
<1> DEFINE a == Put("schema", SchemaVersion)
           b == Put("host", c.host)
           d == Put("cred", c.cred)
           e == Put("blank", c.blank)
<1>1. {a, b, d, e} \subseteq Ops /\ Puts(c) = {a, b, d, e}
  BY PutsAreOps
<1>2. SaveWrites(c) = <<a, b, d, e>>
  BY DEF SaveWrites
<1> HIDE DEF a, b, d, e
<1>3. <<a, b, d, e>> \in Seq(Ops) /\ Len(<<a, b, d, e>>) = 4
  BY <1>1
<1>4. Range(<<a, b, d, e>>) = {a, b, d, e}
  <2>1. PICK s : s = <<a, b, d, e>>
    OBVIOUS
  <2>2. DOMAIN s = 1 .. 4 /\ s[1] = a /\ s[2] = b /\ s[3] = d /\ s[4] = e
    BY <2>1
  <2>3. Range(s) = {a, b, d, e}
    BY <2>2 DEF Range
  <2> QED BY <2>1, <2>3
<1> QED BY <1>1, <1>2, <1>3, <1>4

LEMMA ForgetList ==
    /\ ForgetWrites \in Seq(Ops) /\ Len(ForgetWrites) = 2
    /\ ForgetWrites[1] = PutRig({Broadcast}) /\ ForgetWrites[2] = PutRig({})
    /\ Range(ForgetWrites) = Rigs
<1>1. ForgetWrites \in Seq(Ops) /\ Len(ForgetWrites) = 2
  BY DEF ForgetWrites, Ops, Rigs
<1>2. DOMAIN ForgetWrites = 1 .. 2
  BY <1>1, LenProperties
<1>3. ForgetWrites[1] = PutRig({Broadcast}) /\ ForgetWrites[2] = PutRig({})
  BY DEF ForgetWrites
<1>4. Range(ForgetWrites) = Rigs
  BY <1>2, <1>3 DEF Range, Rigs
<1> QED BY <1>1, <1>3, <1>4

LEMMA EmptyList == <<>> \in Seq(Ops) /\ Len(<<>>) = 0 /\ Range(<<>>) = {}
BY EmptySeq, Elements

\* What handleSave() leaves to be written.
HandlesSave(s, moved, forgets, saves, c) ==
    /\ s \in Seq(Ops)
    /\ Range(s) \subseteq Rigs \cup Puts(c)
    /\ saves => Puts(c) \subseteq Range(s)
    /\ ~saves => Range(s) \subseteq Rigs
    /\ ~saves /\ ~moved => s = <<>>
    /\ moved /\ forgets => \A i \in DOMAIN s : \A key, v :
          s[i] = Put(key, v) => 2 \in DOMAIN s /\ 2 < i /\ s[2] = PutRig({})

LEMMA HandlerList ==
    ASSUME NEW c \in Fields, NEW moved \in BOOLEAN, NEW forgets \in BOOLEAN, NEW saves \in BOOLEAN,
           NEW s, s = HandlerWrites(moved, forgets, saves, c)
    PROVE  HandlesSave(s, moved, forgets, saves, c)
<1> DEFINE f == IF moved /\ forgets THEN ForgetWrites ELSE <<>>
           g == IF saves THEN SaveWrites(c) ELSE <<>>
<1>1. /\ f \in Seq(Ops) /\ Len(f) \in Nat /\ Range(f) \subseteq Rigs
      /\ DOMAIN f = 1 .. Len(f)
      /\ moved /\ forgets => Len(f) = 2 /\ f[2] = PutRig({})
      /\ ~moved => f = <<>>
  BY ForgetList, EmptyList, Elements
<1>2. /\ g \in Seq(Ops) /\ Len(g) \in Nat
      /\ DOMAIN g = 1 .. Len(g)
      /\ IF saves THEN Range(g) = Puts(c) ELSE g = <<>> /\ Range(g) = {}
  BY SaveList, EmptyList, Elements
<1>3. s = f \o g
  BY DEF HandlerWrites
<1> HIDE DEF f, g
<1>4. /\ s \in Seq(Ops) /\ Len(s) = Len(f) + Len(g)
      /\ \A i \in 1 .. Len(f) + Len(g) : s[i] = IF i <= Len(f) THEN f[i] ELSE g[i - Len(f)]
  BY <1>1, <1>2, <1>3, ConcatProperties
<1>5. DOMAIN s = 1 .. Len(f) + Len(g)
  BY <1>4, Elements
<1>6. \A i \in DOMAIN s : \/ i <= Len(f) /\ s[i] = f[i] /\ f[i] \in Range(f)
                          \/ i > Len(f) /\ s[i] \in Range(g)
  <2> SUFFICES ASSUME NEW i \in DOMAIN s
               PROVE  \/ i <= Len(f) /\ s[i] = f[i] /\ f[i] \in Range(f)
                      \/ i > Len(f) /\ s[i] \in Range(g)
    OBVIOUS
  <2>1. CASE i <= Len(f)
    BY <1>1, <1>4, <1>5, <2>1 DEF Range
  <2>2. CASE i > Len(f)
    <3>1. i - Len(f) \in DOMAIN g /\ s[i] = g[i - Len(f)]
      BY <1>1, <1>2, <1>4, <1>5, <2>2
    <3> QED BY <2>2, <3>1 DEF Range
  <2> QED BY <1>1, <1>5, <2>1, <2>2
<1>7. Range(g) \subseteq Range(s)
  <2> SUFFICES ASSUME NEW j \in DOMAIN g PROVE g[j] \in Range(s)
    BY DEF Range
  <2>1. j + Len(f) \in DOMAIN s /\ (j + Len(f)) - Len(f) = j /\ ~(j + Len(f) <= Len(f))
    BY <1>1, <1>2, <1>5
  <2>2. s[j + Len(f)] = g[j]
    BY <1>4, <1>5, <2>1
  <2> QED BY <2>1, <2>2 DEF Range
<1>8. Range(s) \subseteq Range(f) \cup Range(g)
  BY <1>6 DEF Range
<1>9. ~saves /\ ~moved => s = <<>>
  BY <1>1, <1>2, <1>3, EmptyList, ConcatEmptySeq
<1>10. ASSUME moved, forgets, NEW i \in DOMAIN s, NEW key, NEW v, s[i] = Put(key, v)
       PROVE  2 \in DOMAIN s /\ 2 < i /\ s[2] = PutRig({})
  <2>1. Len(f) = 2 /\ f[2] = PutRig({})
    BY <1>1, <1>10
  <2>2. s[i] \notin Rigs
    BY <1>10, Apart
  <2>3. i > 2
    BY <1>1, <1>6, <2>1, <2>2
  <2>4. 2 \in DOMAIN s /\ s[2] = f[2]
    BY <1>2, <1>4, <1>5, <2>1
  <2> QED BY <2>1, <2>3, <2>4
<1> QED BY <1>1, <1>2, <1>4, <1>7, <1>8, <1>9, <1>10 DEF HandlesSave

\* What an erase does, with the address and without.
LEMMA EraseList ==
    ASSUME NEW opens \in BOOLEAN, NEW s, s = EraseWrites(opens)
    PROVE  /\ s \in Seq(Ops) /\ Len(s) = IF opens THEN 6 ELSE 4
           /\ s[1] = Put("host", Overwritten) /\ s[2] = Put("cred", Overwritten)
           /\ s[3] = Put("blank", 0) /\ s[4] = Clear
           /\ opens => s[5] = PutRig({Broadcast}) /\ s[6] = PutRig({})
<1> DEFINE f == <<Put("host", Overwritten), Put("cred", Overwritten), Put("blank", 0), Clear>>
           g == IF opens THEN ForgetWrites ELSE <<>>
<1>1. f \in Seq(Ops) /\ Len(f) = 4
  <2>1. {Put("host", Overwritten), Put("cred", Overwritten), Put("blank", 0), Clear} \subseteq Ops
    <3>1. Overwritten \in Values.host /\ Overwritten \in Values.cred /\ 0 \in Values.blank
      BY ConfigStoreAssumption DEF Values
    <3> QED BY <3>1 DEF Ops
  <2> QED BY <2>1
<1>2. f[1] = Put("host", Overwritten) /\ f[2] = Put("cred", Overwritten) /\ f[3] = Put("blank", 0) /\ f[4] = Clear
  OBVIOUS
<1>3. /\ g \in Seq(Ops)
      /\ IF opens THEN Len(g) = 2 /\ g[1] = PutRig({Broadcast}) /\ g[2] = PutRig({}) ELSE Len(g) = 0
  BY ForgetList, EmptyList
<1>4. s = f \o g
  BY DEF EraseWrites
<1> HIDE DEF f, g
<1>5. /\ s \in Seq(Ops) /\ Len(s) = Len(f) + Len(g)
      /\ \A i \in 1 .. Len(f) + Len(g) : s[i] = IF i <= Len(f) THEN f[i] ELSE g[i - Len(f)]
  <2>1. f \in Seq(Ops) /\ g \in Seq(Ops)
    BY <1>1, <1>3
  <2> QED BY <1>4, <2>1, ConcatProperties
<1>6. Len(g) \in {0, 2} /\ (opens => Len(g) = 2)
  BY <1>3
<1>7. \A i \in 1 .. 4 : i \in 1 .. Len(f) + Len(g) /\ s[i] = f[i]
  <2> SUFFICES ASSUME NEW i \in 1 .. 4 PROVE i \in 1 .. Len(f) + Len(g) /\ s[i] = f[i]
    OBVIOUS
  <2>1. i \in 1 .. Len(f) + Len(g) /\ i <= Len(f)
    BY <1>1, <1>6
  <2> QED BY <1>5, <2>1
<1>8. s[1] = f[1] /\ s[2] = f[2] /\ s[3] = f[3] /\ s[4] = f[4]
  BY <1>7
<1>9. ASSUME opens PROVE s[5] = g[1] /\ s[6] = g[2]
  <2>1. /\ 5 \in 1 .. Len(f) + Len(g) /\ ~(5 <= Len(f)) /\ 5 - Len(f) = 1
        /\ 6 \in 1 .. Len(f) + Len(g) /\ ~(6 <= Len(f)) /\ 6 - Len(f) = 2
    <3>1. Len(f) = 4 /\ Len(g) = 2
      BY <1>1, <1>3, <1>9
    <3> QED BY <3>1
  <2> QED BY <1>5, <2>1
<1>10. Len(s) = IF opens THEN 6 ELSE 4
  BY <1>1, <1>3, <1>5
<1> QED BY <1>2, <1>3, <1>5, <1>8, <1>9, <1>10

-----------------------------------------------------------------------------
(***************************************************************************)
(* The record.                                                             *)
(***************************************************************************)

LEMMA FieldsOfRecord ==
    ASSUME NEW record
    PROVE  /\ FieldsOf(record).host = Stored(record, "host", Unset)
           /\ FieldsOf(record).cred = Stored(record, "cred", Unset)
           /\ FieldsOf(record).blank = Stored(record, "blank", BlankDefault)
           /\ Loaded(record) = IF Readable(record) THEN FieldsOf(record) ELSE DefaultConfig
           /\ DefaultConfig.host = Unset /\ DefaultConfig.cred = Unset
BY DEF FieldsOf, Loaded, DefaultConfig

\* Whatever a well-formed record holds, what is loaded from it is a configuration.
LEMMA LoadedIsTyped ==
    ASSUME NEW record, WellFormed(record)
    PROVE  Loaded(record) \in Fields /\ FieldsOf(record) \in Fields /\ DefaultConfig \in Fields
<1>1. DefaultConfig \in Fields
  BY ConfigStoreAssumption DEF DefaultConfig, Fields, Values
<1>2. /\ "host" \in DOMAIN record => record["host"] \in Values.host
      /\ "cred" \in DOMAIN record => record["cred"] \in Values.cred
      /\ "blank" \in DOMAIN record => record["blank"] \in Values.blank
  BY DEF WellFormed
<1>3. Unset \in Values.host /\ Unset \in Values.cred /\ BlankDefault \in Values.blank
  BY ConfigStoreAssumption DEF Values
<1>4. FieldsOf(record) \in Fields
  BY <1>2, <1>3 DEF FieldsOf, Fields, Stored
<1> QED BY <1>1, <1>4 DEF Loaded

\* The same name, once as a field and once as a key.
LEMMA ByName ==
    ASSUME NEW c \in Fields
    PROVE  /\ DOMAIN c = FieldNames
           /\ c["host"] = c.host /\ c["cred"] = c.cred /\ c["blank"] = c.blank
BY DEF Fields, FieldNames

-----------------------------------------------------------------------------
(***************************************************************************)
(* A write.                                                                *)
(***************************************************************************)

\* What a write leaves alone.
Elsewhere == UNCHANGED <<wifi, phase, after, memory, cuts, history>>

\* The three kinds of write, each with what it does.
PutDone(key, v) ==
    /\ todo[1] = Put(key, v)
    /\ DOMAIN flash' = DOMAIN flash \cup {key}
    /\ flash'[key] = v /\ \A k \in DOMAIN flash : k # key => flash'[k] = flash[k]
    /\ rig' = rig /\ todo' = Tail(todo)

RigDone(m) ==
    /\ todo[1] = PutRig(m) /\ rig' = m /\ flash' = flash /\ todo' = Tail(todo)

ClearDone ==
    /\ todo[1] = Clear
    /\ DOMAIN flash' \subseteq DOMAIN flash /\ \A k \in DOMAIN flash' : flash'[k] = flash[k]
    /\ rig' = rig
    /\ todo' = todo \/ (todo' = Tail(todo) /\ DOMAIN flash' = {})

LEMMA WriteCases ==
    ASSUME todo \in Seq(Ops), Write
    PROVE  /\ phase = "writing" /\ todo # <<>> /\ Elsewhere
           /\ \/ \E key \in Keys : \E v \in Values[key] : PutDone(key, v)
              \/ \E m \in {{}, {Broadcast}} : RigDone(m)
              \/ ClearDone
<1>1. phase = "writing" /\ todo # <<>> /\ Elsewhere
  BY DEF Write, Elsewhere
<1> DEFINE op == Head(todo)
<1>2. op = todo[1] /\ op \in Ops
  BY <1>1, Popped
<1>3. \/ /\ op.kind = "put"
         /\ flash' = [k \in DOMAIN flash \cup {op.key} |-> IF k = op.key THEN op.value ELSE flash[k]]
         /\ todo' = Tail(todo) /\ rig' = rig
      \/ /\ op.kind = "rig"
         /\ rig' = op.value /\ todo' = Tail(todo) /\ flash' = flash
      \/ /\ op.kind = "clear"
         /\ \/ \E key \in DOMAIN flash : flash' = [k \in DOMAIN flash \ {key} |-> flash[k]]
            \/ DOMAIN flash = {} /\ flash' = flash
         /\ todo' = IF DOMAIN flash' = {} THEN Tail(todo) ELSE todo
         /\ rig' = rig
  BY DEF Write
<1> HIDE DEF op
<1>4. "put" # "rig" /\ "put" # "clear" /\ "rig" # "clear"
  OBVIOUS
<1>5. CASE \E key \in Keys : \E v \in Values[key] : op = Put(key, v)
  <2> PICK key \in Keys : \E v \in Values[key] : op = Put(key, v)
    BY <1>5
  <2>1. PICK v \in Values[key] : op = Put(key, v)
    OBVIOUS
  <2>2. op.kind = "put" /\ op.key = key /\ op.value = v
    BY <2>1, Shapes
  <2>3. /\ flash' = [k \in DOMAIN flash \cup {key} |-> IF k = key THEN v ELSE flash[k]]
        /\ todo' = Tail(todo) /\ rig' = rig
    BY <1>3, <1>4, <2>2
  <2>4. PutDone(key, v)
    BY <1>2, <2>1, <2>3 DEF PutDone
  <2> QED BY <1>1, <2>4
<1>6. CASE op \in Rigs
  <2>1. PICK m \in {{}, {Broadcast}} : op = PutRig(m)
    BY <1>6 DEF Rigs
  <2>2. op.kind = "rig" /\ op.value = m
    BY <2>1, Shapes
  <2>3. rig' = m /\ todo' = Tail(todo) /\ flash' = flash
    BY <1>3, <1>4, <2>2
  <2> QED BY <1>1, <1>2, <2>1, <2>3 DEF RigDone
<1>7. CASE op = Clear
  <2>1. op.kind = "clear"
    BY <1>7, Shapes
  <2>2. /\ \/ \E key \in DOMAIN flash : flash' = [k \in DOMAIN flash \ {key} |-> flash[k]]
           \/ DOMAIN flash = {} /\ flash' = flash
        /\ todo' = IF DOMAIN flash' = {} THEN Tail(todo) ELSE todo
        /\ rig' = rig
    BY <1>3, <1>4, <2>1
  <2>3. DOMAIN flash' \subseteq DOMAIN flash /\ \A k \in DOMAIN flash' : flash'[k] = flash[k]
    BY <2>2
  <2> QED BY <1>1, <1>2, <1>7, <2>2, <2>3 DEF ClearDone
<1> QED BY <1>1, <1>2, <1>5, <1>6, <1>7, KindsOfOp

\* The head of the list tells which.
LEMMA HeadDecides ==
    ASSUME todo \in Seq(Ops), Write
    PROVE  /\ \A key, v : todo[1] = Put(key, v) => PutDone(key, v)
           /\ \A m : todo[1] = PutRig(m) /\ m \in {{}, {Broadcast}} => RigDone(m)
<1>1. ASSUME NEW key, NEW v, todo[1] = Put(key, v) PROVE PutDone(key, v)
  <2>1. ~ClearDone /\ ~ \E m \in {{}, {Broadcast}} : RigDone(m)
    BY <1>1, Apart DEF ClearDone, RigDone, Rigs
  <2>2. \E k \in Keys : \E w \in Values[k] : PutDone(k, w)
    BY <2>1, WriteCases
  <2> PICK k \in Keys : \E w \in Values[k] : PutDone(k, w)
    BY <2>2
  <2>3. PICK w \in Values[k] : PutDone(k, w)
    OBVIOUS
  <2>4. Put(k, w) = Put(key, v)
    BY <1>1, <2>3 DEF PutDone
  <2>5. k = key /\ w = v
    BY <2>4, Shapes
  <2> QED BY <2>3, <2>5
<1>2. ASSUME NEW m \in {{}, {Broadcast}}, todo[1] = PutRig(m) PROVE RigDone(m)
  <2>1. PutRig(m) \in Rigs
    BY DEF Rigs
  <2>2. PICK n \in {{}, {Broadcast}} : RigDone(n)
    BY <1>2, <2>1, WriteCases, Apart DEF PutDone, ClearDone
  <2>3. n = m
    BY <1>2, <2>2, Shapes DEF RigDone
  <2> QED BY <2>2, <2>3
<1> QED BY <1>1, <1>2

\* What the record says afterwards.
LEMMA PutInRecord ==
    ASSUME NEW key, NEW v, PutDone(key, v), NEW k, NEW default
    PROVE  Stored(flash', k, default) = IF k = key THEN v ELSE Stored(flash, k, default)
BY DEF PutDone, Stored

LEMMA ClearInRecord ==
    ASSUME ClearDone, NEW k, NEW default
    PROVE  Stored(flash', k, default) \in {Stored(flash, k, default), default}
BY DEF ClearDone, Stored

\* The list afterwards.
LEMMA WriteAdvances ==
    ASSUME todo \in Seq(Ops), Write
    PROVE  todo' \in Seq(Ops) /\ Range(todo') \subseteq Range(todo) /\ todo[1] \in Range(todo)
<1>1. todo # <<>> /\ todo' \in {todo, Tail(todo)}
  BY WriteCases DEF PutDone, RigDone, ClearDone
<1>2. todo[1] \in Range(todo)
  BY <1>1, Popped DEF Range
<1>3. CASE todo' = todo
  BY <1>2, <1>3
<1>4. CASE todo' = Tail(todo)
  BY <1>1, <1>2, <1>4, Popped
<1> QED BY <1>1, <1>3, <1>4

-----------------------------------------------------------------------------
(***************************************************************************)
(* Each part of the invariant, over a write.                               *)
(***************************************************************************)

LEMMA WriteKeepsTypes ==
    ASSUME IInv, Write PROVE TypeOK' /\ PhaseHeld'
<1>1. todo \in Seq(Ops) /\ WellFormed(flash)
  BY DEF IInv, TypeOK
<1>2. phase = "writing" /\ Elsewhere
  BY <1>1, WriteCases
<1>3. WellFormed(flash') /\ rig' \in SUBSET (Hosts \cup {Broadcast})
  <2>1. CASE \E key \in Keys : \E v \in Values[key] : PutDone(key, v)
    BY <1>1, <2>1 DEF PutDone, WellFormed, IInv, TypeOK
  <2>2. CASE \E m \in {{}, {Broadcast}} : RigDone(m)
    BY <1>1, <2>2 DEF RigDone
  <2>3. CASE ClearDone
    BY <1>1, <2>3 DEF ClearDone, WellFormed, IInv, TypeOK
  <2> QED BY <1>1, <2>1, <2>2, <2>3, WriteCases
<1>4. TypeOK'
  BY <1>2, <1>3 DEF Elsewhere, IInv, TypeOK, memory, history
<1>5. Left' \subseteq Left
  BY <1>1, WriteAdvances DEF Left
<1>6. PhaseHeld'
  BY <1>2, <1>5 DEF Elsewhere, IInv, PhaseHeld, memory, history
<1> QED BY <1>4, <1>6

LEMMA WriteKeepsPromise ==
    ASSUME IInv, Write PROVE PromiseHeld'
<1> SUFFICES ASSUME NEW p \in promised'
             PROVE  /\ promised' = {p}
                    /\ Readable(flash') /\ FieldsOf(flash') = p
                    /\ Left' \subseteq Rigs \cup Puts(p)
  BY DEF PromiseHeld
<1>1. todo \in Seq(Ops) /\ WellFormed(flash) /\ Elsewhere
  BY WriteCases DEF IInv, TypeOK
<1>2. p \in promised /\ promised' = {p} /\ p \in Fields
  BY <1>1 DEF Elsewhere, history, IInv, PromiseHeld, TypeOK
<1>3. Readable(flash) /\ FieldsOf(flash) = p /\ Left \subseteq Rigs \cup Puts(p)
  BY <1>2 DEF IInv, PromiseHeld
<1>4. Left' \subseteq Rigs \cup Puts(p) /\ todo[1] \in Rigs \cup Puts(p)
  BY <1>1, <1>3, WriteAdvances DEF Left
<1>5. CASE \E key \in Keys : \E v \in Values[key] : PutDone(key, v)
  <2> PICK key \in Keys : \E v \in Values[key] : PutDone(key, v)
    BY <1>5
  <2>1. PICK v \in Values[key] : PutDone(key, v)
    OBVIOUS
  <2>2. todo[1] = Put(key, v) /\ Put(key, v) \notin Rigs
    BY <2>1, Apart DEF PutDone
  <2>3. v = Saved(p)[key]
    BY <1>4, <2>2, Shapes DEF Puts
  <2>4. Readable(flash')
    BY <1>3, <2>1, <2>3, ConfigStoreAssumption DEF PutDone, Readable, Saved, Keys
  <2>5. FieldsOf(flash') = FieldsOf(flash)
    <3>1. /\ Stored(flash, "host", Unset) = p.host /\ Stored(flash, "cred", Unset) = p.cred
          /\ Stored(flash, "blank", BlankDefault) = p.blank
      BY <1>3, FieldsOfRecord
    <3>2. /\ Saved(p)["host"] = p.host /\ Saved(p)["cred"] = p.cred /\ Saved(p)["blank"] = p.blank
      BY DEF Saved
    <3>3. /\ Stored(flash', "host", Unset) = p.host /\ Stored(flash', "cred", Unset) = p.cred
          /\ Stored(flash', "blank", BlankDefault) = p.blank
      BY <2>1, <2>3, <3>1, <3>2, PutInRecord
    <3> QED BY <3>1, <3>3 DEF FieldsOf
  <2> QED BY <1>2, <1>3, <1>4, <2>4, <2>5
<1>6. CASE \E m \in {{}, {Broadcast}} : RigDone(m)
  BY <1>2, <1>3, <1>4, <1>6 DEF RigDone
<1>7. ~ClearDone
  <2>1. Clear \notin Rigs \cup Puts(p)
    BY Apart DEF Puts
  <2> QED BY <1>4, <2>1 DEF ClearDone
<1> QED BY <1>1, <1>5, <1>6, <1>7, WriteCases

LEMMA WriteKeepsSave ==
    ASSUME IInv, Write PROVE SaveHeld'
<1>1. todo \in Seq(Ops) /\ Elsewhere /\ todo # <<>>
  BY WriteCases DEF IInv
<1>2. UNCHANGED <<after, attempt, cfg>>
  BY <1>1 DEF Elsewhere, memory, history
<1> SUFFICES ASSUME after = "restarting", attempt # {}
             PROVE  /\ Left' \subseteq Rigs \cup Puts(cfg)
                    /\ \A key \in Keys :
                          \/ key \in DOMAIN flash' /\ flash'[key] = Saved(cfg)[key]
                          \/ Put(key, Saved(cfg)[key]) \in Left'
  BY <1>2 DEF SaveHeld
<1>3. /\ Left \subseteq Rigs \cup Puts(cfg)
      /\ \A key \in Keys :
            \/ key \in DOMAIN flash /\ flash[key] = Saved(cfg)[key]
            \/ Put(key, Saved(cfg)[key]) \in Left
  BY DEF IInv, SaveHeld
<1>4. Left' \subseteq Rigs \cup Puts(cfg) /\ todo[1] \in Rigs \cup Puts(cfg)
  BY <1>1, <1>3, WriteAdvances DEF Left
<1>5. todo' = Tail(todo) => Left \subseteq Left' \cup {todo[1]}
  BY <1>1, Popped DEF Left
<1>6. CASE \E key \in Keys : \E v \in Values[key] : PutDone(key, v)
  <2> PICK key \in Keys : \E v \in Values[key] : PutDone(key, v)
    BY <1>6
  <2>1. PICK v \in Values[key] : PutDone(key, v)
    OBVIOUS
  <2>2. todo[1] = Put(key, v) /\ v = Saved(cfg)[key]
    BY <1>4, <2>1, Apart, Shapes DEF PutDone, Puts
  <2> SUFFICES ASSUME NEW k \in Keys
               PROVE  \/ k \in DOMAIN flash' /\ flash'[k] = Saved(cfg)[k]
                      \/ Put(k, Saved(cfg)[k]) \in Left'
    BY <1>4
  <2>3. CASE k = key
    BY <2>1, <2>2, <2>3 DEF PutDone
  <2>4. CASE k # key
    <3>1. Put(k, Saved(cfg)[k]) # todo[1]
      BY <2>2, <2>4, Shapes
    <3>2. todo' = Tail(todo)
      BY <2>1 DEF PutDone
    <3> QED BY <1>3, <1>5, <2>1, <2>4, <3>1, <3>2 DEF PutDone
  <2> QED BY <2>3, <2>4
<1>7. CASE \E m \in {{}, {Broadcast}} : RigDone(m)
  <2>1. todo[1] \in Rigs /\ flash' = flash /\ todo' = Tail(todo)
    BY <1>7 DEF RigDone, Rigs
  <2>2. \A key, v : Put(key, v) # todo[1]
    BY <2>1, Apart
  <2> QED BY <1>3, <1>4, <1>5, <2>1, <2>2
<1>8. ~ClearDone
  BY <1>4, Apart DEF ClearDone, Puts
<1> QED BY <1>1, <1>6, <1>7, <1>8, WriteCases

LEMMA WriteKeepsMix ==
    ASSUME IInv, Write PROVE MixHeld'
<1>1. todo \in Seq(Ops) /\ Elsewhere
  BY WriteCases DEF IInv
<1> SUFFICES ASSUME NEW a \in attempt
             PROVE  /\ \A field \in FieldNames : FieldsOf(flash')[field] \in Mix(a, field)
                    /\ ~Readable(flash') => DefaultConfig \in a.old
                    /\ \A op \in Left' :
                          \/ op \in Rigs \cup {Put("schema", SchemaVersion)}
                          \/ \E field \in FieldNames : \E v \in Mix(a, field) : op = Put(field, v)
  BY <1>1 DEF MixHeld, Elsewhere, history
<1>2. /\ \A field \in FieldNames : FieldsOf(flash)[field] \in Mix(a, field)
      /\ ~Readable(flash) => DefaultConfig \in a.old
      /\ \A op \in Left :
            \/ op \in Rigs \cup {Put("schema", SchemaVersion)}
            \/ \E field \in FieldNames : \E v \in Mix(a, field) : op = Put(field, v)
  BY DEF IInv, MixHeld
<1>3. Left' \subseteq Left /\ todo[1] \in Left
  BY <1>1, WriteAdvances DEF Left
<1>4. CASE \E key \in Keys : \E v \in Values[key] : PutDone(key, v)
  <2> PICK key \in Keys : \E v \in Values[key] : PutDone(key, v)
    BY <1>4
  <2>1. PICK v \in Values[key] : PutDone(key, v)
    OBVIOUS
  <2>2. \/ key = "schema" /\ v = SchemaVersion
        \/ key \in FieldNames /\ v \in Mix(a, key)
    <3>1. Put(key, v) \in Left
      BY <1>3, <2>1 DEF PutDone
    <3>2. \/ Put(key, v) = Put("schema", SchemaVersion)
          \/ \E field \in FieldNames : \E w \in Mix(a, field) : Put(key, v) = Put(field, w)
      BY <1>2, <3>1, Apart
    <3> QED BY <3>2, Shapes
  <2>3. Readable(flash) => Readable(flash')
    BY <2>1, <2>2, ConfigStoreAssumption DEF PutDone, Readable, FieldNames
  <2>4. ASSUME NEW field \in FieldNames PROVE FieldsOf(flash')[field] \in Mix(a, field)
    <3>1. FieldsOf(flash')[field] \in {FieldsOf(flash)[field], v}
             /\ (field # key => FieldsOf(flash')[field] = FieldsOf(flash)[field])
      <4>1. \A record : /\ FieldsOf(record)["host"] = Stored(record, "host", Unset)
                        /\ FieldsOf(record)["cred"] = Stored(record, "cred", Unset)
                        /\ FieldsOf(record)["blank"] = Stored(record, "blank", BlankDefault)
        BY DEF FieldsOf
      <4>2. \A k, default : /\ Stored(flash', k, default) \in {Stored(flash, k, default), v}
                            /\ k # key => Stored(flash', k, default) = Stored(flash, k, default)
        BY <2>1, PutInRecord
      <4>3. field = "host" \/ field = "cred" \/ field = "blank"
        BY DEF FieldNames
      <4> QED BY <4>1, <4>2, <4>3
    <3>2. CASE field = key
      <4>1. v \in Mix(a, field)
        BY <2>2, <3>2 DEF FieldNames
      <4> QED BY <1>2, <3>1, <4>1
    <3>3. CASE field # key
      BY <1>2, <3>1, <3>3
    <3> QED BY <3>2, <3>3
  <2> QED BY <1>2, <1>3, <2>3, <2>4
<1>5. CASE \E m \in {{}, {Broadcast}} : RigDone(m)
  BY <1>2, <1>3, <1>5 DEF RigDone
<1>6. ~ClearDone
  BY <1>2, <1>3, Apart DEF ClearDone
<1> QED BY <1>1, <1>4, <1>5, <1>6, WriteCases

LEMMA WriteKeepsErased ==
    ASSUME IInv, Write PROVE ErasedHeld'
<1>1. todo \in Seq(Ops) /\ Elsewhere /\ todo # <<>>
  BY WriteCases DEF IInv
<1>2. UNCHANGED <<phase, after, mac, cfg, erased>>
  BY <1>1 DEF Elsewhere, memory, history
<1>3. CASE ~erased
  BY <1>2, <1>3 DEF ErasedHeld
<1>4. CASE erased /\ "restarting" \in {phase, after}
  <2>1. mac = {} /\ EraseLeft
    BY <1>4 DEF IInv, ErasedHeld
  <2> SUFFICES EraseLeft'
    BY <1>2, <1>4, <2>1 DEF ErasedHeld
  <2>2. /\ Len(todo) \in Nat /\ Len(todo) > 0 /\ DOMAIN todo = 1 .. Len(todo)
        /\ 1 \in DOMAIN todo
    BY <1>1, Elements
  <2>3. CASE todo' = Tail(todo)
    <3>1. /\ todo' \in Seq(Ops) /\ Len(todo') = Len(todo) - 1
          /\ \A i \in DOMAIN todo' : i + 1 \in DOMAIN todo /\ todo'[i] = todo[i + 1]
          /\ \A i \in DOMAIN todo : i # 1 => i - 1 \in DOMAIN todo' /\ todo'[i - 1] = todo[i]
          /\ Left' \subseteq Left /\ Left \subseteq Left' \cup {todo[1]}
      BY <1>1, <2>3, Popped DEF Left
    <3>2. DOMAIN todo' = 1 .. Len(todo') /\ (todo' # <<>> => Len(todo') > 0) /\ Len(todo') \in Nat
      BY <3>1, Elements
    <3>3. \A i, j \in DOMAIN todo' : i < j /\ todo'[i].kind # "put" => todo'[j].kind = "rig"
      BY <2>1, <2>2, <3>1, <3>2 DEF EraseLeft
    <3>4. \A i \in DOMAIN todo' : todo'[i].kind = "put" => \E j \in DOMAIN todo' : i < j /\ todo'[j] = Clear
      <4> SUFFICES ASSUME NEW i \in DOMAIN todo', todo'[i].kind = "put"
                   PROVE  \E j \in DOMAIN todo' : i < j /\ todo'[j] = Clear
        OBVIOUS
      <4>1. PICK j \in DOMAIN todo : i + 1 < j /\ todo[j] = Clear
        BY <2>1, <3>1 DEF EraseLeft
      <4>2. j - 1 \in DOMAIN todo' /\ todo'[j - 1] = Clear /\ i < j - 1
        BY <2>2, <3>1, <3>2, <4>1
      <4> QED BY <4>2
    <3>5. todo' # <<>> => todo'[Len(todo')] = PutRig({})
      <4> SUFFICES ASSUME todo' # <<>> PROVE todo'[Len(todo')] = PutRig({})
        OBVIOUS
      <4>1. Len(todo') \in DOMAIN todo' /\ Len(todo') + 1 = Len(todo)
        BY <2>2, <3>1, <3>2
      <4>2. todo[Len(todo)] = PutRig({})
        BY <1>1, <2>1 DEF EraseLeft
      <4> QED BY <3>1, <4>1, <4>2
    <3>6. todo' = <<>> => rig' = {}
      <4> SUFFICES ASSUME todo' = <<>> PROVE rig' = {}
        OBVIOUS
      <4>1. Len(todo) = 1
        BY <2>2, <3>1, EmptyList
      <4>2. todo[1] = PutRig({})
        BY <1>1, <2>1, <4>1 DEF EraseLeft
      <4> QED BY <1>1, <4>2, HeadDecides DEF RigDone
    <3>7. DOMAIN flash' = {} \/ Clear \in Left'
      <4>1. CASE \E key \in Keys : \E v \in Values[key] : PutDone(key, v)
        <5>1. todo[1].kind = "put"
          BY <4>1, Shapes DEF PutDone
        <5>2. PICK j \in DOMAIN todo : 1 < j /\ todo[j] = Clear
          BY <2>1, <2>2, <5>1 DEF EraseLeft
        <5> QED BY <2>2, <3>1, <5>2 DEF Left, Range
      <4>2. CASE \E m \in {{}, {Broadcast}} : RigDone(m)
        <5>1. todo[1] \in Rigs /\ flash' = flash
          BY <4>2 DEF RigDone, Rigs
        <5>2. todo[1] # Clear
          BY <5>1, Apart
        <5> QED BY <2>1, <3>1, <5>1, <5>2 DEF EraseLeft
      <4>3. CASE ClearDone
        <5>1. todo' # todo
          BY <2>2, <3>1
        <5> QED BY <4>3, <5>1 DEF ClearDone
      <4> QED BY <1>1, <4>1, <4>2, <4>3, WriteCases
    <3> QED BY <3>3, <3>4, <3>5, <3>6, <3>7 DEF EraseLeft
  <2>4. CASE todo' # Tail(todo)
    <3>1. ClearDone /\ todo' = todo
      BY <1>1, <2>4, WriteCases DEF PutDone, RigDone, ClearDone
    <3>2. Clear \in Left'
      BY <2>2, <3>1 DEF ClearDone, Left, Range
    <3> QED BY <1>1, <2>1, <3>1, <3>2 DEF EraseLeft
  <2> QED BY <2>3, <2>4
<1>5. CASE erased /\ "restarting" \notin {phase, after}
  <2>1. /\ mac = {}
        /\ FlashHost = Unset /\ Stored(flash, "cred", Unset) = Unset
        /\ rig = {}
        /\ cfg.host = Unset /\ cfg.cred = Unset
        /\ Left \subseteq Puts(cfg)
    BY <1>5 DEF IInv, ErasedHeld
  <2>2. Left' \subseteq Puts(cfg) /\ todo[1] \in Puts(cfg)
    BY <1>1, <2>1, WriteAdvances DEF Left
  <2>3. PICK key \in Keys : todo[1] = Put(key, Saved(cfg)[key])
    BY <2>2 DEF Puts
  <2>4. PutDone(key, Saved(cfg)[key])
    BY <1>1, <2>3, HeadDecides
  <2>5. Saved(cfg)["host"] = Unset /\ Saved(cfg)["cred"] = Unset
    BY <2>1 DEF Saved
  <2>6. FlashHost' = Unset /\ Stored(flash', "cred", Unset) = Unset
    BY <2>1, <2>4, <2>5, PutInRecord DEF FlashHost
  <2>7. rig' = rig
    BY <2>4 DEF PutDone
  <2> QED BY <1>2, <1>5, <2>1, <2>2, <2>6, <2>7 DEF ErasedHeld
<1> QED BY <1>3, <1>4, <1>5

LEMMA WriteKeepsAddress ==
    ASSUME IInv, Write PROVE AddressHeld'
<1>1. todo \in Seq(Ops) /\ Elsewhere /\ todo # <<>>
  BY WriteCases DEF IInv
<1>2. UNCHANGED <<phase, after, mac, pc, cfg, strayed>>
  BY <1>1 DEF Elsewhere, memory, history
<1> SUFFICES ASSUME ~strayed PROVE AddressHeld'
  BY <1>2 DEF AddressHeld
<1>3. /\ FlashHost \in Hosts => rig \subseteq {FlashHost, Broadcast}
      /\ \A i \in DOMAIN todo, h \in Hosts :
            todo[i] = Put("host", h) =>
                rig \subseteq {h, Broadcast} \/ \E j \in DOMAIN todo : j < i /\ todo[j] = PutRig({})
  BY DEF IInv, AddressHeld
<1>4. /\ Len(todo) \in Nat /\ Len(todo) > 0 /\ DOMAIN todo = 1 .. Len(todo)
      /\ 1 \in DOMAIN todo
  BY <1>1, Elements
\* No host is written over the address of another.
<1>5. FlashHost' \in Hosts => rig' \subseteq {FlashHost', Broadcast}
  <2>1. CASE \E key \in Keys : \E v \in Values[key] : PutDone(key, v)
    <3> PICK key \in Keys : \E v \in Values[key] : PutDone(key, v)
      BY <2>1
    <3>1. PICK v \in Values[key] : PutDone(key, v)
      OBVIOUS
    <3>2. rig' = rig /\ todo[1] = Put(key, v) /\ FlashHost' = IF "host" = key THEN v ELSE FlashHost
      BY <3>1, PutInRecord DEF PutDone, FlashHost
    <3>3. CASE "host" = key
      <4>1. v \in Hosts => rig \subseteq {v, Broadcast}
        BY <1>3, <1>4, <3>2, <3>3
      <4> QED BY <3>2, <3>3, <4>1
    <3>4. CASE "host" # key
      BY <1>3, <3>2, <3>4
    <3> QED BY <3>3, <3>4
  <2>2. CASE \E m \in {{}, {Broadcast}} : RigDone(m)
    BY <2>2 DEF RigDone
  <2>3. CASE ClearDone
    <3>1. FlashHost' \in {FlashHost, Unset} /\ rig' = rig
      BY <2>3, ClearInRecord DEF ClearDone, FlashHost
    <3> QED BY <1>3, <3>1, OperatorAssumption
  <2> QED BY <1>1, <2>1, <2>2, <2>3, WriteCases
<1>6. ASSUME NEW i \in DOMAIN todo', NEW h \in Hosts, todo'[i] = Put("host", h)
      PROVE  \/ rig' \subseteq {h, Broadcast}
             \/ \E j \in DOMAIN todo' : j < i /\ todo'[j] = PutRig({})
  <2>1. rig' = rig \/ rig' \subseteq {Broadcast}
    BY <1>1, WriteCases DEF PutDone, RigDone, ClearDone
  <2>2. CASE todo' = Tail(todo)
    <3>1. /\ i + 1 \in DOMAIN todo /\ todo[i + 1] = Put("host", h)
          /\ \A j \in DOMAIN todo : j # 1 => j - 1 \in DOMAIN todo' /\ todo'[j - 1] = todo[j]
          /\ DOMAIN todo' = 1 .. Len(todo') /\ Len(todo') \in Nat
      BY <1>1, <1>6, <2>2, Popped, Elements
    <3>2. CASE rig \subseteq {h, Broadcast}
      BY <2>1, <3>2
    <3>3. CASE \E j \in DOMAIN todo : j < i + 1 /\ todo[j] = PutRig({})
      <4>1. PICK j \in DOMAIN todo : j < i + 1 /\ todo[j] = PutRig({})
        BY <3>3
      <4>2. CASE j = 1
        <5>1. rig' = {}
          BY <1>1, <4>1, <4>2, HeadDecides DEF RigDone
        <5> QED BY <5>1
      <4>3. CASE j # 1
        <5>1. j - 1 \in DOMAIN todo' /\ todo'[j - 1] = PutRig({}) /\ j - 1 < i
          BY <1>4, <3>1, <4>1, <4>3
        <5> QED BY <5>1
      <4> QED BY <4>2, <4>3
    <3> QED BY <1>3, <3>1, <3>2, <3>3
  <2>3. CASE todo' # Tail(todo)
    <3>1. todo' = todo /\ rig' = rig
      BY <1>1, <2>3, WriteCases DEF PutDone, RigDone, ClearDone
    <3> QED BY <1>3, <1>6, <3>1
  <2> QED BY <2>2, <2>3
\* The boot writes nothing else under the host; a page's save that failed writes
\* no part of the record.
<1>7. cfg.host \in Hosts =>
         /\ phase \in {"starting", "running"} \/ after = "running" => FlashHost' = cfg.host
         /\ after = "starting" => FlashHost' = cfg.host \/ Put("host", cfg.host) \in Left'
  <2> SUFFICES ASSUME cfg.host \in Hosts
               PROVE  /\ phase \in {"starting", "running"} \/ after = "running" => FlashHost' = cfg.host
                      /\ after = "starting" => FlashHost' = cfg.host \/ Put("host", cfg.host) \in Left'
    OBVIOUS
  <2>1. phase = "writing"
    BY <1>1, WriteCases DEF IInv
  <2>2. ASSUME after = "running" PROVE FlashHost' = cfg.host
    <3>1. FlashHost = cfg.host /\ todo[1] \in Rigs
      BY <1>1, <2>2, WriteAdvances DEF IInv, AddressHeld, PhaseHeld, Left
    <3>2. flash' = flash
      BY <1>1, <3>1, WriteCases, Apart DEF PutDone, RigDone, ClearDone
    <3> QED BY <3>1, <3>2 DEF FlashHost
  <2>3. ASSUME after = "starting" PROVE FlashHost' = cfg.host \/ Put("host", cfg.host) \in Left'
    <3>1. /\ FlashHost = cfg.host \/ Put("host", cfg.host) \in Left
          /\ todo[1] \in Puts(cfg)
      BY <1>1, <2>3, WriteAdvances DEF IInv, AddressHeld, PhaseHeld, Left
    <3>2. PICK key \in Keys : todo[1] = Put(key, Saved(cfg)[key])
      BY <3>1 DEF Puts
    <3>3. PutDone(key, Saved(cfg)[key])
      BY <1>1, <3>2, HeadDecides
    <3>4. CASE key = "host"
      <4>1. FlashHost' = Saved(cfg)["host"]
        BY <3>3, <3>4, PutInRecord DEF FlashHost
      <4> QED BY <4>1 DEF Saved
    <3>5. CASE key # "host"
      <4>1. FlashHost' = FlashHost
        BY <3>3, <3>5, PutInRecord DEF FlashHost
      <4>2. Put("host", cfg.host) # todo[1]
        BY <3>2, <3>5, Shapes
      <4>3. Left \subseteq Left' \cup {todo[1]}
        BY <1>1, <3>3, Popped DEF Left, PutDone
      <4> QED BY <3>1, <4>1, <4>2, <4>3
    <3> QED BY <3>4, <3>5
  <2> QED BY <2>1, <2>2, <2>3
<1>8. /\ cfg.host \in Hosts /\ "running" \in {phase, after} => mac \subseteq {cfg.host, Broadcast}
      /\ "running" \in {phase, after} => pc \subseteq {cfg.host}
  BY DEF IInv, AddressHeld
<1> QED BY <1>2, <1>5, <1>6, <1>7, <1>8 DEF AddressHeld

-----------------------------------------------------------------------------
(***************************************************************************)
(* The other steps.                                                        *)
(***************************************************************************)

LEMMA AtRest ==
    ASSUME IInv, phase # "writing"
    PROVE  todo = <<>> /\ after = "off" /\ Left = {} /\ DOMAIN todo = {}
<1>1. todo = <<>> /\ after = "off"
  BY DEF IInv, PhaseHeld
<1>2. Left = {}
  BY <1>1, EmptyList DEF Left
<1>3. DOMAIN todo = {}
  BY <1>2 DEF Left, Range
<1> QED BY <1>1, <1>2, <1>3

LEMMA NothingLeft ==
    ASSUME todo' = <<>> PROVE Left' = {} /\ DOMAIN todo' = {} /\ todo' \in Seq(Ops)
<1>1. todo' \in Seq(Ops) /\ Left' = {}
  BY EmptyList DEF Left
<1>2. DOMAIN todo' = {}
  BY <1>1 DEF Left, Range
<1> QED BY <1>1, <1>2

LEMMA OpensOrNot == Opens \subseteq BOOLEAN
BY DEF Opens

\* A record of which nothing is left.
LEMMA EmptyRecord ==
    ASSUME NEW record, DOMAIN record = {}, NEW key, NEW default
    PROVE  Stored(record, key, default) = default
BY DEF Stored

\* What is loaded is what the record says, for a host that is one.
LEMMA LoadedHost ==
    ASSUME NEW record, Loaded(record).host \in Hosts
    PROVE  Stored(record, "host", Unset) = Loaded(record).host
BY FieldsOfRecord, OperatorAssumption

\* The program ends, at any point between two writes.
LEMMA OffKeeps ==
    ASSUME IInv, Off, UNCHANGED <<flash, rig, promised, attempt, strayed>>,
           wifi' \in SUBSET Networks, cuts' \in 0 .. MaxCuts,
           erased' \in BOOLEAN, erased' => erased /\ todo = <<>>
    PROVE  IInv'
<1>1. /\ phase' = "off" /\ todo' = <<>> /\ after' = "off"
      /\ cfg' = DefaultConfig /\ mac' = {} /\ pc' = {} /\ staged' = {}
  BY DEF Off
<1>2. Left' = {} /\ DOMAIN todo' = {} /\ todo' \in Seq(Ops)
  BY <1>1, NothingLeft
<1>3. TypeOK'
  BY <1>1, LoadedIsTyped DEF IInv, TypeOK, Phases, WellFormed
<1>4. PhaseHeld' /\ SaveHeld'
  BY <1>1, <1>2 DEF PhaseHeld, SaveHeld
<1>5. PromiseHeld' /\ MixHeld'
  BY <1>2 DEF IInv, PromiseHeld, MixHeld
<1>6. ErasedHeld'
  <2> SUFFICES ASSUME erased, todo = <<>>
               PROVE  FlashHost = Unset /\ Stored(flash, "cred", Unset) = Unset /\ rig = {}
    BY <1>1, <1>2, FieldsOfRecord DEF ErasedHeld, FlashHost
  <2>1. CASE "restarting" \in {phase, after}
    <3>1. DOMAIN flash = {} /\ rig = {}
      BY <2>1, EmptyList DEF IInv, ErasedHeld, EraseLeft, Left
    <3> QED BY <3>1, EmptyRecord DEF FlashHost
  <2>2. CASE "restarting" \notin {phase, after}
    BY <2>2 DEF IInv, ErasedHeld
  <2> QED BY <2>1, <2>2
<1>7. AddressHeld'
  BY <1>1, <1>2, FieldsOfRecord, OperatorAssumption DEF IInv, AddressHeld, FlashHost
<1> QED BY <1>2, <1>3, <1>4, <1>5, <1>6, <1>7 DEF IInv

LEMMA LoadKeeps == ASSUME IInv, Load PROVE IInv'
<1>1. /\ phase = "off" /\ phase' = "joining"
      /\ UNCHANGED <<flash, rig, wifi, todo, after, mac, pc, staged, cuts, erased, strayed>>
  BY DEF Load, store
<1>8. \/ /\ cfg' = Loaded(flash) /\ attempt' = attempt
         /\ promised' = IF promised = {} /\ LoadSucceeds(flash) THEN {Loaded(flash)} ELSE promised
      \/ cfg' = DefaultConfig /\ promised' = {} /\ attempt' = {}
  BY DEF Load
<1>2. todo = <<>> /\ after = "off" /\ Left = {} /\ DOMAIN todo = {} /\ Left' = Left
  BY <1>1, AtRest DEF Left
<1>3. TypeOK'
  <2>1. WellFormed(flash) /\ promised \in SUBSET Fields
    BY DEF IInv, TypeOK
  <2>2. cfg' \in Fields /\ promised' \in SUBSET Fields
    BY <1>8, <2>1, LoadedIsTyped
  <2> QED BY <1>1, <2>2 DEF IInv, TypeOK, Phases, WellFormed
<1>4. PhaseHeld' /\ SaveHeld' /\ MixHeld'
  BY <1>1, <1>2, <1>8 DEF IInv, PhaseHeld, SaveHeld, MixHeld
<1>5. PromiseHeld'
  <2>1. LoadSucceeds(flash) => Readable(flash) /\ FieldsOf(flash) = Loaded(flash)
    BY FieldsOfRecord DEF LoadSucceeds
  <2> QED BY <1>1, <1>2, <1>8, <2>1 DEF IInv, PromiseHeld
<1>6. ErasedHeld'
  <2>1. FlashHost = Unset /\ Stored(flash, "cred", Unset) = Unset
           => Loaded(flash).host = Unset /\ Loaded(flash).cred = Unset
    BY FieldsOfRecord DEF FlashHost
  <2> QED BY <1>1, <1>2, <1>8, <2>1, FieldsOfRecord DEF IInv, ErasedHeld, FlashHost
<1>7. AddressHeld'
  BY <1>1, <1>2 DEF IInv, AddressHeld, FlashHost
<1> QED BY <1>1, <1>3, <1>4, <1>5, <1>6, <1>7 DEF IInv

\* The boot's save, of a configuration that is loaded or was entered.
LEMMA BootSaves ==
    ASSUME NEW c \in Fields, SaveAtBoot(c)
    PROVE  /\ phase' = "writing" /\ after' = "starting"
           /\ todo' \in Seq(Ops) /\ Left' \subseteq Puts(c)
           /\ todo' # <<>> => Left' = Puts(c)
           /\ \A i \in DOMAIN todo', h \in Hosts : todo'[i] = Put("host", h) => h = c.host
<1>1. phase' = "writing" /\ after' = "starting" /\ todo' \in {SaveWrites(c), <<>>}
  BY DEF SaveAtBoot
<1>2. /\ todo' \in Seq(Ops) /\ Left' \subseteq Puts(c)
      /\ todo' # <<>> => Left' = Puts(c)
  BY <1>1, SaveList, EmptyList DEF Left
<1>3. ASSUME NEW i \in DOMAIN todo', NEW h \in Hosts, todo'[i] = Put("host", h) PROVE h = c.host
  <2>1. Put("host", h) \in Puts(c)
    BY <1>2, <1>3 DEF Left, Range
  <2>2. Saved(c)["host"] = c.host
    BY DEF Saved
  <2> QED BY <2>1, <2>2, Shapes DEF Puts
<1> QED BY <1>1, <1>2, <1>3

LEMMA JoinKeeps == ASSUME IInv, Join PROVE IInv'
<1>1. /\ phase = "joining" /\ SaveAtBoot(cfg)
      /\ UNCHANGED <<flash, rig, wifi, cfg, mac, pc, staged, cuts, promised, attempt, erased, strayed>>
  BY DEF Join, store, memory, history
<1>2. /\ cfg \in Fields /\ WellFormed(flash)
      /\ cfg = Loaded(flash) \/ (cfg = DefaultConfig /\ promised = {} /\ attempt = {})
  BY <1>1 DEF IInv, TypeOK, PhaseHeld
<1>3. /\ phase' = "writing" /\ after' = "starting"
      /\ todo' \in Seq(Ops) /\ Left' \subseteq Puts(cfg)
      /\ \A i \in DOMAIN todo', h \in Hosts : todo'[i] = Put("host", h) => h = cfg.host
  BY <1>1, <1>2, BootSaves
<1>4. TypeOK'
  BY <1>1, <1>3 DEF IInv, TypeOK, Phases, WellFormed
<1>5. PhaseHeld' /\ SaveHeld'
  BY <1>1, <1>3 DEF PhaseHeld, SaveHeld
<1>6. PromiseHeld'
  BY <1>1, <1>2, <1>3, FieldsOfRecord DEF IInv, PromiseHeld
<1>7. MixHeld'
  <2> SUFFICES ASSUME NEW a \in attempt, NEW op \in Puts(cfg)
               PROVE  \/ op = Put("schema", SchemaVersion)
                      \/ \E field \in FieldNames : \E v \in Mix(a, field) : op = Put(field, v)
    BY <1>1, <1>3 DEF IInv, MixHeld
  <2>1. \A field \in FieldNames : cfg[field] \in Mix(a, field)
    BY <1>2, FieldsOfRecord DEF IInv, MixHeld, Mix
  <2>2. /\ cfg["host"] = cfg.host /\ cfg["cred"] = cfg.cred /\ cfg["blank"] = cfg.blank
        /\ Puts(cfg) = {Put("schema", SchemaVersion), Put("host", cfg.host), Put("cred", cfg.cred),
                        Put("blank", cfg.blank)}
    BY <1>2, ByName, PutsAreOps
  <2> QED BY <2>1, <2>2 DEF FieldNames
<1>8. ErasedHeld'
  BY <1>1, <1>3, AtRest DEF IInv, ErasedHeld, FlashHost
<1>9. AddressHeld'
  <2>1. cfg.host \in Hosts => FlashHost = cfg.host
    BY <1>2, LoadedHost, FieldsOfRecord, OperatorAssumption DEF FlashHost
  <2> QED BY <1>1, <1>3, <2>1, AtRest DEF IInv, AddressHeld, FlashHost
<1> QED BY <1>3, <1>4, <1>5, <1>6, <1>7, <1>8, <1>9 DEF IInv

LEMMA PortalKeeps == ASSUME IInv, RaisePortal \/ PortalSubmit PROVE IInv'
<1>1. CASE RaisePortal
  <2>1. /\ phase = "joining" /\ phase' = "portal"
        /\ UNCHANGED <<flash, rig, wifi, todo, after, cfg, mac, pc, staged, cuts,
                       promised, attempt, erased, strayed>>
    BY <1>1 DEF RaisePortal, store, memory, history
  <2> QED BY <2>1 DEF IInv, TypeOK, Phases, WellFormed, PhaseHeld, PromiseHeld, SaveHeld, MixHeld,
                      ErasedHeld, EraseLeft, AddressHeld, Left, FlashHost
<1>2. CASE PortalSubmit
  <2>1. /\ phase = "portal"
        /\ UNCHANGED <<flash, rig, mac, pc, staged, cuts>>
    BY <1>2 DEF PortalSubmit
  <2>2. PICK network \in Networks, host \in {cfg.host} \cup Hosts, cred \in {cfg.cred} \cup Creds :
           /\ cfg' = [cfg EXCEPT !.host = host, !.cred = cred]
           /\ wifi' = {network}
           /\ SaveAtBoot(cfg')
           /\ strayed' = (strayed \/ (host # cfg.host /\ (rig # {} \/ todo' = <<>>)))
           /\ promised' = {} /\ attempt' = {} /\ erased' = FALSE
    BY <1>2 DEF PortalSubmit
  <2>3. cfg \in Fields /\ WellFormed(flash) /\ (cfg = Loaded(flash) \/ cfg = DefaultConfig)
    BY <2>1 DEF IInv, TypeOK, PhaseHeld
  <2>4. cfg' \in Fields /\ cfg'.host = host
    BY <2>2, <2>3 DEF Fields, Values
  <2>5. /\ phase' = "writing" /\ after' = "starting"
        /\ todo' \in Seq(Ops) /\ Left' \subseteq Puts(cfg')
        /\ todo' # <<>> => Left' = Puts(cfg')
        /\ \A i \in DOMAIN todo', h \in Hosts : todo'[i] = Put("host", h) => h = host
    BY <2>2, <2>4, BootSaves
  <2>6. TypeOK'
    BY <2>1, <2>2, <2>4, <2>5 DEF IInv, TypeOK, Phases, WellFormed
  <2>7. PhaseHeld' /\ SaveHeld' /\ PromiseHeld' /\ MixHeld' /\ ErasedHeld'
    BY <2>2, <2>5 DEF PhaseHeld, SaveHeld, PromiseHeld, MixHeld, ErasedHeld
  <2>8. AddressHeld'
    <3> SUFFICES ASSUME ~strayed' PROVE AddressHeld'
      BY DEF AddressHeld
    <3>1. ~strayed /\ (host = cfg.host \/ (rig = {} /\ todo' # <<>>))
      BY <2>2
    <3>2. FlashHost \in Hosts => rig \subseteq {FlashHost, Broadcast}
      BY <3>1 DEF IInv, AddressHeld
    <3>3. host = cfg.host /\ host \in Hosts => FlashHost = host
      BY <2>3, LoadedHost, FieldsOfRecord, OperatorAssumption DEF FlashHost
    <3>4. host \in Hosts => rig \subseteq {host, Broadcast}
      BY <3>1, <3>2, <3>3
    <3>5. todo' # <<>> => Put("host", host) \in Left'
      <4>1. "host" \in Keys /\ Saved(cfg')["host"] = host
        BY <2>4 DEF Keys, Saved
      <4>2. Put("host", host) \in Puts(cfg')
        BY <4>1 DEF Puts
      <4> QED BY <2>5, <4>2
    <3> QED BY <2>1, <2>4, <2>5, <3>1, <3>2, <3>3, <3>4, <3>5 DEF AddressHeld, FlashHost
  <2> QED BY <2>5, <2>6, <2>7, <2>8 DEF IInv
<1> QED BY <1>1, <1>2

LEMMA StartKeeps == ASSUME IInv, Start PROVE IInv'
<1>1. /\ phase = "starting" /\ phase' = "running"
      /\ pc' \in Resolved(cfg.host) /\ mac' \in {rig, {}}
      /\ UNCHANGED <<flash, rig, wifi, todo, after, cfg, staged, cuts, promised, attempt, erased, strayed>>
  BY DEF Start, store, history
<1>2. todo = <<>> /\ after = "off" /\ Left = {} /\ DOMAIN todo = {} /\ Left' = Left
  BY <1>1, AtRest DEF Left
<1>3. pc' \subseteq {cfg.host} /\ pc' \subseteq Hosts
  BY <1>1 DEF Resolved
<1>4. TypeOK'
  BY <1>1, <1>3 DEF IInv, TypeOK, Phases, WellFormed
<1>5. PhaseHeld' /\ SaveHeld' /\ MixHeld' /\ PromiseHeld'
  BY <1>1, <1>2 DEF IInv, PhaseHeld, SaveHeld, MixHeld, PromiseHeld
<1>6. ErasedHeld'
  BY <1>1, <1>2 DEF IInv, ErasedHeld, FlashHost
<1>7. AddressHeld'
  BY <1>1, <1>2, <1>3 DEF IInv, AddressHeld, FlashHost
<1> QED BY <1>1, <1>4, <1>5, <1>6, <1>7 DEF IInv

\* A list is done: what the handler promised comes true.
LEMMA WrittenKeeps == ASSUME IInv, Written PROVE IInv'
<1>1. /\ phase = "writing" /\ todo = <<>> /\ phase' = after /\ after' = "off"
      /\ promised' = IF attempt # {} /\ after = "restarting" THEN {cfg} ELSE promised
      /\ attempt' = IF after = "restarting" THEN {} ELSE attempt
      /\ UNCHANGED <<flash, rig, wifi, todo, cfg, mac, pc, staged, cuts, erased, strayed>>
  BY DEF Written, store, memory
<1>2. Left = {} /\ DOMAIN todo = {} /\ Left' = Left
  BY <1>1, EmptyList DEF Left, Range
<1>3. phase' \in {"starting", "running", "restarting"} /\ cfg \in Fields
  BY <1>1 DEF IInv, PhaseHeld, TypeOK
<1>4. TypeOK'
  BY <1>1, <1>3 DEF IInv, TypeOK, Phases, WellFormed
<1>5. PhaseHeld' /\ SaveHeld' /\ MixHeld'
  BY <1>1, <1>2, <1>3 DEF IInv, PhaseHeld, SaveHeld, MixHeld
<1>6. PromiseHeld'
  <2>1. CASE attempt # {} /\ after = "restarting"
    <3>1. \A key \in Keys : key \in DOMAIN flash /\ flash[key] = Saved(cfg)[key]
      BY <1>2, <2>1 DEF IInv, SaveHeld
    <3>2. Readable(flash)
      BY <3>1, ConfigStoreAssumption DEF Readable, Saved, Keys
    <3>3. FieldsOf(flash) = [host |-> cfg.host, cred |-> cfg.cred, blank |-> cfg.blank]
      BY <3>1 DEF FieldsOf, Stored, Saved, Keys
    <3>4. FieldsOf(flash) = cfg
      BY <1>3, <3>3 DEF Fields
    <3> QED BY <1>1, <1>2, <2>1, <3>2, <3>4 DEF PromiseHeld
  <2>2. CASE ~(attempt # {} /\ after = "restarting")
    BY <1>1, <1>2, <2>2 DEF IInv, PromiseHeld
  <2> QED BY <2>1, <2>2
<1>7. ErasedHeld'
  BY <1>1, <1>2, <1>3 DEF IInv, ErasedHeld, EraseLeft, FlashHost
<1>8. AddressHeld'
  BY <1>1, <1>2, <1>3 DEF IInv, AddressHeld, FlashHost
<1> QED BY <1>1, <1>4, <1>5, <1>6, <1>7, <1>8 DEF IInv

\* A form that is not refused is a configuration.
LEMMA MergedIsTyped ==
    ASSUME NEW form \in Forms, ~Refused(form), cfg \in Fields
    PROVE  Merged(form) \in Fields /\ Merged(form).host = form.host /\ form.host \in Hosts
<1>1. form.host \in Hosts /\ form.cred \in Creds \cup {Unset}
  BY OperatorAssumption DEF Refused
<1>2. \A minutes \in form.blank : minutes \in 0 .. BlankMax
  BY DEF Refused
<1>3. form.blank # {} => (CHOOSE m \in form.blank : TRUE) \in 0 .. BlankMax
  BY <1>2
<1>4. cfg.cred \in Values.cred /\ cfg.blank \in Values.blank
  BY DEF Fields
<1> QED BY <1>1, <1>3, <1>4 DEF Merged, Fields, Values

LEMMA HandleSaveKeeps == ASSUME IInv, HandleSave PROVE IInv'
<1>1. PICK form \in Forms, forgets \in Opens, saves \in Opens :
         LET moved == cfg.host # form.host
         IN  /\ ~Refused(form)
             /\ cfg' = Merged(form)
             /\ mac' = IF moved THEN {} ELSE mac
             /\ todo' = HandlerWrites(moved, forgets, saves, cfg')
             /\ phase' = "writing"
             /\ after' = IF saves THEN "restarting" ELSE "running"
             /\ staged' = IF saves /\ form.pass # "none" THEN form.ssid ELSE staged
             /\ promised' = IF saves THEN {} ELSE promised
             /\ attempt' = IF saves THEN {[old |-> {Loaded(flash), FieldsOf(flash)}, new |-> cfg']} ELSE attempt
             /\ erased' = FALSE
             /\ strayed' = (strayed \/ (moved /\ ~(forgets /\ saves)))
  BY DEF HandleSave
<1>2. phase = "running" /\ UNCHANGED <<flash, rig, wifi, pc, cuts>>
  BY DEF HandleSave, store
<1> DEFINE moved == cfg.host # form.host
<1>3. /\ cfg' \in Fields /\ cfg'.host = form.host /\ form.host \in Hosts
      /\ forgets \in BOOLEAN /\ saves \in BOOLEAN /\ moved \in BOOLEAN
      /\ WellFormed(flash)
  BY <1>1, MergedIsTyped, OpensOrNot DEF IInv, TypeOK
<1>4. /\ todo' \in Seq(Ops)
      /\ Left' \subseteq Rigs \cup Puts(cfg')
      /\ saves => Puts(cfg') \subseteq Left'
      /\ ~saves => Left' \subseteq Rigs
      /\ ~saves /\ ~moved => todo' = <<>>
      /\ moved /\ forgets => \A i \in DOMAIN todo' : \A key, v :
            todo'[i] = Put(key, v) => 2 \in DOMAIN todo' /\ 2 < i /\ todo'[2] = PutRig({})
  <2>1. todo' = HandlerWrites(moved, forgets, saves, cfg')
    BY <1>1
  <2>2. Left' = Range(todo')
    BY DEF Left
  <2>3. cfg' \in Fields /\ moved \in BOOLEAN /\ forgets \in BOOLEAN /\ saves \in BOOLEAN
    BY <1>3
  <2> HIDE DEF moved
  <2>4. HandlesSave(todo', moved, forgets, saves, cfg')
    BY <2>1, <2>3, HandlerList
  <2> QED BY <2>2, <2>4 DEF HandlesSave
<1>5. TypeOK'
  <2>1. staged' \in SUBSET Networks
    <3>1. form.pass # "bad" /\ (form.pass = "good" => form.ssid \subseteq Networks)
             /\ form.pass \in {"none", "good", "bad"}
      BY <1>1, OperatorAssumption DEF Refused
    <3> QED BY <1>1, <3>1 DEF IInv, TypeOK
  <2> QED BY <1>1, <1>2, <1>3, <2>1 DEF IInv, TypeOK, Phases, WellFormed
<1>6. PhaseHeld'
  BY <1>1, <1>4 DEF PhaseHeld
<1>7. PromiseHeld'
  BY <1>1, <1>2, <1>4 DEF IInv, PromiseHeld
<1>8. SaveHeld'
  <2> SUFFICES ASSUME saves PROVE SaveHeld'
    BY <1>1 DEF SaveHeld
  <2>1. \A key \in Keys : Put(key, Saved(cfg')[key]) \in Left'
    BY <1>4 DEF Puts
  <2> QED BY <1>4, <2>1 DEF SaveHeld
<1>9. MixHeld'
  <2>1. CASE saves
    <3>1. PICK a : a = [old |-> {Loaded(flash), FieldsOf(flash)}, new |-> cfg']
      OBVIOUS
    <3>2. a.old = {Loaded(flash), FieldsOf(flash)} /\ a.new = cfg' /\ attempt' = {a}
      BY <1>1, <2>1, <3>1
    <3>3. \A field : FieldsOf(flash)[field] \in Mix(a, field) /\ cfg'[field] \in Mix(a, field)
      BY <3>2 DEF Mix
    <3>4. ~Readable(flash) => DefaultConfig \in a.old
      BY <3>2, FieldsOfRecord
    <3>5. \A op \in Puts(cfg') :
             \/ op = Put("schema", SchemaVersion)
             \/ \E field \in FieldNames : \E v \in Mix(a, field) : op = Put(field, v)
      <4>1. /\ cfg'["host"] = cfg'.host /\ cfg'["cred"] = cfg'.cred /\ cfg'["blank"] = cfg'.blank
            /\ Puts(cfg') = {Put("schema", SchemaVersion), Put("host", cfg'.host),
                             Put("cred", cfg'.cred), Put("blank", cfg'.blank)}
        BY <1>3, ByName, PutsAreOps
      <4> QED BY <3>3, <4>1 DEF FieldNames
    <3> QED BY <1>2, <1>4, <3>2, <3>3, <3>4, <3>5 DEF MixHeld
  <2>2. CASE ~saves
    BY <1>1, <1>2, <1>4, <2>2 DEF IInv, MixHeld
  <2> QED BY <2>1, <2>2
<1>10. ErasedHeld'
  BY <1>1 DEF ErasedHeld
<1>11. AddressHeld'
  <2> SUFFICES ASSUME ~strayed' PROVE AddressHeld'
    BY DEF AddressHeld
  <2>1. ~strayed /\ (moved => forgets /\ saves)
    BY <1>1
  <2>2. /\ FlashHost \in Hosts => rig \subseteq {FlashHost, Broadcast}
        /\ cfg.host \in Hosts => FlashHost = cfg.host /\ mac \subseteq {cfg.host, Broadcast}
        /\ pc \subseteq {cfg.host}
    BY <1>2, <2>1 DEF IInv, AddressHeld
  <2>3. ASSUME NEW i \in DOMAIN todo', NEW h \in Hosts, todo'[i] = Put("host", h)
        PROVE  \/ rig \subseteq {h, Broadcast}
               \/ \E j \in DOMAIN todo' : j < i /\ todo'[j] = PutRig({})
    <3>1. CASE moved
      BY <1>4, <2>1, <2>3, <3>1
    <3>2. CASE ~moved
      <4>1. Put("host", h) \in Puts(cfg')
        BY <1>4, <2>3, Apart DEF Left, Range
      <4>2. Saved(cfg')["host"] = form.host
        BY <1>3 DEF Saved
      <4>3. h = form.host
        BY <4>1, <4>2, Shapes DEF Puts
      <4> QED BY <1>3, <2>2, <3>2, <4>3
    <3> QED BY <3>1, <3>2
  <2>4. ~saves => mac' = mac /\ cfg'.host = cfg.host
    BY <1>1, <1>3, <2>1
  <2>5. phase' = "writing" /\ after' \in {"restarting", "running"} /\ (after' = "running" => ~saves)
    BY <1>1
  <2> QED BY <1>2, <1>3, <2>2, <2>3, <2>4, <2>5 DEF AddressHeld, FlashHost
<1> QED BY <1>4, <1>5, <1>6, <1>7, <1>8, <1>9, <1>10, <1>11 DEF IInv

LEMMA HandleEraseKeeps == ASSUME IInv, HandleErase PROVE IInv'
<1>1. PICK opens \in Opens, forgets \in Opens :
         /\ todo' = IF opens THEN EraseWrites(forgets) ELSE <<>>
         /\ mac' = IF opens THEN {} ELSE mac
         /\ erased' = (opens /\ forgets)
         /\ promised' = IF opens THEN {} ELSE promised
         /\ strayed' = (strayed \/ (opens /\ ~forgets))
  BY DEF HandleErase
<1>2. /\ phase = "running" /\ phase' = "writing" /\ after' = "restarting" /\ attempt' = {}
      /\ UNCHANGED <<flash, rig, wifi, cfg, pc, staged, cuts>>
  BY DEF HandleErase, store
<1>3. opens \in BOOLEAN /\ forgets \in BOOLEAN
  BY OpensOrNot
<1>4. todo' \in Seq(Ops)
  BY <1>1, <1>3, EraseList, EmptyList
<1>5. TypeOK'
  BY <1>1, <1>2, <1>3 DEF IInv, TypeOK, Phases, WellFormed
<1>6. PhaseHeld' /\ SaveHeld' /\ MixHeld'
  BY <1>2 DEF PhaseHeld, SaveHeld, MixHeld
<1>7. PromiseHeld'
  <2>1. ~opens => Left' = {}
    BY <1>1, NothingLeft
  <2> QED BY <1>1, <1>2, <2>1 DEF IInv, PromiseHeld
<1>8. ErasedHeld'
  <2> SUFFICES ASSUME opens, forgets PROVE mac' = {} /\ EraseLeft'
    BY <1>1, <1>2 DEF ErasedHeld
  <2>1. /\ Len(todo') = 6
        /\ todo'[1] = Put("host", Overwritten) /\ todo'[2] = Put("cred", Overwritten)
        /\ todo'[3] = Put("blank", 0) /\ todo'[4] = Clear
        /\ todo'[5] = PutRig({Broadcast}) /\ todo'[6] = PutRig({})
    BY <1>1, <1>3, EraseList
  <2>2. DOMAIN todo' = 1 .. 6 /\ todo' # <<>>
    BY <1>4, <2>1, Elements, EmptyList
  <2>3. /\ todo'[1].kind = "put" /\ todo'[2].kind = "put" /\ todo'[3].kind = "put"
        /\ todo'[4].kind = "clear" /\ todo'[5].kind = "rig" /\ todo'[6].kind = "rig"
    BY <2>1, Shapes
  <2>4. \A i, j \in DOMAIN todo' : i < j /\ todo'[i].kind # "put" => todo'[j].kind = "rig"
    BY <2>2, <2>3
  <2>5. \A i \in DOMAIN todo' : todo'[i].kind = "put" => \E j \in DOMAIN todo' : i < j /\ todo'[j] = Clear
    <3>1. \A i \in DOMAIN todo' : todo'[i].kind = "put" => i < 4
      BY <2>2, <2>3
    <3> QED BY <2>1, <2>2, <3>1
  <2>6. Clear \in Left'
    BY <2>1, <2>2 DEF Left, Range
  <2> QED BY <1>1, <2>1, <2>2, <2>4, <2>5, <2>6 DEF EraseLeft
<1>9. AddressHeld'
  <2>1. \A i \in DOMAIN todo', h \in Hosts : todo'[i] # Put("host", h)
    <3> SUFFICES ASSUME NEW i \in DOMAIN todo', NEW h \in Hosts, todo'[i] = Put("host", h)
                 PROVE  FALSE
      OBVIOUS
    <3>1. opens
      BY <1>1, NothingLeft
    <3>2. /\ todo'[1] = Put("host", Overwritten) /\ todo'[2] = Put("cred", Overwritten)
          /\ todo'[3] = Put("blank", 0) /\ todo'[4] = Clear
          /\ Len(todo') = IF forgets THEN 6 ELSE 4
          /\ forgets => todo'[5] = PutRig({Broadcast}) /\ todo'[6] = PutRig({})
      BY <1>1, <1>3, <3>1, EraseList
    <3>3. i \in 1 .. Len(todo')
      BY <1>4, Elements
    <3>4. i \in 1 .. 4 \/ (forgets /\ i \in 5 .. 6)
      BY <3>2, <3>3
    <3>5. {PutRig({Broadcast}), PutRig({})} \subseteq Rigs
      BY DEF Rigs
    <3>6. Put("host", h) \in {Put("host", Overwritten), Put("cred", Overwritten), Put("blank", 0)}
      BY <3>2, <3>4, <3>5, Apart
    <3> QED BY <3>6, Shapes, OperatorAssumption
  <2> QED BY <1>1, <1>2, <2>1 DEF IInv, AddressHeld, FlashHost
<1> QED BY <1>4, <1>5, <1>6, <1>7, <1>8, <1>9 DEF IInv

LEMMA LearnKeeps == ASSUME IInv, Learn PROVE IInv'
<1>1. PICK sender \in Hosts, opens \in Opens :
         /\ pc = {sender}
         /\ mac' = {sender}
         /\ rig' = IF mac # {sender} /\ opens THEN {sender} ELSE rig
         /\ strayed' = (strayed /\ ~(sender = cfg.host /\ sender = Loaded(flash).host /\ rig' = {sender}))
  BY DEF Learn, Teaches
<1>2. /\ phase = "running" /\ erased' = FALSE
      /\ UNCHANGED <<flash, wifi, phase, todo, after, cfg, pc, staged, cuts, promised, attempt>>
  BY DEF Learn
<1>3. todo = <<>> /\ after = "off" /\ Left = {} /\ DOMAIN todo = {} /\ Left' = Left
  BY <1>2, AtRest DEF Left
<1>4. TypeOK'
  BY <1>1, <1>2 DEF IInv, TypeOK, WellFormed
<1>5. PhaseHeld' /\ SaveHeld' /\ MixHeld' /\ PromiseHeld' /\ ErasedHeld'
  BY <1>2, <1>3 DEF IInv, PhaseHeld, SaveHeld, MixHeld, PromiseHeld, ErasedHeld
<1>6. AddressHeld'
  <2> SUFFICES ASSUME ~strayed' PROVE AddressHeld'
    BY DEF AddressHeld
  <2>1. sender = cfg.host /\ FlashHost = sender /\ rig' \subseteq {sender, Broadcast}
    <3>1. CASE ~strayed
      BY <1>1, <1>2, <3>1 DEF IInv, AddressHeld
    <3>2. CASE strayed
      <4>1. sender = cfg.host /\ sender = Loaded(flash).host /\ rig' = {sender}
        BY <1>1, <3>2
      <4> QED BY <4>1, LoadedHost DEF FlashHost
    <3> QED BY <3>1, <3>2
  <2> QED BY <1>1, <1>2, <1>3, <2>1 DEF AddressHeld, FlashHost
<1> QED BY <1>2, <1>4, <1>5, <1>6 DEF IInv

LEMMA ReresolveKeeps == ASSUME IInv, Reresolve PROVE IInv'
<1>1. /\ phase = "running" /\ pc' \in Resolved(cfg.host)
      /\ UNCHANGED <<flash, rig, wifi, phase, todo, after, cfg, mac, staged, cuts,
                     promised, attempt, erased, strayed>>
  BY DEF Reresolve, store, history
<1>2. pc' \subseteq {cfg.host} /\ pc' \subseteq Hosts
  BY <1>1 DEF Resolved
<1> QED BY <1>1, <1>2 DEF IInv, TypeOK, WellFormed, PhaseHeld, PromiseHeld, SaveHeld, MixHeld,
                          ErasedHeld, EraseLeft, AddressHeld, Left, FlashHost

-----------------------------------------------------------------------------

LEMMA AtTheStart == Init => IInv
<1> SUFFICES ASSUME Init PROVE IInv
  OBVIOUS
<1>1. /\ WellFormed(flash) /\ rig = {} /\ wifi = {} /\ phase = "off" /\ todo = <<>> /\ after = "off"
      /\ cfg = DefaultConfig /\ mac = {} /\ pc = {} /\ staged = {} /\ cuts = 0
      /\ promised = {} /\ attempt = {} /\ erased = FALSE /\ strayed = FALSE
  BY OperatorAssumption DEF Init
<1>2. Left = {} /\ DOMAIN todo = {} /\ todo \in Seq(Ops)
  BY <1>1, EmptyList DEF Left, Range
<1>3. TypeOK
  <2>1. cfg \in Fields
    BY <1>1, LoadedIsTyped
  <2>2. cuts \in 0 .. MaxCuts
    BY <1>1, ConfigStoreAssumption
  <2> QED BY <1>1, <2>1, <2>2 DEF TypeOK, Phases
<1>4. cfg.host \notin Hosts
  BY <1>1, FieldsOfRecord, OperatorAssumption
<1> QED BY <1>1, <1>2, <1>3, <1>4 DEF IInv, PhaseHeld, PromiseHeld, SaveHeld, MixHeld, ErasedHeld, AddressHeld

\* What is left to be written says at every point, wherever the power is cut,
\* what the flash is going to be (config.cpp, rigaddr.cpp, config_page.cpp).
THEOREM Invariance == Spec => []IInv
<1>1. Init => IInv
  BY AtTheStart
<1>2. IInv /\ [Next]_vars => IInv'
  <2> SUFFICES ASSUME IInv, [Next]_vars PROVE IInv'
    OBVIOUS
  <2>1. CASE UNCHANGED vars
    BY <2>1 DEF vars, store, memory, history, IInv, TypeOK, WellFormed, PhaseHeld, PromiseHeld, SaveHeld,
                MixHeld, ErasedHeld, EraseLeft, AddressHeld, Left, FlashHost
  <2>2. CASE Write
    <3>1. todo' \in Seq(Ops)
      BY <2>2, WriteAdvances DEF IInv
    <3> QED BY <2>2, <3>1, WriteKeepsTypes, WriteKeepsPromise, WriteKeepsSave, WriteKeepsMix,
               WriteKeepsErased, WriteKeepsAddress DEF IInv
  <2>3. CASE PortalExit
    BY <2>3, OffKeeps DEF PortalExit, store, history, IInv, TypeOK, PhaseHeld
  <2>4. CASE Restart
    BY <2>4, OffKeeps DEF Restart, history, IInv, TypeOK, PhaseHeld
  <2>5. CASE PowerCut
    <3>1. /\ Off /\ cuts < MaxCuts /\ cuts' = cuts + 1 /\ erased' = (erased /\ todo = <<>>)
          /\ UNCHANGED <<flash, rig, wifi, promised, attempt, strayed>>
      BY <2>5 DEF PowerCut, store
    <3>2. wifi' \in SUBSET Networks /\ erased' \in BOOLEAN
      BY <3>1 DEF IInv, TypeOK
    <3>3. cuts' \in 0 .. MaxCuts
      BY <3>1, ConfigStoreAssumption DEF IInv, TypeOK
    <3> QED BY <3>1, <3>2, <3>3, OffKeeps
  <2> QED BY <2>1, <2>2, <2>3, <2>4, <2>5, LoadKeeps, JoinKeeps, PortalKeeps, StartKeeps, WrittenKeeps,
             HandleSaveKeeps, HandleEraseKeeps, LearnKeeps, ReresolveKeeps DEF Next
<1> QED BY <1>1, <1>2, PTL DEF Spec

-----------------------------------------------------------------------------
\* The configuration, the address and the network are always well-formed: no
\* submission, migration, interrupted write or erase leaves another value.
THEOREM TypeCorrect == Spec => []TypeOK
<1>1. IInv => TypeOK
  BY DEF IInv
<1> QED BY <1>1, Invariance, PTL

\* A boot that can open flash loads what the boot before it loaded, or what a
\* save that was answered left, after any number of power cuts between any two
\* writes; a boot that cannot voids the promise, for it saves the defaults
\* (setup() in firmware.ino, load() and save() in config.cpp).
THEOREM PromisesAreKept == Spec => []BootKeepsPromise
<1>1. IInv => BootKeepsPromise
  <2> SUFFICES ASSUME IInv, phase = "joining", NEW p \in promised PROVE promised = {cfg}
    BY DEF BootKeepsPromise
  <2>1. promised = {p} /\ Readable(flash) /\ FieldsOf(flash) = p
    BY DEF IInv, PromiseHeld
  <2>2. cfg = Loaded(flash)
    BY DEF IInv, PhaseHeld
  <2> QED BY <2>1, <2>2, FieldsOfRecord
<1> QED BY <1>1, Invariance, PTL

\* An interrupted save mixes fields and never makes one up, however often the
\* boots that repair it are interrupted too, as long as they can open flash
\* (save() in config.cpp).
THEOREM SavesMix == Spec => []InterruptedSaveMixes
<1>1. IInv => InterruptedSaveMixes
  <2> SUFFICES ASSUME IInv, phase = "joining", NEW a \in attempt, NEW field \in DOMAIN cfg
               PROVE  \E fields \in a.old \cup {a.new} : cfg[field] = fields[field]
    BY DEF InterruptedSaveMixes
  <2>1. cfg = Loaded(flash) /\ field \in FieldNames
    BY ByName DEF IInv, PhaseHeld, TypeOK
  <2>2. CASE Readable(flash)
    <3>1. cfg[field] \in Mix(a, field)
      BY <2>1, <2>2, FieldsOfRecord DEF IInv, MixHeld
    <3> QED BY <3>1 DEF Mix
  <2>3. CASE ~Readable(flash)
    BY <2>1, <2>3, FieldsOfRecord DEF IInv, MixHeld
  <2> QED BY <2>2, <2>3
<1> QED BY <1>1, Invariance, PTL

\* What was erased does not come back by any boot, cut or restart (erase() in
\* config.cpp, forget() in rigaddr.cpp).
THEOREM ErasesAreFinal == Spec => []ErasedIsGone
<1>1. IInv => ErasedIsGone
  <2> SUFFICES ASSUME IInv, erased, phase \notin {"writing", "restarting"}
               PROVE  /\ Stored(flash, "host", Unset) \notin Hosts /\ Stored(flash, "cred", Unset) \notin Creds
                      /\ rig = {}
                      /\ cfg.host \notin Hosts /\ cfg.cred \notin Creds /\ mac = {}
    BY DEF ErasedIsGone
  <2>1. "restarting" \notin {phase, after}
    BY DEF IInv, PhaseHeld
  <2> QED BY <2>1, OperatorAssumption DEF IInv, ErasedHeld, FlashHost
<1> QED BY <1>1, Invariance, PTL

\* The address a panel knows is its host's, up to the three exceptions, whatever
\* interrupts a change of host (config_page.cpp, rigaddr.cpp).
THEOREM AddressesFollow == Spec => []AddressFollowsHost
<1>1. IInv => AddressFollowsHost
  BY DEF IInv, AddressHeld, AddressFollowsHost
<1> QED BY <1>1, Invariance, PTL
=============================================================================
