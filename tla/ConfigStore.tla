---------------------------- MODULE ConfigStore ----------------------------
(***************************************************************************)
(* What the device keeps in flash and who writes it: the configuration     *)
(* record (firmware/src/config.cpp), the learned hardware address          *)
(* (rigaddr.cpp), the configuration page's handlers (config_page.cpp) and  *)
(* setup() with the setup portal (firmware.ino).                           *)
(*                                                                         *)
(* The record is four keys that are written one at a time; the power may   *)
(* be cut between any two writes, and flash may refuse to be opened.  A    *)
(* handler changes the memory at once and leaves its writes in todo: loop() *)
(* does nothing else until they are done.  A single write is all or         *)
(* nothing, which the flash library promises.                              *)
(*                                                                         *)
(* The Wi-Fi network is in the platform's own store, and each host is the  *)
(* machine of that name: a hardware address is the host it belongs to.     *)
(*                                                                         *)
(* X_Y is a variant of X with a plausible bug Y.                           *)
(***************************************************************************)
EXTENDS Integers, Sequences

CONSTANTS
    Hosts,          \* the names of machines on the LAN
    Creds,          \* the credentials an operator may choose
    Networks,       \* Wi-Fi networks
    Forms,          \* what the operator submits to the configuration page
    FirstRecords,   \* what flash may hold at the start
    SchemaVersion,  \* kConfigSchemaVersion
    BlankDefault,   \* kBlankMinutesDefault
    BlankMax,       \* kBlankMinutesMax
    StrayBlanks,    \* blanking periods out of range that flash may hold at the start
    FlashFails,     \* whether opening flash may fail
    MaxCuts         \* bound: how often the power is cut

ASSUME ConfigStoreAssumption ==
    /\ SchemaVersion \in Nat \ {0}
    /\ BlankMax \in Nat /\ BlankDefault \in 0 .. BlankMax /\ StrayBlanks \subseteq Nat
    /\ FlashFails \in BOOLEAN
    /\ MaxCuts \in Nat

Keys == {"schema", "host", "cred", "blank"}

Unset == ""
Overwritten == "xxx"        \* what erase() writes over a value
Broadcast == "FF"           \* what forget() writes over the address

\* What each key may hold.
Values == [schema |-> Nat, host |-> Hosts \cup {Unset, Overwritten},
           cred |-> Creds \cup {Unset, Overwritten}, blank |-> 0 .. BlankMax \cup StrayBlanks]

WellFormed(record) ==
    /\ DOMAIN record \subseteq Keys
    /\ \A key \in DOMAIN record : record[key] \in Values[key]

\* No name is empty, or what an erase leaves of one; a form has the shape that
\* the page gives it (see below).
ASSUME OperatorAssumption ==
    /\ {Unset, Overwritten} \cap Hosts = {} /\ Unset \notin Creds
    /\ \A record \in FirstRecords : WellFormed(record)
    /\ \A form \in Forms :
          /\ form.host \in Hosts \cup {"bad"} /\ form.cred \in Creds \cup {Unset}
          /\ form.pass \in {"none", "good", "bad"}
          /\ form.pass = "good" => form.ssid \subseteq Networks

VARIABLES
    flash,      \* the record: a function on the keys that are there
    rig,        \* the stored address, none or one
    wifi,       \* the network the platform joins by itself, none or one
    phase,      \* where the program is
    todo,       \* the writes of the handler that runs
    after,      \* the phase when they are done, while they are not
    cfg,        \* g_cfg
    mac,        \* g_mac as far as g_known
    pc,         \* g_pcAddr as far as g_pcAddrKnown, as the machine it is
    staged,     \* the network of applyPendingWifi(), none or one
    cuts,       \* power cuts so far
    promised,   \* history: what the next boot must load, if that is known
    attempt,    \* history: the fields before and after a save that has begun
    erased,     \* history: an erase was completed, nothing was entered since
    strayed     \* history: the address was left behind by a known exception

store == <<flash, rig, wifi>>
memory == <<cfg, mac, pc, staged>>
history == <<promised, attempt, erased, strayed>>
vars == <<store, phase, todo, after, memory, cuts, history>>

Phases == {"off", "joining", "portal", "writing", "starting", "running", "restarting"}

Fields == [host : Values.host, cred : Values.cred, blank : Values.blank]

DefaultConfig == [host |-> Unset, cred |-> Unset, blank |-> BlankDefault]

TypeOK ==
    /\ WellFormed(flash)
    /\ rig \in SUBSET (Hosts \cup {Broadcast}) /\ mac \in SUBSET (Hosts \cup {Broadcast})
    /\ wifi \in SUBSET Networks /\ staged \in SUBSET Networks
    /\ phase \in Phases /\ after \in Phases
    /\ cfg \in Fields
    /\ pc \in SUBSET Hosts
    /\ cuts \in 0 .. MaxCuts
    /\ promised \in SUBSET Fields
    /\ {erased, strayed} \subseteq BOOLEAN

-----------------------------------------------------------------------------
(***************************************************************************)
(* The record.                                                             *)
(***************************************************************************)
Stored(record, key, default) == IF key \in DOMAIN record THEN record[key] ELSE default

Readable(record) ==
    "schema" \in DOMAIN record /\ record["schema"] \in {SchemaVersion - 1, SchemaVersion} \ {0}

\* Variant: the default is not used for a record without the newest key.
Loaded_NoMigration(record) ==
    IF ~Readable(record) THEN DefaultConfig
    ELSE [host |-> Stored(record, "host", Unset), cred |-> Stored(record, "cred", Unset),
          blank |-> IF record["schema"] = SchemaVersion THEN Stored(record, "blank", 0) ELSE BlankDefault]

FieldsOf(record) ==
    [host |-> Stored(record, "host", Unset), cred |-> Stored(record, "cred", Unset),
     blank |-> Stored(record, "blank", BlankDefault)]

\* What load() puts in the configuration, whatever it returns: a period out of
\* range is kept.
Loaded(record) == IF Readable(record) THEN FieldsOf(record) ELSE DefaultConfig

\* What load() returns; setup() only logs it.
LoadSucceeds(record) ==
    Readable(record) /\ Loaded(record).blank <= BlankMax /\ Loaded(record).host # Unset

Put(key, value) == [kind |-> "put", key |-> key, value |-> value]
Clear == [kind |-> "clear"]
PutRig(macs) == [kind |-> "rig", value |-> macs]

SaveWrites(c) ==
    <<Put("schema", SchemaVersion), Put("host", c.host), Put("cred", c.cred), Put("blank", c.blank)>>

\* rigaddr::forget(): overwritten, then removed.
ForgetWrites == <<PutRig({Broadcast}), PutRig({})>>

\* Variant: the learned address is left out.
EraseWrites_KeepsRig(opens) ==
    <<Put("host", Overwritten), Put("cred", Overwritten), Put("blank", 0), Clear>>

\* config::erase().
EraseWrites(opens) ==
    <<Put("host", Overwritten), Put("cred", Overwritten), Put("blank", 0), Clear>>
      \o (IF opens THEN ForgetWrites ELSE <<>>)

\* Whether Preferences::begin() succeeds.
Opens == IF FlashFails THEN BOOLEAN ELSE {TRUE}

-----------------------------------------------------------------------------
(***************************************************************************)
(* Boot.                                                                   *)
(***************************************************************************)
Init ==
    /\ flash \in FirstRecords
    /\ rig = {} /\ wifi = {}
    /\ phase = "off" /\ todo = <<>> /\ after = "off"
    /\ cfg = DefaultConfig /\ mac = {} /\ pc = {} /\ staged = {}
    /\ cuts = 0
    /\ promised = {} /\ attempt = {} /\ erased = FALSE /\ strayed = FALSE

\* The program ends, and what is in memory with it.
Off ==
    /\ phase' = "off" /\ todo' = <<>> /\ after' = "off"
    /\ cfg' = DefaultConfig /\ mac' = {} /\ pc' = {} /\ staged' = {}

\* What an earlier boot loaded, a later one must, unless it cannot open flash:
\* it goes on with the defaults, and will save them.
Load ==
    /\ phase = "off"
    /\ phase' = "joining"
    /\ \E opens \in Opens :
          /\ cfg' = IF opens THEN Loaded(flash) ELSE DefaultConfig
          /\ promised' = IF ~opens THEN {}
                         ELSE IF promised = {} /\ LoadSucceeds(flash) THEN {Loaded(flash)} ELSE promised
          /\ attempt' = IF opens THEN attempt ELSE {}
    /\ UNCHANGED <<store, todo, after, mac, pc, staged, cuts, erased, strayed>>

\* setup() saves on every boot, and does not look at the outcome.
SaveAtBoot(c) ==
    /\ phase' = "writing"
    /\ after' = "starting"
    /\ \E opens \in Opens : todo' = IF opens THEN SaveWrites(c) ELSE <<>>

\* autoConnect joins the stored network.
Join ==
    /\ phase = "joining"
    /\ wifi # {}
    /\ SaveAtBoot(cfg)
    /\ UNCHANGED <<store, memory, cuts, history>>

\* It cannot: the portal is raised, and stays.
RaisePortal ==
    /\ phase = "joining"
    /\ phase' = "portal"
    /\ UNCHANGED <<store, todo, after, memory, cuts, history>>

\* The operator enters a network and the two fields, which are prefilled.
PortalSubmit ==
    /\ phase = "portal"
    /\ \E network \in Networks, host \in {cfg.host} \cup Hosts, cred \in {cfg.cred} \cup Creds :
          /\ cfg' = [cfg EXCEPT !.host = host, !.cred = cred]
          /\ wifi' = {network}
          /\ SaveAtBoot(cfg')
          /\ strayed' = (strayed \/ (host # cfg.host /\ (rig # {} \/ todo' = <<>>)))
          /\ promised' = {} /\ attempt' = {} /\ erased' = FALSE
    /\ UNCHANGED <<flash, rig, mac, pc, staged, cuts>>

\* It exits without a connection.
PortalExit ==
    /\ phase = "portal"
    /\ Off
    /\ UNCHANGED <<store, cuts, history>>

\* A name is looked up, or not found.
Resolved(host) == {{}} \cup (IF host \in Hosts THEN {{host}} ELSE {})

\* The rest of setup(): resolveHost() and rigaddr::begin().
Start ==
    /\ phase = "starting"
    /\ phase' = "running"
    /\ pc' \in Resolved(cfg.host)
    /\ \E opens \in Opens : mac' = IF opens THEN rig ELSE {}
    /\ UNCHANGED <<store, todo, after, cfg, staged, cuts, history>>

-----------------------------------------------------------------------------
(***************************************************************************)
(* Writing.                                                                *)
(***************************************************************************)
Write ==
    /\ phase = "writing" /\ todo # <<>>
    /\ LET op == Head(todo)
       IN  \/ /\ op.kind = "put"
              /\ flash' = [k \in DOMAIN flash \cup {op.key} |->
                              IF k = op.key THEN op.value ELSE flash[k]]
              /\ todo' = Tail(todo)
              /\ UNCHANGED rig
           \/ /\ op.kind = "rig"
              /\ rig' = op.value
              /\ todo' = Tail(todo)
              /\ UNCHANGED flash
           \/ \* clear() removes the keys one by one
              /\ op.kind = "clear"
              /\ \/ \E key \in DOMAIN flash : flash' = [k \in DOMAIN flash \ {key} |-> flash[k]]
                 \/ DOMAIN flash = {} /\ UNCHANGED flash
              /\ todo' = IF DOMAIN flash' = {} THEN Tail(todo) ELSE todo
              /\ UNCHANGED rig
    /\ UNCHANGED <<wifi, phase, after, memory, cuts, history>>

\* A save that was answered or the boot's own, an erase that was done.
Written ==
    /\ phase = "writing" /\ todo = <<>>
    /\ phase' = after /\ after' = "off"
    /\ promised' = IF attempt # {} /\ after = "restarting" THEN {cfg} ELSE promised
    /\ attempt' = IF after = "restarting" THEN {} ELSE attempt
    /\ UNCHANGED <<store, todo, memory, cuts, erased, strayed>>

-----------------------------------------------------------------------------
(***************************************************************************)
(* The configuration page.  A form has host, which is "bad" when it is not *)
(* a host name; cred, Unset to leave it unchanged; blank, none, one number *)
(* or "bad"; and the Wi-Fi fields: ssid, none or a network, and pass,      *)
(* "none", "good" or "bad".                                                *)
(***************************************************************************)
\* Variant: the blanking period is not bounded.
Refused_AnyBlank(form) ==
    LET changed == form.ssid # {} /\ form.ssid # wifi
    IN  \/ form.ssid = {} /\ form.pass # "none"
        \/ changed /\ form.pass = "none"
        \/ form.pass = "bad"
        \/ form.host = "bad"
        \/ cfg.cred = Unset /\ form.cred = Unset

Refused(form) ==
    LET changed == form.ssid # {} /\ form.ssid # wifi
    IN  \/ form.ssid = {} /\ form.pass # "none"
        \/ changed /\ form.pass = "none"
        \/ form.pass = "bad"
        \/ \E minutes \in form.blank : minutes \notin 0 .. BlankMax
        \/ form.host = "bad"
        \/ cfg.cred = Unset /\ form.cred = Unset

Merged(form) ==
    [host |-> form.host,
     cred |-> IF form.cred = Unset THEN cfg.cred ELSE form.cred,
     blank |-> IF form.blank = {} THEN cfg.blank ELSE CHOOSE m \in form.blank : TRUE]

\* Variant: the address is forgotten after the record is written.
HandlerWrites_ForgetLast(moved, forgets, saves, c) ==
    (IF saves THEN SaveWrites(c) ELSE <<>>) \o (IF moved /\ forgets THEN ForgetWrites ELSE <<>>)

\* Variant: the record is cleared before it is written.
HandlerWrites_ClearFirst(moved, forgets, saves, c) ==
    (IF moved /\ forgets THEN ForgetWrites ELSE <<>>)
      \o (IF saves THEN <<Clear>> \o SaveWrites(c) ELSE <<>>)

\* Forget a moved host's address, then save.
HandlerWrites(moved, forgets, saves, c) ==
    (IF moved /\ forgets THEN ForgetWrites ELSE <<>>) \o (IF saves THEN SaveWrites(c) ELSE <<>>)

\* handleSave(), for an operator who has the credential.  A save that could not
\* open flash is answered with an error; the memory is changed all the same.
HandleSave ==
    /\ phase = "running"
    /\ \E form \in Forms, forgets \in Opens, saves \in Opens :
          LET moved == cfg.host # form.host
          IN  /\ ~Refused(form)
              /\ cfg' = Merged(form)
              /\ mac' = IF moved THEN {} ELSE mac
              /\ todo' = HandlerWrites(moved, forgets, saves, cfg')
              /\ phase' = "writing"
              /\ after' = IF saves THEN "restarting" ELSE "running"
              /\ staged' = IF saves /\ form.pass # "none" THEN form.ssid ELSE staged
              /\ promised' = IF saves THEN {} ELSE promised
              /\ attempt' = IF saves THEN {[old |-> {Loaded(flash), FieldsOf(flash)}, new |-> cfg']} ELSE attempt
              /\ erased' = FALSE
              /\ strayed' = (strayed \/ (moved /\ ~(forgets /\ saves)))
    /\ UNCHANGED <<store, pc, cuts>>

\* handleErase(): answered "Erased", whatever erase() could do.
HandleErase ==
    /\ phase = "running"
    /\ \E opens \in Opens, forgets \in Opens :
          /\ todo' = IF opens THEN EraseWrites(forgets) ELSE <<>>
          /\ mac' = IF opens THEN {} ELSE mac
          /\ erased' = (opens /\ forgets)
          /\ promised' = IF opens THEN {} ELSE promised
          /\ strayed' = (strayed \/ (opens /\ ~forgets))
    /\ phase' = "writing" /\ after' = "restarting"
    /\ attempt' = {}
    /\ UNCHANGED <<store, cfg, pc, staged, cuts>>

\* loop() honours rebootRequested(): applyPendingWifi(), then a restart.
Restart ==
    /\ phase = "restarting"
    /\ Off
    /\ wifi' = IF staged = {} THEN wifi ELSE staged
    /\ UNCHANGED <<flash, rig, cuts, history>>

-----------------------------------------------------------------------------
(***************************************************************************)
(* The loop's own.                                                         *)
(***************************************************************************)
\* Variant: any sender of an accepted frame teaches its address.
Teaches_Anyone(sender) == pc # {}

Teaches(sender) == pc = {sender}

\* An accepted frame from the resolved host teaches its address, which is
\* stored when it is new.  The ARP cache may not have it.
Learn ==
    /\ phase = "running"
    /\ \E sender \in Hosts, opens \in Opens :
          /\ Teaches(sender)
          /\ mac' = {sender}
          /\ rig' = IF mac # {sender} /\ opens THEN {sender} ELSE rig
          /\ strayed' = (strayed /\ ~(sender = cfg.host /\ sender = Loaded(flash).host /\ rig' = {sender}))
    /\ erased' = FALSE
    /\ UNCHANGED <<flash, wifi, phase, todo, after, cfg, pc, staged, cuts, promised, attempt>>

\* An accepted frame from another host makes the name looked up again.
Reresolve ==
    /\ phase = "running"
    /\ \E sender \in Hosts : pc # {} /\ pc # {sender}
    /\ pc' \in Resolved(cfg.host)
    /\ UNCHANGED <<store, phase, todo, after, cfg, mac, staged, cuts, history>>

PowerCut ==
    /\ phase # "off"
    /\ cuts < MaxCuts
    /\ cuts' = cuts + 1
    /\ Off
    /\ erased' = (erased /\ todo = <<>>)
    /\ UNCHANGED <<store, promised, attempt, strayed>>

Next ==
    \/ Load \/ Join \/ RaisePortal \/ PortalSubmit \/ PortalExit \/ Start
    \/ Write \/ Written
    \/ HandleSave \/ HandleErase \/ Restart
    \/ Learn \/ Reresolve
    \/ PowerCut

Spec == Init /\ [][Next]_vars

-----------------------------------------------------------------------------
(***************************************************************************)
(* Whatever the power does, a boot loads what the boot before it loaded,   *)
(* or what a save that was answered "Saved" left, until the operator acts  *)
(* again or a boot cannot open flash: neither the save of every boot, nor  *)
(* the migration of an old record, nor a save that could not open flash    *)
(* changes it.  The boot that cannot read it is the exception: setup()     *)
(* does not look at what load() returns, joins the stored network and      *)
(* saves the defaults over the record (setup() in firmware.ino, load() and *)
(* save() in config.cpp).                                                  *)
(***************************************************************************)
BootKeepsPromise == phase = "joining" /\ promised # {} => promised = {cfg}

\* A save that the power interrupted leaves each field as it was or as it was
\* to be, and never a third value, for the boots that can open flash (save() in
\* config.cpp).  A record that was not readable may come back: the schema is
\* written first.
InterruptedSaveMixes ==
    phase = "joining" =>
        \A a \in attempt : \A field \in DOMAIN cfg :
            \E fields \in a.old \cup {a.new} : cfg[field] = fields[field]

\* The record after an interrupted save is the old one or the new one: "written
\* as a single operation", domain-and-data.md, INV-CONFIG-SINGLETON.  save()
\* writes four keys one after the other.
InterruptedSaveIsWhole ==
    phase = "joining" => \A a \in attempt : cfg \in a.old \cup {a.new}

\* An erase that was done leaves neither the host, nor the credential, nor the
\* machine's address, in flash or in what a later boot loads, until somebody
\* enters or teaches one (erase() in config.cpp, forget() in rigaddr.cpp).
ErasedIsGone ==
    erased /\ phase \notin {"writing", "restarting"} =>
        /\ Stored(flash, "host", Unset) \notin Hosts /\ Stored(flash, "cred", Unset) \notin Creds
        /\ rig = {}
        /\ phase # "off" => cfg.host \notin Hosts /\ cfg.cred \notin Creds /\ mac = {}

\* A panel that knows an address and is configured for a host knows that
\* host's address, after any power cuts, with three exceptions: the portal
\* renamed the host; flash could not be opened while the host changed; or the
\* power was cut inside forget(), whose overwrite is then taken for an address
\* (handleSave() in config_page.cpp, observe() and forget() in rigaddr.cpp).
AddressFollowsHost ==
    phase = "running" /\ cfg.host \in Hosts /\ ~strayed => mac \subseteq {cfg.host, Broadcast}

\* The same without the exceptions: "Changing pcHost, or erasing the
\* configuration, discards the learned address", domain-and-data.md,
\* INV-RIGADDRESS-FOLLOWS-HOST.
RigAddressFollowsHost == phase = "running" /\ cfg.host \in Hosts => mac \subseteq {cfg.host}
=============================================================================
