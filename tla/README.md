# Verification of cyd-sim-dash

TLA+ models of the dashboard in this repository, what TLC checks of them on small
instances, and what TLAPS proves of them for every value of their constants.

## The system

A SimHub plugin on the sim PC (C#, `src/plugin/src`) turns telemetry into JSON frames and
unicasts them over UDP to panels that have registered with it. A panel (ESP32, C++,
`src/firmware`) registers every 2 s, believes or refuses each frame, and shows one of: a
driving screen, one of nine link conditions, a wake offer, or nothing at all with the
backlight off. The two sides share only the wire. The plugin forgets a panel after 6 s.

| Part | State it keeps | Operations | What makes it correct |
|---|---|---|---|
| Display-state engine (`display_state.cpp`) | the newest stamp | `validate`, `acceptFrame`, `deriveLink`, `derive`, `backlightShouldBeOn` | a frame is believed only whole and in order; one ladder decides the screen |
| Panel loop (`firmware.ino`) | about twenty globals: flags, the last frame, timestamps, what was last painted | `setup`, `loop`, OTA callbacks | glass, backlight and offer agree with the ladder whatever happens in between |
| Wake sequence (`wake.cpp`) | armed, since when | `tick`, `onTouch` | a packet takes two touches within one window, for a dead rig only |
| Receive path (`net.cpp`) | socket, last sender, counters, registration time | `maintainRegistration`, `poll`, `sendWake` | bounded work per iteration; a refused frame changes nothing |
| Rig address (`rigaddr.cpp`) | the rig's hardware address, in RAM and flash | `begin`, `observe`, `forget` | it names the configured PC and no other |
| Touch (`touch.cpp`) | debounce | `pressed` | one press per touch |
| Configuration (`config.cpp`, `config_page.cpp`) | the record in flash, the live copy, a pending reboot | `load`, `save`, `erase`, the page's handlers | a boot that can read the record finds each field as it was or as it was to be, and an erase leaves none |
| Panel drawing (`panel.cpp`) | what is painted, region by region | `drawDriving`, `drawLink`, ... | partial repaints add up to a full one |
| Device table and publisher (`DeviceTable.cs`, `UdpPublisher.cs`) | devices with last-seen times, socket, listener thread, capture | `Register`, `ActiveDevices`, `Publish`, `StartCapture`, `Dispose` | every live panel gets every frame; no interleaving with the listener loses one |
| Frame source (`FrameBuilder.cs`, adapters) | the latched fault | `Build` | every frame it makes is one that the panel accepts |

The panel's loop is one thread; its difficulty is not preemption but the number of things
that may happen between two iterations (datagrams in any order, a lost network, a touch, an
upload, a power cut) and the number of flags that remember them. The plugin has two threads,
SimHub's and the listener's. Between the two lies UDP: loss, duplication, delay.

## Modules

| Module | What it is |
|---|---|
| `DisplayState` | the engine's pure rules, as operators: validation, stamp order, the ladder, what the driving screen shows, the flash clock, the backlight policy |
| `TwoTouch` | abstract specification of the wake offer: what CAP-WAKE-RIG promises |
| `PanelLoop` | the firmware's loop, composed of the engine, the receive path, the wake sequence and the screen choice; its properties |
| `PanelInvariant` | the inductive invariant of `PanelLoop`, in named parts |
| `DeviceTable` | the plugin's table of devices and its registration parser, as operators |
| `Publisher` | the publisher's threads over that table |
| `Link` | panel and plugin over a LAN: the cadence of registrations, the expiry, the stamp tracker; instantiates `DeviceTable` and extends `DisplayState` |
| `FrameSource` | how a frame is built: adapter, thresholds, fault latch, rounding; operators |
| `PanelDraw` | the renderer and what an iteration does to the glass; operators |
| `WholeGlass` | abstract specification of the glass: a renderer that paints everything anew in every iteration, or leaves a link screen up while its condition holds |
| `FrameToGlass` | composes frame source and renderer: from a reading of the simulator to the regions of the glass |
| `FaultLog` | `FrameToGlass` with the entries that the plugin's sink writes of adapter faults |
| `ConfigStore` | what is in flash: the record, the learned address, the page, the portal, the boot |
| `MCPanelLoop`, `MCPublisher`, `MCFrameToGlass`, `MCFaultLog`, `MCConfigStore` | traffic, registrations, readings and forms for TLC; `Link` needs none |
| `PanelLoop_proofs`, `PanelSafety_proofs` | type correctness, the safety properties and the refinement of `TwoTouch` by `PanelLoop` |
| `Publisher_proofs` | type correctness and the safety properties of `Publisher` |
| `Link_proofs` | type correctness and the safety properties of `Link` |
| `FrameToGlass_proofs` | type correctness, the safety properties and the refinement of `WholeGlass` by `FrameToGlass` |
| `ConfigStore_proofs` | type correctness and the four promises of `ConfigStore` |
| `PanelDraw_proofs` | what the rules of `DisplayState` and `PanelDraw` say of every frame |

### How `PanelLoop` corresponds to the code

An iteration of `loop()` is cut into stages, held in `pc`, where the code calls its next
part. Everything a stage changes is in one action.

| Action | Code |
|---|---|
| `UploadFails` | `ArduinoOTA.handle()` running a whole upload that breaks off: `onStart`, `onError` |
| `Service` | the OTA gate, `web::handle()` and the start of `net::poll()` |
| `PollDatagram` | one turn of `poll()`: `parseFrame`, `acceptFrame`, the verdict's bookkeeping |
| `Digest` | the result of the poll, `rigaddr::observe`, re-resolution, the ladder |
| `NoPress`, `PressLights`, `PressOffers`, `PressSends` | `tick`, the lapse of the offer, `touch::pressed`, `onTouch` and the switch on its answer |
| `Light` | the blanking age, `backlightShouldBeOn`, the pin |
| `Show` | the choice of screen and `g_shown` |
| `Restart` | `setup()` up to the first iteration; enabled at every stage, as power may go at any time |
| `Elapse`, `WifiChanges`, `DnsChanges` | time, Wi-Fi and the name service, between iterations: the loop reads each once per iteration |

Every timestamp of the code is modelled by its age, because the code only ever compares
ages with thresholds; an age stops at the largest threshold it is compared with. `glass`
is what is painted and `shown` is the code's idea of it, `g_shown`: that they differ is the
interesting case. `newestVerdict` is a history variable that nothing reads but properties.

### How `Publisher` corresponds to the code

Four flows of control share the fields of `UdpPublisher`. A region under a lock is one step;
every other access to a shared field is a step of its own, so that any interleaving of the
accesses is a behaviour.

| Actions | Code |
|---|---|
| `Start` | the plugin's `Init`, which binds the port once |
| `CheckRunning`, `EnterReceive`, `Receive`, `ReceiveFails`, `HandleDatagram` | `ListenLoop` read by read, and `HandleDatagram` |
| `DataUpdate`, `WriteCapture`, `GuardSocket`, `Snapshot`, `SendTo` | `DataUpdate` and `Publish`: the capture region, the null test, `ActiveDevices`, one send per device |
| `StartCapture`, `StopCapture` | the same, each under the capture lock |
| `EndBegins` ... `EndJoins` | `End` and the five statements of `Dispose` |
| `Elapse`, `WallClockSteps` | real time; the wall clock being set, which `LastSeenMs` is read from |

`heard` is a history variable: where each device's newest served registration came from, and
how old it is, as long as the wall clock was left alone.

### How `ConfigStore` corresponds to the code

The record is four keys, and `config::save()`, `config::erase()` and `rigaddr::forget()` are
lists of writes that are done one by one (`Write`), with `PowerCut` between any two. A handler
(`HandleSave`, `HandleErase`, `PortalSubmit`, `Join` with the save of every boot) changes the
memory and leaves its writes; `Load`, `RaisePortal`, `PortalExit`, `Start` are `setup()`; `Learn`
and `Reresolve` are `rigaddr::observe()` and `resolveHost()`; `Restart` is the reboot that the page
asked for, with the staged network. `Opens` is the choice whether flash can be opened, made anew
wherever the code opens it, in `load()` and `rigaddr::begin()` too.

### How `Link` and `FrameToGlass` correspond to the code

`Link` is in discrete time. `RegistrationArrives` is `maintainRegistration()` with the
plugin's `HandleDatagram`, `Elapse` ends with a `Publish`, `Deliver` is one turn of `poll()`;
a frame stays deliverable, again and again and in any order, until it is `MaxDelay` old.
`PluginRestarts` makes a new plugin, of any major version, with an empty table and stamps that
begin again. In `FrameToGlass`, `DataUpdate` is the plugin's `FrameBuilder.Build` and `ToJson`,
`Iterate` is one iteration of `loop()` as far as the glass is concerned: the poll, the lapse or
touch, the relighting, the confirmation of a packet, the choice of screen and `drawDriving`'s
partial repaint. The link state is any that the newest frame and the refused versions allow;
`PanelLoop` has where it comes from. A link screen has an icon and a line (`LinkLine`), and the line
has what it names, if anything: the newest frame's title, or the version that was refused. `FaultLog` adds
`LogSink.AdapterFaulted` to `DataUpdate`.

## What the runs check

| Run | Expected | Question |
|---|---|---|
| `panel_glass` | pass | Do glass, backlight, flags and wake sequence agree with the ladder under everything at once, and does the loop leave stale, withdraw the offer, go dark and come back? |
| `publisher_threads` | pass | Does every live device get every frame where it was last heard, and does everything stop when SimHub ends, whatever the threads do between each other's steps? |
| `frame_to_glass` | pass | Is what the panel shows, repainted in parts over whatever was there, what the newest believed reading says, as if it were painted whole? |
| `config_power_cuts` | pass | Does a boot load what the operator was told, whatever the power and the flash do? |
| `lossy_link` | pass | Do registrations, expiry and stamps hold against loss, delay, repetition, disorder and restarts? |
| `failed_update` | violation | Does a failed update clear its flag? |
| `lost_host` | violation | Is a host that could not be found looked for again? |
| `portal_rename` | violation | Does changing the host discard the learned address? |
| `interrupted_save` | violation | Is the record written as one operation? |
| `mismatch_shown` | violation | Does a panel of another major version say so? |
| `stale_line` | violation | Does the line of a link screen name the running title? |
| `fault_log` | violation | Is a fault logged once per cause? |

**Bounds of the panel runs.** Times are in units: fresh for 1, decay at 3, the offer window 2, blanking
after 4, so that every order of the code's thresholds (2 s, 10 s, 60 s, a minute or
more) is kept and each has at least one unit strictly between it and the next one that
matters; the grace period and the gap between lookups are as small as still has a "before"
and an "after". Two datagrams per iteration are enough for every order of an acceptance
and a refusal in one batch. The traffic of `panel_glass` has each verdict of the receive
path: accepted live, accepted idle, another sender, another major version, a field out of
range, out of order (an earlier stamp after a later one) and no frame at all; it arrives any number of times.
Two addresses are enough to tell the configured host from another and to have it move.
`failed_update` and `lost_host` have a panel that accepts every frame and is never cut off, so that
their counterexamples are of nothing but their question.

**Bounds of the others.**

* `publisher_threads`: two devices, one of which moves between two addresses and is of another
  major version for a while; a forget period of one unit, which has a before, a boundary and an
  after; a wall clock that is set off by a unit and back. Two devices make a list of sends
  that the listener can change in the middle. `CHECK_DEADLOCK FALSE`: a plugin that has ended is
  at rest.
* `frame_to_glass`: twelve readings that take each threshold rule, each boundary of phase and
  colour, each kind of proximity, rounding in both directions, thresholds that rounding makes
  equal, two titles that fault, one without an adapter, and one other version. Revolutions are in half units of the
  wire, so that rounding has something to round; the fractions are the code's 88 and 97 hundredths.
  The flash has one unit on and one off.
* `config_power_cuts`: two hosts, two credentials, one network, four first records (nothing, a
  record of the first version, one of this, and one whose blanking period is out of range, `StrayBlanks`),
  two cuts: one that interrupts a write and one that interrupts the repair at the next boot. Flash may
  fail at every opening.
* `lossy_link`: half seconds. Six seconds of expiry, two of registration, two of staleness and
  three where the code has ten of decay, which no property looks at; up to half a second of
  jitter, two registrations lost in a row, frames up to a staleness late. Three starts of a plugin
  of two versions; a start runs at most 17 units, longer than two lost registrations and the one
  that arrives. `CHECK_DEADLOCK FALSE`: behaviours end at these bounds.
* `portal_rename` and `interrupted_save`: `config_power_cuts` without failures of flash and stray
  periods, and with no cut and one, which is what each violation needs.
* `mismatch_shown`: `lossy_link` with one registration that may be lost in a row and two starts.
* `stale_line`: two titles without an adapter. `fault_log`: one title that faults or does not, and
  two entries of the log (`MaxLog`).

**Fairness.** In `PanelLoop`, `WF_vars(Loop)`: the Arduino core calls `loop()` again whenever it
returns, and each stage runs to its end. `SF_vars(Elapse)`: each iteration ends in `delay(10)`, so
the clock advances between iterations again and again. Nothing is assumed of the network, the
finger, uploads or power. The liveness properties say in their antecedents that from some time on the
loop is not shut off by a failed upload and, where a reboot would start everything anew, that the
power stays on (`KeepsRunning`). `TelemetryReturns` and `HostIsFoundAgain` assume what they need of the
traffic in their own antecedents. In `Publisher`, a thread that has been started is scheduled: weak
fairness of the listener's own steps, of SimHub's data thread, which calls `DataUpdate` some
sixty times a second, and of `End` once it was called. A blocked receive is not among them: it
returns when a datagram comes, which is not promised, or when its socket was closed, which is.
`StreamSurvives` assumes in its antecedent that the device keeps registering. `Link`,
`FrameToGlass` and `ConfigStore` have safety properties only and no fairness.

### What the violations show

* `failed_update`: nothing clears `g_otaInProgress`.
* `lost_host`: the panel keeps registering by name and accepts the frames it gets, and
  still says that the host cannot be resolved.
* `portal_rename`: the setup portal writes a new host over the old one and saves it; only the
  configuration page forgets the address that was learned for the old one. Until the new
  host's first frame teaches another, a wake packet goes to the machine before.
* `interrupted_save`: `save()` puts schema, host, credential and period one after the other, and each
  is in flash when it returns. A cut between two leaves new and old fields under a valid schema,
  against INV-CONFIG-SINGLETON ("written as a single operation", docs/domain-and-data.md:338, and :34).
  What remains true is `InterruptedSaveMixes`: no field is a third value.
* `mismatch_shown`: a plugin of another major version refuses the panel's registrations and so sends it
  nothing, and the panel raises the mismatch on a frame only. Each side leaves the explanation to the
  other (UdpPublisher.cs:120-122, docs/user-experience.md:313); what the panel shows is that no telemetry
  arrives. That this is so in every behaviour is the theorem `MismatchIsUnreachable`.
* `stale_line`: a link screen is painted when the state changes. Its line also names the title or the
  version, so another unsupported title leaves the first one's name on the glass
  (docs/user-experience.md:297).
* `fault_log`: the latch of `FrameBuilder` is cleared by every frame that is built and by every pause,
  and `LogSink.AdapterFaulted` has none of its own, so an adapter that faults now and then is logged
  each time, against docs/architecture.md:210 ("once per distinct cause").

### Divergences that no run is about

* *The offer branch paints nothing* (firmware.ino:456): if Wi-Fi drops and returns within the window of
  an offer, "joining" was painted over the offer and stays; the next touch sends a packet. `WholeGlass`
  has it as its exception, a screen that stands while an offer does.
* *A refused datagram followed by an accepted one in the same poll* raises the mismatch screen over
  good telemetry until the next accepted frame (firmware.ino:282, 315), where display_state.h:172 says
  "nothing accepted since". The opposite error, hiding a refusal, is excluded (`MismatchIsNotHidden`,
  proved). The flag has no age: a lone stray datagram of another version keeps a panel lit
  for as long as the PC is off.
* *An update of a dark panel*: the decision that exempts an update (display_state.cpp:173) is behind the
  early return that an update takes (firmware.ino:259), so the update screen is painted with the backlight
  off, against docs/product-and-requirements.md:228.
* *A boot that cannot open flash*: `load()` returns false with the defaults in place (config.cpp:22), and
  config.h:43-45 says that the caller then raises the portal. `setup()` only logs it (firmware.ino:192), joins the
  network that the platform remembers and saves the defaults over the record. `BootKeepsPromise` therefore
  ends at such a boot.
* *A blanking period out of range* makes `load()` return false too (config.cpp:48), but the configuration keeps
  all that was read, period included, and the device goes on with it, where INV-BLANK-BOUND
  (docs/domain-and-data.md:340) returns it to unprovisioned.

### What the passing runs say beside their answer

* *Whose address a panel keeps* (`AddressFollowsHost`) holds up to three exceptions, which the model
  tracks in `strayed` and in the value `Broadcast`: the portal's renaming; flash that could not be
  opened while the host changed, or for the save that followed; and a power cut inside `forget()`,
  which leaves the six 0xFF octets it had overwritten the address with, and which
  `rigaddr::begin()` takes for an address, so that the packet is a broadcast to no machine.
* *An erase* (`ErasedIsGone`) is only promised when flash could be opened: `config::erase()` returns
  nothing, and the page answers "Erased" in either case. It leaves the platform's own Wi-Fi store
  alone, so the restarted device joins the same network and does not raise its setup portal
  (config_page.cpp:330 against docs/domain-and-data.md:105).
* *A record of an unknown schema* is replaced by defaults at the next boot, as every boot saves what it
  has and only logs that it could not load. An interrupted save mixes old and new fields, each of them
  one or the other, as long as the boots after it can open flash (`InterruptedSaveMixes`).
* *Two thresholds that rounding makes equal* cost the whole frame, gear and bars with it
  (`FrameIsBelieved`'s exception).
* *A capture* that cannot be written takes every frame with it for as long as it is open
  (`StreamSurvives`' antecedent); one started between `Dispose`'s `StopCapture` and the end of `End`
  stays open.

## What is proved

### `PanelLoop`

For every value of the constants that satisfies `TimingAssumption` and `PanelAssumption`
(the stale period is shorter than the decay period, the offer window is shorter than the
decay period, a name has at most one address, a parsed frame has a known status and a
natural stamp):

| Theorem | States |
|---|---|
| `TypeCorrect` | `TypeOK` always holds |
| `Invariance` | the inductive invariant `IInv` always holds |
| `DarknessIsEarned`, `GlassIsRight`, `OfferAgreement`, `MismatchStands` | the four invariants of `panel_glass` |
| `FreshRendering` | INV-FRESH-RENDER on the glass |
| `OnlyTheDeadAreWoken` | who may be sent a wake packet |
| `TwoTouchesHold` | `PanelLoop` implements `TwoTouch` |

None of the safety properties is inductive, since each speaks of one stage of an iteration.
`IInv` says what holds at the other stages: the ladder's answer stays true to its inputs
until the screen is painted (`LadderHeld`); an upload is alone (`UploadAlone`); the blanking
facts hold from the decision to the next one (`DarkHeld`); the sequence and the loop's flag
agree (`WakeHeld`); a refusal is in the poll's result or in the flag (`MismatchHeld`);
`g_shown` is what is painted, up to an offer (`GlassHeld`); and an offer is younger than the
silence it was made in (`OfferHeld`). The last is what makes `FreshRender` true: the branch
that keeps the glass under an offer would keep a driving screen too, and does not only
because an offer lapses before a rig that was just heard can be taken for dead again. It rests
on `OfferWindow < StaleDecayMs`, a relation between two constants of two files that no
code states.

### `Publisher`

From `DeviceTableAssumption` and `PublisherAssumption` (a datagram names at most one device):
`TypeCorrect`, `SendsReachTheLastEndPoint`, `ListenerStaysUp` and `FramesGoToTheLiving`, which are the
invariants and the action property of `publisher_threads`, for any number of devices, any forget
period and any setting of the wall clock. The invariant has three parts. `Placed`: whoever is still to
be sent to has an entry at the endpoint last heard from; only the snapshot removes entries, and it
is the step that makes the list. `ListenerHeld`: null socket and closed socket come after the flag's
reset. `Dated`: a registration no older than the forget period has an entry with its date, whatever
the offset of the wall clock, which cancels out as long as it is left alone.

### `Link`

From `LinkAssumption`: the registrations that may be lost in a row and the next one, times their
period, take no longer than expiry and staleness together, and a frame is on the network no longer
than it stays fresh.

| Theorem | States |
|---|---|
| `TypeCorrect` | `TypeOK` always holds |
| `PanelNeverStepsBack` | `NoStepBack` |
| `MismatchIsUnreachable` | the panel's mismatch flag never goes up: `mismatch_shown` for every behaviour |
| `NoPauseOutlastsFreshness` | `ServedWithoutGaps` |
| `RestartedRunsAreHeard` | `NewRunIsPickedUp` |

`NoStepBack`: stamp and age of a frame on the network add up to the same clock for all
frames of one run, so that two of them differ by `MaxDelay` at most, and the tracker takes only a
larger difference for a restart. `MismatchIsUnreachable`: a plugin that has the panel in its table has
the panel's major version, hence every frame on the network has.

`ServedWithoutGaps` needs `Gaps`. The time since a registration arrived is known to the panel only, as
the losses in a row times the period and what has passed since the last attempt (`SinceArrival`).
It bounds the age of the table's entry; and once the entry is gone, gap and expiry together are no
longer than it. The cadence part of `LinkAssumption` bounds it in turn (`FewAreLost`).

`NewRunIsPickedUp` needs `Refusals`: while no frame is accepted the newest stamp stands still, and a
fresh frame that is refused shows that it is not behind the plugin's uptime and not ahead of it by
more than a staleness. The uptime passes it by, one unit after another.

### `FrameToGlass`

From the assumptions of its modules (a property that is read has one value, an integer where it is a
number; `PluginMajor` is the panel's), for any simulator, fractions, rounding unit and flash period:

| Theorem | States |
|---|---|
| `TypeCorrect` | `TypeOK` always holds |
| `TheGlassIsTrue` | `GlassTellsTheSim` |
| `FramesAreBelieved` | `FrameIsBelieved` |
| `PartialRepaintIsFull` | `GlassIsExact` |
| `ConditionsAreTold` | `GlassNamesTheCondition` |
| `NobodySeesTheCache` | `LooksRepainted`: `FrameToGlass` implements `WholeGlass` |
| `LadderStaysWithin` | the screens that `Iterate` chooses from include every answer of `DeriveLink` |

The heart is `Trust`, what renderer and loop may believe of the glass: if the last screen was a
driving one and the renderer's cache is valid, the cache is the glass; if it was a link screen, it is
on the glass, with the line of some time, unless that is left to an offer. Every step of an iteration keeps it, except that an
offer paints over what the loop has shown, which is only done for the state in which the choice of
screen then lets the offer stand (`BeforeTheChoice`, `BlindIsWhole`, `DrivingIsWhole`).

`WholeGlass` has no cache and no `g_shown`: in every iteration the whole glass is painted from the
frame, the refused version, the state and the clock. Two things may be left standing: a wake offer, and
what came over it, while the rig is unreachable; and a link screen while its condition holds, whatever it
names. The second is where `g_shown` can be seen, and `stale_line` shows that it is. The refinement
hides `panel.cached` and `panel.shown`; an iteration is a `Repaint`, in which an offer was made or was not
(`Prepared`) and what is believed to be up is (`Stays`), and whatever the plugin does is a stutter.

`TheGlassIsTrue` goes the whole way: the value read, the adapter's mapping, the thresholds, rounding
(`RoundingIsClose`: rounding moves a value past another only within a unit of the wire), the panel's phase
and the colour (`BandsTell`, `BarsTell`). `LiveHeld` adds that a driving screen is of a live frame.

### `ConfigStore`

From `ConfigStoreAssumption` and `OperatorAssumption` (a host is neither empty nor the
pattern that an erase writes, a credential is not empty; the first record is one that
some firmware wrote; a form has the shapes that the page lets through), for any hosts, credentials,
networks and forms, any number of power cuts and flash that fails at any opening:

| Theorem | States |
|---|---|
| `TypeCorrect` | `TypeOK` always holds |
| `PromisesAreKept` | `BootKeepsPromise` |
| `SavesMix` | `InterruptedSaveMixes` |
| `ErasesAreFinal` | `ErasedIsGone` |
| `AddressesFollow` | `AddressFollowsHost` |

The properties speak of a flash that has been written; the invariant has to speak of one that is
being written. Each of its parts relates the flash to the writes that are left in `todo`: what was
promised is there and is only written again, unless a boot could not read it (`PromiseHeld`); each key of
a save is written or will be (`SaveHeld`); a field is old or new, and so is what is still to be written
to it (`MixHeld`); an erase still has its `Clear` before it, or is past it, with nothing written after
(`ErasedHeld`); the address is removed before another host is written (`AddressHeld`). A power cut drops
the writes, which leaves each of these true, or frees it from its promise.

### `PanelDraw` and `DisplayState`

Theorems about the operators, for every frame, threshold and staleness:

| Theorem | States |
|---|---|
| `BandsNeverStepBack` | between the same two thresholds, rising revolutions take the bands through black, green, yellow, amber to the flash, never back: so few repaints in a climb is what the stops of `rampColour` are for |
| `LockoutIsBounded` | of any `StalenessMs + 2` frames with advancing stamps the tracker accepts one, wherever the producer begins |

### Model-checked only

The liveness properties (`StaleDecays`, `OfferIsWithdrawn`, `IdlePanelGoesDark`, `TelemetryReturns`,
`ShutdownCompletes`, `StreamSurvives`) need fairness and are outside the prover's reach. Every
invariant, action property and refinement that a passing run checks is also proved; what the violation
runs check is refuted there and, but for `MismatchIsUnreachable`, not stated as a theorem.

## Abstractions and what is not modelled

* The wording of a line, the cut of a title to twenty characters and the panel's own version in the
  mismatch line; of a line, the models have the condition it is for and what it names.
* JSON text: a datagram is a frame or is not, a registration a flat object or not. Names of titles
  are model values: clamping and escaping them is left out.
* Stamps and ages do not wrap, where the code has 32 bits; majors are whole numbers, where the code
  narrows them to 16 bits. Each is listed as a hazard with the reason.
* Numbers of a frame are integers, in a unit finer than the wire's where rounding matters; the code
  has doubles on one side and floats on the other (a NaN fails the comparisons a negative value does).
* In `PanelLoop` the blanking period is a constant, and `setup()` is one step; `ConfigStore` has the
  writes and the portal. "Wake sent" is on the glass for 1.5 s within one iteration: a value of the
  glass in `FrameToGlass` only until the same iteration's choice of screen.
* Flash: a single write is all or nothing, which the flash library promises. Lengths of values, and
  the truncation of a long host, are left out. The page's requests are those of an operator with the
  credential; authentication is left out.
* The renderer's geometry, fonts and timings; of geometry only that the four regions cover the glass.
* The touch controller's sampling and debounce time: they decide which touch is one.
* The state document and the HTTP server render what the loop published at the end of its last
  iteration, and nothing reads it back; the reset reason is in it only. The device identity is a
  constant of the hardware.
* The diagnostic counters of both programs.
* `tools/`, `contracts/`, `dictum/` and `plugin/probe`: development material.

## Plan

1. An abstract specification of the publisher ("every live device gets every frame where it was last
   heard"), with `Publisher` shown to implement it.
2. `TouchDebounce` and `MillisWrap`: the debounce timing, and ages modulo a small word.
