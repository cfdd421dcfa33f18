# Formal model of CirrusAudioFixup

CirrusAudioFixup is a macOS kernel extension that drives Cirrus Logic smart
amplifiers (CS35L41, CS35L56) which the firmware of some laptops leaves
unprogrammed. It finds the amplifiers on I2C or SPI, loads their firmware,
watches the HDA controller and the output selector of the audio stack, and
unmutes the speakers only while the speakers are the selected output. This
directory holds TLA+ modules translated from its C++ code, TLC configurations
that check them on small instances, and TLAPS proofs.

## The system

Paths are relative to `src/CirrusAudioFixup/`.

| Component | State it keeps | Operations | Talks to |
|---|---|---|---|
| `Core/AmplifierLifecycle.hpp` | stage, first and latest failure, cleanup result, touched and resume flags of one amplifier | bringUp, start/stopPlayback, suspend, resume, detach, reportRuntimeFailure, refreshPlaybackState, powerLost | the hooks of a silicon driver |
| `Core/AmplifierGroup.hpp` | members, stage, first failure, resume flag | the same operations over all members, with rollback | lifecycles |
| `Runtime/AmplifierManager.hpp` | slots (context, driver, lifecycle), the group, release results | bind, unbind, forwarding, runtimeTick, cancelPlayback, retryBringUp | drivers, group |
| `Platform/HDA/AudioEventSource.cpp` | listener table, per source a mailbox (route, engine, generation), a pending mark, references | two hooked IOAudioFamily functions; attach, detach, refreshRoute, observe, unchanged, checkForWork | threads of the audio stack; the service |
| `Service/CirrusAudioFixupRuntime.cpp` | cached HDA controller, audio state, timer, interrupt source | probeTimerFired, audioEventReceived, amplifierInterruptReceived, runBackgroundMonitor, synchronizeHdaStream, identity and bring-up retries | everything below |
| `Service/CirrusAudioFixup.cpp`, `CirrusAudioFixupPower.cpp` | power, startup and resume flags | start, stop, setPowerState, handlePowerChange, continueStartup | IOKit, SPI host |
| `Devices/Amplifiers/CS35L41` | playback and shutdown transition, fault latch, PLL recovery counters | hooks of the lifecycle; monitorCS35L41 once per run of the monitor | registers |
| `Devices/Amplifiers/CS35L56` | firmware and playback state | hooks of the lifecycle, synchronous start and stop | registers |
| `Transport/SPI` | host binding, controller power and resources, transfer engines | deferred bind, suspend, resume, shutdown, transfers with deadlines | ACPI, PCI |
| `Firmware`, `Platform/ACPI`, `Platform/Board`, `Transport/I2C`, `Diagnostics` | mostly none | pure decoding, parsing, reports | |

Everything the service does runs on one workloop: the timer, the power changes
(through a command gate), the audio event and the interrupt are serialized.
`start()` alone runs on the thread of IOKit (see "The service and its bus").
The hooks of the audio stack run on other threads, and so do the HDA
controller and the amplifiers. What is hard here is therefore not mutual
exclusion inside the service, but

* operations over several amplifiers of which one fails in the middle;
* long protocols that are cut into 1 ms callbacks, between which the route, the
  stream, the clocks and the peer may change;
* threads that report changes of the route while the service creates, seeds,
  reads and tears down the object they report to;
* sleep, wake and removal in the middle of any of these.

`PROJECT.json` lists the hazards line by line with the property that covers each.

## Modules

| Module | Models | Checked by |
|---|---|---|
| `AmplifierLifecycle` | `AmplifierLifecycle`: pure; an operation is the set of outcomes it can have, one for each answer of the hooks | through `AmplifierManager` |
| `AmplifierGroup` | `AmplifierGroup`: the loops over the members, one step per member, so that every intermediate hardware state is seen | through `AmplifierManager` |
| `AmplifierManager` | `AmplifierManager`: makes the calls, binds and releases | run `amplifier_manager` |
| `AmplifierLifecycleProofs` | lemmas: what an operation does to a sound lifecycle | TLAPS |
| `AmplifierManagerProofs` | the inductive invariant and the theorems | TLAPS |
| `AudioEventSource` | the hooks, the listener table and the mailbox | through `AudioRouting` |
| `AudioRouting` | how the service uses the source: a run of the monitor cut at every place where a hook can come between | runs `audio_routing`, `controller_swap`, `line_out` |
| `MCAudioRouting` | two controllers, an engine, two source objects | |
| `CS35L41Playback` | what a CS35L41 driver does to one amplifier: preparation, shutdown, fault latch, PLL recovery, validation, commit, cancellation | through `PlaybackPair` |
| `PlaybackPair` | the amplifiers of a board under the monitor: barrier, timer, interrupt, with failing chips | runs `playback_pair`, `playback_pair_liveness`, `one_sided_clock_loss`, `protection_after_retries`, `cleanup_not_retried` |
| `IntelSPIController`, `AMDSPIController` | one SPI controller as its owner sees it: open, power request, mapping, chip selects, sleep, wake, release | through `ServicePower` |
| `NativeSPIHost` | the host: the same over all controllers of the board, with authorisation and reset of the amplifiers | through `ServicePower` |
| `ServicePower` | the service around the bus: start, deferred start, identity, wake, sleep, stop, and the power manager | run `service_power` |
| `SPIContract` | abstract: what `SPIController.hpp` promises of a request | as `Implements` of `SPIEngines` |
| `SPIFrames` | what the two engines share: requests, frames, switches | through `SPIEngines` |
| `LPSSSPIEngine`, `AMDSPIEngine` | the polled engine and the command engine, each with the hardware it polls | through `SPIEngines` |
| `SPIEngines` | a machine with one of them, and the refinement of `SPIContract` | run `spi_engines` |
| `CS35L41Chip` | the chip as the bring-up sees it, and transfers that fail | through `SpeakerBringUp` |
| `CS35L41Bringup` | the routines behind the hooks of the driver: reset, errata, configuration, boot, calibration, shutdown | through `SpeakerBringUp` |
| `WMFWUpload` | the uploader of firmware images | through `SpeakerBringUp` |
| `SpeakerBringUp` | one CS35L41 from identification to playback and back | run `speaker_bring_up` |
| `PlaybackPairProofs`, `AudioRoutingProofs`, `ServicePowerProofs`, `ServicePowerMemoryProofs`, `SPIEnginesProofs`, `SpeakerBringUpProofs` | the inductive invariant of each and the theorems | TLAPS |

### Lifecycle, group and manager

A lifecycle is a record with the class's members and two history fields: what
the chip really is (`hardware`) and what became of the calls of `safeShutdown`
(`shutdown`). They are what the safety properties are about: the class only
knows what its hooks told it. A hook succeeds or fails, and a hook that fails
may have reached the chip before it failed (a start that fails after the
unmute leaves it audible). The stages an operation passes through inside one
call are not states of the model, since the workloop runs the call to its end;
the stages between two members of a group are.

`Managed` tells the drivers that manage their transitions (the group asks
`observedPlayback()`; CS35L41 and CS35L56 both do) from those that leave
playback to the lifecycle, the default of the interface
(`AmplifierLifecycle.hpp:49`), which the manager serves and no present driver
uses. Both kinds are in the checked instance.

### The audio event source and the route

A hooked call is three steps: the original function changes the registry
(`Original`), `publish()` copies and retains the listeners (`Publish`), and
each of them observes the change (`Deliver`). Calls of different audio objects
interleave freely. The seeding of a source reads a value (`SeedRead`) and
observes it (`SeedObserve`), and a hook may come in between. `detach()` is two
steps because it takes two locks. A run of the monitor goes through the steps
of `pc`; the amplifiers are one output of CS35L41s that the run prepares,
unmutes and stops. Two of its states are failures the monitor does not poll for.
`Unclean` is a cleanup that failed, or that is not begun because its three
attempts are used up: `playbackPending()` is false, so that the run arms no timer
once the route has left the speakers (`CirrusAudioFixupRuntime.cpp:601-622`),
though the output may be audible. `Faulted` is a group that a start, a sleep or a
wake has failed: the runs return early (`:528`) and arm none either. Hence
`SleepsOnlySettled` promises that the timer lies only when no work is under way
on a route that is known to forbid playing; it does not promise silence, and
cannot. What becomes of an `Unclean` output, and the interrupt, are in
`PlaybackPair`, where `CleanupIsRetried` is violated (finding 5). `PlaybackPair`
has the amplifiers in full and takes the route from the source as given.

### The CS35L41 pair

`CS35L41Playback` is pure, like `AmplifierLifecycle`: an operation is the set of
amplifiers it can leave on a chip `h`, whose transfers work or not (`well`),
whose PLL is locked or not (`clock`) and whose protection has tripped or not
(`trip`). The record has the members of `RuntimeState` that decide something,
and two history fields: `audible`, what can be heard, and `hurt`, that
something other than the loss of the clock went wrong since the fault was
latched. A chip that is well answers at the next poll; one that is not may still
serve any single transfer, so every operation on it may succeed, fail or wait,
and a failure after the unmute was written leaves the amplifier audible. Phases
with the same guards are one (`Resume`/`Power`, `Output`/`Pll`,
`Pause`/`Finish`). Generation, tag and format of the stream that an amplifier
was prepared with are one flag, `fresh`, which a change of any of them clears.
The cooldown of a recovery is left out: only an amplifier without a known route
waits for it (`CS35L41Playback.cpp:298`), and no recovery starts without one.

In `PlaybackPair` a run of the monitor is `Run` (everything up to the barrier),
then, if all are prepared, `Validate` and `Commit` for each amplifier and
`Revalidate`. The world (route, stream, chips) changes between these steps; the
sweep of the ticks is one step. An interrupt comes between runs, as the workloop
has it. The HDA controller is present throughout (its loss is in
`AudioRouting`), the amplifiers are initialized, and a failed group stays failed:
power cycles are in `ServicePower`. The failures of the HDA controller and of the
stream format that the service writes into `latestFailure`
(`CirrusAudioFixupRuntime.cpp:255`, `:382`) are left out: they are never a loss
of the clock, so all they could do is to hold back a recovery. `timer` and `event` are the only two things
that start a run.

### The service and its bus

A handler is one step of `ServicePower`: `Stop`, `Sleep` and `Wake`, which run
under the command gate, what the timer dispatches to on the same workloop
(`ContinueStartup`, `ContinueResume`, `RetryPlatformIdentity`, `Monitor`), and
`Start`. `start()` is not under the gate: it arms the timer
(`CirrusAudioFixup.cpp:260`) before it joins the power manager and sets up the
interrupt (`:268-278`), so that a first run of the monitor may come 50 ms later,
before the start has ended or failed. The model makes it one step and does not
see that overlap. An unknown identity is waited for; boards whose profile does
not allow that, and read-only probing (`:202-204`), go on without it and are left
out. The control variables are the members of the service with their
names; `unit` is the host together with what the service knows of the amplifiers
behind it. What a handler does to the unit is a set of outcomes, one for each
answer of PCI, power manager, mapping, ACPI and silicon, composed along the
early returns of the code. A `Pending` answer of one controller is the answer of
the host, which keeps the slot and goes on from it at the next poll
(`resumeSlot`).

A controller record holds what the driver remembers (`phase`, `pending`,
`waited`, the power client) and what the machine holds for it (the vote, D0, the
memory enable). Grants and withdrawals of power come between the handlers, never
inside one: they are callbacks of the power manager that need the gate
(`PowerManager`). `SPIPowerClient.cpp` is the client of the record; releasing it
is `ReleasePower`. The I2C provider and its ACPI methods, which wait for
nothing, are outcomes of the communication setup.

Two things the properties leave room for, because the code does.
`ProbesMeetLiveBus` exempts a start that was pending while the system slept: the
sleep turns the controllers off, the wake only re-arms the timer
(`CirrusAudioFixupPower.cpp:86-91`), and the deferred bind, which finds them
mapped, succeeds although they are offline. Probing then fails and is reported.
And the 35 s promised to the power manager (`:48-49`) cover one controller that
uses up its 30 s, not two in a row: `AckExpires` is that case.

### The transfer engines

An action of an engine is a register access or a poll together with what the
code decides from it; the hardware (shifting, filling the receive FIFO, clearing
busy, disappearing, latching an error) takes its steps in between. Bytes are
numbered, so that order, loss and duplication show. The deadline read from the
clock may be over at any poll, while the polls are counted as in the code. A
GPIO select whose release fails takes the engine offline. A later resume only
validates the outputs (`IntelLPSSSPIController.cpp:780-824`), so a line may be
active while the engine is online again; the contract promises release or
offline at the end of each frame and remembers such lines in `stuck`.

`SPIContract` knows nothing of FIFOs, polls or registers: a frame sees bytes
go out while one select is active, and may succeed only when all of them went
out and the buffer holds the answers. `Implements` is the refinement, with
`selected` read off the mux and the GPIO lines, or off a command that runs.

### The bring-up of a CS35L41

`CS35L41Chip` has a write as a record of the fields it sets. A routine maps a
world, chip and driver flags, to the set of worlds it may end in, with `ok` for
its return code. `{w} && r && s` makes the writes `r` and `s` in order and stops at
the first error (`InOrder`), `{w} ++ r ++ s` tries both (`AllTried`), and the
difference between the two is what most of the code's care is about. `Onward`,
`Anyway` and `Regardless` say the same of whole routines. A transfer
may fail before or after it took effect, once or from then on (`down`). The
actions of `SpeakerBringUp` are the hooks in the order in which
`AmplifierLifecycle` calls them, a failure after the first touch being one safe
shutdown. The upload is cut into its transactions, since it is long and each one
is verified and undone by itself.

Some outcomes look odd and are what the code does. Program memory is not read
back, so silent corruption is considered for the readable blocks only. A chip
that fails its probe is marked absent, after which a safe shutdown skips
everything and reports success: hence `amp.present` in `QuietOrReported`. An
amplifier waits for its firmware, and is retried, while no identity of the board
is known; once the controller has one that is not supported, the amplifier is
refused although the codec might still publish a supported one
(`CS35L41Firmware.cpp:681-755`).

Facts about the silicon are taken as its documentation in the code has them: a
protected register takes a write only while unlocked, a soft reset needs no key
and keeps the memory of the DSP, a loss of power does not. `alive` stands for the heartbeat
count. Playback is prepared and stopped here in one piece; its protocol is in
`CS35L41Playback`.

## Runs

* `amplifier_manager`: two amplifiers, one managed and one not, playback
  resumed automatically. Two are enough for a first and a later member, for a
  rollback and for a peer; the proofs cover up to sixteen. No bound is needed:
  the state space is finite. `FailureSpreads` assumes that a call in progress
  runs to its end, which the workloop guarantees.
* `audio_routing`: two controllers, an engine on the first, two source
  objects, outputs `Speakers` and `Headphones`, at most two calls of hooked functions and one
  upset (a change of the controller or a sleep). Two sources let a call that
  holds the old source meet the new one; two calls let the selector and the
  engine report at once. Deadlock is off because the bound on calls lets the
  system end asleep. Fairness: a routed call returns, a run of the monitor
  ends, an armed timer fires, a signalled event is served; a controller that
  answers again and again and memory for a source are there eventually. Nothing
  is assumed about the audio stack, the route or the amplifiers: a mute may fail
  for ever.
* `controller_swap` (violation): see below.
* `line_out` (violation): the same with a third output.
* `playback_pair`: two amplifiers, an interrupt, a route that is unknown at
  first, the speakers or another output, and one each of: change of the route or the stream, bus failure,
  tripped protection, lost PLL lock. A deadline lasts one run more or none
  (`Patience`): what matters is whether a peer, a failure or a change comes
  before it or after it. A bus and a clock may come back as often as they
  failed; a tripped protection stays, since the driver never releases it.
  `WorkIsPolled` excludes boards after their interrupt: see finding 5.
* `playback_pair_liveness`: three changes, no bus failure. Without changes of
  the bus the runs of a cleanup end, so that liveness says something about the
  protocol and not about the bus. `PlaysAgain` starts from every reachable state,
  not only from the first. Fairness, here and in the violations: a run that can
  start or go on does (an armed timer fires, a signalled event is served, the
  workloop does not stop inside a run); nothing is assumed about the world.
* `one_sided_clock_loss` (violation): two amplifiers, only the speakers, one loss
  of a lock.
* `protection_after_retries` (violation): one amplifier, six changes and three
  losses of the lock, which is what it takes to use up three cleanups.
* `cleanup_not_retried` (violation): one amplifier, one change, one failing bus.

* `service_power`: an Intel or an AMD bus with two controllers, or an I2C
  provider. Two controllers are what a partial bind, a rollback and a pending
  second slot need. A tick of the clock is as long as a deadline (30 s of an
  acquisition, 60 s of the interpreter, 30 s of the identity, 35 s of the power
  manager's patience), so every request may be granted before, after or instead
  of its deadline; the patience is two ticks, to be longer than one
  acquisition. Sleeps, wakes and grants are not limited. Fairness: the clock
  goes on, and an armed timer that is due is run, since nothing holds the
  workloop for good; nothing is assumed about the power manager, the firmware
  or the answer of a controller. `AckExpires` is not fair either, so that
  `WakeAnswered` speaks of the answer of the service.
* `spi_engines`: two devices, one with a native select and one with a GPIO,
  frames of up to two bytes each way, two bytes in flight of a FIFO of two, two
  frames a sequence, two failures. Two in flight of up to four bytes is where the
  window moves (the code has eight of up to 4096); a FIFO as deep as the window
  is the tightest one without a loss. Fairness: the caller's own steps; nothing
  about the hardware, which may stand still: `RequestEnds` rests on the counted
  polls.
* `speaker_bring_up`: three boost topologies, a chip fresh or left as a former
  owner used it, calibration tables that hold the chip's record, another's, one
  for any, none or a bad one, an identity that is there, late, foreign or an
  alias, resources missing, unreadable or too large, and three failures of
  transfers: one to enter the error path, one in it, one in the shutdown after
  it. The chip does not reset by itself. There is no liveness here; deadlock is
  off because a faulted amplifier is not touched again.

Deadlock is off in the five runs of the pair because a system without changes
left, whose route is not the speakers, has nothing to do.

## Findings

1. *A controller replaced inside a run.* The run reads a route that permits
   playback, then synchronizes the stream again before the commit. If the
   controller went away in between, that call tears the event source down and
   takes the next controller. Without a source, the validation, the commit and
   the check after it skip the comparison of the route generation, and the
   speakers are unmuted although no route is known
   (`CirrusAudioFixupRuntime.cpp:247`, `:577`, `:589`,
   `CS35L41Playback.cpp:205`, `:225`). The next run stops them. A CS35L56 is
   not affected: it requires a route source.
2. *A dropped report.* Until the source is bound to an engine, a live report
   of an output that is neither speakers nor headphones is dropped and leaves no
   trace; a seed read before it is then accepted
   (`AudioEventSource.cpp:315`, `:324`).
3. *The loss of one PLL ends the pair.* A recoverable fault of one amplifier is
   hidden from the monitor, so the peer plays on. The first one recovers and
   waits in Prepared for a peer that is Active and will never be Prepared
   again. After 100 ms the wait is a playback invariant failure, which is final
   (`CirrusAudioFixupRuntime.cpp:571-576`, `CS35L41Playback.cpp:461`,
   `Playback.hpp:325-327`); the changelog promises recovery from a transient
   loss.
4. *Cleanups that were forgiven still count.* The fault of a lost PLL that is
   dropped with the route keeps `cleanupAttempts`
   (`CS35L41Playback.cpp:281-285`). After three of them the amplifier plays
   again, and a protection fault that the interrupt finds is latched but muted
   by nobody.
5. *A failed cleanup waits for the speakers.* A cleanup that fails after the
   route has left them arms no timer (`CirrusAudioFixupRuntime.cpp:607-622`):
   the two other attempts are made when an audio event comes, if ever. The
   interrupt has a relative of it: the cleanup that it begins needs a timer too,
   which it does not arm, although its log says that polling remains active
   (`:104`, `:113`).

Findings 3 to 5 say what the model of the code does; they have not been tried
on a machine. Smaller observations, which no run states: a faulted
group is neither suspended nor released by a sleep, and is still faulted after the
wake (`CirrusAudioFixupPower.cpp:68-74`); a route change in the
middle of a start is a failure for a CS35L56 and a cancellation for a CS35L41;
and the three of the sections above (a start pending through a sleep, two
acquisitions against one promise, the shutdown of an absent chip).

## Proofs

Each theorem has the form `Spec => []Invariant` or `Spec => [][Step]_vars` and
holds for every value of the constants that the named assumptions of the modules
allow; the runs check the same formulas on one instance. The inductive
invariants were checked by TLC on the instance of the run before they were
proved. A proof goes from the operators up: first what an operation does to one
record (a lifecycle, an amplifier, a controller, a FIFO), as a lemma that later
proofs cite instead of the definition, then what a handler does with several of
them, then one step for each disjunct of `Next`, and last a temporal step.

| Module | For every | Properties proved |
|---|---|---|
| `AmplifierManagerProofs` | number of amplifiers from 1 to 16, set of managed drivers, setting of the automatic resume | `TypeOK` and all the safety and action properties of the run |
| `PlaybackPairProofs` | number of amplifiers, set of routes, patience and bound on changes, failures, trips and lost clocks, with or without an interrupt | `TypeOK`, `WorkIsPolled`, `UnmutedTogether`, `OnlyClockLossForgiven` |
| `AudioRoutingProofs` | set of controllers, finite set of engines on them, set of source objects and bound on calls and upsets | `TypeOK`, `ReferencesAccounted`, `NothingForgotten`, `SleepsOnlySettled`; with two outputs `MailboxIsCurrent` and `LiveReportWins` |
| `ServicePowerProofs` | number of controllers, deadline of the power request, of the interpreter and of the power manager, set of buses | `TypeOK`, `HostAllOrNothing`, `AsleepLetsGo`, `RunningNeedsBus`, `PendingIsPolled`, `AnswerIsComing`, `IdentityFirst`, `ProbesMeetLiveBus` |
| `ServicePowerMemoryProofs` | the same | `MemoryRestored` |
| `SpeakerBringUpProofs` | number of failing transfers (every board, identity and calibration table of the run is in `Init`) | `SiliconOrder`, `ReadyIsTrue`, `QuietOrReported` |
| `SPIEnginesProofs` | set of devices and of GPIO selects among them, length of a frame, depth of the FIFO, window up to that depth, number of polls and of faults | `TypeOK`, `NoOverrun` and the refinement `Implements` |

**Amplifier manager.** The properties between two calls are not inductive: a
call passes through states in which they fail. `IInv` therefore says what each
loop has established so far: the members before the cursor are up while
bringing up, those after it are detached while detaching, and so on; and for
each lifecycle it has `Sound`, the relation of stage, touched flag, cleanup
result and the history fields. `AmplifierLifecycleProofs` shows that every
operation takes a sound lifecycle to a sound one, and what else an operation
establishes. `NoLateStart` and `EvidenceKept` are proved of each step together
with the invariant.

**Pair.** `UnmutedTogether` is about one step, but rests on how far the run has
come: `Progress` says that the amplifiers before the cursor are validated, then
committed, and that all of them go stale together when the world changes.
`Kept` is why only a lost clock is forgiven: while something else went wrong the
latest failure is neither a loss of the clock nor about to be taken for one.
An operator of `CS35L41Playback` is used through `Follows` and `Stops` only,
which say what it may do to the latch, the history and the output.

**Event source.** The counts of references need to know who holds one: the
routed calls that have published and not yet delivered, and the service until it
has closed the source (`Owner`). `Known` ties the state the service acts on to
the mailbox, `RunFacts` what a run has read to the step it is at. For the
mailbox itself (`Agrees`, `SeedFresh`) a value is right or a call is on its way
that will correct it. `MailboxStaysCurrent` and `LiveReportsWin` assume
`Output = {"Speakers", "Headphones"}`. This is not a convenience: with a third
value the run `line_out` refutes `LiveReportWins` (finding 2), and the theorem
says that the third value is all it takes. A sum over the holders of references
is what makes `Engine` finite in `SourceAssumption`; a registry has finitely
many objects.

**Service and bus.** `IInv` is the conjunction of the properties, which rest on
each other, with what they leave out. `HostSound` says what a controller is
between two calls (`Sound`: nothing is held without the open, an engine is
online only where registers are mapped, an AMD controller never pends), that
all of them are bound or none, and that a resume that goes on at a slot left
those before it awake. `Members` says that a manager that is bound has a bound
host out of reset, and a live one if it runs. `OffStage`, `Starting` and
`Excluded` say which of the flags for starting, waking, waiting for an identity
and having failed exclude each other, without which a timer could come back to
the wrong continuation. `Awake` says that a mapped controller is online while
there is power, but for the start that pended through a sleep. The host asks its
controllers in an order and stops at the first that does not succeed;
`InOrderRan` says once what such a round leaves behind (`Ran`), for any number
of controllers, by giving the slot where it stopped, which needs no induction.

**Memory enable.** `MemoryRestored` is about one step, and one step may suspend,
release and bind a controller again. `Tracks` is what any chain of operations
may do to the memory enable and to what the driver remembers of it; it is
transitive, and every operation of a controller, of the host and of the unit
keeps it. What makes it true is that a release gives the grant back and a bind
needs one, which only the power manager can give, in a step of its own: a
controller released in a handler is never mapped again in it. `Remembers` is the
invariant: a mapped Intel controller remembers what was found when it was bound.

**SPI engines.** An Intel frame has its bytes in four places: the transmit FIFO,
the wire, the receive FIFO and the buffer. `Moving` says that they are numbered
in this order without a gap, as long as the function is enabled and not gone.
The window then bounds the bytes under way (`Fifos`), whatever the hardware does
between two polls. `Selects` and `Ending` say which select is active by which
means, and `Commanding` what the FIFO of a running AMD command holds. The
refinement shows that each initial state is one of the contract, and that each
step is a step of the contract or leaves its variables unchanged.

**Bring-up.** A routine is a set of outcomes, and a chain of twenty transfers,
each of which may fail before or after it took effect, is not looked at case by
case. `Framed`
says of a set of worlds what none of them has changed, `Sure` which value a
field has in all that report success, `Within` which values it has at all; a
dozen lemmas say what one more write does to each. The lemma of a routine is
then one short line per write: what it leaves alone, and what is certain where it
succeeded. `Paused` is what any end of playback may do to the DSP: nothing, or
it is halted, no longer trusted, and the routine fails. That is why a failure
anywhere cannot leave a stopped DSP that is reported ready.

Over the hooks, the properties are not inductive. `SiliconOrder` needs `InPlace`
(the core is stopped while the upload and the boot are under way: neither the next
transaction nor the write of the calibration looks at it again). `ReadyIsTrue` needs
`InPlace` for the image (what the position of the upload has passed is in place,
since each block was read back or its write succeeded, and a failed region ends
the bring-up), `Calibrated` for the record, and `Set` and `Steady` for the
configuration, which is made at the beginning and must survive a firmware
upload, a boot and every start and stop that does not latch a fault.
`QuietOrReported` is `Steady` while the amplifier is up and `Clean` after a
shutdown, which holds through a power cut, a resume and a second
identification until the hardware is touched again. `IInv` is their conjunction
and was checked by TLC with the bounds of the run. Each hook then comes
down to one of three lemmas: it has failed and latched a fault (`FailedInv`), it
has left the amplifier up (`SteadyInv`), or it has shut it down (`ShutInv`). The
proof does not use the bound on the failures: the run has three, and the theorem
says that a fourth one does no more harm.

**Only model-checked.** Liveness (`FailureSpreads`, `PlaysAgain`,
`RequestEnds`, `StartupSettles`, `WakeAnswered` and the others) and fairness are
beyond the prover. Every safety invariant and every action property of a passing
run is stated by a theorem. The properties of the four other
violations fail, so there is nothing to prove.

## Plan

What is left, in this order:

1. CS35L56 start and stop against route changes.
2. An abstract contract of a group (all play, or none and the failure is on
   record), implemented by `AmplifierManager`.
3. Pure checks over bounded inputs: the WMFW parser, the register map, HDA
   formats, the ACPI chip selects.

## Not modelled

* The WMFW parser and the decoding of calibration and of ACPI data: they either
  yield what the upload and the configuration work on or fail, and are outcomes.
* How the pins of GPIO chip selects are found and checked
  (`IntelSPIChipSelects.hpp`), an outcome of binding.
* The start and stop sequence of the CS35L56: its hooks are those of
  `AmplifierLifecycle`.
* In the bring-up: a revision without a patch table, the debug stops, the
  bypass of the DSP, calibration by boot argument, a chip with a zero
  identifier (it is given the record of another chip,
  `EFICalibration.hpp:55`, `CS35L41Firmware.cpp:335`); the two writes of the test
  key are one. In the service: read-only probing, a start without a wait for the
  identity, the monitor during a start, and the status strings.
* The registry of drivers, the ACPI platform and board identity, the interfaces
  of I2C and GPIO and the register map: no state over time.
* Diagnostics, which only publish; generated firmware data; the unused
  `SPIAmplifierManager`; tests and tools.
