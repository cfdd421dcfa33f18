---------------------------- MODULE ServicePower ----------------------------
(***************************************************************************)
(* The service around its bus: start, the deferred start that waits for    *)
(* power and for the ACPI interpreter, the wait for the board's identity,  *)
(* reset, discovery and bring-up of the amplifiers, sleep, wake and stop   *)
(* (Service/CirrusAudioFixup.cpp, ...Power.cpp, ...Runtime.cpp and         *)
(* ...Attachment.cpp), over the SPI host or over an I2C provider.          *)
(*                                                                         *)
(* Every handler is one step: power changes, stop and the timer run on one *)
(* workloop.  start() does not, and arms the timer before it has joined    *)
(* the power manager; it is one step all the same, see README.md.  What a  *)
(* handler does to the devices is a set of outcomes over a "unit": the     *)
(* host and what the service knows of the amplifiers behind it.            *)
(***************************************************************************)
EXTENDS NativeSPIHost

CONSTANTS
    Buses,        \* the buses a run looks at, among Kinds and "I2C"
    AckDeadline   \* clock ticks after which the 35 s of a wake are over

ASSUME PowerAssumption == /\ Buses \subseteq Kinds \cup {"I2C"}
                          /\ AckDeadline \in Nat \ {0}

VARIABLES
    bus,             \* the bus of this machine
    unit,            \* the devices, see Unit
    phase,           \* of the service: "Idle", "Running", "Stopped"
    power,           \* mPowerAvailable
    startupPending, startupFailed, resumePending, pmInitialized,
    identityPending, identityWaited,
    timer,           \* mProbeTimer is armed
    due,             \* it has been armed since the last tick of the clock
    level,           \* the power state the system asked for
    ackOwed,         \* it waits for acknowledgeSetPowerState
    ackWaited,       \* ticks it has waited
    identityKnown,   \* the audio controller is published: its identity reads
    interpreter,     \* nativePropertySetupState, or its evaluator
    found,           \* what the memory enable of each slot was when bound
    sleptPending     \* the system slept while a start was pending

control == <<phase, power, startupPending, startupFailed, resumePending,
             pmInitialized, identityPending, identityWaited>>
clock == <<timer, due>>
system == <<level, ackOwed, ackWaited>>
world == <<bus, identityKnown, interpreter>>
history == <<found, sleptPending>>
vars == <<unit, control, clock, system, world, history>>

IdentityDeadline == 1  \* clock ticks in the 30 s of mPlatformIdentityDeadlineMs

\* What the amplifier manager is to the service (AmplifierManager, stage()).
Managers == {"Unbound", "Detached", "Ready", "Playing", "Waiting", "Suspended", "Faulted"}

Unit == [host: Host, known: BOOLEAN,       \* mPlatformSubsystemId is read
         authorized: BOOLEAN,              \* mPlatformAuthorized
         detected: BOOLEAN,                \* every expected amplifier answered
         manager: Managers,
         touched: {"No", "Live", "Dead"}]  \* the amplifiers, by this step

TypeOK ==
    /\ bus \in Buses /\ unit \in Unit
    /\ phase \in {"Idle", "Running", "Stopped"}
    /\ \A flag \in {power, startupPending, startupFailed, resumePending,
                    pmInitialized, identityPending, timer, due, ackOwed,
                    identityKnown, sleptPending} : flag \in BOOLEAN
    /\ identityWaited \in 0 .. IdentityDeadline
    /\ ackWaited \in 0 .. AckDeadline
    /\ level \in {0, 1} /\ found \in [Slots -> BOOLEAN]
    /\ interpreter \in {"CallbackNotReached", "Ready", "Published", "Failed"}

UnitOutcome(u, ok) == [u |-> u, ok |-> ok]

\* The transfers to the amplifiers can work at all.
Live(u) == bus = "I2C" \/ AllOnline(u.host)
Touch(u) == [u EXCEPT !.touched = IF Live(u) THEN "Live" ELSE "Dead"]

-----------------------------------------------------------------------------
(* Attachment *)

\* Without its drivers the manager is unbound, whatever its cleanup returns.
ReleaseAmplifierDrivers(u) == [u EXCEPT !.manager = "Unbound"]

TeardownCommunication(u) ==
    [ReleaseAmplifierDrivers(u) EXCEPT !.host = HostShutdown(u.host)]

\* Profile and authorisation: a board that is not known is not authorised.
ResolvePlatformProfile(u) ==
    {[u EXCEPT !.known = identityKnown, !.authorized = a]
     : a \in IF identityKnown THEN BOOLEAN ELSE {FALSE}}

\* A board that is discovered is adopted, and authorised, if its identity is
\* the one that was resolved.
AdoptDiscoveredBoard(u) ==
    IF u.known THEN {UnitOutcome([u EXCEPT !.authorized = TRUE], TRUE)} ELSE {}

\* An authorised board's first amplifier is asked who it is: a bus that cannot
\* address it fails, another identity takes the authorisation away, and a
\* transfer that fails otherwise is left to the detection.
PreflightI2CIdentity(u) ==
    IF ~u.authorized THEN {UnitOutcome(u, TRUE)}
    ELSE {UnitOutcome(u, FALSE), UnitOutcome(u, TRUE),
          UnitOutcome([u EXCEPT !.authorized = FALSE], TRUE)}

\* An I2C provider whose controller cannot be made fails, one without a driver
\* goes on without the authorisation to write.
SetupI2C(u) ==
    {UnitOutcome(u, FALSE), UnitOutcome([u EXCEPT !.authorized = FALSE], TRUE)}
    \cup AdoptDiscoveredBoard(u) \cup PreflightI2CIdentity(u)

\* The SPI resources are bound, or bound on; a pending host is left at that.
\* A bound one is authorised for writing if its board is, and not otherwise.
BindSPI(u) ==
    IF Bound(u.host) THEN HostContinueBind(u.host, interpreter)
    ELSE HostBind(u.host, interpreter)

AuthorizeSPI(u) ==
    {UnitOutcome([u EXCEPT !.authorized = FALSE], TRUE)} \cup
    (IF ~u.authorized /\ ~u.known THEN {}
     ELSE {UnitOutcome([u EXCEPT !.host = o.h,
                                 !.authorized = o.ret = "Success"],
                       o.ret = "Success")
           : o \in ConfigureAuthorized(u.host)})

\* The resources may be rejected; without a driver for the amplifiers the
\* controllers are bound, but never authorised.
SetupSPI(u) ==
    {UnitOutcome(u, FALSE)} \cup
    UNION {LET bound == [u EXCEPT !.host = o.h]
           IN  CASE HostPending(o.h) ->
                       {UnitOutcome(bound, TRUE),
                        UnitOutcome([bound EXCEPT !.authorized = FALSE], TRUE)}
                 [] ~HostPending(o.h) /\ o.ret = "Success" ->
                       AuthorizeSPI(bound)
                 [] OTHER -> {UnitOutcome([bound EXCEPT !.authorized = FALSE],
                                          FALSE)}
           : o \in BindSPI(u)}

SetupCommunication(u) == IF bus = "I2C" THEN SetupI2C(u) ELSE SetupSPI(u)

\* The reset of an authorised board, by the host's GPIO group or by the
\* platform's own means; a failure of either may take the authorisation away.
PerformPlatformHardwareReset(u) ==
    CASE ~u.authorized -> {UnitOutcome(u, FALSE)}
      [] u.authorized /\ Bound(u.host) ->
            {UnitOutcome([u EXCEPT !.host = o.h,
                                   !.authorized = o.ret = "Success"],
                         o.ret = "Success") : o \in PrepareHardware(u.host)}
      [] OTHER -> {UnitOutcome(u, TRUE), UnitOutcome(u, FALSE),
                   UnitOutcome([u EXCEPT !.authorized = FALSE], FALSE)}

\* Each endpoint is asked for its identity, and one that does not answer as
\* its driver expects is left out; a bus that is offline answers nobody.
Asked(u) == {[Touch(u) EXCEPT !.detected = all]
             : all \in IF Live(u) THEN BOOLEAN ELSE {FALSE}}

DetectNativeSPIAmplifiers(u) == Asked(u)

\* On I2C nobody is asked while a driver is bound, or without authorisation:
\* the endpoints of the board's configuration, or else of its profile.
DetectConfiguredI2CAmplifiers(u) ==
    IF u.authorized THEN Asked(ReleaseAmplifierDrivers(u))
    ELSE {[ReleaseAmplifierDrivers(u) EXCEPT !.detected = FALSE]}

DetectAmplifiers(u) ==
    IF u.manager # "Unbound" THEN {u}
    ELSE DetectConfiguredI2CAmplifiers(u) \cup
         (IF u.authorized THEN Asked(u) ELSE {[u EXCEPT !.detected = FALSE]})

\* A bind that fails on any amplifier releases all the drivers.
BindAmplifierDrivers(u) ==
    IF u.manager # "Unbound" THEN {u}
    ELSE {ReleaseAmplifierDrivers(u), [u EXCEPT !.manager = "Detached"]}

\* bringUpAmplifiers: only an authorised board with every amplifier present.
\* A bound manager is not brought up again, and a fresh one ends up ready,
\* waiting for a resource or faulted.
BringUpAmplifiers(u) ==
    IF ~u.authorized \/ ~u.detected THEN {u}
    ELSE UNION {IF b.manager # "Detached" THEN {b}
                ELSE {[Touch(b) EXCEPT !.manager = m]
                      : m \in IF Live(b) THEN {"Ready", "Waiting", "Faulted"}
                              ELSE {"Faulted"}}
                : b \in BindAmplifierDrivers(u)}

DetectAndBringUp(u) ==
    UNION {BringUpAmplifiers(d)
           : d \in IF Bound(u.host) THEN DetectNativeSPIAmplifiers(u)
                   ELSE DetectAmplifiers(u)}

-----------------------------------------------------------------------------
(* Start *)

\* A mutant: the start goes on without the board's identity.
FinishStartupUnknown(u) ==
    LET begun == {UnitOutcome(d, TRUE) : d \in DetectAndBringUp(u)}
    IN  begun \cup (IF pmInitialized THEN {}
                    ELSE {UnitOutcome(o.u, FALSE) : o \in begun})

\* While the board's identity is not known there is no reset and no amplifier
\* is touched (a profile that waits for it, and no read-only probing).  A failed reset ends an SPI start; on I2C the silicon's own
\* reset is left to do.  The power manager is joined once.
FinishStartup(u) ==
    LET begun ==
            IF ~u.known THEN {UnitOutcome(u, TRUE)}
            ELSE UNION {IF ~o.ok /\ Bound(o.u.host)
                        THEN {UnitOutcome(TeardownCommunication(o.u), FALSE)}
                        ELSE {UnitOutcome(d, TRUE) : d \in DetectAndBringUp(o.u)}
                        : o \in PerformPlatformHardwareReset(u)}
    IN  begun \cup (IF pmInitialized THEN {}
                    ELSE {UnitOutcome(o.u, FALSE) : o \in begun})

SuspendCommunication(u) == [u EXCEPT !.host = HostSuspend(u.host)]

\* The bus is ready, pending or failed.
ResumeCommunication(u) ==
    {[u |-> [u EXCEPT !.host = o.h],
      bus |-> CASE o.ret = "Success" -> "Ready"
                [] o.ret # "Success" /\ HostPending(o.h) -> "Pending"
                [] OTHER -> "Failed"] : o \in HostResume(u.host)}

\* handlePowerChange(false): amplifiers that run are suspended, others that
\* are not faulted released, and the bus is put to sleep.
PowerDown(u) ==
    {SuspendCommunication(d)
     : d \in CASE u.manager \in {"Ready", "Playing"} ->
                     {[u EXCEPT !.manager = m] : m \in {"Suspended", "Faulted"}}
               [] u.manager \in {"Unbound", "Faulted"} -> {u}
               [] OTHER -> {ReleaseAmplifierDrivers(u)}}

\* A mutant: the amplifiers are resumed whatever became of the bus.
PowerUpRegardless(u) ==
    UNION {{[u |-> [Touch(w.u) EXCEPT !.manager = m], bus |-> w.bus]
            : m \in {"Ready", "Faulted"}} : w \in ResumeCommunication(u)}

\* handlePowerChange(true), where no start is pending: the bus first, then
\* the amplifiers; a pending bus leaves them for a later poll, a failed one
\* leaves them asleep.
PowerUp(u) ==
    UNION {IF w.bus # "Ready" THEN {w}
           ELSE {[u |-> d, bus |-> "Ready"]
                 : d \in IF u.manager # "Suspended" THEN BringUpAmplifiers(w.u)
                         ELSE {[Touch(w.u) EXCEPT !.manager = m]
                               : m \in {"Ready", "Waiting", "Faulted"}}}
           : w \in ResumeCommunication(u)}

\* This handler's view of the devices: it has not touched them yet.
Untouched == [unit EXCEPT !.touched = "No"]

SetTimer(armed) == timer' = armed /\ due' = FALSE

\* The service is gone: its flags are those of a new instance.
Ended ==
    /\ phase' = "Stopped" /\ power' = TRUE /\ startupPending' = FALSE
    /\ startupFailed' = FALSE /\ resumePending' = FALSE
    /\ pmInitialized' = FALSE /\ identityPending' = FALSE
    /\ identityWaited' = 0 /\ level' = 1
    /\ SetTimer(FALSE)

\* A start that came to its end, with the identity known or waited for.
Settled(u) ==
    /\ startupPending' = FALSE /\ pmInitialized' = TRUE
    /\ identityPending' = ~u.known /\ identityWaited' = 0
    /\ SetTimer(TRUE)

\* start: what fails stops the service again; what pends is polled.
Start ==
    /\ phase # "Running"
    /\ \E r \in ResolvePlatformProfile([Untouched EXCEPT
                   !.detected = FALSE]) :
       \E o \in SetupCommunication(r) :
          \/ /\ o.ok /\ HostPending(o.u.host)
             /\ unit' = o.u /\ phase' = "Running"
             /\ startupPending' = TRUE /\ SetTimer(TRUE)
             /\ UNCHANGED <<power, startupFailed, resumePending, pmInitialized,
                            identityPending, identityWaited, system>>
          \/ /\ o.ok /\ ~HostPending(o.u.host)
             /\ \E f \in FinishStartup(o.u) :
                   \/ /\ f.ok /\ unit' = f.u /\ phase' = "Running"
                      /\ Settled(f.u)
                      /\ UNCHANGED <<power, startupFailed, resumePending, system>>
                   \/ /\ ~f.ok
                      /\ \E d \in PowerDown(f.u) :
                            unit' = TeardownCommunication(d)
                      /\ Ended /\ UNCHANGED <<ackOwed, ackWaited>>
          \/ /\ ~o.ok
             /\ \E d \in PowerDown(o.u) : unit' = TeardownCommunication(d)
             /\ Ended /\ UNCHANGED <<ackOwed, ackWaited>>

\* A mutant: a wake that is pending is left without its answer.
StopSilently ==
    /\ phase = "Running"
    /\ \E d \in IF power \/ resumePending THEN PowerDown(Untouched)
                ELSE {Untouched} : unit' = TeardownCommunication(d)
    /\ UNCHANGED <<ackOwed, ackWaited>>
    /\ Ended

\* stop, under the gate: the devices are put to sleep unless they are, a
\* pending wake is acknowledged, and all is torn down.
Stop ==
    /\ phase = "Running"
    /\ \E d \in IF power \/ resumePending THEN PowerDown(Untouched)
                ELSE {Untouched} : unit' = TeardownCommunication(d)
    /\ ackOwed' = (ackOwed /\ ~resumePending)
    /\ ackWaited' = 0
    /\ Ended

-----------------------------------------------------------------------------
(* The timer *)

TimerFires ==
    /\ phase = "Running" /\ timer
    /\ ~startupFailed /\ (power \/ resumePending)

\* A timer nobody wants to hear any more.
TimerIgnored ==
    /\ phase = "Running" /\ timer
    /\ startupFailed \/ (~power /\ ~resumePending)
    /\ SetTimer(FALSE)
    /\ UNCHANGED <<unit, control, system>>

StartupFails(u) ==
    /\ unit' = TeardownCommunication(u)
    /\ startupPending' = FALSE /\ startupFailed' = TRUE
    /\ SetTimer(FALSE)
    /\ UNCHANGED <<pmInitialized, identityPending, identityWaited>>

\* continueStartup: once nothing pends, the communication is set up anew and
\* the start finished; a failure is final and everything is torn down.
ContinueStartup ==
    /\ TimerFires /\ startupPending
    /\ UNCHANGED <<phase, power, resumePending, system>>
    /\ \E b \in HostContinueBind(unit.host, interpreter) :
       LET bound == [Untouched EXCEPT !.host = b.h]
       IN  \/ /\ HostPending(b.h)
              /\ unit' = bound /\ SetTimer(TRUE)
              /\ UNCHANGED <<startupPending, startupFailed, pmInitialized,
                             identityPending, identityWaited>>
           \/ ~HostPending(b.h) /\ b.ret # "Success" /\ StartupFails(bound)
           \/ /\ ~HostPending(b.h) /\ b.ret = "Success"
              /\ \E o \in SetupCommunication(bound) :
                 \/ ~o.ok /\ StartupFails(o.u)
                 \/ /\ o.ok
                    /\ \E f \in FinishStartup(o.u) :
                          \/ ~f.ok /\ StartupFails(f.u)
                          \/ /\ f.ok /\ unit' = f.u /\ Settled(f.u)
                             /\ UNCHANGED startupFailed

\* The poll of a wake whose bus was pending: the answer the power manager
\* waits for is given when the bus has come or failed.
ContinueResume ==
    /\ TimerFires /\ ~startupPending /\ resumePending
    /\ \E w \in PowerUp(Untouched) :
          /\ unit' = w.u
          /\ resumePending' = (w.bus = "Pending")
          /\ power' = (w.bus = "Ready")
          /\ ackOwed' = (ackOwed /\ w.bus = "Pending")
          /\ ackWaited' = IF w.bus = "Pending" THEN ackWaited ELSE 0
          /\ SetTimer(w.bus # "Failed")
    /\ UNCHANGED <<phase, startupPending, startupFailed, pmInitialized,
                   identityPending, identityWaited, level>>

\* retryPlatformIdentity: with the identity known the bus is bound afresh and
\* may pend again, so that the start is deferred a second time.
RetryPlatformIdentity ==
    /\ TimerFires /\ ~startupPending /\ ~resumePending /\ identityPending
    /\ UNCHANGED <<phase, power, startupFailed, resumePending, pmInitialized,
                   identityWaited, system>>
    /\ \E r \in ResolvePlatformProfile(Untouched) :
       \/ /\ ~r.known /\ unit' = r
          /\ identityPending' = (identityWaited < IdentityDeadline)
          /\ SetTimer(identityPending') /\ UNCHANGED startupPending
       \/ /\ r.known /\ identityPending' = FALSE
          /\ \E o \in SetupCommunication(IF r.authorized
                            THEN TeardownCommunication(r) ELSE r) :
             LET pending == o.ok /\ o.u.authorized /\ HostPending(o.u.host)
             IN  /\ startupPending' = pending
                 /\ \/ /\ ~o.ok \/ ~o.u.authorized \/ pending
                       /\ unit' = o.u /\ SetTimer(pending)
                    \/ /\ o.ok /\ o.u.authorized /\ ~pending
                       /\ \E p \in PerformPlatformHardwareReset(o.u) :
                          \/ /\ ~p.ok /\ Bound(p.u.host)
                             /\ unit' = p.u /\ SetTimer(FALSE)
                          \/ /\ p.ok \/ ~Bound(p.u.host)
                             /\ unit' \in DetectAndBringUp(p.u)
                             /\ SetTimer(TRUE)

\* The monitor of amplifiers that run, or wait for a resource; the routing
\* decides whether they play and when it polls again (AudioRouting).
Monitor ==
    /\ TimerFires /\ ~startupPending /\ ~resumePending /\ ~identityPending
    /\ \/ /\ unit.manager \in {"Ready", "Playing", "Waiting"}
          /\ timer' \in BOOLEAN /\ due' = FALSE
          /\ \E m \in {"Ready", "Faulted"} \cup
                        (IF unit.manager = "Waiting" THEN {"Waiting"}
                         ELSE {"Playing"}) :
                /\ unit' = [Touch(unit) EXCEPT !.manager = m]
                /\ m = "Waiting" => timer'
       \/ /\ unit.manager \in {"Unbound", "Suspended", "Faulted"}
          /\ unit' = Untouched /\ SetTimer(FALSE)
    /\ UNCHANGED <<control, system>>

-----------------------------------------------------------------------------
(* The system's power changes *)

\* The power manager asks for the other state, or, as after the service has
\* joined it, for the one the service is in.
SystemAsks(to) ==
    /\ phase = "Running" /\ pmInitialized /\ ~ackOwed
    /\ level # to \/ power = (to = 1)
    /\ level' = to

\* setPowerState(0).  A start that is pending stays pending while asleep.
Sleep ==
    /\ SystemAsks(0)
    /\ IF power \/ resumePending
       THEN /\ unit' \in PowerDown(Untouched)
            /\ power' = FALSE /\ resumePending' = FALSE
            /\ SetTimer(FALSE)
       ELSE UNCHANGED <<unit, power, resumePending, clock>>
    /\ UNCHANGED <<phase, startupPending, startupFailed, pmInitialized,
                   identityPending, identityWaited, ackOwed, ackWaited>>

\* A mutant: a pending start is not polled again.
WakeUnpolled ==
    /\ SystemAsks(1) /\ ~power /\ startupPending
    /\ power' = TRUE
    /\ UNCHANGED <<unit, resumePending, ackOwed, clock, phase, startupPending,
                   startupFailed, pmInitialized, identityPending,
                   identityWaited, ackWaited>>

\* setPowerState(1).  A pending start is only polled again; a bus that pends
\* makes the answer wait for the timer.
Wake ==
    /\ SystemAsks(1)
    /\ UNCHANGED <<phase, startupPending, startupFailed, pmInitialized,
                   identityPending, identityWaited, ackWaited>>
    /\ \/ power /\ UNCHANGED <<unit, power, resumePending, clock, ackOwed>>
       \/ /\ ~power /\ startupPending
          /\ power' = TRUE /\ SetTimer(TRUE)
          /\ UNCHANGED <<unit, resumePending, ackOwed>>
       \/ /\ ~power /\ ~startupPending
          /\ \E w \in PowerUp(Untouched) :
                /\ unit' = w.u
                /\ power' = (w.bus = "Ready")
                /\ resumePending' = (w.bus = "Pending")
                /\ ackOwed' = (w.bus = "Pending")
                /\ IF w.bus = "Failed" THEN UNCHANGED clock ELSE SetTimer(TRUE)

\* The system does not wait for an answer longer than it was told to.
AckExpires ==
    /\ ackOwed /\ ackWaited = AckDeadline
    /\ ackOwed' = FALSE /\ ackWaited' = 0
    /\ UNCHANGED <<unit, control, clock, level>>

-----------------------------------------------------------------------------
(* The world *)

ServiceStep ==
    \/ Start \/ Stop \/ TimerIgnored \/ ContinueStartup \/ ContinueResume
    \/ RetryPlatformIdentity \/ Monitor \/ Sleep \/ Wake \/ AckExpires

\* The power manager and the firmware change one controller by themselves.
PowerManager ==
    \E s \in Slots :
       LET c == unit.host.slot[s]
       IN  \E d \in (IF CanGrant(c) THEN Granted(c) ELSE {})
                     \cup (IF CanDrop(c) THEN {Dropped(c)} ELSE {})
                     \cup (IF bus = "AMD" /\ ~c.granted
                           THEN {[c EXCEPT !.d0 = ~@]} ELSE {}) :
             unit' = [Untouched EXCEPT !.host.slot[s] = d]

PublishIdentity == ~identityKnown /\ identityKnown' = TRUE

\* Lilu's callback resolves the interpreter's symbols and then publishes it.
Interpreter ==
    /\ bus = "Intel"
    /\ interpreter' \in CASE interpreter = "CallbackNotReached" ->
                                  {"Ready", "Failed"}
                           [] interpreter = "Ready" -> {"Published"}
                           [] OTHER -> {}

\* The clock waits for a timer that is due: it polls far more often.
Tick ==
    /\ ~due /\ due' = timer
    /\ unit' = [unit EXCEPT !.host.slot =
                    [s \in Slots |-> TickController(unit.host.slot[s])]]
    /\ identityWaited' = IF identityPending /\ identityWaited < IdentityDeadline
                         THEN identityWaited + 1 ELSE identityWaited
    /\ ackWaited' = IF ackOwed /\ ackWaited < AckDeadline THEN ackWaited + 1
                    ELSE ackWaited
    /\ UNCHANGED <<phase, power, startupPending, startupFailed, resumePending,
                   pmInitialized, identityPending, timer, level, ackOwed>>

Init ==
    /\ bus \in Buses
    /\ \E d0, mem \in BOOLEAN, reset \in {"None", "Idle"} :
          /\ bus # "Intel" => mem
          /\ bus = "I2C" => d0 /\ reset = "None"
          /\ unit = [host |-> [kind |-> IF bus = "AMD" THEN "AMD" ELSE "Intel",
                            slot |-> [s \in Slots |-> Unopened(d0, mem)],
                            resumeSlot |-> 1, authorized |-> FALSE,
                            resetLine |-> reset],
                  known |-> FALSE, authorized |-> FALSE, detected |-> FALSE,
                  manager |-> "Unbound", touched |-> "No"]
    /\ phase = "Idle" /\ power = TRUE /\ startupPending = FALSE
    /\ startupFailed = FALSE /\ resumePending = FALSE /\ pmInitialized = FALSE
    /\ identityPending = FALSE /\ identityWaited = 0
    /\ timer = FALSE /\ due = FALSE
    /\ level = 1 /\ ackOwed = FALSE /\ ackWaited = 0
    /\ identityKnown = FALSE
    /\ interpreter = IF bus = "Intel" THEN "CallbackNotReached" ELSE "Published"
    /\ found = [s \in Slots |-> FALSE] /\ sleptPending = FALSE

\* Every step also keeps the two histories.
Recorded ==
    /\ found' = [s \in Slots |->
                    LET old == unit.host.slot[s]
                    IN  IF ~old.memChanged THEN old.mem ELSE found[s]]
    /\ sleptPending' = IF phase' # "Running" THEN FALSE
                       ELSE sleptPending \/ (startupPending /\ ~power')

Next ==
    /\ \/ ServiceStep /\ UNCHANGED world
       \/ PowerManager /\ UNCHANGED <<control, clock, system, world>>
       \/ Tick /\ UNCHANGED world
       \/ /\ PublishIdentity
          /\ UNCHANGED <<unit, control, clock, system, bus, interpreter>>
       \/ /\ Interpreter
          /\ UNCHANGED <<unit, control, clock, system, bus, identityKnown>>
    /\ Recorded

\* The clock goes on, and an armed timer that is due is run: nothing else
\* holds the workloop for good.
Fairness == WF_vars(Tick /\ UNCHANGED world /\ Recorded) /\ []<>~due

Spec == Init /\ [][Next]_vars
LiveSpec == Spec /\ Fairness

-----------------------------------------------------------------------------
(* Properties *)

Running == phase = "Running"

\* The host has an owner for every controller or for none: a failing bind,
\* deferred bind or shutdown cancels its peers (NativeSPIHost.hpp:39-44), and
\* a controller without an owner holds no client, no vote and no request.
HostAllOrNothing ==
    \A s, t \in Slots :
        LET c == unit.host.slot[s]
        IN  /\ c.phase = "None" => unit.host.slot[t].phase = "None"
            /\ c.phase = "None" => c.client = "None" /\ ~c.vote /\ ~c.pending

\* A service that is asleep, or whose wake has failed, holds no power: whatever was acquired or only
\* asked for, also by the slots a failed wake had already resumed, is given
\* back and no engine is left open (NativeSPIHost.hpp:296-316).
AsleepLetsGo ==
    Running /\ ~power /\ ~resumePending =>
        \A s \in Slots : LET c == unit.host.slot[s]
                         IN  ~c.vote /\ ~c.pending /\ ~c.online

\* Amplifiers that run, or wait for their firmware, have power and a bus that
\* can transfer, and were let out of reset, whatever slept, failed or was
\* retried: "amplifiers remain suspended" after a failed wake
\* (CirrusAudioFixup.hpp:188).
RunningNeedsBus ==
    unit.manager \in {"Ready", "Playing", "Waiting"} =>
        power /\ Live(unit) /\ unit.host.resetLine # "Held"

\* What pends is polled: a deferred start, an identity or a bring-up that
\* waits keeps the timer armed while there is power, through every sleep and
\* wake in between (CirrusAudioFixupPower.cpp:86-91).
PendingIsPolled ==
    /\ /\ Running /\ power /\ ~startupFailed
       /\ startupPending \/ identityPending \/ unit.manager = "Waiting"
       => timer
    /\ resumePending => timer

\* The answer the power manager waits for is never lost: while it is owed,
\* the wake is pending and polled, and a stop gives it.
AnswerIsComing == ackOwed => Running /\ resumePending /\ timer

\* Nothing is bound, reset or brought up before the board is identified, not
\* even by a wake in the meantime: "no reset or amplifier initialization".
IdentityFirst ==
    identityPending => unit.manager = "Unbound" /\ ~unit.detected

\* The amplifiers are reset, probed and brought up on a live bus only, but for
\* a start that was pending while the system slept.
ProbesMeetLiveBus == unit.touched = "Dead" => sleptPending

\* Shutting a controller down in D0 puts its memory enable back to what it
\* was before this binding, through every sleep, wake and pending request.
MemoryRestored ==
    [][\A s \in Slots :
          LET old == unit.host.slot[s]
              new == unit.host.slot[s]'
          IN  old.memChanged /\ old.d0 /\ new.d0 /\ new.phase = "None"
                => new.mem = found[s]]_vars

\* A deferred start comes to an end while the system stays awake: power and
\* interpreter have deadlines and the timer polls for them.
StartupSettles == startupPending ~> ~startupPending \/ ~power

\* A wake whose bus pends is answered, though the grant it waits for comes
\* from callbacks and never from a wait under the gate.
WakeAnswered == ackOwed ~> ~ackOwed
=============================================================================
