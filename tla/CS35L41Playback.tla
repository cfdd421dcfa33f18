-------------------------- MODULE CS35L41Playback --------------------------
(***************************************************************************)
(* The playback of one CS35L41: what monitorCS35L41(), the runtime         *)
(* shutdown, the validation, the commit and the interrupt do to one        *)
(* amplifier.  The module is pure: an operation is the set of amplifiers   *)
(* it can leave, and h = [well, clock, trip] is the chip it works on: its  *)
(* transfers work, its PLL is locked, its protection has tripped.          *)
(*                                                                         *)
(*   active, faulted      playbackActive, playbackFaulted                  *)
(*   phase, fresh, waited playbackTransition: "Power" stands for Resume    *)
(*                        and Power, "Pll" for Output and Pll; whether it  *)
(*                        is for the latest route and stream; monitor runs *)
(*                        spent waiting for a deadline of the phase        *)
(*   shutdown, clean      shutdownTransition: "Finish" stands for Pause    *)
(*                        and Finish, "Done" for every phase that is not   *)
(*                        pending; its ok flag                             *)
(*   cleanups, recoveries cleanupAttempts (which is only compared with     *)
(*                        three, and counted up to it), pllRecoveryAttempts *)
(*   pending, clockWait   pllRecoveryPending, clockWaitAfterCleanup        *)
(*   latest               the class of diagnostic.latestFailure            *)
(*   audible, hurt        history: the output is unmuted, or not known to  *)
(*                        be muted; a failure other than the loss of the   *)
(*                        clock came since the fault was latched           *)
(*                                                                         *)
(* A chip whose transfers work answers at the next poll; one whose         *)
(* transfers do not may still serve any of them, answer late or never.     *)
(* A deadline may also have passed at the first poll: the monitor is late. *)
(***************************************************************************)
EXTENDS Naturals

CONSTANT Patience \* bound: monitor runs a deadline can last

ASSUME PatienceAssumption == Patience \in Nat \ {0}

kAttempts == 3

Failure == {"None", "Pll", "PowerUp", "Other"}

Playback ==
  [active : BOOLEAN, faulted : BOOLEAN,
   phase : {"Idle", "Power", "Pup", "Pll", "Prepared", "Active"},
   fresh : BOOLEAN, waited : 0..Patience,
   shutdown : {"Done", "Pdn", "Finish"}, clean : BOOLEAN,
   cleanups : 0..kAttempts, recoveries : 0..kAttempts,
   pending : BOOLEAN, clockWait : BOOLEAN, latest : Failure,
   audible : BOOLEAN, hurt : BOOLEAN]

Chip == [well : BOOLEAN, clock : BOOLEAN, trip : BOOLEAN]

NewPlayback ==
  [active |-> FALSE, faulted |-> FALSE, phase |-> "Idle", fresh |-> FALSE, waited |-> 0,
   shutdown |-> "Done", clean |-> TRUE, cleanups |-> 0, recoveries |-> 0,
   pending |-> FALSE, clockWait |-> FALSE, latest |-> "None", audible |-> FALSE, hurt |-> FALSE]

Preparing(a) == a.phase \notin {"Idle", "Active"}
Cleaning(a) == a.shutdown # "Done"

\* What the driver tells the monitor.
PlaybackPending(a) == Preparing(a) \/ Cleaning(a)
PlaybackPrepared(a) == ~a.faulted /\ a.phase = "Prepared"

\* Mutation: only a recovery that is exhausted is a fault of the group.
PlaybackFaultedWhenExhausted(a) == a.faulted /\ a.pending /\ a.recoveries >= kAttempts

PlaybackFaulted(a) == a.faulted /\ (~a.pending \/ a.recoveries >= kAttempts)

\* A failure that only a new driver object forgets.
Failed(a) == [a EXCEPT !.faulted = TRUE, !.latest = "Other", !.hurt = TRUE]

\* checkProtectionStatus() may succeed, and may fail.
ProtectionOk(h) == ~h.trip
ProtectionBad(h) == h.trip \/ ~h.well

\* The chip has not answered, and its deadline is not over.
Wait(a) == IF a.waited < Patience THEN {[a EXCEPT !.waited = @ + 1]} ELSE {}

-----------------------------------------------------------------------------
(* stopRuntimePlayback(). *)

\* Mute, and ask for the power down; nothing may go on to a commit.
BeginStop(a, h) ==
  LET begun == [a EXCEPT !.phase = "Idle", !.fresh = FALSE, !.waited = 0, !.active = TRUE,
                         !.shutdown = "Pdn", !.clean = TRUE, !.audible = FALSE,
                         !.cleanups = IF @ < kAttempts THEN @ + 1 ELSE @]
  IN {begun} \union IF h.well THEN {}
                    ELSE {[begun EXCEPT !.clean = FALSE, !.audible = still] :
                            still \in {FALSE, a.audible}}

\* Mutation: the count of recoveries is decremented at zero as well.
SafeBelowZero(a) ==
  LET wait == a.clockWait /\ a.latest = "PowerUp"
  IN [a EXCEPT !.shutdown = "Done", !.active = FALSE, !.audible = FALSE, !.clockWait = FALSE,
               !.recoveries = IF wait THEN @ - 1 ELSE @,
               !.pending = @ \/ wait,
               !.latest = IF wait THEN "Pll" ELSE @,
               !.cleanups = IF a.faulted THEN @ ELSE 0]

\* Mutation: a power-up that timed out is a loss of the clock, whatever came with it.
SafeForgiving(a) ==
  LET wait == a.latest = "PowerUp"
  IN [a EXCEPT !.shutdown = "Done", !.active = FALSE, !.audible = FALSE, !.clockWait = FALSE,
               !.recoveries = IF wait /\ @ > 0 THEN @ - 1 ELSE @,
               !.pending = @ \/ wait,
               !.latest = IF wait THEN "Pll" ELSE @,
               !.cleanups = IF a.faulted THEN @ ELSE 0]

\* The mute is verified.  A power-up that timed out without a clock becomes a
\* loss of the PLL, and does not count as a recovery.
Safe(a) ==
  LET wait == a.clockWait /\ a.latest = "PowerUp"
  IN [a EXCEPT !.shutdown = "Done", !.active = FALSE, !.audible = FALSE, !.clockWait = FALSE,
               !.recoveries = IF wait /\ @ > 0 THEN @ - 1 ELSE @,
               !.pending = @ \/ wait,
               !.latest = IF wait THEN "Pll" ELSE @,
               !.cleanups = IF a.faulted THEN @ ELSE 0]

Unsafe(a) == Failed([a EXCEPT !.shutdown = "Done", !.active = TRUE, !.clockWait = FALSE])

ContinueStop(a, h) ==
  LET polled == [a EXCEPT !.waited = 0]
  IN IF a.shutdown = "Pdn"
     THEN {[polled EXCEPT !.shutdown = "Finish"]}
          \union IF h.well THEN {} ELSE Wait(a) \union {[polled EXCEPT !.shutdown = "Finish", !.clean = FALSE]}
     ELSE {IF a.clean THEN Safe(polled) ELSE Unsafe(polled)}
          \union IF h.well THEN {} ELSE Wait(a) \union {Unsafe(polled)}

Stop(a, h) == IF Cleaning(a) THEN ContinueStop(a, h) ELSE BeginStop(a, h)

\* stopPlayback() and safeShutdown(), which wait for the chip.
StopNow(a, ok) ==
  LET stopped == [a EXCEPT !.phase = "Idle", !.fresh = FALSE, !.waited = 0,
                           !.cleanups = IF @ < kAttempts THEN @ + 1 ELSE @]
  IN IF ok THEN Safe([stopped EXCEPT !.clockWait = FALSE]) ELSE Unsafe(stopped)

-----------------------------------------------------------------------------
(* Playback::advance() and the rest of the preparation. *)

To(a, p) == [a EXCEPT !.phase = p, !.waited = 0]

\* The next phase, or the same one while it waits.
Advance(a, h) ==
  CASE a.phase = "Idle" -> {To([a EXCEPT !.fresh = TRUE], "Power")}
    [] a.phase = "Power" -> {To(a, "Pup")} \union IF h.well THEN {} ELSE Wait(a)
    [] a.phase = "Pup" -> {To(a, "Pll")} \union IF h.well /\ h.clock THEN {} ELSE Wait(a)
    [] a.phase = "Pll" -> (IF h.clock THEN {To(a, "Prepared")} ELSE {})
                          \union IF h.well /\ h.clock THEN {} ELSE Wait(a)
    [] OTHER -> Wait(a)

\* How the preparation can fail at its present phase.
AdvanceFailures(a, h) ==
  (IF h.well THEN {} ELSE {"Other"})
  \union (IF a.phase = "Pup" /\ ~(h.well /\ h.clock) THEN {"PowerUp"} ELSE {})
  \union (IF a.phase = "Pll" /\ ~h.clock THEN {"Pll"} ELSE {})
  \union IF a.phase = "Prepared" THEN {"Other"} ELSE {}

\* A power-up that timed out waits for the clock if that is what is missing.
ClockWaits(a, f, h) ==
  IF f = "PowerUp" /\ a.recoveries < kAttempts /\ ~h.clock
  THEN IF h.well THEN {TRUE} ELSE BOOLEAN
  ELSE {FALSE}

PrepareFailed(a, h) ==
  UNION {UNION {Stop([a EXCEPT !.faulted = TRUE, !.latest = f, !.pending = (f = "Pll"),
                               !.clockWait = wait, !.hurt = @ \/ (f # "Pll" /\ ~wait)], h) :
                  wait \in ClockWaits(a, f, h)} :
           f \in AdvanceFailures(a, h)}

Prepare(a, h) == Advance(a, h) \union PrepareFailed(a, h)

-----------------------------------------------------------------------------
(* monitorCS35L41(), in context c = [hasAudio, known, permits, stream]. *)

\* The health of an amplifier that plays.
Listen(a, h) ==
  IF h.clock THEN {a}
  ELSE UNION {Stop([a EXCEPT !.faulted = TRUE, !.latest = "Pll", !.pending = sound,
                             !.hurt = @ \/ ~sound], h) :
                sound \in IF h.well THEN {TRUE} ELSE BOOLEAN}

Healthy(a, c, h) ==
  IF ~a.active /\ ~c.stream THEN {a}
  ELSE (IF ProtectionBad(h) THEN Stop(Failed(a), h) ELSE {})
       \union CASE ~ProtectionOk(h) -> {}
                [] ProtectionOk(h) /\ ~c.hasAudio -> {a}
                [] OTHER -> IF a.active THEN Listen(a, h) ELSE Prepare(a, h)

\* Only the loss of the clock is forgiven, when the route is dropped ...
RouteDenied(a, h) ==
  CASE a.active /\ a.cleanups < kAttempts -> Stop(a, h)
    [] ~a.active /\ a.pending /\ a.latest = "Pll" ->
         {[a EXCEPT !.faulted = FALSE, !.pending = FALSE, !.recoveries = 0]}
    [] OTHER -> {a}

CanRecover(a, c) ==
  ~a.active /\ c.hasAudio /\ a.pending /\ a.recoveries < kAttempts /\ a.latest = "Pll"

\* ... or by a recovery.
Faulted(a, c, h) ==
  CASE a.active /\ a.cleanups < kAttempts -> Stop(a, h)
    [] CanRecover(a, c) ->
         (IF ProtectionBad(h) THEN {Failed(a)} ELSE {})
         \union IF ProtectionOk(h)
                THEN Healthy([a EXCEPT !.faulted = FALSE, !.pending = FALSE, !.cleanups = 0,
                                       !.recoveries = @ + 1], c, h)
                ELSE {}
    [] OTHER -> {a}

\* Mutation: an active amplifier does not look at the route generation.
OutdatedUnlessActive(a, c) == (a.active /\ ~a.faulted /\ ~c.hasAudio) \/ (Preparing(a) /\ ~(c.hasAudio /\ a.fresh))

\* Playing or preparing for a stream or a route that is no longer there.
Outdated(a, c) == ((a.active /\ ~a.faulted) \/ Preparing(a)) /\ ~(c.hasAudio /\ a.fresh)

Tick(a, c, h) ==
  CASE Cleaning(a) \/ Outdated(a, c) -> Stop(a, h)
    [] ~(Cleaning(a) \/ Outdated(a, c)) /\ c.known /\ ~c.permits -> RouteDenied(a, h)
    [] OTHER -> IF a.faulted THEN Faulted(a, c, h) ELSE Healthy(a, c, h)

-----------------------------------------------------------------------------
(* The calls besides the tick. *)

\* validateCS35L41Playback(): the amplifiers left by a validation that failed.
\* It can succeed if IsValid.
IsValid(a, h) == a.fresh /\ ProtectionOk(h) /\ h.clock

Invalidated(a, h) ==
  (IF ~a.fresh THEN {a} ELSE {})
  \union (IF a.fresh /\ ProtectionBad(h) THEN {Failed(a)} ELSE {})
  \union IF a.fresh /\ ProtectionOk(h) /\ ~h.clock
         THEN {[a EXCEPT !.faulted = TRUE, !.pending = TRUE, !.latest = "Pll"]} ELSE {}

\* Playback::commit(): it reads the chip again, and unmutes.
Committed(a) ==
  [a EXCEPT !.phase = "Active", !.waited = 0, !.active = TRUE, !.audible = TRUE,
            !.recoveries = 0, !.pending = FALSE]

CanCommit(a, h) == a.phase = "Prepared" /\ ~h.trip /\ h.clock
MayFailCommit(a, h) == ~(a.phase = "Prepared" /\ h.well /\ ~h.trip /\ h.clock)

\* It fails: with a bus that fails this may be after the unmute was written.
CommitFailed(a, h) ==
  {[Failed(a) EXCEPT !.audible = still] : still \in IF h.well THEN {a.audible} ELSE BOOLEAN}

\* cancelPlayback()
CancelPlayback(a, h) ==
  IF ~Cleaning(a) /\ a.cleanups < kAttempts /\ (a.active \/ Preparing(a)) THEN Stop(a, h) ELSE {a}

=============================================================================
