---------------------------- MODULE PlaybackPair ----------------------------
(***************************************************************************)
(* The CS35L41s of a board as one run of runBackgroundMonitor() after      *)
(* another drives them: all are prepared muted, and only when all are      *)
(* ready each is validated and unmuted.  The route, the HDA stream and the *)
(* chips change between runs, and between the steps of a validation and a  *)
(* commit, which sleep; one sweep of the ticks is one step.                *)
(*                                                                         *)
(*   amp               the amplifiers                                      *)
(*   route, stream     what CoreAudio and the HDA controller do            *)
(*   well, clock, trip the chips                                           *)
(*   timer, event, irq mProbeTimer is armed, the event source has a change *)
(*                     to report, the interrupt is enabled                 *)
(*   group             "Faulted" until the amplifiers are bound anew,      *)
(*                     which is not in this module                         *)
(*   pc, next, run     the step of the run, its amplifier, and the locals  *)
(*                     of the run: the route it has read, and whether the  *)
(*                     generation is still the one it has read             *)
(***************************************************************************)
EXTENDS CS35L41Playback

CONSTANTS N,          \* amplifiers
          Routes,     \* outputs that are possible
          Interrupts, \* the board has an interrupt of the amplifiers
          MaxChanges, \* bound: changes of the route and of the stream
          MaxUpsets,  \* bound: failures of an amplifier's bus
          MaxTrips,   \* bound: protections that trip
          MaxLosses   \* bound: losses of a PLL's lock

ASSUME PairAssumption ==
  /\ N \in Nat \ {0} /\ Interrupts \in BOOLEAN
  /\ Routes \subseteq {"Unknown", "Speakers", "Other"}
  /\ MaxChanges \in Nat /\ MaxUpsets \in Nat /\ MaxTrips \in Nat /\ MaxLosses \in Nat

Amp == 1..N

VARIABLES amp, route, stream, well, clock, trip, changes, upsets, trips, losses,
          timer, event, irq, group, pc, next, run

world == <<route, stream, well, clock, trip, changes, upsets, trips, losses>>
vars == <<amp, world, timer, event, irq, group, pc, next, run>>

TypeOK ==
  /\ amp \in [Amp -> Playback]
  /\ route \in Routes /\ stream \in {"None", "Good"}
  /\ well \in [Amp -> BOOLEAN] /\ clock \in [Amp -> BOOLEAN] /\ trip \in [Amp -> BOOLEAN]
  /\ changes \in 0..MaxChanges /\ upsets \in 0..MaxUpsets
  /\ trips \in 0..MaxTrips /\ losses \in 0..MaxLosses
  /\ timer \in BOOLEAN /\ event \in BOOLEAN /\ irq \in BOOLEAN
  /\ group \in {"Up", "Faulted"}
  /\ pc \in {"Idle", "Validate", "Commit", "Revalidate"} /\ next \in Amp
  /\ run \in [known : BOOLEAN, permits : BOOLEAN, same : BOOLEAN]

Init ==
  /\ amp = [x \in Amp |-> NewPlayback]
  /\ route \in Routes /\ stream \in {"None", "Good"}
  /\ well = [x \in Amp |-> TRUE] /\ clock = [x \in Amp |-> TRUE] /\ trip = [x \in Amp |-> FALSE]
  /\ changes = 0 /\ upsets = 0 /\ trips = 0 /\ losses = 0
  /\ timer = TRUE /\ event = FALSE /\ irq = Interrupts
  /\ group = "Up" /\ pc = "Idle" /\ next = 1
  /\ run = [known |-> FALSE, permits |-> FALSE, same |-> TRUE]

\* The functions that pick a member of each set of S.  Binding it to s has
\* TLC evaluate it once.
Choices(S) ==
  UNION {{f \in [Amp -> UNION {s[x] : x \in Amp}] : \A x \in Amp : f[x] \in s[x]} : s \in {S}}

ChipOf(x) == [well |-> well[x], clock |-> clock[x], trip |-> trip[x]]

-----------------------------------------------------------------------------
(* The world. *)

\* What is prepared or played is for a route or a stream that is gone.
Stale(as) == [x \in Amp |-> [as[x] EXCEPT !.fresh = FALSE]]

\* An IOAudio change, which raises the route generation and signals.
ChangeRoute ==
  /\ changes < MaxChanges
  /\ changes' = changes + 1
  /\ route' \in Routes \ {route, "Unknown"}
  /\ amp' = Stale(amp) /\ event' = TRUE /\ run' = [run EXCEPT !.same = FALSE]
  /\ UNCHANGED <<stream, well, clock, trip, upsets, trips, losses, timer, irq, group, pc, next>>

\* The stream stops, or starts with the tag and format it had or with others.
ChangeStream ==
  /\ changes < MaxChanges
  /\ changes' = changes + 1
  /\ stream' \in {"None", "Good"} \ {stream}
  /\ amp' \in IF stream' = "Good" THEN {amp, Stale(amp)} ELSE {amp}
  /\ UNCHANGED <<route, well, clock, trip, upsets, trips, losses, timer, event, irq, group, pc, next, run>>

BreakBus(x) ==
  /\ upsets < MaxUpsets /\ well[x]
  /\ upsets' = upsets + 1
  /\ well' = [well EXCEPT ![x] = FALSE]
  /\ UNCHANGED <<amp, route, stream, clock, trip, changes, trips, losses>>

Trip(x) ==
  /\ trips < MaxTrips /\ ~trip[x]
  /\ trips' = trips + 1
  /\ trip' = [trip EXCEPT ![x] = TRUE]
  /\ UNCHANGED <<amp, route, stream, well, clock, changes, upsets, losses>>

LoseClock(x) ==
  /\ losses < MaxLosses /\ clock[x]
  /\ losses' = losses + 1
  /\ clock' = [clock EXCEPT ![x] = FALSE]
  /\ UNCHANGED <<amp, route, stream, well, trip, changes, upsets, trips>>

\* The bus works again, or the PLL locks again.
Heal(x) ==
  /\ \/ ~well[x] /\ well' = [well EXCEPT ![x] = TRUE] /\ UNCHANGED clock
     \/ ~clock[x] /\ clock' = [clock EXCEPT ![x] = TRUE] /\ UNCHANGED well
  /\ UNCHANGED <<amp, route, stream, trip, changes, upsets, trips, losses>>

\* What happens to the chips, between and during the runs.
ChipChange ==
  /\ \E x \in Amp : BreakBus(x) \/ Trip(x) \/ LoseClock(x) \/ Heal(x)
  /\ UNCHANGED <<timer, event, irq, group, pc, next, run>>

-----------------------------------------------------------------------------
(* runBackgroundMonitor(). *)

Known == route # "Unknown"
Permits == route = "Speakers"

Context ==
  [hasAudio |-> /\ stream = "Good" /\ Permits
                /\ \A x \in Amp : ~PlaybackFaulted(amp[x]),
   known |-> Known, permits |-> Permits, stream |-> stream = "Good"]

\* Mutation: a transition in progress does not keep the timer armed.
RearmWithoutPending(as, r) == ~r.known \/ r.permits

\* Mutation: only a transition in progress keeps the timer armed.
RearmOnlyPending(as, r) == (\E x \in Amp : PlaybackPending(as[x])) \/ ~r.known

\* The timer at the end of a run.
Rearm(as, r) == (\E x \in Amp : PlaybackPending(as[x])) \/ ~r.known \/ r.permits

Ended(as, r) ==
  /\ amp' = as /\ timer' = Rearm(as, r) /\ pc' = "Idle" /\ next' = 1

\* The run cancels every amplifier.  A faulted group cancels nothing.
Cancelled(as) == Choices([x \in Amp |-> CancelPlayback(as[x], ChipOf(x))])

EndedCancelling(as) == \E after \in Cancelled(as) : Ended(after, run)

\* Mutation: a pair that is half prepared is validated and unmuted.
SomePrepared(as) == \E x \in Amp : PlaybackPrepared(as[x])

AllPrepared(as) == \A x \in Amp : PlaybackPrepared(as[x])

Monitor ==
  LET c == Context
      r == [known |-> c.known, permits |-> c.permits, same |-> TRUE]
  IN /\ run' = r
     /\ \E ticked \in Choices([x \in Amp |-> Tick(amp[x], c, ChipOf(x))]) :
          IF c.hasAudio /\ AllPrepared(ticked)
          THEN amp' = ticked /\ pc' = "Validate" /\ next' = 1 /\ timer' = FALSE
          ELSE \E after \in IF \E x \in Amp : PlaybackFaulted(ticked[x])
                            THEN Cancelled(ticked) ELSE {ticked} : Ended(after, r)

\* The timer fires, or the event source calls.
Run ==
  /\ pc = "Idle" /\ (timer \/ event)
  /\ event' = FALSE
  /\ IF group = "Up" THEN Monitor ELSE timer' = FALSE /\ UNCHANGED <<amp, pc, next, run>>
  /\ UNCHANGED <<world, irq, group>>

\* On to the next amplifier, or to the next step of the run.
Advanced(step) ==
  IF next < N THEN next' = next + 1 /\ UNCHANGED pc ELSE next' = 1 /\ pc' = step

\* Before the first amplifier the stream is looked at again.
Validate ==
  /\ pc = "Validate"
  /\ \/ next = 1 /\ stream = "None" /\ EndedCancelling(amp)
     \/ /\ next = 1 => stream = "Good"
        /\ \/ IsValid(amp[next], ChipOf(next)) /\ Advanced("Commit") /\ UNCHANGED <<amp, timer>>
           \/ \E a \in Invalidated(amp[next], ChipOf(next)) :
                EndedCancelling([amp EXCEPT ![next] = a])
  /\ UNCHANGED <<world, event, irq, group, run>>

\* A failure that is not a cancelled start: fail() of the group, which waits
\* for every amplifier to shut down.
FailGroup(as) ==
  /\ group' = "Faulted"
  /\ \E ok \in [Amp -> BOOLEAN] :
       /\ \A x \in Amp : well[x] => ok[x]
       /\ Ended([x \in Amp |-> StopNow(as[x], ok[x])], run)

\* The route or the stream is no longer the one the amplifier is prepared for.
StartCancelled == stream = "None" \/ ~amp[next].fresh

Commit ==
  /\ pc = "Commit"
  /\ \/ StartCancelled /\ EndedCancelling(amp) /\ UNCHANGED group
     \/ /\ ~StartCancelled /\ CanCommit(amp[next], ChipOf(next))
        /\ amp' = [amp EXCEPT ![next] = Committed(@)]
        /\ Advanced("Revalidate") /\ UNCHANGED <<timer, group>>
     \/ /\ ~StartCancelled /\ MayFailCommit(amp[next], ChipOf(next))
        /\ \E a \in CommitFailed(amp[next], ChipOf(next)) : FailGroup([amp EXCEPT ![next] = a])
  /\ UNCHANGED <<world, event, irq, run>>

\* A route that changed during the commits cancels all of them.
Revalidate ==
  /\ pc = "Revalidate"
  /\ IF run.same THEN Ended(amp, run) ELSE EndedCancelling(amp)
  /\ UNCHANGED <<world, event, irq, group, run>>

-----------------------------------------------------------------------------
(* amplifierInterruptReceived(): it is disabled, and every amplifier asked. *)

Interrupt ==
  /\ pc = "Idle" /\ irq
  /\ irq' = FALSE
  /\ \E sick \in SUBSET Amp :
       /\ \A x \in Amp : IF x \in sick THEN ProtectionBad(ChipOf(x)) ELSE ProtectionOk(ChipOf(x))
       /\ LET seen == [x \in Amp |-> IF x \in sick THEN Failed(amp[x]) ELSE amp[x]]
          IN amp' \in IF sick # {} /\ group = "Up" THEN Cancelled(seen) ELSE {seen}
  /\ UNCHANGED <<world, timer, event, group, pc, next, run>>

Next ==
  \/ ChangeRoute \/ ChangeStream \/ ChipChange
  \/ Run \/ Validate \/ Commit \/ Revalidate \/ Interrupt

\* The timer fires, a change that is signalled is handled, and a run ends.
Fairness == WF_vars(Run \/ Validate \/ Commit \/ Revalidate)

Spec == Init /\ [][Next]_vars /\ Fairness

-----------------------------------------------------------------------------
(* Properties. *)

\* An amplifier is unmuted only when every one of the board is prepared or
\* plays, for this route and stream, without a fault (Runtime.cpp:570-600).
UnmutedTogether ==
  [][\A x, y \in Amp : ~amp[x].audible /\ amp'[x].audible =>
       /\ amp[y].phase \in {"Prepared", "Active"}
       /\ amp[y].fresh /\ ~amp[y].faulted]_vars

\* A fault the monitor is told of silences the healthy amplifiers too.
HealthyPeerStops ==
  \A y \in Amp :
    (amp[y].audible /\ \E x \in Amp : amp[x].faulted /\ ~amp[x].pending)
      ~> (~amp[y].audible \/ amp[y].faulted)

\* The latch of a fault opens by itself only if nothing but the clock was lost
\* since it closed, whatever order the failures were recorded in.
OnlyClockLossForgiven ==
  [][\A x \in Amp : amp[x].faulted /\ ~amp'[x].faulted => ~amp[x].hurt]_vars

\* A preparation or a cleanup in progress always has a timer or an event that
\* carries it on (Runtime.cpp:601-625), as long as no interrupt came.
WorkIsPolled ==
  (/\ pc = "Idle" /\ group = "Up" /\ (Interrupts => irq)
   /\ \E x \in Amp : PlaybackPending(amp[x]))
  => timer \/ event

\* What plays for a route or a stream that is gone is muted.
StaleIsMuted ==
  \A x \in Amp :
    (amp[x].audible /\ ~amp[x].fresh /\ ~amp[x].faulted) ~> (~amp[x].audible \/ amp[x].faulted)

Playing == \A x \in Amp : amp[x].audible

Favourable ==
  /\ route = "Speakers" /\ stream = "Good"
  /\ \A x \in Amp : well[x] /\ clock[x] /\ ~trip[x]

\* When the speakers stay selected, the stream stays up and the chips stay
\* well, the pair plays in the end unless a fault was latched.
PlaysAgain ==
  <>[]Favourable => <>(Playing \/ group = "Faulted" \/ \E x \in Amp : amp[x].faulted)

\* CHANGELOG.md:106: a loss of the PLL is transient, so a pair that once played
\* plays again when the clock is back (the bus and the protection never fail in
\* the run).
RecoversFromClockLoss == <>Playing /\ <>[]Favourable => []<>Playing

\* README.md:305: protection and I/O failures disable the output.  A faulted
\* amplifier that can be heard is muted in the end, if its bus works.
FaultMutes ==
  \A x \in Amp :
    (group = "Up" /\ amp[x].faulted /\ amp[x].audible /\ well[x])
      ~> (~amp[x].audible \/ ~well[x] \/ group = "Faulted")

\* The same, for an amplifier that has not used up its attempts to clean up:
\* a failed cleanup is tried again (check_runtime.py:894-896).
CleanupIsRetried ==
  \A x \in Amp :
    (group = "Up" /\ amp[x].faulted /\ amp[x].audible /\ well[x] /\ amp[x].cleanups < kAttempts)
      ~> (~amp[x].audible \/ ~well[x] \/ amp[x].cleanups = kAttempts \/ group = "Faulted")

=============================================================================
