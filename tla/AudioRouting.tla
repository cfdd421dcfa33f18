---------------------------- MODULE AudioRouting ----------------------------
(***************************************************************************)
(* How the service uses the event source: setupAudioEvents(),              *)
(* teardownAudioEvents(), audioEventReceived() and the part of             *)
(* runBackgroundMonitor() that decides whether the speakers may play.      *)
(*                                                                         *)
(* A run of the monitor holds the workloop from its start to its end, but  *)
(* the hook threads go on, and so does the HDA controller: the steps of a  *)
(* run are separate actions, told apart by pc.  The amplifiers appear as   *)
(* one output of CS35L41s that is prepared muted, unmuted and stopped.     *)
(* "Unclean" is a cleanup that failed, or was not begun since its attempts *)
(* are used up, and left no work behind: the output may be audible, and    *)
(* only a run that comes for another reason tries again.  "Faulted" is a group that a start, a sleep or a wake has failed:*)
(* the runs leave it alone until it is bound anew.  What the amplifiers of *)
(* the group do, and their interrupt, are in PlaybackPair.                 *)
(*                                                                         *)
(*   power, timer      mPowerAvailable, whether mProbeTimer is armed       *)
(*   current, hdaPci   mAudioEvents, the cached controller (mHdaPci)       *)
(*   audioState        mAudioState                                         *)
(*   live, upsets      the controller present, and how often it changed    *)
(*                     or the machine slept                                *)
(*   pc, then          the step of the run, and the one a teardown         *)
(*                     returns to                                          *)
(*   todo, seed        the seeding loop of refreshRoute()                  *)
(*   run               the locals of runBackgroundMonitor()                *)
(*   output, prepared  the amplifiers, and the route generation they are   *)
(*                     prepared for                                        *)
(***************************************************************************)
EXTENDS AudioEventSource

CONSTANT MaxUpsets \* bound: changes of the controller present and suspends

ASSUME RoutingAssumption == MaxUpsets \in Nat

VARIABLES power, timer, current, hdaPci, audioState, live, upsets, pc, then,
          todo, seed, run, output, prepared

serviceVars == <<power, timer, current, hdaPci, audioState, live, upsets, pc, then,
                 todo, seed, run, output, prepared>>

vars == <<sourceVars, serviceVars>>

NoRun == [stream |-> FALSE, state |-> Unknown]

\* The steps of a run.  "Unlist" and "Close" are the two halves of detach().
Step == {"Idle", "Sync", "Setup", "Seed", "Tick", "SyncAgain", "Validate",
         "SyncCommit", "Commit", "Revalidate", "Cancel", "Rearm", "Unlist", "Close"}

OutputState ==
  {"Silent", "Preparing", "Prepared", "Playing", "Stopping", "Unclean", "Faulted"}

TypeOK ==
  /\ SourceTypeOK
  /\ power \in BOOLEAN /\ timer \in BOOLEAN
  /\ current \in Source \union {None}
  /\ hdaPci \in Controller \union {None}
  /\ live \in Controller \union {None} /\ upsets \in 0..MaxUpsets
  /\ audioState.generation \in Nat
  /\ pc \in Step /\ then \in Step
  /\ todo \in SUBSET Engine
  /\ seed \in [engine : Engine \union {None}, value : Output \union {"Absent"}]
  /\ run.stream \in BOOLEAN /\ run.state.generation \in Nat
  /\ output \in OutputState
  /\ prepared \in Nat

NoSeed == [engine |-> None, value |-> "Absent"]

Init ==
  /\ SourceInit
  /\ power = TRUE /\ timer = TRUE
  /\ current = None /\ hdaPci = None /\ audioState = Unknown
  /\ live \in Controller /\ upsets = 0
  /\ pc = "Idle" /\ then = "Idle" /\ todo = {} /\ seed = NoSeed /\ run = NoRun
  /\ output = "Silent" /\ prepared = 0

-----------------------------------------------------------------------------
(* The world outside the workloop. *)

\* The controller goes away, or another one (or the same, reset) appears.
ChangeController ==
  /\ upsets < MaxUpsets
  /\ upsets' = upsets + 1
  /\ live' \in (Controller \union {None}) \ {live}
  /\ UNCHANGED <<sourceVars, power, timer, current, hdaPci, audioState, pc, then, todo, seed,
                 run, output, prepared>>

HookThread(t) ==
  /\ Original(t) \/ Publish(t) \/ Deliver(t)
  /\ UNCHANGED serviceVars

-----------------------------------------------------------------------------
(* Entry points of the workloop. *)

GoTo(label) == pc' = label /\ UNCHANGED then

\* teardownAudioEvents() on the way to a step.
TeardownTo(label) ==
  /\ audioState' = Unknown
  /\ IF current = None THEN GoTo(label) ELSE pc' = "Unlist" /\ then' = label

Unlisted ==
  /\ pc = "Unlist"
  /\ Unlist(current)
  /\ pc' = "Close"
  /\ UNCHANGED <<selector, engineState, hooked, calls, hook, power, timer, current, hdaPci,
                 audioState, live, upsets, then, todo, seed, run, output, prepared>>

Closed ==
  /\ pc = "Close"
  /\ CloseMailbox(current)
  /\ current' = None
  /\ pc' = then /\ then' = "Idle"
  /\ UNCHANGED <<selector, engineState, hooked, calls, hook, power, timer, hdaPci, audioState,
                 live, upsets, todo, seed, run, output, prepared>>

\* A run goes past its early returns only for a group that has not failed.
Runs == power /\ output # "Faulted"

\* probeTimerFired()
TimerFired ==
  /\ pc = "Idle" /\ timer
  /\ timer' = FALSE
  /\ IF Runs THEN GoTo("Sync") ELSE UNCHANGED <<pc, then>>
  /\ UNCHANGED <<sourceVars, power, current, hdaPci, audioState, live, upsets, todo, seed,
                 run, output, prepared>>

\* checkForWork() and audioEventReceived()
AudioEvent ==
  /\ pc = "Idle" /\ current # None
  /\ TakePending(current)
  /\ IF power /\ src[current].attached
     THEN /\ audioState' = src[current].state /\ timer' = FALSE
          /\ IF Runs THEN GoTo("Sync") ELSE UNCHANGED <<pc, then>>
     ELSE UNCHANGED <<audioState, timer, pc, then>>
  /\ UNCHANGED <<selector, engineState, hooked, calls, hook, power, current, hdaPci, live,
                 upsets, todo, seed, run, output, prepared>>

\* handlePowerChange(false): the group is suspended, which may fail, its
\* preparation forgotten, the controller released and the source torn down.
PowerOff ==
  /\ pc = "Idle" /\ power /\ upsets < MaxUpsets
  /\ upsets' = upsets + 1
  /\ power' = FALSE /\ timer' = FALSE /\ hdaPci' = None
  /\ output' \in (IF output = "Faulted" THEN {} ELSE {"Silent"}) \union {"Faulted"}
  /\ prepared' = 0
  /\ TeardownTo("Idle")
  /\ UNCHANGED <<sourceVars, current, live, todo, seed, run>>

\* handlePowerChange(true): a group that was suspended is resumed.
PowerOn ==
  /\ pc = "Idle" /\ ~power
  /\ power' = TRUE /\ timer' = TRUE
  /\ output' \in {output, "Faulted"}
  /\ UNCHANGED <<sourceVars, current, hdaPci, audioState, live, upsets, pc, then, todo, seed,
                 run, prepared>>

-----------------------------------------------------------------------------
(* synchronizeHdaStream(), which a run calls up to three times.  It drops a *)
(* cached controller that is gone and looks for another one at once.        *)

SyncSteps == {"Sync", "SyncAgain", "SyncCommit"}

\* Where a run goes when the stream is seen, and when it is not.
Seen == [Sync |-> "Setup", SyncAgain |-> "Validate", SyncCommit |-> "Commit"]
Unseen == [Sync |-> "Setup", SyncAgain |-> "Cancel", SyncCommit |-> "Cancel"]

ControllerGone ==
  /\ pc \in SyncSteps /\ hdaPci # None /\ hdaPci # live
  /\ hdaPci' = None
  /\ TeardownTo(pc)
  /\ UNCHANGED <<sourceVars, power, timer, current, live, upsets, todo, seed, run, output,
                 prepared>>

ControllerMissing ==
  /\ pc \in SyncSteps /\ hdaPci = None /\ live = None
  /\ run' = [run EXCEPT !.stream = FALSE]
  /\ GoTo(Unseen[pc])
  /\ UNCHANGED <<sourceVars, power, timer, current, hdaPci, audioState, live, upsets, todo,
                 seed, output, prepared>>

\* The controller is in reset or its BAR is unusable.
ControllerNotReady ==
  /\ pc \in SyncSteps /\ hdaPci \in {None, live} /\ live # None
  /\ hdaPci' = None
  /\ run' = [run EXCEPT !.stream = FALSE]
  /\ TeardownTo(Unseen[pc])
  /\ UNCHANGED <<sourceVars, power, timer, current, live, upsets, todo, seed, output,
                 prepared>>

StreamObserved ==
  /\ pc \in SyncSteps /\ hdaPci \in {None, live} /\ live # None
  /\ hdaPci' = live
  /\ \E active \in BOOLEAN :
       /\ run' = [run EXCEPT !.stream = active]
       /\ GoTo(IF active THEN Seen[pc] ELSE Unseen[pc])
  /\ UNCHANGED <<sourceVars, power, timer, current, audioState, live, upsets, todo, seed,
                 output, prepared>>

-----------------------------------------------------------------------------
(* setupAudioEvents() and refreshRoute(). *)

\* A new source, attached and about to be seeded.
CreateSource ==
  /\ pc = "Setup" /\ current = None /\ hdaPci # None /\ hooked
  /\ \E s \in Source :
       /\ Attach(s, hdaPci)
       /\ current' = s
  /\ todo' = {e \in Engine : Parent[e] = hdaPci}
  /\ GoTo("Seed")
  /\ UNCHANGED <<selector, engineState, hooked, calls, hook, power, timer, hdaPci, audioState,
                 live, upsets, seed, run, output, prepared>>

RefreshRoute ==
  /\ pc = "Setup" /\ current # None
  /\ todo' = IF SeedNeeded(current) THEN {e \in Engine : Parent[e] = src[current].controller} ELSE {}
  /\ GoTo("Seed")
  /\ UNCHANGED <<sourceVars, power, timer, current, hdaPci, audioState, live, upsets, seed,
                 run, output, prepared>>

\* Read the next selector from the registry ...
SeedRead ==
  /\ pc = "Seed" /\ seed = NoSeed /\ todo # {}
  /\ \E e \in todo :
       /\ todo' = todo \ {e}
       /\ seed' = IF selector[e] = "Absent" THEN NoSeed ELSE [engine |-> e, value |-> selector[e]]
  /\ UNCHANGED <<sourceVars, power, timer, current, hdaPci, audioState, live, upsets, pc,
                 then, run, output, prepared>>

\* ... and observe it; a hook may have run in between.
SeedObserve ==
  /\ pc = "Seed" /\ seed # NoSeed
  /\ src' = [src EXCEPT ![current] =
               Observe(@, [engine |-> seed.engine, route |-> TRUE], seed.value, TRUE)]
  /\ seed' = NoSeed
  /\ UNCHANGED <<selector, engineState, hooked, calls, hook, listeners, power, timer, current,
                 hdaPci, audioState, live, upsets, pc, then, todo, run, output, prepared>>

-----------------------------------------------------------------------------
(* The rest of runBackgroundMonitor(). *)

Latest == IF current = None THEN audioState ELSE src[current].state

\* After the seeding, or without a source: no hooks or no controller yet, or no
\* memory for one.
TakeSnapshot ==
  /\ \/ pc = "Setup" /\ current = None
     \/ pc = "Seed" /\ seed = NoSeed /\ todo = {}
  /\ audioState' = Latest
  /\ run' = [run EXCEPT !.state = Latest]
  /\ GoTo("Tick")
  /\ UNCHANGED <<sourceVars, power, timer, current, hdaPci, live, upsets, todo, seed, output,
                 prepared>>

HasAudio == run.stream /\ Permits(run.state)

\* A cleanup is begun, which may fail at once or have no attempt left.
CleanupBegun == {"Stopping", "Unclean"}

\* Mutation: the amplifiers do not look at the route generation.
TickedWhateverGeneration ==
  IF output = "Silent" THEN IF HasAudio THEN {"Silent", "Preparing"} ELSE {"Silent"}
  ELSE IF output = "Stopping" THEN {"Stopping", "Silent", "Unclean"}
  ELSE IF output = "Unclean" THEN {"Unclean", "Stopping"}
  ELSE IF ~run.stream THEN CleanupBegun
  ELSE IF output = "Playing" THEN {"Playing"} \union CleanupBegun
  ELSE {output, "Prepared"} \union CleanupBegun

\* What runtimeTick() makes of the amplifiers: they stop when there is no audio
\* for them, when the route or the stream changed, or by a fault of their own;
\* else they go on preparing.  A cleanup goes on, ends or fails; one that failed
\* is tried again while attempts are left.
Ticked ==
  IF output = "Silent" THEN IF HasAudio THEN {"Silent", "Preparing"} ELSE {"Silent"}
  ELSE IF output = "Stopping" THEN {"Stopping", "Silent", "Unclean"}
  ELSE IF output = "Unclean" THEN {"Unclean", "Stopping"}
  ELSE IF ~HasAudio \/ prepared # run.state.generation THEN CleanupBegun
  ELSE IF output = "Playing" THEN {"Playing"} \union CleanupBegun
  ELSE {output, "Prepared"} \union CleanupBegun

Tick ==
  /\ pc = "Tick"
  /\ output' \in Ticked
  /\ prepared' = CASE output' \in {"Silent"} \union CleanupBegun -> 0
                    [] output = "Silent" -> run.state.generation
                    [] OTHER -> prepared
  /\ GoTo(IF output' = "Prepared" /\ HasAudio THEN "SyncAgain" ELSE "Rearm")
  /\ UNCHANGED <<sourceVars, power, timer, current, hdaPci, audioState, live, upsets, todo,
                 seed, run>>

\* The route of the run is still the latest one; without a source nothing is compared.
Unchanged(generation) == current # None => src[current].state.generation = generation

\* validatePlayback(): clocks, protection and the route generation.
Validate ==
  /\ pc = "Validate"
  /\ \/ Unchanged(run.state.generation) /\ GoTo("SyncCommit")
     \/ GoTo("Cancel")
  /\ UNCHANGED <<sourceVars, power, timer, current, hdaPci, audioState, live, upsets, todo,
                 seed, run, output, prepared>>

\* commitCS35L41Playback(): the last check of the route, and the unmute.  A start
\* that is not carried out leaves the group as it was, one that fails faults it.
Commit ==
  /\ pc = "Commit"
  /\ \/ Unchanged(prepared) /\ output' = "Playing" /\ GoTo("Revalidate")
     \/ Unchanged(prepared) /\ output' = "Faulted" /\ GoTo("Cancel")
     \/ UNCHANGED output /\ GoTo("Cancel")
  /\ UNCHANGED <<sourceVars, power, timer, current, hdaPci, audioState, live, upsets, todo,
                 seed, run, prepared>>

\* After the registers of the group are written.
Revalidate ==
  /\ pc = "Revalidate"
  /\ GoTo(IF Unchanged(run.state.generation) THEN "Rearm" ELSE "Cancel")
  /\ UNCHANGED <<sourceVars, power, timer, current, hdaPci, audioState, live, upsets, todo,
                 seed, run, output, prepared>>

\* cancelPlayback() of every member, which a faulted group refuses, and which does
\* nothing to an output whose attempts are used up: the next run stops it.
Cancel ==
  /\ pc = "Cancel"
  /\ \/ UNCHANGED <<output, prepared>>
     \/ output # "Faulted" /\ output' \in CleanupBegun /\ prepared' = 0
  /\ GoTo("Rearm")
  /\ UNCHANGED <<sourceVars, power, timer, current, hdaPci, audioState, live, upsets, todo,
                 seed, run>>

\* Mutation: a known route is left to the events, pending work or not.
KeepsPollingUnlessKnown == ~run.state.routeKnown \/ Permits(run.state)

\* The monitor comes back for amplifiers that playbackPending(), while it waits
\* for a route, and while the route permits playback.  A failed cleanup is not
\* pending.
KeepsPolling ==
  \/ output \in {"Preparing", "Prepared", "Stopping"}
  \/ ~run.state.routeKnown
  \/ Permits(run.state)

Rearm ==
  /\ pc = "Rearm"
  /\ timer' = KeepsPolling
  /\ run' = NoRun
  /\ GoTo("Idle")
  /\ UNCHANGED <<sourceVars, power, current, hdaPci, audioState, live, upsets, todo, seed,
                 output, prepared>>

-----------------------------------------------------------------------------

Monitor ==
  \/ Unlisted \/ Closed
  \/ ControllerGone \/ ControllerMissing \/ ControllerNotReady \/ StreamObserved
  \/ CreateSource \/ RefreshRoute \/ SeedRead \/ SeedObserve
  \/ TakeSnapshot \/ Tick \/ Validate \/ Commit \/ Revalidate \/ Cancel \/ Rearm

Next ==
  \/ InstallHooks /\ UNCHANGED serviceVars
  \/ \E e \in Engine : Appear(e) /\ UNCHANGED serviceVars
  \/ \E t \in Sender : HookThread(t)
  \/ ChangeController \/ PowerOff \/ PowerOn
  \/ TimerFired \/ AudioEvent \/ Monitor

\* A routed call returns, a run of the monitor ends, the timer fires and a
\* signalled source is served.  A controller that answers now and then and
\* memory for a source are there if they are tried for again and again.
Fairness ==
  /\ \A t \in Sender : WF_vars((Publish(t) \/ Deliver(t)) /\ UNCHANGED serviceVars)
  /\ WF_vars(Monitor) /\ WF_vars(TimerFired) /\ WF_vars(AudioEvent)
  /\ SF_vars(StreamObserved /\ pc = "Sync") /\ SF_vars(CreateSource)

Spec == Init /\ [][Next]_vars /\ Fairness

-----------------------------------------------------------------------------
(* Properties. *)

\* An object is freed exactly when nobody uses it: the references of a source
\* are those of the routed calls that hold it and of the service that owns it,
\* so a hook in flight across a teardown never observes a freed source, and
\* none is leaked.
ReferencesAccounted ==
  \A s \in Source :
    /\ src[s].refs = Cardinality({t \in Sender : s \in hook[t].targets})
                     + (IF s = current THEN 2 ELSE 0)
    /\ s \in listeners => s = current

\* When no call of its engine is in flight, the mailbox says what the registry
\* says: neither a seed nor a report that overtook another leaves it stale.
MailboxIsCurrent ==
  (current \in listeners /\ pc # "Seed") =>
    LET a == src[current]
        e == a.engine
    IN (e # None /\ \A t \in Sender : t.engine = e => hook[t] = Quiet) =>
         /\ a.state.routeKnown
         /\ a.state.speakers = (selector[e] = "Speakers")
         /\ a.state.engineKnown = (engineState[e] # "Absent")
         /\ a.state.engineRunning = (engineState[e] = "Running")

\* A change the service has not seen yet is signalled: between two runs the
\* state it acts on is the mailbox, or an event is pending.
NothingForgotten ==
  (pc = "Idle" /\ current # None) => audioState = src[current].state \/ src[current].pending

\* The monitor lets its timer lie only with no amplifier work under way and a
\* known route that forbids playing, an event pending, or a group it has given up
\* as faulted.  Settled is not always silent: a cleanup that failed is left to
\* the next event (see CleanupIsRetried of PlaybackPair, which has the interrupt).
SleepsOnlySettled ==
  (pc = "Idle" /\ power /\ ~timer) =>
    \/ output = "Faulted"
    \/ /\ current # None
       /\ \/ src[current].pending
          \/ /\ output \in {"Silent", "Unclean"}
             /\ audioState.routeKnown /\ ~Permits(audioState)

\* From some run on the speakers are left playing by a run only while the
\* selector of the present controller points at them and its engine runs,
\* whatever the hooks, the controller and the power did before.  A mute that
\* was begun may still fail ("Unclean"): that is the business of PlaybackPair.
WrongRouteSilenced ==
  <>[](pc = "Idle" /\ output = "Playing" =>
         /\ current # None /\ src[current].engine # None
         /\ Parent[src[current].engine] = live
         /\ selector[src[current].engine] = "Speakers"
         /\ engineState[src[current].engine] = "Running")

\* A controller that shows a speaker or headphone selector, before or after the
\* service looks, ends with its route known, unless the group has failed.
RouteIsLearned ==
  (<>[](hooked /\ power /\ output # "Faulted" /\ live # None /\
        \E e \in Engine : Parent[e] = live /\ selector[e] \in {"Speakers", "Headphones"}))
  => []<>(current # None /\ src[current].state.routeKnown)

\* "An unknown output is not permission to unmute board speakers" (the comment
\* in runBackgroundMonitor()).
UnknownRouteStaysMuted ==
  [][(output # "Playing" /\ output' = "Playing") => current # None /\ src[current].state.routeKnown]_vars

\* "A live hook observation wins over stale seed data" (the comment on
\* refreshRoute()): a seed that is taken is what the registry still says, or the
\* call that changed it has yet to report.
LiveReportWins ==
  [][pc = "Seed" /\ src'[current] # src[current] /\ seed # NoSeed /\ seed' = NoSeed =>
       \/ selector[seed.engine] = seed.value
       \/ \E t \in Sender : t.engine = seed.engine /\ t.route /\ hook[t] # Quiet]_vars

=============================================================================
