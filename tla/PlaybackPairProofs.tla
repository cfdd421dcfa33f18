------------------------- MODULE PlaybackPairProofs -------------------------
(***************************************************************************)
(* Proofs, for any number of amplifiers and any bounds, that the pair      *)
(* keeps its types, that no amplifier is unmuted without the others, that  *)
(* only a loss of the clock is forgiven and that work in progress is       *)
(* polled.                                                                 *)
(*                                                                         *)
(* What an operation may do to one amplifier is stated once (Stops,        *)
(* Follows) and proved for each operator of CS35L41Playback.  The          *)
(* inductive invariant IInv adds to the types what the latch of a fault    *)
(* knows about its cause (Kept), how far a run has come (Progress), and    *)
(* the timer.                                                              *)
(***************************************************************************)
EXTENDS PlaybackPair, TLAPS

\* A fault with another cause than the clock is latched, and is not taken for
\* a loss of the clock, now or when a cleanup ends.
Kept(a) ==
  a.hurt => /\ a.faulted
            /\ ~(a.pending /\ a.latest = "Pll")
            /\ ~(a.clockWait /\ a.latest = "PowerUp")

\* How far the run has come: all amplifiers were prepared when it began, those
\* before next are validated, or committed; all go stale together.
Progress ==
  /\ pc = "Idle" => next = 1
  /\ pc = "Validate" =>
       /\ \A x \in Amp : amp[x].phase = "Prepared" /\ ~amp[x].faulted
       /\ (\A x \in Amp : x < next => amp[x].fresh) \/ (\A x \in Amp : ~amp[x].fresh)
  /\ pc = "Commit" =>
       /\ \A x \in Amp : amp[x].phase \in {"Prepared", "Active"} /\ ~amp[x].faulted
       /\ (\A x \in Amp : amp[x].fresh) \/ (\A x \in Amp : ~amp[x].fresh)

IInv ==
  /\ TypeOK /\ WorkIsPolled
  /\ \A x \in Amp : Kept(amp[x])
  /\ Progress
  /\ irq => Interrupts

-----------------------------------------------------------------------------
(* What an operation does to one amplifier *)

\* It stays an amplifier, keeps what it knows of its fault, and is not unmuted.
Follows(a, b) ==
  /\ b \in Playback /\ Kept(b)
  /\ b.audible => a.audible
  /\ a.faulted /\ ~b.faulted => ~a.hurt

\* Besides, its fault stays latched.
Stops(a, b) == Follows(a, b) /\ (a.faulted => b.faulted)

LEMMA ItselfStops ==
  ASSUME NEW a \in Playback, Kept(a)
  PROVE  Stops(a, a)
BY DEF Stops, Follows

LEMMA WaitStops ==
  ASSUME NEW a \in Playback, Kept(a), NEW b \in Wait(a)
  PROVE  Stops(a, b)
BY PatienceAssumption DEF Stops, Follows, Wait, Playback, Kept

LEMMA FailedStops ==
  ASSUME NEW a \in Playback
  PROVE  Stops(a, Failed(a)) /\ Failed(a).audible = a.audible
BY DEF Stops, Follows, Failed, Playback, Kept, Failure

LEMMA OneMoreAttempt ==
  ASSUME NEW n \in 0..kAttempts
  PROVE  (IF n < kAttempts THEN n + 1 ELSE n) \in 0..kAttempts
BY DEF kAttempts

LEMMA OneLessAttempt ==
  ASSUME NEW n \in 0..kAttempts, NEW b \in BOOLEAN
  PROVE  (IF b /\ n > 0 THEN n - 1 ELSE n) \in 0..kAttempts
BY DEF kAttempts

LEMMA BeginStopStops ==
  ASSUME NEW a \in Playback, Kept(a), NEW h, NEW b \in BeginStop(a, h)
  PROVE  Stops(a, b)
<1> DEFINE count == IF a.cleanups < kAttempts THEN a.cleanups + 1 ELSE a.cleanups
           begun == [a EXCEPT !.phase = "Idle", !.fresh = FALSE, !.waited = 0, !.active = TRUE,
                              !.shutdown = "Pdn", !.clean = TRUE, !.audible = FALSE,
                              !.cleanups = count]
<1>a. count \in 0..kAttempts /\ 0 \in 0..Patience
  BY PatienceAssumption, OneMoreAttempt DEF Playback
<1> HIDE DEF count
<1>1. begun \in Playback
  BY <1>a DEF Playback
<1>2. /\ begun.hurt = a.hurt /\ begun.faulted = a.faulted /\ begun.pending = a.pending
      /\ begun.latest = a.latest /\ begun.clockWait = a.clockWait /\ begun.audible = FALSE
  BY DEF Playback
<1> HIDE DEF begun
<1>3. b = begun \/ \E still \in {FALSE, a.audible} : b = [begun EXCEPT !.clean = FALSE, !.audible = still]
  BY DEF BeginStop, begun, count
<1>4. a.audible \in BOOLEAN
  BY DEF Playback
<1>5. b \in Playback /\ (b.audible => a.audible)
      /\ b.hurt = a.hurt /\ b.faulted = a.faulted /\ b.pending = a.pending
      /\ b.latest = a.latest /\ b.clockWait = a.clockWait
  BY ZenonT(60), <1>1, <1>2, <1>3, <1>4 DEF Playback
<1> QED BY <1>5 DEF Stops, Follows, Kept

LEMMA SafeStops ==
  ASSUME NEW a \in Playback, Kept(a)
  PROVE  Stops(a, Safe(a))
<1> DEFINE wait == a.clockWait /\ a.latest = "PowerUp"
           count == IF wait /\ a.recoveries > 0 THEN a.recoveries - 1 ELSE a.recoveries
           open == a.pending \/ wait
           cause == IF wait THEN "Pll" ELSE a.latest
           tries == IF a.faulted THEN a.cleanups ELSE 0
           safe == [a EXCEPT !.shutdown = "Done", !.active = FALSE, !.audible = FALSE,
                             !.clockWait = FALSE, !.recoveries = count, !.pending = open,
                             !.latest = cause, !.cleanups = tries]
<1>1. Safe(a) = safe
  BY DEF Safe
<1>2. wait \in BOOLEAN
  BY DEF Playback
<1>3. count \in 0..kAttempts
  BY <1>2, OneLessAttempt DEF Playback
<1>4. open \in BOOLEAN
  BY DEF Playback
<1>5. cause \in Failure
  BY DEF Playback, Failure
<1>6. tries \in 0..kAttempts
  BY DEF Playback, kAttempts
<1>7. (open = a.pending /\ cause = a.latest) \/ (a.clockWait /\ a.latest = "PowerUp")
  BY DEF Playback
<1> HIDE DEF wait, count, open, cause, tries
<1>8. safe \in Playback
  BY <1>3, <1>4, <1>5, <1>6 DEF Playback
<1>9. /\ safe.hurt = a.hurt /\ safe.faulted = a.faulted /\ safe.audible = FALSE
      /\ safe.clockWait = FALSE /\ safe.pending = open /\ safe.latest = cause
  BY DEF Playback
<1> QED BY <1>1, <1>7, <1>8, <1>9 DEF Stops, Follows, Kept

LEMMA UnsafeStops ==
  ASSUME NEW a \in Playback
  PROVE  Stops(a, Unsafe(a)) /\ Unsafe(a).audible = a.audible
<1> DEFINE u == [a EXCEPT !.shutdown = "Done", !.active = TRUE, !.clockWait = FALSE]
<1>1. u \in Playback /\ u.audible = a.audible /\ u.faulted = a.faulted /\ u.hurt = a.hurt
  BY DEF Playback
<1>2. Unsafe(a) = Failed(u)
  BY DEF Unsafe
<1> HIDE DEF u
<1>3. Failed(u) \in Playback /\ Failed(u).faulted = TRUE /\ Failed(u).latest = "Other"
      /\ Failed(u).audible = u.audible
  BY <1>1 DEF Failed, Playback, Failure
<1> QED BY <1>1, <1>2, <1>3 DEF Stops, Follows, Kept

\* One call after another.
LEMMA StopsAgain ==
  ASSUME NEW a, NEW b, NEW c, Stops(b, c)
  PROVE  /\ Stops(a, b) => Stops(a, c)
         /\ Follows(a, b) => Follows(a, c)
BY DEF Stops, Follows

LEMMA ZeroWaited == 0 \in 0..Patience
BY PatienceAssumption

\* Only the progress of a transition changes.
LEMMA MovesStop ==
  ASSUME NEW a \in Playback, Kept(a), NEW b \in Playback,
         b.hurt = a.hurt, b.faulted = a.faulted, b.pending = a.pending,
         b.latest = a.latest, b.clockWait = a.clockWait, b.audible = a.audible
  PROVE  Stops(a, b)
BY DEF Stops, Follows, Kept

LEMMA ContinueStopStops ==
  ASSUME NEW a \in Playback, Kept(a), NEW h, NEW b \in ContinueStop(a, h)
  PROVE  Stops(a, b)
<1> DEFINE polled == [a EXCEPT !.waited = 0]
           finish == [polled EXCEPT !.shutdown = "Finish"]
           finishBad == [polled EXCEPT !.shutdown = "Finish", !.clean = FALSE]
<1>1. Stops(a, polled) /\ Kept(polled) /\ polled \in Playback
  BY PatienceAssumption DEF Stops, Follows, Kept, Playback
<1>2. Stops(a, finish) /\ Stops(a, finishBad)
  <2>1. finish \in Playback /\ finishBad \in Playback
    BY ZeroWaited DEF Playback
  <2>2. /\ finish.hurt = a.hurt /\ finish.faulted = a.faulted /\ finish.pending = a.pending
        /\ finish.latest = a.latest /\ finish.clockWait = a.clockWait /\ finish.audible = a.audible
    BY DEF Playback
  <2>3. /\ finishBad.hurt = a.hurt /\ finishBad.faulted = a.faulted /\ finishBad.pending = a.pending
        /\ finishBad.latest = a.latest /\ finishBad.clockWait = a.clockWait
        /\ finishBad.audible = a.audible
    BY DEF Playback
  <2> HIDE DEF finish, finishBad
  <2> QED BY <2>1, <2>2, <2>3, MovesStop
<1>3. Stops(a, Safe(polled))
  BY <1>1, SafeStops, StopsAgain
<1>4. Stops(a, Unsafe(polled))
  BY <1>1, UnsafeStops, StopsAgain
<1>5. \A w \in Wait(a) : Stops(a, w)
  BY WaitStops
<1>6. b \in {finish, finishBad, Safe(polled), Unsafe(polled)} \union Wait(a)
  <2> HIDE DEF finish, finishBad, polled
  <2>1. ContinueStop(a, h) =
          IF a.shutdown = "Pdn"
          THEN {finish} \union IF h.well THEN {} ELSE Wait(a) \union {finishBad}
          ELSE {IF a.clean THEN Safe(polled) ELSE Unsafe(polled)}
               \union IF h.well THEN {} ELSE Wait(a) \union {Unsafe(polled)}
    BY Zenon DEF ContinueStop, finish, finishBad, polled
  <2> QED BY <2>1
<1> HIDE DEF finish, finishBad, polled
<1> QED BY <1>2, <1>3, <1>4, <1>5, <1>6

LEMMA StopStops ==
  ASSUME NEW a \in Playback, Kept(a), NEW h, NEW b \in Stop(a, h)
  PROVE  Stops(a, b)
<1>1. CASE Cleaning(a)
  BY <1>1, ContinueStopStops DEF Stop
<1>2. CASE ~Cleaning(a)
  BY <1>2, BeginStopStops DEF Stop
<1> QED BY <1>1, <1>2

LEMMA StopNowStops ==
  ASSUME NEW a \in Playback, Kept(a), NEW ok
  PROVE  Stops(a, StopNow(a, ok))
<1> DEFINE count == IF a.cleanups < kAttempts THEN a.cleanups + 1 ELSE a.cleanups
           stopped == [a EXCEPT !.phase = "Idle", !.fresh = FALSE, !.waited = 0, !.cleanups = count]
           known == [stopped EXCEPT !.clockWait = FALSE]
<1>1. count \in 0..kAttempts /\ 0 \in 0..Patience
  BY PatienceAssumption, OneMoreAttempt DEF Playback
<1>2. StopNow(a, ok) = IF ok THEN Safe(known) ELSE Unsafe(stopped)
  BY DEF StopNow
<1> HIDE DEF count
<1>3. stopped \in Playback /\ known \in Playback
  BY <1>1 DEF Playback
<1>4. /\ stopped.hurt = a.hurt /\ stopped.faulted = a.faulted /\ stopped.pending = a.pending
      /\ stopped.latest = a.latest /\ stopped.clockWait = a.clockWait /\ stopped.audible = a.audible
      /\ known.hurt = a.hurt /\ known.faulted = a.faulted /\ known.pending = a.pending
      /\ known.latest = a.latest /\ known.clockWait = FALSE /\ known.audible = a.audible
  BY DEF Playback
<1> HIDE DEF stopped, known
<1>5. Stops(a, stopped) /\ Stops(a, known) /\ Kept(known)
  BY <1>3, <1>4 DEF Stops, Follows, Kept
<1>6. Stops(a, Safe(known)) /\ Stops(a, Unsafe(stopped))
  BY <1>3, <1>5, SafeStops, UnsafeStops, StopsAgain
<1> QED BY <1>2, <1>6

LEMMA AdvanceStops ==
  ASSUME NEW a \in Playback, Kept(a), NEW h, NEW b \in Advance(a, h)
  PROVE  Stops(a, b)
<1>1. ASSUME NEW p \in {"Power", "Pup", "Pll", "Prepared"}
      PROVE  Stops(a, To(a, p))
  <2>1. To(a, p) \in Playback
    BY ZeroWaited DEF Playback, To
  <2> QED BY <2>1, MovesStop DEF Playback, To
<1>2. Stops(a, To([a EXCEPT !.fresh = TRUE], "Power"))
  <2> DEFINE c == [a EXCEPT !.fresh = TRUE]
             d == [c EXCEPT !.phase = "Power", !.waited = 0]
  <2>1. c \in Playback
    BY DEF Playback
  <2>2. /\ c.hurt = a.hurt /\ c.faulted = a.faulted /\ c.pending = a.pending
        /\ c.latest = a.latest /\ c.clockWait = a.clockWait /\ c.audible = a.audible
    BY DEF Playback
  <2>3. To(c, "Power") = d
    BY DEF To
  <2> HIDE DEF c
  <2>4. d \in Playback
    BY <2>1, ZeroWaited DEF Playback
  <2>5. /\ d.hurt = c.hurt /\ d.faulted = c.faulted /\ d.pending = c.pending
        /\ d.latest = c.latest /\ d.clockWait = c.clockWait /\ d.audible = c.audible
    BY <2>1 DEF Playback
  <2> HIDE DEF d
  <2> QED BY <2>2, <2>3, <2>4, <2>5, MovesStop DEF c
<1>3. \A w \in Wait(a) : Stops(a, w)
  BY WaitStops
<1>4. b \in Wait(a) \/ b = To([a EXCEPT !.fresh = TRUE], "Power")
      \/ \E p \in {"Power", "Pup", "Pll", "Prepared"} : b = To(a, p)
  <2>1. CASE a.phase = "Idle"
    BY <2>1 DEF Advance
  <2>2. CASE a.phase = "Power"
    BY <2>2 DEF Advance
  <2>3. CASE a.phase = "Pup"
    BY <2>3 DEF Advance
  <2>4. CASE a.phase = "Pll"
    BY <2>4 DEF Advance
  <2>5. CASE a.phase \notin {"Idle", "Power", "Pup", "Pll"}
    BY <2>5 DEF Advance
  <2> QED BY <2>1, <2>2, <2>3, <2>4, <2>5
<1> QED BY <1>1, <1>2, <1>3, <1>4

LEMMA PrepareFailedStops ==
  ASSUME NEW a \in Playback, Kept(a), ~a.faulted, NEW h, NEW b \in PrepareFailed(a, h)
  PROVE  Stops(a, b)
<1> DEFINE fault(f, wait) == [a EXCEPT !.faulted = TRUE, !.latest = f, !.pending = (f = "Pll"),
                                       !.clockWait = wait, !.hurt = @ \/ (f # "Pll" /\ ~wait)]
           of(f) == UNION {Stop(fault(f, wait), h) : wait \in ClockWaits(a, f, h)}
<1>0. PrepareFailed(a, h) = UNION {of(f) : f \in AdvanceFailures(a, h)}
  BY Zenon DEF PrepareFailed
<1>1. PICK f \in AdvanceFailures(a, h) : b \in of(f)
  <2> HIDE DEF of
  <2> QED BY <1>0
<1>2. PICK wait \in ClockWaits(a, f, h) : b \in Stop(fault(f, wait), h)
  <2> HIDE DEF fault
  <2> QED BY <1>1
<1>3. f \in {"Other", "PowerUp", "Pll"} /\ f \in Failure
  BY DEF AdvanceFailures, Failure
<1>4. wait \in BOOLEAN
  BY DEF ClockWaits
<1> DEFINE pll == f = "Pll"
           hurt == a.hurt \/ (f # "Pll" /\ ~wait)
           g == [a EXCEPT !.faulted = TRUE, !.latest = f, !.pending = pll,
                          !.clockWait = wait, !.hurt = hurt]
<1>5. pll \in BOOLEAN /\ hurt \in BOOLEAN
  BY <1>3, <1>4 DEF Playback
<1>6. hurt => ~pll /\ ~wait
  BY DEF Kept
<1>7. pll => f # "PowerUp"
  OBVIOUS
<1>8. fault(f, wait) = g
  OBVIOUS
<1> HIDE DEF pll, hurt
<1>9. g \in Playback
  BY <1>3, <1>4, <1>5 DEF Playback
<1>10. /\ g.faulted = TRUE /\ g.latest = f /\ g.pending = pll /\ g.clockWait = wait
       /\ g.hurt = hurt /\ g.audible = a.audible
  BY DEF Playback
<1> HIDE DEF g
<1>11. Stops(a, g) /\ Kept(g)
  BY <1>6, <1>9, <1>10 DEF Stops, Follows, Kept
<1> QED BY <1>2, <1>8, <1>9, <1>11, StopStops, StopsAgain

LEMMA ListenStops ==
  ASSUME NEW a \in Playback, Kept(a), ~a.faulted, NEW h, NEW b \in Listen(a, h)
  PROVE  Stops(a, b)
<1>1. CASE h.clock
  BY <1>1, ItselfStops DEF Listen
<1>2. CASE ~h.clock
  <2> DEFINE lost(sound) == [a EXCEPT !.faulted = TRUE, !.latest = "Pll", !.pending = sound,
                                      !.hurt = @ \/ ~sound]
  <2>1. Listen(a, h) = UNION {Stop(lost(sound), h) : sound \in IF h.well THEN {TRUE} ELSE BOOLEAN}
    BY <1>2, Zenon DEF Listen
  <2>2. PICK sound \in BOOLEAN : b \in Stop(lost(sound), h)
    <3> HIDE DEF lost
    <3> QED BY <2>1
  <2> DEFINE g == lost(sound)
  <2>3. g \in Playback
    BY DEF Playback, Failure
  <2>4. /\ g.faulted = TRUE /\ g.latest = "Pll" /\ g.pending = sound /\ g.clockWait = a.clockWait
        /\ g.hurt = (a.hurt \/ ~sound) /\ g.audible = a.audible
    BY DEF Playback
  <2> HIDE DEF lost
  <2>5. Stops(a, g) /\ Kept(g)
    BY <2>3, <2>4 DEF Stops, Follows, Kept
  <2> QED BY <2>2, <2>3, <2>5, StopStops, StopsAgain
<1> QED BY <1>1, <1>2

LEMMA HealthyStops ==
  ASSUME NEW a \in Playback, Kept(a), ~a.faulted, NEW c, NEW h, NEW b \in Healthy(a, c, h)
  PROVE  Stops(a, b)
<1>1. b = a \/ b \in Stop(Failed(a), h) \/ b \in Listen(a, h) \/ b \in Prepare(a, h)
  BY DEF Healthy
<1>2. ASSUME b \in Stop(Failed(a), h)
      PROVE  Stops(a, b)
  <2>1. Stops(a, Failed(a)) /\ Failed(a) \in Playback /\ Kept(Failed(a))
    BY FailedStops DEF Stops, Follows
  <2> QED BY <2>1, <1>2, StopStops, StopsAgain
<1> QED BY <1>1, <1>2, ItselfStops, ListenStops, AdvanceStops, PrepareFailedStops DEF Prepare

\* A latched fault is forgotten: nothing else was wrong.
LEMMA Forgiven ==
  ASSUME NEW a \in Playback, Kept(a), a.faulted, ~a.hurt, NEW b \in Playback,
         b.hurt = a.hurt, b.audible = a.audible
  PROVE  Follows(a, b) /\ Kept(b)
BY DEF Follows, Kept

LEMMA ZeroAttempts == 0 \in 0..kAttempts
BY DEF kAttempts

LEMMA RouteDeniedFollows ==
  ASSUME NEW a \in Playback, Kept(a), NEW h, NEW b \in RouteDenied(a, h)
  PROVE  Follows(a, b)
<1>1. CASE b \in Stop(a, h)
  BY <1>1, StopStops DEF Stops
<1>2. CASE b = a
  BY <1>2, ItselfStops DEF Stops
<1>3. CASE /\ a.pending /\ a.latest = "Pll"
           /\ b = [a EXCEPT !.faulted = FALSE, !.pending = FALSE, !.recoveries = 0]
  <2>1. ~a.hurt
    BY <1>3 DEF Kept
  <2>2. b \in Playback
    BY <1>3, ZeroAttempts DEF Playback
  <2>3. b.hurt = a.hurt /\ b.audible = a.audible
    BY <1>3 DEF Playback
  <2> QED BY <2>1, <2>2, <2>3 DEF Follows, Kept
<1> QED BY <1>1, <1>2, <1>3 DEF RouteDenied

LEMMA FaultedFollows ==
  ASSUME NEW a \in Playback, Kept(a), NEW c, NEW h, NEW b \in Faulted(a, c, h)
  PROVE  Follows(a, b)
<1> DEFINE count == a.recoveries + 1
           open == [a EXCEPT !.faulted = FALSE, !.pending = FALSE, !.cleanups = 0,
                             !.recoveries = count]
<1>1. CASE b \in Stop(a, h)
  BY <1>1, StopStops DEF Stops
<1>2. CASE b \in {a, Failed(a)}
  BY <1>2, ItselfStops, FailedStops DEF Stops
<1>3. CASE CanRecover(a, c) /\ b \in Healthy(open, c, h)
  <2>1. ~a.hurt
    BY <1>3 DEF CanRecover, Kept
  <2>2. count \in 0..kAttempts /\ 0 \in 0..kAttempts
    BY <1>3 DEF CanRecover, Playback, kAttempts
  <2> HIDE DEF count
  <2>3. open \in Playback
    BY <2>2 DEF Playback
  <2>4. open.hurt = a.hurt /\ open.faulted = FALSE /\ open.audible = a.audible
    BY DEF Playback
  <2> HIDE DEF open
  <2>5. Stops(open, b) /\ Follows(a, open)
    BY <1>3, <2>1, <2>3, <2>4, HealthyStops DEF Follows, Kept
  <2> QED BY <2>5, StopsAgain
<1>4. \/ b \in Stop(a, h) \/ b \in {a, Failed(a)}
      \/ CanRecover(a, c) /\ b \in Healthy(open, c, h)
  <2>0. Faulted(a, c, h) =
          CASE a.active /\ a.cleanups < kAttempts -> Stop(a, h)
            [] CanRecover(a, c) ->
                 (IF ProtectionBad(h) THEN {Failed(a)} ELSE {})
                 \union IF ProtectionOk(h) THEN Healthy(open, c, h) ELSE {}
            [] OTHER -> {a}
    BY DEF Faulted
  <2> HIDE DEF open
  <2>1. CASE a.active /\ a.cleanups < kAttempts /\ CanRecover(a, c)
    BY <2>1 DEF CanRecover
  <2>2. CASE a.active /\ a.cleanups < kAttempts /\ ~CanRecover(a, c)
    BY <2>0, <2>2
  <2>3. CASE ~(a.active /\ a.cleanups < kAttempts) /\ CanRecover(a, c)
    BY <2>0, <2>3
  <2>4. CASE ~(a.active /\ a.cleanups < kAttempts) /\ ~CanRecover(a, c)
    BY <2>0, <2>4
  <2> QED BY <2>1, <2>2, <2>3, <2>4
<1> QED BY <1>1, <1>2, <1>3, <1>4

\* One sweep of the monitor over one amplifier.
LEMMA TickFollows ==
  ASSUME NEW a \in Playback, Kept(a), NEW c, NEW h, NEW b \in Tick(a, c, h)
  PROVE  Follows(a, b)
<1>1. \/ b \in Stop(a, h) \/ b \in RouteDenied(a, h) \/ b \in Faulted(a, c, h)
      \/ ~a.faulted /\ b \in Healthy(a, c, h)
  BY DEF Tick
<1> QED BY <1>1, StopStops, RouteDeniedFollows, FaultedFollows, HealthyStops DEF Stops

LEMMA InvalidatedStops ==
  ASSUME NEW a \in Playback, Kept(a), ~a.faulted, NEW h, NEW b \in Invalidated(a, h)
  PROVE  Stops(a, b)
<1> DEFINE lost == [a EXCEPT !.faulted = TRUE, !.pending = TRUE, !.latest = "Pll"]
<1>1. b = a \/ b = Failed(a) \/ b = lost
  BY DEF Invalidated
<1>2. lost \in Playback
  BY DEF Playback, Failure
<1>3. lost.faulted = TRUE /\ lost.hurt = a.hurt /\ lost.audible = a.audible
  BY DEF Playback
<1> HIDE DEF lost
<1>4. Stops(a, lost)
  BY <1>2, <1>3 DEF Stops, Follows, Kept
<1> QED BY <1>1, <1>4, ItselfStops, FailedStops

LEMMA CancelStops ==
  ASSUME NEW a \in Playback, Kept(a), NEW h, NEW b \in CancelPlayback(a, h)
  PROVE  Stops(a, b)
BY StopStops, ItselfStops DEF CancelPlayback

\* Only the commit unmutes, and what it unmutes has no fault.
LEMMA CommittedKeeps ==
  ASSUME NEW a \in Playback, ~a.faulted, Kept(a)
  PROVE  /\ Committed(a) \in Playback /\ Kept(Committed(a))
         /\ Committed(a).phase = "Active" /\ ~Committed(a).faulted
         /\ Committed(a).fresh = a.fresh
<1> DEFINE c == [a EXCEPT !.phase = "Active", !.waited = 0, !.active = TRUE, !.audible = TRUE,
                          !.recoveries = 0, !.pending = FALSE]
<1>1. 0 \in 0..kAttempts
  BY DEF kAttempts
<1>2. c \in Playback
  BY <1>1, ZeroWaited DEF Playback
<1>3. c.phase = "Active" /\ c.faulted = a.faulted /\ c.fresh = a.fresh /\ c.hurt = a.hurt
  BY DEF Playback
<1>4. Committed(a) = c
  BY DEF Committed
<1> HIDE DEF c
<1> QED BY <1>2, <1>3, <1>4 DEF Kept

LEMMA CommitFailedKeeps ==
  ASSUME NEW a \in Playback, NEW h, NEW b \in CommitFailed(a, h)
  PROVE  b \in Playback /\ Kept(b)
<1> DEFINE f == Failed(a)
<1>1. f \in Playback /\ f.latest = "Other" /\ f.faulted = TRUE
  BY DEF Failed, Playback, Failure
<1>2. a.audible \in BOOLEAN
  BY DEF Playback
<1>3. CommitFailed(a, h) = {[f EXCEPT !.audible = still] : still \in IF h.well THEN {a.audible} ELSE BOOLEAN}
  BY DEF CommitFailed
<1> HIDE DEF f
<1>4. PICK still \in BOOLEAN : b = [f EXCEPT !.audible = still]
  BY <1>2, <1>3
<1> QED BY <1>1, <1>4 DEF Playback, Kept

-----------------------------------------------------------------------------
(* What an operation does to all of them *)

Keep(as) == as \in [Amp -> Playback] /\ \A x \in Amp : Kept(as[x])

LEMMA ChoicesPick ==
  ASSUME NEW S, NEW f \in Choices(S)
  PROVE  DOMAIN f = Amp /\ f = [x \in Amp |-> f[x]] /\ \A x \in Amp : f[x] \in S[x]
BY DEF Choices

\* One result of every amplifier.
LEMMA ChoicesFollow ==
  ASSUME NEW as, NEW S, NEW bs \in Choices(S),
         \A x \in Amp : \A b \in S[x] : Follows(as[x], b)
  PROVE  Keep(bs) /\ \A x \in Amp : Follows(as[x], bs[x])
<1>1. \A x \in Amp : Follows(as[x], bs[x])
  BY ChoicesPick
<1>2. \A x \in Amp : bs[x] \in Playback /\ Kept(bs[x])
  BY <1>1 DEF Follows
<1>3. bs \in [Amp -> Playback]
  BY <1>2, ChoicesPick
<1> QED BY <1>1, <1>2, <1>3 DEF Keep

LEMMA CancelledStops ==
  ASSUME NEW as, Keep(as), NEW bs \in Cancelled(as)
  PROVE  Keep(bs) /\ \A x \in Amp : Stops(as[x], bs[x])
<1> DEFINE S == [x \in Amp |-> CancelPlayback(as[x], ChipOf(x))]
<1>1. bs \in Choices(S)
  BY DEF Cancelled
<1>2. ASSUME NEW x \in Amp
      PROVE  bs[x] \in CancelPlayback(as[x], ChipOf(x))
  <2>1. S[x] = CancelPlayback(as[x], ChipOf(x))
    OBVIOUS
  <2> HIDE DEF S
  <2>2. bs[x] \in S[x]
    BY <1>1, ChoicesPick
  <2> QED BY <2>1, <2>2
<1>3. ASSUME NEW x \in Amp
      PROVE  Stops(as[x], bs[x])
  BY <1>2, CancelStops DEF Keep
<1>4. \A x \in Amp : bs[x] \in Playback /\ Kept(bs[x])
  BY <1>3 DEF Stops, Follows
<1>5. bs \in [Amp -> Playback]
  <2> HIDE DEF S
  <2> QED BY <1>1, <1>4, ChoicesPick
<1> QED BY <1>3, <1>4, <1>5 DEF Keep

\* What was read or is unmuted goes stale with the route.
LEMMA StaleKeeps ==
  ASSUME NEW a \in Playback, Kept(a)
  PROVE  LET b == [a EXCEPT !.fresh = FALSE]
         IN /\ Stops(a, b) /\ b \in Playback /\ b.fresh = FALSE
            /\ b.phase = a.phase /\ b.shutdown = a.shutdown /\ b.faulted = a.faulted
<1> DEFINE b == [a EXCEPT !.fresh = FALSE]
<1>1. b \in Playback
  BY DEF Playback
<1>2. Stops(a, b)
  BY <1>1, MovesStop DEF Playback
<1> QED BY <1>1, <1>2 DEF Playback

LEMMA StaleFollows ==
  ASSUME Keep(amp)
  PROVE  /\ Keep(Stale(amp))
         /\ \A x \in Amp : /\ Stops(amp[x], Stale(amp)[x])
                           /\ ~Stale(amp)[x].fresh
                           /\ Stale(amp)[x].phase = amp[x].phase
                           /\ Stale(amp)[x].shutdown = amp[x].shutdown
                           /\ Stale(amp)[x].faulted = amp[x].faulted
<1>1. \A x \in Amp : Stale(amp)[x] = [amp[x] EXCEPT !.fresh = FALSE]
  BY DEF Stale
<1>2. ASSUME NEW x \in Amp
      PROVE  /\ Stops(amp[x], Stale(amp)[x]) /\ Stale(amp)[x] \in Playback
             /\ ~Stale(amp)[x].fresh
             /\ Stale(amp)[x].phase = amp[x].phase
             /\ Stale(amp)[x].shutdown = amp[x].shutdown
             /\ Stale(amp)[x].faulted = amp[x].faulted
  BY <1>1, StaleKeeps DEF Keep
<1>3. Stale(amp) \in [Amp -> Playback]
  BY <1>2 DEF Stale
<1> QED BY <1>2, <1>3 DEF Keep, Stops, Follows

-----------------------------------------------------------------------------
(* The steps *)

\* No amplifier is unmuted, and no latch opens that should not.
Follow == Keep(amp') /\ \A x \in Amp : Follows(amp[x], amp'[x])

WorldOK ==
  /\ route \in Routes /\ stream \in {"None", "Good"}
  /\ well \in [Amp -> BOOLEAN] /\ clock \in [Amp -> BOOLEAN] /\ trip \in [Amp -> BOOLEAN]
  /\ changes \in 0..MaxChanges /\ upsets \in 0..MaxUpsets
  /\ trips \in 0..MaxTrips /\ losses \in 0..MaxLosses

RunOK ==
  /\ timer \in BOOLEAN /\ event \in BOOLEAN /\ irq \in BOOLEAN
  /\ group \in {"Up", "Faulted"}
  /\ pc \in {"Idle", "Validate", "Commit", "Revalidate"} /\ next \in Amp
  /\ run \in [known : BOOLEAN, permits : BOOLEAN, same : BOOLEAN]

LEMMA Parts ==
  IInv <=> /\ Keep(amp) /\ WorldOK /\ RunOK
           /\ WorkIsPolled /\ Progress /\ (irq => Interrupts)
BY DEF IInv, TypeOK, Keep, WorldOK, RunOK

LEMMA PartsNext ==
  IInv' <=> /\ Keep(amp)' /\ WorldOK' /\ RunOK'
            /\ WorkIsPolled' /\ Progress' /\ (irq' => Interrupts)
BY DEF IInv, TypeOK, Keep, WorldOK, RunOK

\* What the two action properties ask of a step that follows.
LEMMA FollowIsSilent ==
  ASSUME Follow
  PROVE  /\ \A x \in Amp : amp'[x].audible => amp[x].audible
         /\ \A x \in Amp : amp[x].faulted /\ ~amp'[x].faulted => ~amp[x].hurt
BY DEF Follow, Follows

LEMMA StillFollows ==
  ASSUME Keep(amp), amp' = amp
  PROVE  Follow
BY ItselfStops DEF Follow, Keep, Stops

LEMMA WorldStays ==
  ASSUME WorldOK, UNCHANGED world
  PROVE  WorldOK'
BY DEF WorldOK, world

LEMMA FirstAmp == 1 \in Amp
BY PairAssumption DEF Amp

\* The end of a run leaves the timer armed for the work that is in progress.
LEMMA EndedKeeps ==
  ASSUME NEW as, NEW r \in [known : BOOLEAN, permits : BOOLEAN, same : BOOLEAN], Ended(as, r)
  PROVE  timer' \in BOOLEAN /\ pc' = "Idle" /\ next' \in Amp /\ WorkIsPolled' /\ Progress'
<1>1. amp' = as /\ timer' = Rearm(as, r) /\ pc' = "Idle" /\ next' = 1
  BY DEF Ended
<1>2. timer' \in BOOLEAN
  BY <1>1 DEF Rearm
<1>3. WorkIsPolled'
  BY <1>1 DEF WorkIsPolled, Rearm
<1>4. Progress'
  BY <1>1 DEF Progress
<1> QED BY <1>1, <1>2, <1>3, <1>4, FirstAmp

LEMMA EndedCancellingKeeps ==
  ASSUME RunOK, NEW as, Keep(as), EndedCancelling(as)
  PROVE  /\ timer' \in BOOLEAN /\ pc' = "Idle" /\ next' \in Amp /\ WorkIsPolled' /\ Progress'
         /\ Keep(amp') /\ \A x \in Amp : Stops(as[x], amp'[x])
<1>1. PICK after \in Cancelled(as) : Ended(after, run)
  BY DEF EndedCancelling
<1>2. timer' \in BOOLEAN /\ pc' = "Idle" /\ next' \in Amp /\ WorkIsPolled' /\ Progress'
  BY <1>1, EndedKeeps DEF RunOK
<1>3. amp' = after
  BY <1>1 DEF Ended
<1> QED BY <1>1, <1>2, <1>3, CancelledStops

LEMMA ChangeRouteStep ==
  ASSUME IInv, ChangeRoute
  PROVE  IInv' /\ Follow
<1>1. /\ changes < MaxChanges /\ changes' = changes + 1 /\ route' \in Routes
      /\ amp' = Stale(amp) /\ event' = TRUE /\ run' = [run EXCEPT !.same = FALSE]
      /\ stream' = stream /\ well' = well /\ clock' = clock /\ trip' = trip /\ upsets' = upsets
      /\ trips' = trips /\ losses' = losses /\ timer' = timer /\ irq' = irq /\ group' = group
      /\ pc' = pc /\ next' = next
  BY DEF ChangeRoute
<1>2. Keep(amp) /\ WorldOK /\ RunOK /\ Progress /\ (irq => Interrupts)
  BY Parts
<1>3. Keep(amp)' /\ Follow
  BY <1>1, <1>2, StaleFollows DEF Follow, Stops, Keep
<1>4. changes' \in 0..MaxChanges
  BY <1>1, <1>2, PairAssumption DEF WorldOK
<1>5. WorldOK'
  BY <1>1, <1>2, <1>4 DEF WorldOK
<1>6. RunOK'
  BY <1>1, <1>2 DEF RunOK
<1>7. WorkIsPolled'
  BY <1>1 DEF WorkIsPolled
<1>8. Progress'
  BY <1>1, <1>2, StaleFollows DEF Progress
<1> QED BY <1>1, <1>2, <1>3, <1>5, <1>6, <1>7, <1>8, PartsNext

LEMMA ChangeStreamStep ==
  ASSUME IInv, ChangeStream
  PROVE  IInv' /\ Follow
<1>1. /\ changes < MaxChanges /\ changes' = changes + 1 /\ stream' \in {"None", "Good"}
      /\ amp' \in {amp, Stale(amp)}
      /\ route' = route /\ well' = well /\ clock' = clock /\ trip' = trip /\ upsets' = upsets
      /\ trips' = trips /\ losses' = losses /\ timer' = timer /\ event' = event /\ irq' = irq
      /\ group' = group /\ pc' = pc /\ next' = next /\ run' = run
  BY DEF ChangeStream
<1>2. Keep(amp) /\ WorldOK /\ RunOK /\ Progress /\ WorkIsPolled /\ (irq => Interrupts)
  BY Parts
<1>3. Keep(amp)' /\ Follow
  BY <1>1, <1>2, StaleFollows, StillFollows DEF Follow, Stops, Keep
<1>4. changes' \in 0..MaxChanges
  BY <1>1, <1>2, PairAssumption DEF WorldOK
<1>5. WorldOK'
  BY <1>1, <1>2, <1>4 DEF WorldOK
<1>6. RunOK'
  BY <1>1, <1>2 DEF RunOK
<1>7. WorkIsPolled'
  <2>1. ASSUME NEW x \in Amp
        PROVE  PlaybackPending(amp'[x]) = PlaybackPending(amp[x])
    BY <1>1, <1>2, StaleFollows DEF PlaybackPending, Preparing, Cleaning
  <2> QED BY <1>1, <1>2, <2>1 DEF WorkIsPolled
<1>8. Progress'
  <2>1. CASE amp' = amp
    BY <1>1, <1>2, <2>1 DEF Progress
  <2>2. CASE amp' = Stale(amp)
    BY <1>1, <1>2, <2>2, StaleFollows DEF Progress
  <2> QED BY <1>1, <2>1, <2>2
<1> QED BY <1>1, <1>2, <1>3, <1>5, <1>6, <1>7, <1>8, PartsNext

LEMMA ChipChangeStep ==
  ASSUME IInv, ChipChange
  PROVE  IInv' /\ Follow
<1>1. /\ timer' = timer /\ event' = event /\ irq' = irq /\ group' = group /\ pc' = pc
      /\ next' = next /\ run' = run
  BY DEF ChipChange
<1>2. Keep(amp) /\ WorldOK /\ RunOK /\ Progress /\ WorkIsPolled /\ (irq => Interrupts)
  BY Parts
<1>3. PICK x \in Amp : BreakBus(x) \/ Trip(x) \/ LoseClock(x) \/ Heal(x)
  BY DEF ChipChange
<1>4. amp' = amp
  BY <1>3 DEF BreakBus, Trip, LoseClock, Heal
<1>5. WorldOK'
  <2>1. CASE BreakBus(x)
    BY <1>2, <2>1, PairAssumption DEF WorldOK, BreakBus
  <2>2. CASE Trip(x)
    BY <1>2, <2>2, PairAssumption DEF WorldOK, Trip
  <2>3. CASE LoseClock(x)
    BY <1>2, <2>3, PairAssumption DEF WorldOK, LoseClock
  <2>4. CASE Heal(x)
    BY <1>2, <2>4 DEF WorldOK, Heal
  <2> QED BY <1>3, <2>1, <2>2, <2>3, <2>4
<1>6. Keep(amp)' /\ Follow
  BY <1>2, <1>4, StillFollows DEF Keep
<1>7. RunOK' /\ WorkIsPolled' /\ Progress'
  BY <1>1, <1>2, <1>4 DEF RunOK, WorkIsPolled, Progress
<1> QED BY <1>1, <1>2, <1>5, <1>6, <1>7, PartsNext

\* A sweep of the monitor: every amplifier is ready, or the run is over.
LEMMA MonitorStep ==
  ASSUME IInv, Monitor, pc = "Idle"
  PROVE  /\ Keep(amp)' /\ Follow /\ timer' \in BOOLEAN /\ run' \in [known : BOOLEAN, permits : BOOLEAN, same : BOOLEAN]
         /\ pc' \in {"Idle", "Validate"} /\ next' \in Amp /\ WorkIsPolled' /\ Progress'
<1> DEFINE c == Context
           r == [known |-> c.known, permits |-> c.permits, same |-> TRUE]
           S == [x \in Amp |-> Tick(amp[x], c, ChipOf(x))]
<1>1. Keep(amp)
  BY Parts
<1>2. r \in [known : BOOLEAN, permits : BOOLEAN, same : BOOLEAN]
  BY DEF Context, Known, Permits
<1>3. run' = r
  BY DEF Monitor
<1>4. PICK ticked \in Choices(S) :
        \/ /\ AllPrepared(ticked) /\ amp' = ticked
           /\ pc' = "Validate" /\ next' = 1 /\ timer' = FALSE
        \/ \E after \in Cancelled(ticked) \union {ticked} : Ended(after, r)
  BY DEF Monitor
<1>5. ASSUME NEW x \in Amp, NEW b \in S[x]
      PROVE  Follows(amp[x], b)
  BY <1>1, TickFollows DEF Keep
<1> HIDE DEF c, r, S
<1>6. Keep(ticked) /\ \A x \in Amp : Follows(amp[x], ticked[x])
  BY <1>5, ChoicesFollow
<1>7. CASE AllPrepared(ticked) /\ amp' = ticked /\ pc' = "Validate" /\ next' = 1 /\ timer' = FALSE
  <2>1. Progress'
    BY <1>7, FirstAmp DEF Progress, AllPrepared, PlaybackPrepared, Amp
  <2>2. WorkIsPolled'
    BY <1>7 DEF WorkIsPolled
  <2> QED BY <1>2, <1>3, <1>6, <1>7, <2>1, <2>2, FirstAmp DEF Follow, Keep
<1>8. CASE \E after \in Cancelled(ticked) \union {ticked} : Ended(after, r)
  <2>1. PICK after \in Cancelled(ticked) \union {ticked} : Ended(after, r)
    BY <1>8
  <2>2. amp' = after
    BY <2>1 DEF Ended
  <2>3. Keep(after) /\ \A x \in Amp : Follows(amp[x], after[x])
    BY <1>6, <2>1, CancelledStops, StopsAgain
  <2> QED BY <1>2, <1>3, <2>1, <2>2, <2>3, EndedKeeps DEF Follow, Keep
<1> QED BY <1>4, <1>7, <1>8

LEMMA RunStep ==
  ASSUME IInv, Run
  PROVE  IInv' /\ Follow
<1>1. /\ pc = "Idle" /\ event' = FALSE /\ UNCHANGED world /\ irq' = irq /\ group' = group
      /\ IF group = "Up" THEN Monitor ELSE timer' = FALSE /\ UNCHANGED <<amp, pc, next, run>>
  BY DEF Run
<1>2. Keep(amp) /\ WorldOK /\ RunOK /\ Progress /\ (irq => Interrupts)
  BY Parts
<1>3. WorldOK'
  BY <1>1, <1>2, WorldStays
<1>4. CASE group = "Up"
  <2>1. /\ Keep(amp)' /\ Follow /\ timer' \in BOOLEAN
        /\ run' \in [known : BOOLEAN, permits : BOOLEAN, same : BOOLEAN]
        /\ pc' \in {"Idle", "Validate"} /\ next' \in Amp /\ WorkIsPolled' /\ Progress'
    BY <1>1, <1>4, MonitorStep
  <2>2. RunOK'
    BY <1>1, <1>2, <2>1 DEF RunOK
  <2> QED BY <1>1, <1>2, <1>3, <2>1, <2>2, PartsNext
<1>5. CASE group # "Up"
  <2>1. Keep(amp)' /\ Follow
    BY <1>1, <1>2, <1>5, StillFollows DEF Keep
  <2>2. RunOK' /\ WorkIsPolled' /\ Progress'
    BY <1>1, <1>2, <1>5 DEF RunOK, WorkIsPolled, Progress
  <2> QED BY <1>1, <1>2, <1>3, <2>1, <2>2, PartsNext
<1> QED BY <1>4, <1>5

\* Another amplifier of the group, the others as they were.
LEMMA OneMore ==
  ASSUME Keep(amp), NEW x \in Amp, NEW a \in Playback, Kept(a)
  PROVE  Keep([amp EXCEPT ![x] = a])
BY DEF Keep

LEMMA ValidateStep ==
  ASSUME IInv, Validate
  PROVE  IInv' /\ Follow
<1>1. /\ pc = "Validate" /\ UNCHANGED world /\ event' = event /\ irq' = irq /\ group' = group
      /\ run' = run
      /\ \/ EndedCancelling(amp)
         \/ IsValid(amp[next], ChipOf(next)) /\ Advanced("Commit") /\ UNCHANGED <<amp, timer>>
         \/ \E a \in Invalidated(amp[next], ChipOf(next)) : EndedCancelling([amp EXCEPT ![next] = a])
  BY DEF Validate
<1>2. Keep(amp) /\ WorldOK /\ RunOK /\ Progress /\ WorkIsPolled /\ (irq => Interrupts)
  BY Parts
<1>3. WorldOK'
  BY <1>1, <1>2, WorldStays
<1>4. next \in Amp /\ amp[next] \in Playback /\ Kept(amp[next]) /\ ~amp[next].faulted
  BY <1>1, <1>2 DEF RunOK, Keep, Progress
<1>5. ASSUME NEW as, Keep(as), \A x \in Amp : Stops(amp[x], as[x]), EndedCancelling(as)
      PROVE  IInv' /\ Follow
  <2>1. /\ timer' \in BOOLEAN /\ pc' = "Idle" /\ next' \in Amp /\ WorkIsPolled' /\ Progress'
        /\ Keep(amp') /\ \A x \in Amp : Stops(as[x], amp'[x])
    BY <1>2, <1>5, EndedCancellingKeeps
  <2>2. RunOK'
    BY <1>1, <1>2, <2>1 DEF RunOK
  <2>3. Follow
    BY <1>5, <2>1, StopsAgain DEF Follow, Stops
  <2> QED BY <1>1, <1>2, <1>3, <2>1, <2>2, <2>3, PartsNext DEF Keep
<1>6. CASE EndedCancelling(amp)
  BY <1>2, <1>5, <1>6, ItselfStops DEF Keep
<1>7. CASE IsValid(amp[next], ChipOf(next)) /\ Advanced("Commit") /\ UNCHANGED <<amp, timer>>
  <2>1. amp[next].fresh
    BY <1>7 DEF IsValid
  <2>2. \A x \in Amp : x < next => amp[x].fresh
    BY <1>1, <1>2, <1>4, <2>1 DEF Progress
  <2>3. \/ next < N /\ next' = next + 1 /\ pc' = pc
        \/ ~(next < N) /\ next' = 1 /\ pc' = "Commit"
    BY <1>7 DEF Advanced
  <2>4. next' \in Amp
    BY <1>4, <2>3, PairAssumption DEF Amp
  <2>5. RunOK'
    BY <1>1, <1>2, <1>7, <2>3, <2>4 DEF RunOK
  <2>6. Keep(amp)' /\ Follow
    BY <1>2, <1>7, StillFollows DEF Keep
  <2>7. WorkIsPolled'
    BY <1>1, <2>3 DEF WorkIsPolled
  <2>8. Progress'
    <3>1. CASE next < N /\ next' = next + 1 /\ pc' = pc
      <4>1. \A x \in Amp : x < next' => amp[x].fresh
        BY <1>4, <2>1, <2>2, <3>1, PairAssumption DEF Amp
      <4> QED BY <1>1, <1>2, <1>7, <3>1, <4>1 DEF Progress
    <3>2. CASE ~(next < N) /\ next' = 1 /\ pc' = "Commit"
      <4>1. \A x \in Amp : amp[x].fresh
        BY <1>4, <2>1, <2>2, <3>2, PairAssumption DEF Amp
      <4> QED BY <1>1, <1>2, <1>7, <3>2, <4>1 DEF Progress
    <3> QED BY <2>3, <3>1, <3>2
  <2> QED BY <1>1, <1>2, <1>3, <2>5, <2>6, <2>7, <2>8, PartsNext
<1>8. CASE \E a \in Invalidated(amp[next], ChipOf(next)) : EndedCancelling([amp EXCEPT ![next] = a])
  <2>1. PICK a \in Invalidated(amp[next], ChipOf(next)) : EndedCancelling([amp EXCEPT ![next] = a])
    BY <1>8
  <2> DEFINE as == [amp EXCEPT ![next] = a]
  <2>2. Stops(amp[next], a) /\ a \in Playback /\ Kept(a)
    BY <1>4, InvalidatedStops DEF Stops, Follows
  <2>3. Keep(as)
    BY <1>2, <1>4, <2>2, OneMore
  <2>4. \A x \in Amp : Stops(amp[x], as[x])
    BY <1>2, <1>4, <2>2, ItselfStops DEF Keep
  <2> HIDE DEF as
  <2> QED BY <1>5, <2>1, <2>3, <2>4 DEF as
<1> QED BY <1>1, <1>6, <1>7, <1>8

\* What the action properties say of a step.
Together ==
  \A x, y \in Amp : ~amp[x].audible /\ amp'[x].audible =>
    /\ amp[y].phase \in {"Prepared", "Active"}
    /\ amp[y].fresh /\ ~amp[y].faulted

Forgiving == \A x \in Amp : amp[x].faulted /\ ~amp'[x].faulted => ~amp[x].hurt

LEMMA FollowHolds ==
  ASSUME Follow
  PROVE  Together /\ Forgiving
BY FollowIsSilent DEF Together, Forgiving

\* The only step that unmutes: all were prepared for this route and stream.
LEMMA CommitStep ==
  ASSUME IInv, Commit
  PROVE  IInv' /\ Together /\ Forgiving
<1>1. /\ pc = "Commit" /\ UNCHANGED world /\ event' = event /\ irq' = irq /\ run' = run
      /\ \/ EndedCancelling(amp) /\ UNCHANGED group
         \/ /\ amp[next].fresh
            /\ amp' = [amp EXCEPT ![next] = Committed(@)]
            /\ Advanced("Revalidate") /\ UNCHANGED <<timer, group>>
         \/ /\ amp[next].fresh
            /\ \E a \in CommitFailed(amp[next], ChipOf(next)) : FailGroup([amp EXCEPT ![next] = a])
  BY DEF Commit, StartCancelled
<1>2. Keep(amp) /\ WorldOK /\ RunOK /\ Progress /\ WorkIsPolled /\ (irq => Interrupts)
  BY Parts
<1>3. WorldOK'
  BY <1>1, <1>2, WorldStays
<1>4. next \in Amp /\ amp[next] \in Playback /\ Kept(amp[next]) /\ ~amp[next].faulted
  BY <1>1, <1>2 DEF RunOK, Keep, Progress
<1>5. \A x \in Amp : amp[x].phase \in {"Prepared", "Active"} /\ ~amp[x].faulted
  BY <1>1, <1>2 DEF Progress
<1>6. ASSUME amp[next].fresh
      PROVE  Together /\ Forgiving /\ \A x \in Amp : amp[x].fresh
  <2>1. \A x \in Amp : amp[x].fresh
    BY <1>1, <1>2, <1>4, <1>6 DEF Progress
  <2> QED BY <1>5, <2>1 DEF Together, Forgiving
<1>7. CASE EndedCancelling(amp) /\ UNCHANGED group
  <2>1. /\ timer' \in BOOLEAN /\ pc' = "Idle" /\ next' \in Amp /\ WorkIsPolled' /\ Progress'
        /\ Keep(amp') /\ \A x \in Amp : Stops(amp[x], amp'[x])
    BY <1>2, <1>7, EndedCancellingKeeps
  <2>2. RunOK'
    BY <1>1, <1>2, <1>7, <2>1 DEF RunOK
  <2>3. Follow
    BY <2>1 DEF Follow, Stops
  <2> QED BY <1>1, <1>2, <1>3, <2>1, <2>2, <2>3, FollowHolds, PartsNext DEF Keep
<1>8. CASE /\ amp[next].fresh
           /\ amp' = [amp EXCEPT ![next] = Committed(@)]
           /\ Advanced("Revalidate") /\ UNCHANGED <<timer, group>>
  <2>1. \/ next < N /\ next' = next + 1 /\ pc' = pc
        \/ ~(next < N) /\ next' = 1 /\ pc' = "Revalidate"
    BY <1>8 DEF Advanced
  <2>2. next' \in Amp
    BY <1>4, <2>1, PairAssumption DEF Amp
  <2>3. RunOK'
    BY <1>1, <1>2, <1>8, <2>1, <2>2 DEF RunOK
  <2> DEFINE a == Committed(amp[next])
  <2>4. a \in Playback /\ Kept(a) /\ a.phase = "Active" /\ ~a.faulted /\ a.fresh = amp[next].fresh
    BY <1>4, CommittedKeeps
  <2>5. amp' = [amp EXCEPT ![next] = a]
    BY <1>8
  <2> HIDE DEF a
  <2>6. Keep(amp)'
    BY <1>2, <1>4, <2>4, <2>5, OneMore DEF Keep
  <2>7. WorkIsPolled'
    BY <1>1, <2>1 DEF WorkIsPolled
  <2>8. \A x \in Amp : amp'[x].phase \in {"Prepared", "Active"} /\ ~amp'[x].faulted /\ amp'[x].fresh
    BY <1>2, <1>4, <1>5, <1>6, <1>8, <2>4, <2>5 DEF Keep
  <2>9. Progress'
    BY <1>1, <2>1, <2>8 DEF Progress
  <2> QED BY <1>1, <1>2, <1>3, <1>6, <1>8, <2>3, <2>6, <2>7, <2>9, PartsNext
<1>9. CASE /\ amp[next].fresh
           /\ \E a \in CommitFailed(amp[next], ChipOf(next)) : FailGroup([amp EXCEPT ![next] = a])
  <2>1. PICK a \in CommitFailed(amp[next], ChipOf(next)) : FailGroup([amp EXCEPT ![next] = a])
    BY <1>9
  <2> DEFINE as == [amp EXCEPT ![next] = a]
  <2>2. Keep(as)
    BY <1>2, <1>4, CommitFailedKeeps, OneMore
  <2> HIDE DEF as
  <2>3. FailGroup(as)
    BY <2>1 DEF as
  <2>4. PICK ok \in [Amp -> BOOLEAN] : Ended([x \in Amp |-> StopNow(as[x], ok[x])], run)
    BY <2>3 DEF FailGroup
  <2> DEFINE after == [x \in Amp |-> StopNow(as[x], ok[x])]
  <2>5. timer' \in BOOLEAN /\ pc' = "Idle" /\ next' \in Amp /\ WorkIsPolled' /\ Progress'
    BY <1>2, <2>4, EndedKeeps DEF RunOK
  <2>6. ASSUME NEW x \in Amp
        PROVE  after[x] \in Playback /\ Kept(after[x])
    BY <2>2, StopNowStops DEF Keep, Stops, Follows
  <2>7. Keep(after)
    BY <2>6 DEF Keep
  <2>8. amp' = after
    BY <2>4 DEF Ended
  <2> HIDE DEF after
  <2>9. Keep(amp)'
    BY <2>7, <2>8 DEF Keep
  <2>10. group' = "Faulted"
    BY <2>3 DEF FailGroup
  <2>11. RunOK'
    BY <1>1, <1>2, <2>5, <2>10 DEF RunOK
  <2> QED BY <1>1, <1>2, <1>3, <1>6, <1>9, <2>5, <2>9, <2>11, PartsNext
<1> QED BY <1>1, <1>7, <1>8, <1>9

LEMMA RevalidateStep ==
  ASSUME IInv, Revalidate
  PROVE  IInv' /\ Follow
<1>1. /\ pc = "Revalidate" /\ UNCHANGED world /\ event' = event /\ irq' = irq /\ group' = group
      /\ run' = run /\ (Ended(amp, run) \/ EndedCancelling(amp))
  BY DEF Revalidate
<1>2. Keep(amp) /\ WorldOK /\ RunOK /\ (irq => Interrupts)
  BY Parts
<1>3. WorldOK'
  BY <1>1, <1>2, WorldStays
<1>4. /\ timer' \in BOOLEAN /\ pc' = "Idle" /\ next' \in Amp /\ WorkIsPolled' /\ Progress'
      /\ Keep(amp') /\ Follow
  <2>1. CASE Ended(amp, run)
    <3>1. amp' = amp
      BY <2>1 DEF Ended
    <3> QED BY <1>2, <2>1, <3>1, EndedKeeps, StillFollows DEF RunOK
  <2>2. CASE EndedCancelling(amp)
    BY <1>2, <2>2, EndedCancellingKeeps DEF Follow, Stops
  <2> QED BY <1>1, <2>1, <2>2
<1>5. RunOK'
  BY <1>1, <1>2, <1>4 DEF RunOK
<1> QED BY <1>1, <1>2, <1>3, <1>4, <1>5, PartsNext DEF Keep

LEMMA InterruptStep ==
  ASSUME IInv, Interrupt
  PROVE  IInv' /\ Follow
<1>1. /\ pc = "Idle" /\ irq /\ irq' = FALSE /\ UNCHANGED world /\ timer' = timer /\ event' = event
      /\ group' = group /\ pc' = pc /\ next' = next /\ run' = run
  BY DEF Interrupt
<1>2. Keep(amp) /\ WorldOK /\ RunOK /\ Progress /\ (irq => Interrupts)
  BY Parts
<1>3. WorldOK'
  BY <1>1, <1>2, WorldStays
<1>4. PICK sick \in SUBSET Amp :
        LET seen == [x \in Amp |-> IF x \in sick THEN Failed(amp[x]) ELSE amp[x]]
        IN amp' \in Cancelled(seen) \union {seen}
  BY DEF Interrupt
<1> DEFINE seen == [x \in Amp |-> IF x \in sick THEN Failed(amp[x]) ELSE amp[x]]
<1>5. ASSUME NEW x \in Amp
      PROVE  Stops(amp[x], seen[x])
  BY <1>2, ItselfStops, FailedStops DEF Keep
<1>6. \A x \in Amp : seen[x] \in Playback /\ Kept(seen[x])
  BY <1>5 DEF Stops, Follows
<1>7. Keep(seen)
  BY <1>6 DEF Keep
<1> HIDE DEF seen
<1>8. amp' \in Cancelled(seen) \union {seen}
  BY <1>4 DEF seen
<1>9. Keep(amp') /\ \A x \in Amp : Stops(amp[x], amp'[x])
  BY <1>5, <1>7, <1>8, CancelledStops, StopsAgain
<1>10. Keep(amp)' /\ Follow
  BY <1>9 DEF Keep, Follow, Stops
<1>11. RunOK'
  BY <1>1, <1>2 DEF RunOK
<1>12. WorkIsPolled'
  BY <1>1, <1>2 DEF WorkIsPolled
<1>13. Progress'
  BY <1>1, <1>2 DEF Progress
<1> QED BY <1>1, <1>2, <1>3, <1>10, <1>11, <1>12, <1>13, PartsNext

-----------------------------------------------------------------------------
(* The theorems *)

LEMMA InitHolds ==
  ASSUME Init
  PROVE  IInv
<1>1. NewPlayback \in Playback /\ Kept(NewPlayback) /\ ~PlaybackPending(NewPlayback)
  <2>1. 0 \in 0..kAttempts /\ 0 \in 0..Patience
    BY ZeroWaited, ZeroAttempts
  <2> QED BY <2>1 DEF NewPlayback, Playback, Failure, Kept, PlaybackPending, Preparing, Cleaning
<1>2. Keep(amp)
  BY <1>1 DEF Init, Keep
<1>3. WorldOK
  BY PairAssumption DEF Init, WorldOK
<1>4. RunOK
  BY PairAssumption, FirstAmp DEF Init, RunOK
<1>5. WorkIsPolled /\ Progress
  BY DEF Init, WorkIsPolled, Progress
<1>6. irq => Interrupts
  BY DEF Init
<1> QED BY <1>2, <1>3, <1>4, <1>5, <1>6, Parts

LEMMA NextKeeps ==
  ASSUME IInv, [Next]_vars
  PROVE  IInv' /\ Together /\ Forgiving
<1>1. CASE UNCHANGED vars
  <2>1. Keep(amp) /\ amp' = amp
    BY <1>1, Parts DEF vars
  <2>2. Together /\ Forgiving
    BY <2>1, StillFollows, FollowHolds
  <2>3. IInv'
    BY <1>1 DEF vars, world, IInv, TypeOK, WorkIsPolled, Progress
  <2> QED BY <2>2, <2>3
<1>2. CASE Next
  BY <1>2, FollowHolds, ChangeRouteStep, ChangeStreamStep, ChipChangeStep, RunStep, ValidateStep,
     CommitStep, RevalidateStep, InterruptStep DEF Next
<1> QED BY <1>1, <1>2

LEMMA Invariant == Spec => []IInv
<1>1. Init => IInv
  BY InitHolds
<1>2. IInv /\ [Next]_vars => IInv'
  BY NextKeeps
<1> QED BY <1>1, <1>2, PTL DEF Spec

\* Every variable keeps its type, so that no count of cleanups or recoveries
\* and no deadline leaves its range.
THEOREM TypeCorrect == Spec => []TypeOK
<1>1. IInv => TypeOK
  BY DEF IInv
<1> QED BY <1>1, Invariant, PTL

\* A preparation or a cleanup in progress always has a timer or an event that
\* carries it on, as long as no interrupt came (Runtime.cpp:601-625).
THEOREM WorkAlwaysPolled == Spec => []WorkIsPolled
<1>1. IInv => WorkIsPolled
  BY DEF IInv
<1> QED BY <1>1, Invariant, PTL

\* No amplifier is unmuted unless all of them are prepared or play, for this
\* route and stream, without a fault: the two phases of Runtime.cpp:570-600 hold
\* for any number of amplifiers.
THEOREM NeverUnmutedAlone == Spec => UnmutedTogether
<1>1. IInv /\ [Next]_vars => [Together]_vars
  BY NextKeeps
<1> QED BY <1>1, Invariant, PTL DEF Spec, UnmutedTogether, Together

\* The latch of a fault opens by itself only when nothing but the clock was lost
\* since it closed, in whatever order the failures were recorded.
THEOREM OnlyTheClockIsForgiven == Spec => OnlyClockLossForgiven
<1>1. IInv /\ [Next]_vars => [Forgiving]_vars
  BY NextKeeps
<1> QED BY <1>1, Invariant, PTL DEF Spec, OnlyClockLossForgiven, Forgiving

=============================================================================
