---------------------- MODULE AmplifierLifecycleProofs ----------------------
(***************************************************************************)
(* What each operation of a lifecycle can do to it, whatever the driver's  *)
(* hooks answer: the result it returns, the stage it ends in, that a sound *)
(* lifecycle stays sound, that evidence is kept, and that no operation but *)
(* a bring-up or a start powers or unmutes the chip.                       *)
(***************************************************************************)
EXTENDS AmplifierLifecycle, TLAPS

\* A lifecycle is sound: its chip's state is what its stage and its record say.
Sound(a) ==
  /\ a.hardware \in {"Muted", "Audible"} => a.touched
  /\ a.stage \in {"Ready", "Waiting", "DebugHalted"} => a.hardware = "Muted"
  /\ a.stage = "Playing" => a.hardware \in {"Muted", "Audible"}
  /\ a.stage = "Detached" => ~a.touched
  /\ a.stage = "Suspended" => ~a.touched /\ ~a.resume
  /\ a.stage = "Faulted" /\ a.hardware = "Audible" => a.cleanup = "Error"
  /\ a.shutdown = "Clean" \/ (a.shutdown = "Failed" /\ a.stage = "Faulted")

\* What a failure may start from: nothing unsafe is untracked, and no safe
\* shutdown has failed.
Fallible(a) ==
  /\ a \in Lifecycle
  /\ a.hardware \in {"Muted", "Audible"} => a.touched
  /\ a.shutdown = "Clean"

\* The evidence of a is still in b.
Kept(a, b) ==
  /\ a.firstFailure # "None" => b.firstFailure = a.firstFailure
  /\ a.stage = "Faulted" => b = a

\* b is a sound successor of a, with a's evidence.
Succeeds(a, b) == b \in Lifecycle /\ Sound(b) /\ Kept(a, b)

\* A lifecycle that has just failed.
Failed(a, o) ==
  /\ o.ret = "Error"
  /\ o.amp \in Lifecycle /\ o.amp.stage = "Faulted" /\ Sound(o.amp)
  /\ a.firstFailure # "None" => o.amp.firstFailure = a.firstFailure
  /\ ~Energized(a, o.amp)

\* A failure outside a shutdown cleans up once and ends Faulted.
LEMMA FailOutcome ==
  ASSUME NEW a, Fallible(a), NEW s \in Failing \ {"Shutdown"}, NEW o \in Fail(a, s)
  PROVE  Failed(a, o)
<1> DEFINE failed == [a EXCEPT !.firstFailure = IF @ = "None" THEN s ELSE @, !.stage = "Faulted"]
<1>1. failed \in Lifecycle /\ failed.hardware = a.hardware /\ failed.shutdown = "Clean"
      /\ failed.touched = a.touched /\ failed.stage = "Faulted"
      /\ (a.firstFailure # "None" => failed.firstFailure = a.firstFailure)
  BY DEF Fallible, Lifecycle, Failing, Stage
<1>2. CASE a.touched
  <2>1. PICK q \in SafeShutdown(failed) :
          o = [amp |-> [q.amp EXCEPT !.cleanup = q.ret, !.touched = (q.ret # "Success")],
               ret |-> "Error"]
    BY <1>2 DEF Fail
  <2>2. \/ q = [amp |-> [failed EXCEPT !.hardware = "Safe", !.shutdown = "Clean"], ret |-> "Success"]
        \/ q = [amp |-> [failed EXCEPT !.shutdown = "Failed"], ret |-> "Error"]
    BY <1>1, <2>1 DEF SafeShutdown, Done
  <2> HIDE DEF failed
  <2>3. CASE q = [amp |-> [failed EXCEPT !.hardware = "Safe", !.shutdown = "Clean"], ret |-> "Success"]
    BY <1>1, <2>1, <2>3 DEF Failed, Sound, Energized, Lifecycle, Hardware
  <2>4. CASE q = [amp |-> [failed EXCEPT !.shutdown = "Failed"], ret |-> "Error"]
    BY <1>1, <1>2, <2>1, <2>4 DEF Failed, Sound, Energized, Lifecycle, Hardware
  <2> QED BY <2>2, <2>3, <2>4
<1>3. CASE ~a.touched
  <2>1. o = [amp |-> failed, ret |-> "Error"]
    BY <1>3 DEF Fail, Done, Failing
  <2> HIDE DEF failed
  <2> QED BY <1>1, <1>3, <2>1 DEF Failed, Sound, Energized, Fallible
<1> QED BY <1>2, <1>3

\* The shutdown of suspend and detach makes the chip safe or faults, once.
LEMMA ShutdownToOutcome ==
  ASSUME NEW a, Fallible(a), NEW s \in Stage, NEW o \in ShutdownTo(a, s)
  PROVE  \/ /\ o.ret = "Success"
            /\ o.amp = [a EXCEPT !.hardware = "Safe", !.shutdown = "Clean", !.touched = FALSE,
                                 !.stage = s]
         \/ Failed(a, o)
<1>1. PICK q \in SafeShutdown(a) :
        o \in IF q.ret = "Success" THEN Done([q.amp EXCEPT !.touched = FALSE, !.stage = s], "Success")
              ELSE Fail(q.amp, "Shutdown")
  BY DEF ShutdownTo
<1>2. \/ q = [amp |-> [a EXCEPT !.hardware = "Safe", !.shutdown = "Clean"], ret |-> "Success"]
      \/ q = [amp |-> [a EXCEPT !.shutdown = "Failed"], ret |-> "Error"]
  BY <1>1 DEF SafeShutdown, Done, Fallible
<1>3. CASE q = [amp |-> [a EXCEPT !.hardware = "Safe", !.shutdown = "Clean"], ret |-> "Success"]
  BY <1>1, <1>3 DEF Done, Fallible, Lifecycle
<1>4. CASE q = [amp |-> [a EXCEPT !.shutdown = "Failed"], ret |-> "Error"]
  <2> DEFINE b == [a EXCEPT !.shutdown = "Failed"]
  <2>1. o \in Fail(b, "Shutdown")
    BY <1>1, <1>4
  <2>2. o = [amp |-> [b EXCEPT !.firstFailure = IF @ = "None" THEN "Shutdown" ELSE @,
                               !.stage = "Faulted", !.cleanup = "Error"], ret |-> "Error"]
    BY <2>1 DEF Fail, Done, Fallible, Lifecycle
  <2> QED BY <2>2 DEF Failed, Sound, Energized, Fallible, Lifecycle, Failing, Stage
<1> QED BY <1>2, <1>3, <1>4

\* A sound lifecycle that is not faulted may fail.
LEMMA SoundIsFallible ==
  ASSUME NEW a \in Lifecycle, Sound(a), a.stage # "Faulted"
  PROVE  Fallible(a)
BY DEF Sound, Fallible

\* A failure of a sound lifecycle that has not failed before is a sound successor.
LEMMA FailedSucceeds ==
  ASSUME NEW a \in Lifecycle, a.stage # "Faulted", NEW o, Failed(a, o)
  PROVE  Succeeds(a, o.amp)
BY DEF Failed, Succeeds, Kept

\* A bring-up makes a detached lifecycle ready, deferred or faulted.
LEMMA BringUpOutcome ==
  ASSUME NEW a \in Lifecycle, Sound(a), a.stage = "Detached", NEW o \in BringUp(a)
  PROVE  /\ Succeeds(a, o.amp)
         /\ \/ o.ret = "Success" /\ o.amp.stage = "Ready" /\ o.amp.resume = a.resume
            \/ o.ret = "NotReady" /\ o.amp.stage \in {"Waiting", "DebugHalted"}
            \/ o.ret = "Error" /\ o.amp.stage = "Faulted"
<1> DEFINE begun == [a EXCEPT !.touched = TRUE]
           muted == [begun EXCEPT !.hardware = "Muted"]
<1>1. \/ \E b \in {a, begun, muted} : o \in Fail(b, "BringUp")
      \/ \E s \in {"Waiting", "DebugHalted"} : o = [amp |-> Enter(muted, s), ret |-> "NotReady"]
      \/ o = [amp |-> Enter(muted, "Ready"), ret |-> "Success"]
  BY DEF BringUp, Done
<1>2. Fallible(a) /\ Fallible(begun) /\ Fallible(muted)
  BY DEF Sound, Fallible, Lifecycle, Hardware
<1>3. muted \in Lifecycle /\ muted.touched /\ muted.hardware = "Muted" /\ muted.shutdown = "Clean"
      /\ muted.firstFailure = a.firstFailure /\ muted.resume = a.resume
      /\ begun.firstFailure = a.firstFailure
  BY DEF Lifecycle, Hardware, Sound
<1> HIDE DEF begun, muted
<1>4. ASSUME NEW b \in {a, begun, muted}, o \in Fail(b, "BringUp")
      PROVE  Succeeds(a, o.amp) /\ o.ret = "Error" /\ o.amp.stage = "Faulted"
  <2>1. Failed(b, o)
    BY <1>2, <1>4, FailOutcome DEF Failing
  <2> QED BY <1>3, <1>4, <2>1 DEF Failed, Succeeds, Kept
<1>5. ASSUME NEW s \in {"Waiting", "DebugHalted"}, o = [amp |-> Enter(muted, s), ret |-> "NotReady"]
      PROVE  Succeeds(a, o.amp) /\ o.ret = "NotReady" /\ o.amp.stage \in {"Waiting", "DebugHalted"}
  BY <1>3, <1>5 DEF Enter, Succeeds, Sound, Kept, Lifecycle, Stage
<1>6. ASSUME o = [amp |-> Enter(muted, "Ready"), ret |-> "Success"]
      PROVE  Succeeds(a, o.amp) /\ o.ret = "Success" /\ o.amp.stage = "Ready" /\ o.amp.resume = a.resume
  BY <1>3, <1>6 DEF Enter, Succeeds, Sound, Kept, Lifecycle, Stage
<1> QED BY <1>1, <1>4, <1>5, <1>6

\* A start makes a ready lifecycle play or fault, or is cancelled without a trace.
LEMMA StartOutcome ==
  ASSUME NEW a \in Lifecycle, Sound(a), a.stage = "Ready", NEW o \in StartPlayback(a)
  PROVE  /\ Succeeds(a, o.amp)
         /\ \/ o.ret = "Success" /\ o.amp.stage = "Playing"
            \/ o.ret = "NotReady" /\ o.amp = a
            \/ o.ret = "Error" /\ o.amp.stage = "Faulted"
<1>1. \/ o = [amp |-> [a EXCEPT !.stage = "Playing", !.hardware = "Audible"], ret |-> "Success"]
      \/ o = [amp |-> a, ret |-> "NotReady"]
      \/ \E hw \in {a.hardware, "Audible"} : o \in Fail([a EXCEPT !.hardware = hw], "Start")
  BY DEF StartPlayback, Done
<1>2. CASE o = [amp |-> [a EXCEPT !.stage = "Playing", !.hardware = "Audible"], ret |-> "Success"]
  BY <1>2 DEF Succeeds, Sound, Kept, Lifecycle, Stage, Hardware
<1>3. CASE o = [amp |-> a, ret |-> "NotReady"]
  BY <1>3 DEF Succeeds, Kept
<1>4. ASSUME NEW hw \in {a.hardware, "Audible"}, o \in Fail([a EXCEPT !.hardware = hw], "Start")
      PROVE  Succeeds(a, o.amp) /\ o.ret = "Error" /\ o.amp.stage = "Faulted"
  <2> DEFINE b == [a EXCEPT !.hardware = hw]
  <2>1. Fallible(b) /\ b.firstFailure = a.firstFailure
    BY DEF Fallible, Sound, Lifecycle, Hardware
  <2> HIDE DEF b
  <2>2. Failed(b, o)
    BY <1>4, <2>1, FailOutcome DEF b, Failing
  <2> QED BY <2>1, <2>2 DEF Failed, Succeeds, Kept
<1> QED BY <1>1, <1>2, <1>3, <1>4

\* A stop leaves a ready or playing lifecycle ready or faulted.
LEMMA StopOutcome ==
  ASSUME NEW a \in Lifecycle, Sound(a), a.stage \in {"Ready", "Playing"}, NEW o \in StopPlayback(a)
  PROVE  /\ Succeeds(a, o.amp) /\ ~Energized(a, o.amp)
         /\ \/ o.ret = "Success" /\ o.amp.stage = "Ready" /\ o.amp.resume = a.resume
            \/ o.ret = "Error" /\ o.amp.stage = "Faulted"
<1>1. CASE a.stage = "Ready"
  <2>1. o = [amp |-> a, ret |-> "Success"]
    BY <1>1 DEF StopPlayback, Done
  <2> QED BY <1>1, <2>1 DEF Succeeds, Kept, Energized
<1>2. CASE a.stage = "Playing"
  <2>1. \/ o = [amp |-> [a EXCEPT !.stage = "Ready", !.hardware = "Muted"], ret |-> "Success"]
        \/ \E hw \in {a.hardware, "Muted"} : o \in Fail([a EXCEPT !.hardware = hw], "Stop")
    BY <1>2 DEF StopPlayback, Done
  <2>2. CASE o = [amp |-> [a EXCEPT !.stage = "Ready", !.hardware = "Muted"], ret |-> "Success"]
    BY <1>2, <2>2 DEF Succeeds, Sound, Kept, Energized, Lifecycle, Stage, Hardware
  <2>3. ASSUME NEW hw \in {a.hardware, "Muted"}, o \in Fail([a EXCEPT !.hardware = hw], "Stop")
        PROVE  Succeeds(a, o.amp) /\ ~Energized(a, o.amp) /\ o.ret = "Error" /\ o.amp.stage = "Faulted"
    <3> DEFINE b == [a EXCEPT !.hardware = hw]
    <3>1. Fallible(b) /\ b.firstFailure = a.firstFailure /\ ~Energized(a, b)
      BY <1>2 DEF Fallible, Sound, Lifecycle, Hardware, Energized
    <3>2. b.hardware = hw /\ a.hardware \in {"Muted", "Audible"}
      BY <1>2 DEF Sound, Lifecycle
    <3> HIDE DEF b
    <3>3. Failed(b, o)
      BY <2>3, <3>1, FailOutcome DEF b, Failing
    <3> QED BY <1>2, <3>1, <3>2, <3>3 DEF Failed, Succeeds, Kept, Energized
  <2> QED BY <2>1, <2>2, <2>3
<1> QED BY <1>1, <1>2

\* A suspend of a ready lifecycle makes the chip safe or faults it.
LEMMA SuspendOutcome ==
  ASSUME NEW a \in Lifecycle, Sound(a), a.stage = "Ready", NEW o \in Suspend(a)
  PROVE  /\ Succeeds(a, o.amp) /\ ~Energized(a, o.amp)
         /\ \/ o.ret = "Success" /\ o.amp.stage = "Suspended"
            \/ o.ret = "Error" /\ o.amp.stage = "Faulted"
<1> DEFINE b == [a EXCEPT !.resume = FALSE]
<1>1. b \in Lifecycle /\ Sound(b) /\ b.stage = "Ready" /\ b.resume = FALSE
      /\ b.firstFailure = a.firstFailure /\ b.hardware = a.hardware
  BY DEF Lifecycle, Sound
<1>2. PICK p \in StopPlayback(b) :
        o \in IF p.ret # "Success" THEN {p} ELSE ShutdownTo(p.amp, "Suspended")
  BY DEF Suspend
<1> HIDE DEF b
<1>3. p = [amp |-> b, ret |-> "Success"]
  BY <1>1, <1>2 DEF StopPlayback, Done
<1>4. o \in ShutdownTo(b, "Suspended") /\ Fallible(b)
  BY <1>1, <1>2, <1>3, SoundIsFallible
<1>5. \/ /\ o.ret = "Success"
         /\ o.amp = [b EXCEPT !.hardware = "Safe", !.shutdown = "Clean", !.touched = FALSE,
                              !.stage = "Suspended"]
      \/ Failed(b, o)
  BY <1>4, ShutdownToOutcome DEF Stage
<1>6. CASE Failed(b, o)
  BY <1>1, <1>6 DEF Failed, Succeeds, Kept, Energized
<1>7. ASSUME o.ret = "Success",
             o.amp = [b EXCEPT !.hardware = "Safe", !.shutdown = "Clean", !.touched = FALSE,
                               !.stage = "Suspended"]
      PROVE  Succeeds(a, o.amp) /\ ~Energized(a, o.amp) /\ o.amp.stage = "Suspended"
  BY ZenonT(60), <1>1, <1>7 DEF Succeeds, Sound, Kept, Energized, Lifecycle, Stage, Hardware
<1> QED BY <1>5, <1>6, <1>7

\* A resume is a bring-up: a suspended lifecycle asks for no playback of its own.
LEMMA ResumeOutcome ==
  ASSUME NEW a \in Lifecycle, Sound(a), a.stage = "Suspended", NEW o \in Resume(a)
  PROVE  /\ Succeeds(a, o.amp)
         /\ \/ o.ret = "Success" /\ o.amp.stage = "Ready"
            \/ o.ret = "NotReady" /\ o.amp.stage \in {"Waiting", "DebugHalted"}
            \/ o.ret = "Error" /\ o.amp.stage = "Faulted"
<1> DEFINE b == Enter(a, "Detached")
<1>1. b \in Lifecycle /\ Sound(b) /\ b.stage = "Detached" /\ b.firstFailure = a.firstFailure
  BY DEF Enter, Lifecycle, Stage, Sound
<1>2. o \in BringUp(b)
  BY DEF Resume, Sound
<1> HIDE DEF b
<1> QED BY <1>1, <1>2, BringUpOutcome DEF Succeeds, Kept

\* A detach leaves a faulted lifecycle alone and detaches or faults any other.
LEMMA DetachOutcome ==
  ASSUME NEW a \in Lifecycle, Sound(a), NEW o \in Detach(a)
  PROVE  /\ Succeeds(a, o.amp) /\ ~Energized(a, o.amp)
         /\ \/ o.ret = "Success" /\ o.amp.stage = "Detached"
            \/ o.ret \in {"NotReady", "Error"} /\ o.amp.stage = "Faulted"
<1>1. CASE a.stage = "Faulted"
  <2>1. o = [amp |-> a, ret |-> "NotReady"]
    BY <1>1 DEF Detach, Done
  <2> QED BY <1>1, <2>1 DEF Succeeds, Kept, Energized
<1>2. CASE a.stage # "Faulted"
  <2>1. PICK p \in IF a.stage = "Playing" THEN StopPlayback(a) ELSE Done(a, "Success") :
          o \in IF p.ret # "Success" THEN {p}
                ELSE IF p.amp.touched
                     THEN {[amp |-> [q.amp EXCEPT !.resume = IF q.ret = "Success" THEN FALSE ELSE @], ret |-> q.ret] :
                             q \in ShutdownTo(p.amp, "Detached")}
                     ELSE Done([Enter(p.amp, "Detached") EXCEPT !.resume = FALSE], "Success")
    BY <1>2 DEF Detach
  <2>2. /\ Succeeds(a, p.amp) /\ ~Energized(a, p.amp)
        /\ \/ p.ret = "Success" /\ p.amp.stage # "Faulted"
           \/ p.ret = "Error" /\ p.amp.stage = "Faulted"
    <3>1. CASE a.stage = "Playing"
      BY <2>1, <3>1, StopOutcome
    <3>2. CASE a.stage # "Playing"
      <4>1. p = [amp |-> a, ret |-> "Success"]
        BY <2>1, <3>2 DEF Done
      <4> QED BY <1>2, <4>1 DEF Succeeds, Kept, Energized
    <3> QED BY <3>1, <3>2
  <2>3. CASE p.ret # "Success"
    BY <2>1, <2>2, <2>3
  <2>4. CASE p.ret = "Success" /\ p.amp.touched
    <3>1. PICK q \in ShutdownTo(p.amp, "Detached") :
            o = [amp |-> [q.amp EXCEPT !.resume = IF q.ret = "Success" THEN FALSE ELSE @], ret |-> q.ret]
      BY <2>1, <2>4
    <3>2. Fallible(p.amp)
      BY <2>2, <2>4, SoundIsFallible DEF Succeeds
    <3>3. \/ /\ q.ret = "Success"
             /\ q.amp = [p.amp EXCEPT !.hardware = "Safe", !.shutdown = "Clean", !.touched = FALSE,
                                      !.stage = "Detached"]
          \/ Failed(p.amp, q)
      BY <3>1, <3>2, ShutdownToOutcome DEF Stage
    <3>4. CASE Failed(p.amp, q)
      <4>1. o.ret = "Error" /\ o.amp \in Lifecycle /\ o.amp.stage = "Faulted" /\ Sound(o.amp)
            /\ o.amp.hardware = q.amp.hardware /\ o.amp.firstFailure = q.amp.firstFailure
        BY <3>1, <3>4 DEF Failed, Sound, Lifecycle
      <4> QED BY <1>2, <2>2, <3>4, <4>1 DEF Failed, Succeeds, Kept, Energized, Lifecycle, Hardware
    <3>5. ASSUME q.ret = "Success",
                 q.amp = [p.amp EXCEPT !.hardware = "Safe", !.shutdown = "Clean", !.touched = FALSE,
                                       !.stage = "Detached"]
          PROVE  /\ Succeeds(a, o.amp) /\ ~Energized(a, o.amp)
                 /\ o.ret = "Success" /\ o.amp.stage = "Detached"
      <4>1. o.ret = "Success" /\ o.amp \in Lifecycle /\ o.amp.stage = "Detached" /\ ~o.amp.touched
            /\ o.amp.hardware = "Safe" /\ o.amp.shutdown = "Clean"
            /\ o.amp.firstFailure = p.amp.firstFailure
        <5>1. o = [amp |-> [p.amp EXCEPT !.hardware = "Safe", !.shutdown = "Clean", !.touched = FALSE,
                                         !.stage = "Detached", !.resume = FALSE], ret |-> "Success"]
          BY <3>1, <3>5
        <5> QED BY ZenonT(60), <2>2, <5>1 DEF Succeeds, Lifecycle, Stage, Hardware
      <4> QED BY <1>2, <2>2, <4>1 DEF Succeeds, Sound, Kept, Energized
    <3> QED BY <3>3, <3>4, <3>5
  <2>5. CASE p.ret = "Success" /\ ~p.amp.touched
    <3>1. o = [amp |-> [p.amp EXCEPT !.stage = "Detached", !.resume = FALSE], ret |-> "Success"]
      BY <2>1, <2>5 DEF Done, Enter
    <3> QED BY <1>2, <2>2, <2>5, <3>1 DEF Succeeds, Sound, Kept, Energized, Lifecycle, Stage
  <2> QED BY <2>3, <2>4, <2>5
<1> QED BY <1>1, <1>2

\* A runtime failure faults the lifecycle.
LEMMA RuntimeFailureOutcome ==
  ASSUME NEW a \in Lifecycle, Sound(a), a.stage # "Faulted", NEW o \in ReportRuntimeFailure(a)
  PROVE  Failed(a, o) /\ Succeeds(a, o.amp)
<1>1. Failed(a, o)
  BY SoundIsFallible, FailOutcome DEF ReportRuntimeFailure, Failing
<1> QED BY <1>1, FailedSucceeds

\* Refreshing the stage of a sound lifecycle changes nothing else.
LEMMA RefreshOutcome ==
  ASSUME NEW a \in Lifecycle, Sound(a), NEW managed \in BOOLEAN
  PROVE  LET b == RefreshPlaybackState(a, managed)
         IN  /\ Succeeds(a, b) /\ b.hardware = a.hardware
             /\ a.stage \in {"Ready", "Playing"} => b.stage \in {"Ready", "Playing"}
             /\ a.stage \notin {"Ready", "Playing"} => b = a
BY DEF RefreshPlaybackState, Enter, Succeeds, Sound, Kept, Lifecycle, Stage, Hardware

\* After a power loss the lifecycle is detached from a safe chip.
LEMMA PowerLostOutcome ==
  ASSUME NEW a \in Lifecycle
  PROVE  /\ PowerLost(a) \in Lifecycle /\ Sound(PowerLost(a)) /\ PowerLost(a).stage = "Detached"
         /\ PowerLost(a).firstFailure = a.firstFailure /\ ~Energized(a, PowerLost(a))
BY DEF PowerLost, Sound, Energized, Lifecycle, Stage, Hardware

\* A new lifecycle is sound, and leaves the chip as it was.
LEMMA NewLifecycleOutcome ==
  ASSUME NEW hw \in Hardware
  PROVE  LET b == NewLifecycle(hw)
         IN  b \in Lifecycle /\ Sound(b) /\ b.stage = "Detached" /\ b.hardware \in {"Safe", "Stale"}
BY DEF NewLifecycle, Sound, Lifecycle, Stage, Failing, Hardware

=============================================================================
