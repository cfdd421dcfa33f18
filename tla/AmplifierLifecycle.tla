------------------------- MODULE AmplifierLifecycle -------------------------
(***************************************************************************)
(* One amplifier's lifecycle: the class core::AmplifierLifecycle.  The     *)
(* module is pure.  A lifecycle is a record, and an operation is the set   *)
(* of outcomes [amp, ret] it can have, one for each answer the silicon     *)
(* driver's hooks can give.                                                *)
(*                                                                         *)
(* stage, firstFailure, cleanup, touched and resume are the class's        *)
(* members (mStatus.stage, firstFailureStage, cleanupResult,               *)
(* mHardwareTouched, mResumePlayback).  firstFailure is "None" while       *)
(* failures is zero, and does not tell the five bring-up stages apart, nor *)
(* the stages a runtime failure can come in.  Two fields are not in the    *)
(* class and record what the hooks did to the chip:                        *)
(*   hardware   "Safe"    after a successful safeShutdown or a power loss  *)
(*              "Muted"   written to, not verified safe, not audible       *)
(*              "Audible" unmuted, or not verified muted                   *)
(*              "Stale"   unsafe when this lifecycle object was created    *)
(*   shutdown   what this object's safeShutdown calls came to: "Clean"     *)
(*              while none failed, "Failed" after the first failure,       *)
(*              "Repeated" if one was ever made after that.                *)
(* Every failure code is "Error": no caller tells failures apart.          *)
(***************************************************************************)
EXTENDS FiniteSets

Stage == {"Detached", "Ready", "Playing", "Suspended", "Faulted", "Waiting", "DebugHalted"}

\* What a failure happened in: one of the stages an operation passes through
\* while its hooks run (Identify to Verify are "BringUp"), or the monitoring.
Failing == {"BringUp", "Start", "Stop", "Shutdown", "Runtime"}

Ret == {"Success", "NotReady", "Error"}

Hardware == {"Safe", "Muted", "Audible", "Stale"}

Lifecycle ==
  [stage        : Stage,
   firstFailure : Failing \union {"None"},
   cleanup      : {"Success", "Error"},
   touched      : BOOLEAN,
   resume       : BOOLEAN,
   hardware     : Hardware,
   shutdown     : {"Clean", "Failed", "Repeated"}]

Outcome == [amp : Lifecycle, ret : Ret]

\* A lifecycle just constructed over a chip in state hw.
NewLifecycle(hw) ==
  [stage |-> "Detached", firstFailure |-> "None", cleanup |-> "Success", touched |-> FALSE,
   resume |-> FALSE, hardware |-> IF hw = "Safe" THEN "Safe" ELSE "Stale", shutdown |-> "Clean"]

Enter(a, s) == [a EXCEPT !.stage = s]

Done(a, r) == {[amp |-> a, ret |-> r]}

\* The safeShutdown hook: it makes the chip safe or fails and leaves it alone.
SafeShutdown(a) ==
  LET again == a.shutdown # "Clean"
  IN Done([a EXCEPT !.hardware = "Safe",
                    !.shutdown = IF again THEN "Repeated" ELSE "Clean"], "Success")
     \union
     Done([a EXCEPT !.shutdown = IF again THEN "Repeated" ELSE "Failed"], "Error")

\* Mutations of fail(): no cleanup, evidence overwritten, a failed shutdown
\* tried again, a failed cleanup forgotten.
FailSkippingCleanup(a, s) ==
  Done([a EXCEPT !.firstFailure = IF @ = "None" THEN s ELSE @, !.stage = "Faulted"], "Error")

FailOverwritingEvidence(a, s) ==
  Done([a EXCEPT !.firstFailure = s, !.stage = "Faulted", !.cleanup = "Error"], "Error")

FailRetryingShutdown(a, s) ==
  {[amp |-> [o.amp EXCEPT !.stage = "Faulted", !.cleanup = o.ret, !.touched = (o.ret # "Success")],
    ret |-> "Error"] : o \in SafeShutdown(a)}

FailForgettingHardware(a, s) ==
  {[amp |-> [o.amp EXCEPT !.stage = "Faulted", !.cleanup = o.ret, !.touched = FALSE],
    ret |-> "Error"] : o \in SafeShutdown(a)}

\* fail(): latch the first failure, clean up once unless the shutdown itself
\* is what failed, and end Faulted.
Fail(a, s) ==
  LET failed == [a EXCEPT !.firstFailure = IF @ = "None" THEN s ELSE @,
                          !.stage = "Faulted"]
  IN CASE s = "Shutdown" -> Done([failed EXCEPT !.cleanup = "Error"], "Error")
       [] s # "Shutdown" /\ a.touched ->
            {[amp |-> [o.amp EXCEPT !.cleanup = o.ret, !.touched = (o.ret # "Success")],
              ret |-> "Error"] : o \in SafeShutdown(failed)}
       [] OTHER -> Done(failed, "Error")

\* The step at Shutdown that suspend and detach share: safe in stage s, or Faulted.
ShutdownTo(a, s) ==
  UNION {IF o.ret = "Success"
         THEN Done([o.amp EXCEPT !.touched = FALSE, !.stage = s], "Success")
         ELSE Fail(o.amp, "Shutdown") : o \in SafeShutdown(a)}

\* bringUp(): identify and authorizeBoard only read; the later hooks write the
\* chip, and a failed initialize may leave it as it was.  A hook that succeeds
\* may still ask to wait or halt (its disposition).
BringUp(a) ==
  IF a.stage # "Detached" THEN Done(a, "NotReady")
  ELSE LET begun == [a EXCEPT !.touched = TRUE]
           muted == [begun EXCEPT !.hardware = "Muted"]
       IN Done(Enter(muted, "Ready"), "Success")
          \union {[amp |-> Enter(muted, s), ret |-> "NotReady"] : s \in {"Waiting", "DebugHalted"}}
          \union UNION {Fail(b, "BringUp") : b \in {a, begun, muted}}

\* startPlayback(): a driver that cancelled the start itself (route or stream
\* changed before its commit) stays Ready; any other failure faults, with the
\* chip unmuted or not.
StartPlayback(a) ==
  IF a.stage # "Ready" THEN Done(a, "NotReady")
  ELSE Done([a EXCEPT !.stage = "Playing", !.hardware = "Audible"], "Success")
       \union Done(a, "NotReady")
       \union UNION {Fail([a EXCEPT !.hardware = hw], "Start") : hw \in {a.hardware, "Audible"}}

StopPlayback(a) ==
  CASE a.stage = "Ready" -> Done(a, "Success")
    [] a.stage = "Playing" ->
         Done([a EXCEPT !.stage = "Ready", !.hardware = "Muted"], "Success")
         \union UNION {Fail([a EXCEPT !.hardware = hw], "Stop") : hw \in {a.hardware, "Muted"}}
    [] OTHER -> Done(a, "NotReady")

Suspend(a) ==
  IF a.stage \notin {"Ready", "Playing"} THEN Done(a, "NotReady")
  ELSE UNION {IF o.ret # "Success" THEN {o} ELSE ShutdownTo(o.amp, "Suspended") :
                o \in StopPlayback([a EXCEPT !.resume = (a.stage = "Playing")])}

Resume(a) ==
  IF a.stage # "Suspended" THEN Done(a, "NotReady")
  ELSE UNION {IF o.ret = "Success" /\ a.resume THEN StartPlayback(o.amp) ELSE {o} :
                o \in BringUp(Enter(a, "Detached"))}

Detach(a) ==
  IF a.stage = "Faulted" THEN Done(a, "NotReady")
  ELSE UNION {IF o.ret # "Success" THEN {o}
              ELSE IF o.amp.touched
                   THEN {[amp |-> [p.amp EXCEPT !.resume = IF p.ret = "Success" THEN FALSE ELSE @],
                          ret |-> p.ret] : p \in ShutdownTo(o.amp, "Detached")}
                   ELSE Done([Enter(o.amp, "Detached") EXCEPT !.resume = FALSE], "Success") :
                o \in IF a.stage = "Playing" THEN StopPlayback(a) ELSE Done(a, "Success")}

\* A runtime failure gets the cleanup of a lifecycle failure, once.
ReportRuntimeFailure(a) ==
  IF a.stage = "Faulted" THEN Done(a, "Error") ELSE Fail(a, "Runtime")

\* observedPlayback() of a driver that manages its own transitions is Active
\* until it has verified the mute; the others answer Unmanaged.
RefreshPlaybackState(a, managed) ==
  IF managed /\ a.stage \in {"Ready", "Playing"}
  THEN Enter(a, IF a.hardware = "Audible" THEN "Playing" ELSE "Ready")
  ELSE a

\* The owner confirmed that power was removed; the evidence is kept.
PowerLost(a) ==
  [a EXCEPT !.touched = FALSE, !.resume = FALSE, !.stage = "Detached",
            !.hardware = "Safe", !.shutdown = "Clean"]

\* From a to b the chip was powered up or unmuted.
Energized(a, b) ==
  \/ a.hardware \in {"Safe", "Stale"} /\ b.hardware \in {"Muted", "Audible"}
  \/ a.hardware # "Audible" /\ b.hardware = "Audible"

=============================================================================
