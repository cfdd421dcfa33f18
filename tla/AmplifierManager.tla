-------------------------- MODULE AmplifierManager --------------------------
(***************************************************************************)
(* The class platform::AmplifierManager, the owner of the drivers, their   *)
(* lifecycles and the group.  Its own variables:                           *)
(*   bound     whether the group exists (mGroup)                           *)
(*   then      what the call in progress does when the group returns:      *)
(*             "BringUp" in retryBringUp(), "Release" in unbind()          *)
(*   released  the cleanup result each released lifecycle ended with       *)
(*             (mReleased)                                                 *)
(* The service makes one call at a time, in any order.                     *)
(***************************************************************************)
EXTENDS AmplifierGroup

VARIABLES bound, then, released

managerVars == <<bound, then, released>>

vars == <<groupVars, managerVars>>

TypeOK ==
  /\ GroupTypeOK
  /\ bound \in BOOLEAN
  /\ then \in {"None", "BringUp", "Release"}
  /\ released \in [Member -> {"Success", "Error"}]

Init ==
  /\ GroupInit
  /\ bound = TRUE
  /\ then = "None"
  /\ released = [m \in Member |-> "Success"]

\* The service may make a call: the previous one has returned.
MayCall == bound /\ phase = "Idle" /\ then = "None"

-----------------------------------------------------------------------------
(* Calls the manager forwards to the group. *)

Forward ==
  /\ MayCall
  /\ \/ BringUpCall \/ StartCall \/ StopCall \/ SuspendCall \/ ResumeCall \/ RefreshCall
     \/ PowerLostCall
  /\ UNCHANGED managerVars

-----------------------------------------------------------------------------
(* Runtime monitoring of one member. *)

\* Mutation: the peers of a member that failed at run time are left as they are.
FailRuntimeLeavingPeers(m, a) ==
  \E o \in ReportRuntimeFailure(a) :
    /\ amp' = [amp EXCEPT ![m] = o.amp]
    /\ FailGroup(o.ret, 0)
    /\ UNCHANGED <<stage, resumePlayback>>

\* A runtime failure of member m, left in lifecycle a, takes the group down.
FailRuntime(m, a) ==
  \E o \in ReportRuntimeFailure(a) :
    /\ amp' = [amp EXCEPT ![m] = o.amp]
    /\ FailGroup(o.ret, N)
    /\ UNCHANGED <<stage, resumePlayback>>

Monitored(m, a) ==
  /\ amp' = [amp EXCEPT ![m] = a]
  /\ UNCHANGED <<stage, firstFailure, resumePlayback, phase, cursor, result>>

\* The chip of an amplifier that manages its own transitions may complete a
\* mute it was asked for earlier.
Settled(m) ==
  {[amp[m] EXCEPT !.hardware = hw] :
     hw \in {amp[m].hardware} \union
            (IF m \in Managed /\ amp[m].hardware = "Audible" THEN {"Muted"} ELSE {})}

\* runtimeTick(m): the driver's tick, then, for a driver that does not manage
\* its transitions, a stop when there is no audio.
RuntimeTick(m) ==
  /\ MayCall /\ stage \in {"Ready", "Playing"}
  /\ \E a \in Settled(m), hasAudio \in BOOLEAN :
       LET stops == m \notin Managed /\ ~hasAudio /\ a.stage = "Playing"
       IN \/ FailRuntime(m, a)
          \/ \E o \in IF stops THEN StopPlayback(a) ELSE Done(a, "Success") :
               IF o.ret = "Success" THEN Monitored(m, o.amp) ELSE FailRuntime(m, o.amp)
  /\ UNCHANGED managerVars

\* cancelPlayback(m): asks a driver that manages its transitions to mute, and
\* stops the others through their lifecycle.
CancelPlayback(m) ==
  /\ MayCall /\ amp[m].stage \in {"Ready", "Playing"}
  /\ IF m \in Managed
     THEN \E a \in Settled(m) : Monitored(m, a) \/ FailRuntime(m, a)
     ELSE \E o \in StopPlayback(amp[m]) :
            IF o.ret = "Success" THEN Monitored(m, o.amp) ELSE FailRuntime(m, o.amp)
  /\ UNCHANGED managerVars

-----------------------------------------------------------------------------
(* retryBringUp(): poll the waiting members; when none still waits, detach  *)
(* the whole group and bring it up again.                                   *)

Waiting == {m \in Member : amp[m].stage = "Waiting"}

RetryFailed(m) ==
  /\ MayCall /\ stage = "Waiting" /\ m \in Waiting
  /\ FailRuntime(m, amp[m])
  /\ UNCHANGED managerVars

RetryBringUp ==
  /\ MayCall /\ stage = "Waiting"
  /\ DetachCall
  /\ then' = "BringUp"
  /\ UNCHANGED <<bound, released>>

RetryDetached ==
  /\ phase = "Idle" /\ then = "BringUp"
  /\ then' = "None"
  /\ \/ result = "Success" /\ BringUpCall
     \/ result # "Success" /\ UNCHANGED groupVars
  /\ UNCHANGED <<bound, released>>

-----------------------------------------------------------------------------
(* unbind(): detach the group, keep the cleanup results, destroy the        *)
(* objects.  A later bind() creates new ones over the same chips.           *)

Unbind ==
  /\ MayCall
  /\ DetachCall
  /\ then' = "Release"
  /\ UNCHANGED <<bound, released>>

Release ==
  /\ phase = "Idle" /\ then = "Release"
  /\ then' = "None"
  /\ bound' = FALSE
  /\ released' = [m \in Member |-> amp[m].cleanup]
  /\ amp' = [m \in Member |-> NewLifecycle(amp[m].hardware)]
  /\ stage' = "Detached"
  /\ firstFailure' = "Success"
  /\ resumePlayback' = FALSE
  /\ UNCHANGED <<phase, cursor, result>>

Bind ==
  /\ ~bound
  /\ bound' = TRUE
  /\ UNCHANGED <<groupVars, then, released>>

-----------------------------------------------------------------------------

Next ==
  \/ Forward
  \/ \E m \in Member : RuntimeTick(m) \/ CancelPlayback(m) \/ RetryFailed(m)
  \/ RetryBringUp \/ RetryDetached \/ Unbind \/ Release \/ Bind
  \/ GroupStep /\ UNCHANGED managerVars

\* A call in progress runs to its end on the workloop.
Proceed == RetryDetached \/ Release \/ (GroupStep /\ UNCHANGED managerVars)

Spec == Init /\ [][Next]_vars /\ WF_vars(Proceed)

-----------------------------------------------------------------------------
(* Properties. *)

\* Between two calls the stage the group reports is the stage its members are
\* in: nobody is left behind by a partial failure, a cancelled start or a retry.
StageAgrees ==
  phase = "Idle" =>
    CASE stage = "Ready" -> \A m \in Member : amp[m].stage = "Ready"
      [] stage = "Playing" -> \A m \in Member : amp[m].stage \in {"Ready", "Playing"}
      [] stage = "Suspended" -> \A m \in Member : amp[m].stage = "Suspended"
      [] stage = "Detached" -> \A m \in Member : amp[m].stage = "Detached"
      [] stage = "Faulted" ->
           /\ \A m \in Member : amp[m].stage \in {"Detached", "Suspended", "Faulted"}
           /\ \E m \in Member : amp[m].stage = "Faulted"
      [] OTHER ->
           \E w \in Member :
             /\ amp[w].stage = stage
             /\ \A m \in 1..(w - 1) : amp[m].stage = "Ready"
             /\ \A m \in (w + 1)..N : amp[m].stage \in {"Detached", "Suspended"}

\* An audible amplifier is one the group says is playing, or one whose failed
\* cleanup is on record: no failure, rollback or cancelled start leaves a
\* speaker unmuted unnoticed.
AudibleIsAccounted ==
  phase = "Idle" =>
    \A m \in Member :
      amp[m].hardware = "Audible" =>
        \/ stage = "Playing" /\ amp[m].stage = "Playing"
        \/ stage = "Faulted" /\ amp[m].stage = "Faulted" /\ amp[m].cleanup = "Error"

\* A safe shutdown that failed is never attempted again by the same lifecycle,
\* whichever of rollback, detach, suspend or runtime failure comes next.
ShutdownNeverRepeated ==
  \A m \in Member : amp[m].shutdown # "Repeated"

\* A chip that this binding wrote to and has not made safe is remembered as
\* touched, so that the next cleanup of this binding reaches it.  What an
\* earlier binding left behind ("Stale") is not its business.
UnsafeIsTouched ==
  \A m \in Member : amp[m].hardware \in {"Muted", "Audible"} => amp[m].touched

\* A member is powered up or unmuted (Energized) only while every earlier member is up and
\* no member has failed or is waiting.
NoLateStart ==
  [][\A m \in Member : Energized(amp[m], amp'[m]) =>
       /\ \A k \in Member : k < m => amp[k].stage \in {"Ready", "Playing"}
       /\ \A k \in Member : amp[k].stage \notin {"Faulted", "Waiting", "DebugHalted"}]_vars

\* The first failure of a lifecycle is never overwritten while it exists, and
\* a faulted lifecycle stays as it is until power is lost or it is released.
EvidenceKept ==
  [][bound /\ bound' =>
       \A m \in Member :
         /\ amp[m].firstFailure # "None" => amp'[m].firstFailure = amp[m].firstFailure
         /\ amp[m].stage = "Faulted" =>
              amp'[m] = amp[m] \/ amp'[m] = PowerLost(amp[m])]_vars

\* A member's failure always ends with the whole group faulted.
FailureSpreads ==
  (\E m \in Member : amp[m].stage = "Faulted") ~> (stage = "Faulted" \/ ~bound)

=============================================================================
