--------------------------- MODULE AmplifierGroup ---------------------------
(***************************************************************************)
(* The class core::AmplifierGroup: N lifecycles driven in order on one     *)
(* serialized workloop.  A group operation is a sequence of steps, one per *)
(* member, so that every intermediate hardware state can be seen.          *)
(*                                                                         *)
(* stage, firstFailure and resumePlayback are the class's members; phase   *)
(* is the loop that is running ("Idle" between calls), cursor the member   *)
(* it is at, result the first error the loop has met, and, once the call   *)
(* has returned, the value it returned.                                    *)
(*                                                                         *)
(* The module defines the operations and their steps; AmplifierManager,    *)
(* the owner, makes the calls.                                             *)
(***************************************************************************)
EXTENDS AmplifierLifecycle, Naturals

CONSTANTS
  N,                  \* how many amplifiers the board has
  Managed,            \* those whose driver manages its playback transitions
  ResumeAutomatically \* whether a resumed group restarts playback itself

kCapacity == 16

Member == 1..N

ASSUME NAssumption == N \in 1..kCapacity
ASSUME ManagedAssumption == Managed \subseteq Member
ASSUME ResumeAssumption == ResumeAutomatically \in BOOLEAN

VARIABLES amp, stage, firstFailure, resumePlayback, phase, cursor, result

groupVars == <<amp, stage, firstFailure, resumePlayback, phase, cursor, result>>

\* SuspendStop is the stopPlayback() that suspend() begins with.
Phase == {"Idle", "BringUp", "Resume", "Start", "Stop", "SuspendStop", "Suspend", "Detach", "Rollback"}

GroupTypeOK ==
  /\ amp \in [Member -> Lifecycle]
  /\ stage \in Stage
  /\ firstFailure \in {"Success", "Error"}
  /\ resumePlayback \in BOOLEAN
  /\ phase \in Phase
  /\ cursor \in CASE phase = "Idle" -> {0}
                 [] phase \in {"BringUp", "Resume", "Start"} -> 1..(N + 1)
                 [] OTHER -> 0..N
  /\ result \in Ret

GroupInit ==
  /\ amp = [m \in Member |-> NewLifecycle("Safe")]
  /\ stage = "Detached"
  /\ firstFailure = "Success"
  /\ resumePlayback = FALSE
  /\ phase = "Idle"
  /\ cursor = 0
  /\ result = "Success"

-----------------------------------------------------------------------------
(* How a call begins, moves to the next member and returns. *)

Loop(p, c) == phase' = p /\ cursor' = c /\ result' = "Success"

Return(r) == phase' = "Idle" /\ cursor' = 0 /\ result' = r

StepTo(c) == cursor' = c /\ UNCHANGED phase

FirstError(r) == result' = IF result = "Success" THEN r ELSE result

\* Mutation: the rollback begins one past the members it covers.
FailGroupPastEnd(r, rollbackCount) ==
  /\ firstFailure' = IF firstFailure = "Success" THEN "Error" ELSE firstFailure
  /\ phase' = "Rollback"
  /\ cursor' = rollbackCount + 1
  /\ result' = r

\* fail(): latch the group's first failure and roll back the first members.
\* The group itself is Faulted only when the rollback is over.
FailGroup(r, rollbackCount) ==
  /\ firstFailure' = IF firstFailure = "Success" THEN "Error" ELSE firstFailure
  /\ phase' = "Rollback"
  /\ cursor' = rollbackCount
  /\ result' = r

RollbackMember ==
  /\ phase = "Rollback" /\ cursor > 0
  /\ \/ /\ amp[cursor].stage = "Faulted"
        /\ UNCHANGED amp
     \/ /\ amp[cursor].stage # "Faulted"
        /\ \E o \in Detach(amp[cursor]) : amp' = [amp EXCEPT ![cursor] = o.amp]
  /\ StepTo(cursor - 1)
  /\ UNCHANGED <<stage, firstFailure, resumePlayback, result>>

\* Mutation: the rollback does not end in the Faulted stage.
RollbackEndKeepingStage ==
  /\ phase = "Rollback" /\ cursor = 0
  /\ Return(result)
  /\ UNCHANGED <<amp, stage, firstFailure, resumePlayback>>

RollbackEnd ==
  /\ phase = "Rollback" /\ cursor = 0
  /\ stage' = "Faulted"
  /\ Return(result)
  /\ UNCHANGED <<amp, firstFailure, resumePlayback>>

-----------------------------------------------------------------------------
(* bringUp() and resume(): in order, and no member after one that failed or *)
(* is deferred.                                                             *)

\* A member that waits for a resource or halted for debugging: the group
\* takes its stage, without a failure or a cleanup.
Deferred(a) == a.stage \in {"Waiting", "DebugHalted"}

BringUpCall ==
  /\ phase = "Idle" /\ stage = "Detached"
  /\ Loop("BringUp", 1)
  /\ UNCHANGED <<amp, stage, firstFailure, resumePlayback>>

ResumeCall ==
  /\ phase = "Idle" /\ stage = "Suspended"
  /\ Loop("Resume", 1)
  /\ UNCHANGED <<amp, stage, firstFailure, resumePlayback>>

BringUpMember ==
  /\ phase \in {"BringUp", "Resume"} /\ cursor \in Member
  /\ \E o \in IF phase = "BringUp" THEN BringUp(amp[cursor]) ELSE Resume(amp[cursor]) :
       /\ amp' = [amp EXCEPT ![cursor] = o.amp]
       /\ \/ /\ o.ret = "Success"
             /\ StepTo(cursor + 1)
             /\ UNCHANGED <<stage, firstFailure, result>>
          \/ /\ o.ret # "Success" /\ Deferred(o.amp)
             /\ stage' = o.amp.stage
             /\ Return(o.ret)
             /\ UNCHANGED firstFailure
          \/ /\ o.ret # "Success" /\ ~Deferred(o.amp)
             /\ FailGroup(o.ret, cursor - 1)
             /\ UNCHANGED stage
  /\ UNCHANGED resumePlayback

BringUpEnd ==
  /\ phase \in {"BringUp", "Resume"} /\ cursor = N + 1
  /\ stage' = "Ready"
  /\ IF phase = "Resume" /\ resumePlayback THEN Loop("Start", 1) ELSE Return("Success")
  /\ UNCHANGED <<amp, firstFailure, resumePlayback>>

-----------------------------------------------------------------------------
(* startPlayback(): a member whose driver cancelled leaves the group as its *)
(* members are; a member that failed takes every member down.               *)

Refreshed(a) == [m \in Member |-> RefreshPlaybackState(a[m], m \in Managed)]

StageOf(a) == IF \E m \in Member : a[m].stage = "Playing" THEN "Playing" ELSE "Ready"

\* Mutation: the stage is not checked before playback starts.
StartCallUnguarded ==
  /\ phase = "Idle"
  /\ Loop("Start", 1)
  /\ UNCHANGED <<amp, stage, firstFailure, resumePlayback>>

StartCall ==
  /\ phase = "Idle" /\ stage = "Ready"
  /\ Loop("Start", 1)
  /\ UNCHANGED <<amp, stage, firstFailure, resumePlayback>>

StartMember ==
  /\ phase = "Start" /\ cursor \in Member
  /\ \E o \in StartPlayback(amp[cursor]) :
       LET started == [amp EXCEPT ![cursor] = o.amp]
       IN \/ /\ o.ret = "Success"
             /\ amp' = started
             /\ StepTo(cursor + 1)
             /\ UNCHANGED <<stage, firstFailure, result>>
          \/ /\ o.ret # "Success" /\ o.amp.stage = "Ready"
             /\ amp' = Refreshed(started)
             /\ stage' = StageOf(Refreshed(started))
             /\ Return(o.ret)
             /\ UNCHANGED firstFailure
          \/ /\ o.ret # "Success" /\ o.amp.stage # "Ready"
             /\ amp' = started
             /\ FailGroup(o.ret, N)
             /\ UNCHANGED stage
  /\ UNCHANGED resumePlayback

StartEnd ==
  /\ phase = "Start" /\ cursor = N + 1
  /\ stage' = "Playing"
  /\ Return("Success")
  /\ UNCHANGED <<amp, firstFailure, resumePlayback>>

RefreshCall ==
  /\ phase = "Idle" /\ stage \in {"Ready", "Playing"}
  /\ amp' = Refreshed(amp)
  /\ stage' = StageOf(Refreshed(amp))
  /\ UNCHANGED <<firstFailure, resumePlayback, phase, cursor, result>>

-----------------------------------------------------------------------------
(* stopPlayback(), suspend() and detach(): in reverse order, every member   *)
(* is attempted and the first error is returned.                            *)

StopCall ==
  /\ phase = "Idle" /\ stage \in {"Ready", "Playing"}
  /\ Loop("Stop", N)
  /\ UNCHANGED <<amp, stage, firstFailure, resumePlayback>>

SuspendCall ==
  /\ phase = "Idle" /\ stage \in {"Ready", "Playing"}
  /\ resumePlayback' = (ResumeAutomatically /\ stage = "Playing")
  /\ Loop("SuspendStop", N)
  /\ UNCHANGED <<amp, stage, firstFailure>>

DetachCall ==
  /\ phase = "Idle"
  /\ Loop("Detach", N)
  /\ UNCHANGED <<amp, stage, firstFailure, resumePlayback>>

\* What the running loop does to the member it is at.
MemberOperation(a) ==
  CASE phase \in {"Stop", "SuspendStop"} -> StopPlayback(a)
    [] phase = "Suspend" -> Suspend(a)
    [] OTHER -> Detach(a)

QuietMember ==
  /\ phase \in {"Stop", "SuspendStop", "Suspend", "Detach"} /\ cursor > 0
  /\ \E o \in MemberOperation(amp[cursor]) :
       /\ amp' = [amp EXCEPT ![cursor] = o.amp]
       /\ FirstError(o.ret)
  /\ StepTo(cursor - 1)
  /\ UNCHANGED <<stage, firstFailure, resumePlayback>>

StopEnd ==
  /\ phase \in {"Stop", "SuspendStop"} /\ cursor = 0
  /\ \/ /\ result # "Success"
        /\ FailGroup(result, N)
        /\ UNCHANGED stage
     \/ /\ result = "Success"
        /\ stage' = "Ready"
        /\ IF phase = "Stop" THEN Return("Success") ELSE Loop("Suspend", N)
        /\ UNCHANGED firstFailure
  /\ UNCHANGED <<amp, resumePlayback>>

SuspendEnd ==
  /\ phase = "Suspend" /\ cursor = 0
  /\ \/ /\ result # "Success"
        /\ FailGroup(result, N)
        /\ UNCHANGED stage
     \/ /\ result = "Success"
        /\ stage' = "Suspended"
        /\ Return("Success")
        /\ UNCHANGED firstFailure
  /\ UNCHANGED <<amp, resumePlayback>>

DetachEnd ==
  /\ phase = "Detach" /\ cursor = 0
  /\ \/ /\ result # "Success"
        /\ FailGroup(result, 0)
        /\ UNCHANGED <<stage, resumePlayback>>
     \/ /\ result = "Success"
        /\ stage' = "Detached"
        /\ resumePlayback' = FALSE
        /\ Return("Success")
        /\ UNCHANGED firstFailure
  /\ UNCHANGED amp

-----------------------------------------------------------------------------

PowerLostCall ==
  /\ phase = "Idle"
  /\ amp' = [m \in Member |-> PowerLost(amp[m])]
  /\ stage' = "Detached"
  /\ resumePlayback' = FALSE
  /\ UNCHANGED <<firstFailure, phase, cursor, result>>

\* The loops run to their end without an outside decision.
GroupStep ==
  \/ BringUpMember \/ BringUpEnd
  \/ StartMember \/ StartEnd
  \/ QuietMember \/ StopEnd \/ SuspendEnd \/ DetachEnd
  \/ RollbackMember \/ RollbackEnd

=============================================================================
