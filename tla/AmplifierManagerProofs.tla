----------------------- MODULE AmplifierManagerProofs -----------------------
(***************************************************************************)
(* Proofs, for every number of amplifiers and every set of managed ones,   *)
(* that AmplifierManager keeps its type, stage, hardware and evidence      *)
(* properties.  The inductive invariant IInv says that every lifecycle is  *)
(* sound on its own (Sound), that the group's stage agrees with its        *)
(* members between calls (StageAgrees), that the loop in progress has      *)
(* split the members at its cursor (LoopInv), and that a manager without a *)
(* group is at rest (AtRest).                                              *)
(***************************************************************************)
EXTENDS AmplifierManager, AmplifierLifecycleProofs

\* The stages of members lo to hi are in S.
StagesIn(lo, hi, S) == \A m \in Member : lo <= m /\ m <= hi => amp[m].stage \in S

SomeFaulted == \E m \in Member : amp[m].stage = "Faulted"

\* The members a reverse loop has passed are in stage s, but for those that failed.
Passed(s) ==
  IF result = "Success" THEN StagesIn(cursor + 1, N, {s})
  ELSE StagesIn(cursor + 1, N, {s, "Faulted"}) /\ SomeFaulted

LoopInv ==
  /\ phase = "BringUp" =>
       /\ stage = "Detached"
       /\ StagesIn(1, cursor - 1, {"Ready"}) /\ StagesIn(cursor, N, {"Detached"})
  /\ phase = "Resume" =>
       /\ stage = "Suspended"
       /\ StagesIn(1, cursor - 1, {"Ready"}) /\ StagesIn(cursor, N, {"Suspended"})
  /\ phase = "Start" =>
       /\ stage = "Ready"
       /\ StagesIn(1, cursor - 1, {"Playing"}) /\ StagesIn(cursor, N, {"Ready"})
  /\ phase \in {"Stop", "SuspendStop"} =>
       /\ stage \in {"Ready", "Playing"}
       /\ StagesIn(1, cursor, {"Ready", "Playing"}) /\ Passed("Ready")
  /\ phase = "Suspend" =>
       StagesIn(1, cursor, {"Ready"}) /\ Passed("Suspended")
  /\ phase = "Detach" => Passed("Detached")
  /\ phase = "Rollback" =>
       SomeFaulted /\ StagesIn(cursor + 1, N, {"Detached", "Suspended", "Faulted"})

AllSound == \A m \in Member : Sound(amp[m])

GroupInv == GroupTypeOK /\ AllSound /\ StageAgrees /\ LoopInv

AtRest == ~bound => phase = "Idle" /\ then = "None" /\ stage = "Detached"

IInv == TypeOK /\ GroupInv /\ AtRest

\* What the two action properties say of one step.
EvidenceStep ==
  \A m \in Member :
    /\ amp[m].firstFailure # "None" => amp'[m].firstFailure = amp[m].firstFailure
    /\ amp[m].stage = "Faulted" => amp'[m] = amp[m] \/ amp'[m] = PowerLost(amp[m])

EnergyStep ==
  \A m \in Member : Energized(amp[m], amp'[m]) =>
    /\ \A k \in Member : k < m => amp[k].stage \in {"Ready", "Playing"}
    /\ \A k \in Member : amp[k].stage \notin {"Faulted", "Waiting", "DebugHalted"}

GoodStep == GroupInv' /\ EvidenceStep /\ EnergyStep

-----------------------------------------------------------------------------
(* Steps of the group. *)

LEMMA NIsNatural == N \in Nat /\ N >= 1
BY NAssumption DEF kCapacity

\* Replacing one member by a sound successor keeps every member sound and the
\* evidence, and only that member can have been energized.
LEMMA OneMember ==
  ASSUME GroupInv, NEW m \in Member, NEW b, Succeeds(amp[m], b), amp' = [amp EXCEPT ![m] = b]
  PROVE  /\ amp' \in [Member -> Lifecycle] /\ AllSound' /\ EvidenceStep
         /\ amp'[m] = b /\ \A k \in Member \ {m} : amp'[k] = amp[k]
         /\ \A k \in Member \ {m} : ~Energized(amp[k], amp'[k])
<1>1. amp \in [Member -> Lifecycle]
  BY DEF GroupInv, GroupTypeOK
<1>2. amp'[m] = b /\ \A k \in Member \ {m} : amp'[k] = amp[k]
  BY <1>1
<1>3. amp' \in [Member -> Lifecycle]
  BY <1>1 DEF Succeeds
<1>4. AllSound'
  BY <1>2 DEF AllSound, GroupInv, Succeeds
<1>5. EvidenceStep
  BY <1>2 DEF EvidenceStep, Succeeds, Kept
<1>6. \A k \in Member \ {m} : ~Energized(amp[k], amp'[k])
  BY <1>2 DEF Energized
<1> QED BY <1>2, <1>3, <1>4, <1>5, <1>6

\* A step that leaves the members alone energizes nothing and keeps the evidence.
LEMMA SameMembers ==
  ASSUME GroupInv, UNCHANGED amp
  PROVE  EvidenceStep /\ EnergyStep /\ AllSound' /\ amp' \in [Member -> Lifecycle]
BY DEF EvidenceStep, EnergyStep, Energized, AllSound, GroupInv, GroupTypeOK

\* The calls that only start a loop.
LEMMA CallStep ==
  ASSUME GroupInv, BringUpCall \/ ResumeCall \/ StartCall \/ StopCall \/ SuspendCall \/ DetachCall
  PROVE  GoodStep
<1>1. phase = "Idle" /\ result' = "Success" /\ UNCHANGED <<amp, stage, firstFailure>>
      /\ resumePlayback' \in BOOLEAN
  BY ResumeAssumption DEF BringUpCall, ResumeCall, StartCall, StopCall, SuspendCall, DetachCall, Loop,
     GroupInv, GroupTypeOK
<1>2. EvidenceStep /\ EnergyStep /\ AllSound' /\ amp' \in [Member -> Lifecycle]
  BY <1>1, SameMembers
<1>3. \/ phase' \in {"BringUp", "Resume", "Start"} /\ cursor' = 1
      \/ phase' \in {"Stop", "SuspendStop", "Detach"} /\ cursor' = N
  BY DEF BringUpCall, ResumeCall, StartCall, StopCall, SuspendCall, DetachCall, Loop
<1>4. GroupTypeOK'
  BY <1>1, <1>2, <1>3, NIsNatural DEF GroupInv, GroupTypeOK, Phase, Ret
<1>5. StageAgrees'
  BY <1>3 DEF StageAgrees
<1>6. LoopInv'
  BY <1>1, <1>3, NIsNatural DEF BringUpCall, ResumeCall, StartCall, StopCall, SuspendCall, DetachCall, Loop,
     GroupInv, StageAgrees, LoopInv, StagesIn, Passed, Member
<1> QED BY <1>2, <1>4, <1>5, <1>6 DEF GoodStep, GroupInv

\* A member brought up or resumed moves the loop on, defers the group or rolls back.
LEMMA BringUpMemberStep ==
  ASSUME GroupInv, BringUpMember
  PROVE  GoodStep
<1> DEFINE s == IF phase = "BringUp" THEN "Detached" ELSE "Suspended"
<1>1. /\ amp \in [Member -> Lifecycle] /\ AllSound /\ cursor \in Member /\ stage = s
      /\ phase \in {"BringUp", "Resume"} /\ phase # "Idle"
      /\ StagesIn(1, cursor - 1, {"Ready"}) /\ StagesIn(cursor, N, {s})
  BY DEF BringUpMember, GroupInv, GroupTypeOK, LoopInv
<1>2. PICK o \in IF phase = "BringUp" THEN BringUp(amp[cursor]) ELSE Resume(amp[cursor]) :
        /\ amp' = [amp EXCEPT ![cursor] = o.amp]
        /\ \/ /\ o.ret = "Success"
              /\ StepTo(cursor + 1)
              /\ UNCHANGED <<stage, firstFailure, result>>
           \/ /\ o.ret # "Success" /\ Deferred(o.amp)
              /\ stage' = o.amp.stage
              /\ Return(o.ret)
              /\ UNCHANGED firstFailure
           \/ /\ o.ret # "Success" /\ ~Deferred(o.amp)
              /\ FailGroup(o.ret, cursor - 1)
              /\ UNCHANGED stage
  BY DEF BringUpMember
<1>3. amp[cursor].stage = s /\ amp[cursor] \in Lifecycle /\ Sound(amp[cursor])
  BY <1>1, NIsNatural DEF StagesIn, AllSound, Member
<1>4. /\ Succeeds(amp[cursor], o.amp)
      /\ \/ o.ret = "Success" /\ o.amp.stage = "Ready"
         \/ o.ret = "NotReady" /\ o.amp.stage \in {"Waiting", "DebugHalted"}
         \/ o.ret = "Error" /\ o.amp.stage = "Faulted"
  BY <1>1, <1>2, <1>3, BringUpOutcome, ResumeOutcome
<1>5. /\ amp' \in [Member -> Lifecycle] /\ AllSound' /\ EvidenceStep
      /\ amp'[cursor] = o.amp /\ \A k \in Member \ {cursor} : amp'[k] = amp[k]
      /\ \A k \in Member \ {cursor} : ~Energized(amp[k], amp'[k])
  BY <1>1, <1>2, <1>4, OneMember
<1>6. EnergyStep
  BY <1>1, <1>5, NIsNatural DEF EnergyStep, StagesIn, Member
<1>7. resumePlayback' = resumePlayback /\ stage' \in Stage /\ cursor \in 1..N
  BY <1>1, <1>2, <1>4 DEF BringUpMember, Succeeds, Lifecycle, Member, GroupInv, GroupTypeOK
<1>8. CASE o.ret = "Success" /\ StepTo(cursor + 1) /\ UNCHANGED <<stage, firstFailure, result>>
  <2>1. GroupTypeOK'
    BY <1>1, <1>5, <1>7, <1>8, NIsNatural DEF GroupInv, GroupTypeOK, StepTo
  <2>2. StageAgrees'
    BY <1>1, <1>8 DEF StageAgrees, StepTo
  <2>3. LoopInv'
    BY <1>1, <1>4, <1>5, <1>8, NIsNatural DEF LoopInv, StepTo, StagesIn, Member
  <2> QED BY <1>5, <1>6, <2>1, <2>2, <2>3 DEF GoodStep, GroupInv
<1>9. CASE o.ret # "Success" /\ Deferred(o.amp) /\ stage' = o.amp.stage /\ Return(o.ret)
           /\ UNCHANGED firstFailure
  <2>1. GroupTypeOK'
    BY <1>4, <1>5, <1>7, <1>9 DEF GroupInv, GroupTypeOK, Return, Phase, Ret
  <2>2. o.amp.stage \in {"Waiting", "DebugHalted"}
    BY <1>9 DEF Deferred
  <2>3. /\ amp'[cursor].stage = stage'
        /\ \A m \in 1..(cursor - 1) : amp'[m].stage = "Ready"
        /\ \A m \in (cursor + 1)..N : amp'[m].stage \in {"Detached", "Suspended"}
    BY <1>1, <1>5, <1>7, <1>9, NIsNatural DEF StagesIn, Member
  <2>4. StageAgrees'
    BY <1>1, <1>9, <2>2, <2>3 DEF StageAgrees
  <2>5. LoopInv'
    BY <1>9 DEF LoopInv, Return
  <2> QED BY <1>5, <1>6, <2>1, <2>4, <2>5 DEF GoodStep, GroupInv
<1>10. CASE o.ret # "Success" /\ ~Deferred(o.amp) /\ FailGroup(o.ret, cursor - 1) /\ UNCHANGED stage
  <2>1. GroupTypeOK'
    BY <1>4, <1>5, <1>7, <1>10, NIsNatural DEF GroupInv, GroupTypeOK, FailGroup, Phase, Ret
  <2>2. StageAgrees'
    BY <1>10 DEF StageAgrees, FailGroup
  <2>3. SomeFaulted' /\ amp'[cursor].stage = "Faulted"
    BY <1>1, <1>4, <1>5, <1>10 DEF SomeFaulted, Deferred
  <2>4. LoopInv'
    BY <1>1, <1>4, <1>5, <1>7, <1>10, <2>3, NIsNatural DEF LoopInv, FailGroup, StagesIn, Member
  <2> QED BY <1>5, <1>6, <2>1, <2>2, <2>4 DEF GoodStep, GroupInv
<1> QED BY <1>2, <1>8, <1>9, <1>10

\* The end of a bring-up or a resume: every member is ready.
LEMMA BringUpEndStep ==
  ASSUME GroupInv, BringUpEnd
  PROVE  GoodStep
<1>1. EvidenceStep /\ EnergyStep /\ AllSound' /\ amp' \in [Member -> Lifecycle]
  BY SameMembers DEF BringUpEnd
<1>2. \A m \in Member : amp'[m].stage = "Ready"
  BY NIsNatural DEF BringUpEnd, GroupInv, LoopInv, StagesIn, Member
<1>3. GroupTypeOK'
  BY <1>1, NIsNatural DEF BringUpEnd, Loop, Return, GroupInv, GroupTypeOK, Phase, Ret, Stage
<1>4. StageAgrees'
  BY <1>2 DEF BringUpEnd, StageAgrees
<1>5. LoopInv'
  BY <1>2, NIsNatural DEF BringUpEnd, Loop, Return, LoopInv, StagesIn, Member
<1> QED BY <1>1, <1>3, <1>4, <1>5 DEF GoodStep, GroupInv

\* A member at rest in a refreshed group is ready or playing as before.
LEMMA RefreshedMembers ==
  ASSUME NEW f \in [Member -> Lifecycle], \A m \in Member : Sound(f[m]) /\ f[m].stage \in {"Ready", "Playing"}
  PROVE  /\ Refreshed(f) \in [Member -> Lifecycle]
         /\ \A m \in Member : /\ Succeeds(f[m], Refreshed(f)[m])
                              /\ Refreshed(f)[m].hardware = f[m].hardware
                              /\ Refreshed(f)[m].stage \in {"Ready", "Playing"}
         /\ StageOf(Refreshed(f)) \in {"Ready", "Playing"}
         /\ StageOf(Refreshed(f)) = "Ready" => \A m \in Member : Refreshed(f)[m].stage = "Ready"
<1>1. \A m \in Member : Refreshed(f)[m] = RefreshPlaybackState(f[m], m \in Managed)
  BY DEF Refreshed
<1>2. \A m \in Member : /\ Succeeds(f[m], Refreshed(f)[m])
                        /\ Refreshed(f)[m].hardware = f[m].hardware
                        /\ Refreshed(f)[m].stage \in {"Ready", "Playing"}
  <2>1. TAKE m \in Member
  <2>2. f[m] \in Lifecycle /\ (m \in Managed) \in BOOLEAN
    OBVIOUS
  <2> QED BY <1>1, <2>2, RefreshOutcome
<1>3. Refreshed(f) \in [Member -> Lifecycle]
  BY <1>2 DEF Refreshed, Succeeds
<1> QED BY <1>2, <1>3 DEF StageOf

\* Refreshing the group leaves every member ready or playing as its chip is.
LEMMA RefreshStep ==
  ASSUME GroupInv, RefreshCall
  PROVE  GoodStep
<1>1. /\ amp \in [Member -> Lifecycle] /\ phase = "Idle"
      /\ \A m \in Member : Sound(amp[m]) /\ amp[m].stage \in {"Ready", "Playing"}
  BY DEF RefreshCall, GroupInv, GroupTypeOK, AllSound, StageAgrees
<1>2. /\ amp' \in [Member -> Lifecycle]
      /\ \A m \in Member : /\ Succeeds(amp[m], amp'[m])
                           /\ amp'[m].hardware = amp[m].hardware
                           /\ amp'[m].stage \in {"Ready", "Playing"}
      /\ stage' \in {"Ready", "Playing"}
      /\ stage' = "Ready" => \A m \in Member : amp'[m].stage = "Ready"
  BY <1>1, RefreshedMembers DEF RefreshCall
<1>3. EvidenceStep /\ EnergyStep /\ AllSound'
  BY <1>2 DEF EvidenceStep, EnergyStep, AllSound, Succeeds, Kept, Energized
<1>4. GroupTypeOK' /\ StageAgrees' /\ LoopInv'
  BY <1>1, <1>2 DEF RefreshCall, GroupInv, GroupTypeOK, StageAgrees, LoopInv, Stage
<1> QED BY <1>3, <1>4 DEF GoodStep, GroupInv

\* A member started moves the loop on, ends the call when the driver cancelled, or rolls back.
LEMMA StartMemberStep ==
  ASSUME GroupInv, StartMember
  PROVE  GoodStep
<1>1. /\ amp \in [Member -> Lifecycle] /\ AllSound /\ cursor \in Member /\ cursor \in 1..N
      /\ stage = "Ready" /\ phase = "Start" /\ resumePlayback' = resumePlayback
      /\ StagesIn(1, cursor - 1, {"Playing"}) /\ StagesIn(cursor, N, {"Ready"})
  BY DEF StartMember, GroupInv, GroupTypeOK, LoopInv, Member
<1>2. PICK o \in StartPlayback(amp[cursor]) :
       LET started == [amp EXCEPT ![cursor] = o.amp]
       IN \/ /\ o.ret = "Success"
             /\ amp' = started
             /\ StepTo(cursor + 1)
             /\ UNCHANGED <<stage, firstFailure, result>>
          \/ /\ o.ret # "Success" /\ o.amp.stage = "Ready"
             /\ amp' = Refreshed(started)
             /\ stage' = StageOf(Refreshed(started))
             /\ Return(o.ret)
             /\ UNCHANGED firstFailure
          \/ /\ o.ret # "Success" /\ o.amp.stage # "Ready"
             /\ amp' = started
             /\ FailGroup(o.ret, N)
             /\ UNCHANGED stage
  BY DEF StartMember
<1>3. amp[cursor].stage = "Ready" /\ amp[cursor] \in Lifecycle /\ Sound(amp[cursor])
  BY <1>1, NIsNatural DEF StagesIn, AllSound, Member
<1>4. /\ Succeeds(amp[cursor], o.amp)
      /\ \/ o.ret = "Success" /\ o.amp.stage = "Playing"
         \/ o.ret = "NotReady" /\ o.amp = amp[cursor]
         \/ o.ret = "Error" /\ o.amp.stage = "Faulted"
  BY <1>3, StartOutcome
<1>5. ASSUME amp' = [amp EXCEPT ![cursor] = o.amp]
      PROVE  /\ amp' \in [Member -> Lifecycle] /\ AllSound' /\ EvidenceStep
             /\ amp'[cursor] = o.amp /\ \A k \in Member \ {cursor} : amp'[k] = amp[k]
             /\ EnergyStep
  <2>1. /\ amp' \in [Member -> Lifecycle] /\ AllSound' /\ EvidenceStep
        /\ amp'[cursor] = o.amp /\ \A k \in Member \ {cursor} : amp'[k] = amp[k]
        /\ \A k \in Member \ {cursor} : ~Energized(amp[k], amp'[k])
    BY <1>1, <1>4, <1>5, OneMember
  <2> QED BY <1>1, <2>1, NIsNatural DEF EnergyStep, StagesIn, Member
<1>6. CASE /\ o.ret = "Success"
           /\ amp' = [amp EXCEPT ![cursor] = o.amp]
           /\ StepTo(cursor + 1)
           /\ UNCHANGED <<stage, firstFailure, result>>
  <2>1. GroupTypeOK' /\ StageAgrees'
    BY <1>1, <1>5, <1>6, NIsNatural DEF GroupInv, GroupTypeOK, StageAgrees, StepTo
  <2>2. LoopInv'
    BY <1>1, <1>4, <1>5, <1>6, NIsNatural DEF LoopInv, StepTo, StagesIn, Member
  <2> QED BY <1>5, <1>6, <2>1, <2>2 DEF GoodStep, GroupInv
<1>7. CASE /\ o.ret # "Success" /\ o.amp.stage = "Ready"
           /\ amp' = Refreshed([amp EXCEPT ![cursor] = o.amp])
           /\ stage' = StageOf(Refreshed([amp EXCEPT ![cursor] = o.amp]))
           /\ Return(o.ret)
           /\ UNCHANGED firstFailure
  <2>1. [amp EXCEPT ![cursor] = o.amp] = amp /\ o.ret \in Ret
    BY <1>1, <1>4, <1>7 DEF Ret
  <2>2. \A m \in Member : Sound(amp[m]) /\ amp[m].stage \in {"Ready", "Playing"}
    BY <1>1, NIsNatural DEF AllSound, StagesIn, Member
  <2>3. /\ amp' \in [Member -> Lifecycle]
        /\ \A m \in Member : /\ Succeeds(amp[m], amp'[m])
                             /\ amp'[m].hardware = amp[m].hardware
                             /\ amp'[m].stage \in {"Ready", "Playing"}
        /\ stage' \in {"Ready", "Playing"}
        /\ stage' = "Ready" => \A m \in Member : amp'[m].stage = "Ready"
    <3>1. amp' = Refreshed(amp) /\ stage' = StageOf(Refreshed(amp))
      BY <1>7, <2>1
    <3> QED BY <1>1, <2>2, <3>1, RefreshedMembers
  <2>4. EvidenceStep /\ EnergyStep /\ AllSound'
    BY <2>3 DEF EvidenceStep, EnergyStep, AllSound, Succeeds, Kept, Energized
  <2>5. GroupTypeOK' /\ StageAgrees' /\ LoopInv'
    BY <1>1, <1>7, <2>1, <2>3 DEF Return, GroupInv, GroupTypeOK, StageAgrees, LoopInv, Stage, Phase
  <2> QED BY <2>4, <2>5 DEF GoodStep, GroupInv
<1>8. CASE /\ o.ret # "Success" /\ o.amp.stage # "Ready"
           /\ amp' = [amp EXCEPT ![cursor] = o.amp]
           /\ FailGroup(o.ret, N)
           /\ UNCHANGED stage
  <2>1. GroupTypeOK' /\ StageAgrees'
    BY <1>1, <1>4, <1>5, <1>8, NIsNatural
    DEF GroupInv, GroupTypeOK, StageAgrees, FailGroup, Phase, Ret
  <2>2. LoopInv'
    BY <1>1, <1>3, <1>4, <1>5, <1>8, NIsNatural DEF LoopInv, FailGroup, StagesIn, SomeFaulted, Member
  <2> QED BY <1>5, <1>8, <2>1, <2>2 DEF GoodStep, GroupInv
<1> QED BY <1>2, <1>6, <1>7, <1>8

\* The end of a start: every member plays.
LEMMA StartEndStep ==
  ASSUME GroupInv, StartEnd
  PROVE  GoodStep
<1>1. EvidenceStep /\ EnergyStep /\ AllSound' /\ amp' \in [Member -> Lifecycle]
  BY SameMembers DEF StartEnd
<1>2. \A m \in Member : amp'[m].stage = "Playing"
  BY NIsNatural DEF StartEnd, GroupInv, LoopInv, StagesIn, Member
<1>3. GroupTypeOK' /\ StageAgrees' /\ LoopInv'
  BY <1>1, <1>2 DEF StartEnd, Return, GroupInv, GroupTypeOK, StageAgrees, LoopInv, Phase, Ret, Stage
<1> QED BY <1>1, <1>3 DEF GoodStep, GroupInv

\* A member stopped, suspended or detached by a reverse loop is passed.
LEMMA QuietMemberStep ==
  ASSUME GroupInv, QuietMember
  PROVE  GoodStep
<1>0. PICK s \in {"Ready", "Suspended", "Detached"} :
        /\ phase \in {"Stop", "SuspendStop"} => s = "Ready"
        /\ phase = "Suspend" => s = "Suspended"
        /\ phase = "Detach" => s = "Detached"
  OBVIOUS
<1>1. /\ amp \in [Member -> Lifecycle] /\ AllSound /\ cursor \in Member /\ cursor \in 1..N
      /\ phase \in {"Stop", "SuspendStop", "Suspend", "Detach"} /\ phase' = phase
      /\ cursor' = cursor - 1 /\ result \in Ret
      /\ UNCHANGED <<stage, firstFailure, resumePlayback>>
  BY NIsNatural DEF QuietMember, StepTo, GroupInv, GroupTypeOK, Member
<1>2. PICK o \in MemberOperation(amp[cursor]) : amp' = [amp EXCEPT ![cursor] = o.amp] /\ FirstError(o.ret)
  BY DEF QuietMember
<1>3. Passed(s) /\ amp[cursor] \in Lifecycle /\ Sound(amp[cursor])
  BY <1>0, <1>1 DEF GroupInv, LoopInv, AllSound
<1>4. /\ Succeeds(amp[cursor], o.amp) /\ ~Energized(amp[cursor], o.amp)
      /\ \/ o.ret = "Success" /\ o.amp.stage = s
         \/ o.ret \in {"NotReady", "Error"} /\ o.amp.stage = "Faulted"
  <2>1. CASE phase \in {"Stop", "SuspendStop"}
    <3>1. amp[cursor].stage \in {"Ready", "Playing"} /\ o \in StopPlayback(amp[cursor])
      BY <1>1, <1>2, <2>1 DEF GroupInv, LoopInv, StagesIn, MemberOperation, Member
    <3> QED BY <1>0, <1>3, <2>1, <3>1, StopOutcome
  <2>2. CASE phase = "Suspend"
    <3>1. amp[cursor].stage = "Ready" /\ o \in Suspend(amp[cursor])
      BY <1>1, <1>2, <2>2 DEF GroupInv, LoopInv, StagesIn, MemberOperation, Member
    <3> QED BY <1>0, <1>3, <2>2, <3>1, SuspendOutcome
  <2>3. CASE phase = "Detach"
    <3>1. o \in Detach(amp[cursor])
      BY <1>2, <2>3 DEF MemberOperation
    <3> QED BY <1>0, <1>3, <2>3, <3>1, DetachOutcome
  <2> QED BY <1>1, <2>1, <2>2, <2>3
<1>5. /\ amp' \in [Member -> Lifecycle] /\ AllSound' /\ EvidenceStep
      /\ amp'[cursor] = o.amp /\ \A k \in Member \ {cursor} : amp'[k] = amp[k]
      /\ \A k \in Member \ {cursor} : ~Energized(amp[k], amp'[k])
  BY <1>1, <1>2, <1>4, OneMember
<1>6. EnergyStep
  BY <1>4, <1>5 DEF EnergyStep
<1>7. result' = (IF result = "Success" THEN o.ret ELSE result) /\ result' \in Ret
  BY <1>1, <1>2, <1>4 DEF FirstError, Ret
<1>8. GroupTypeOK' /\ StageAgrees'
  BY <1>1, <1>5, <1>7, NIsNatural DEF GroupInv, GroupTypeOK, StageAgrees
<1>9. \A m \in Member : cursor <= m /\ m <= N => m = cursor \/ (cursor + 1 <= m /\ m <= N)
  BY <1>1, NIsNatural DEF Member
<1>10. Passed(s)'
  <2>1. CASE result' = "Success"
    <3>1. /\ o.amp.stage = s
          /\ \A m \in Member : cursor + 1 <= m /\ m <= N => amp[m].stage = s
      BY <1>3, <1>4, <1>7, <2>1 DEF Passed, StagesIn
    <3>2. \A m \in Member : cursor <= m /\ m <= N => amp'[m].stage = s
      BY <1>1, <1>5, <1>9, <3>1
    <3> QED BY <1>1, <2>1, <3>2, NIsNatural DEF Passed, StagesIn
  <2>2. CASE result' # "Success"
    <3>1. \A m \in Member : cursor + 1 <= m /\ m <= N => amp[m].stage \in {s, "Faulted"}
      BY <1>3 DEF Passed, StagesIn
    <3>2. \A m \in Member : cursor <= m /\ m <= N => amp'[m].stage \in {s, "Faulted"}
      BY <1>1, <1>4, <1>5, <1>9, <3>1
    <3>3. SomeFaulted'
      <4>1. CASE result = "Success"
        BY <1>1, <1>4, <1>5, <1>7, <2>2, <4>1 DEF SomeFaulted
      <4>2. CASE result # "Success"
        <5>1. PICK m \in Member : amp[m].stage = "Faulted"
          BY <1>3, <4>2 DEF Passed, SomeFaulted
        <5>2. amp'[m].stage = "Faulted"
          BY <1>1, <1>4, <1>5, <5>1 DEF Succeeds, Kept
        <5> QED BY <5>2 DEF SomeFaulted
      <4> QED BY <4>1, <4>2
    <3> QED BY <1>1, <2>2, <3>2, <3>3, NIsNatural DEF Passed, StagesIn
  <2> QED BY <2>1, <2>2
<1>11. ASSUME phase \in {"Stop", "SuspendStop"} PROVE LoopInv'
  <2>1. s = "Ready" /\ stage' \in {"Ready", "Playing"} /\ StagesIn(1, cursor, {"Ready", "Playing"})
    BY <1>0, <1>1, <1>11 DEF GroupInv, LoopInv
  <2>2. StagesIn(1, cursor, {"Ready", "Playing"})'
    BY <1>1, <1>5, <2>1, NIsNatural DEF StagesIn, Member
  <2>3. Passed("Ready")'
    BY <1>10, <2>1
  <2> QED BY <1>1, <1>11, <2>1, <2>2, <2>3 DEF LoopInv
<1>12. ASSUME phase = "Suspend" PROVE LoopInv'
  <2>1. s = "Suspended" /\ StagesIn(1, cursor, {"Ready"})
    BY <1>0, <1>12 DEF GroupInv, LoopInv
  <2>2. StagesIn(1, cursor, {"Ready"})'
    BY <1>1, <1>5, <2>1, NIsNatural DEF StagesIn, Member
  <2>3. Passed("Suspended")'
    BY <1>10, <2>1
  <2> QED BY <1>1, <1>12, <2>1, <2>2, <2>3 DEF LoopInv
<1>13. ASSUME phase = "Detach" PROVE LoopInv'
  <2>1. s = "Detached"
    BY <1>0, <1>13
  <2>2. Passed("Detached")'
    BY <1>10, <2>1
  <2> QED BY <1>1, <1>13, <2>2 DEF LoopInv
<1> QED BY <1>1, <1>5, <1>6, <1>8, <1>11, <1>12, <1>13 DEF GoodStep, GroupInv

\* The end of a stop, a suspend or a detach: the members are quiet, or the
\* rollback begins.
LEMMA QuietEndStep ==
  ASSUME GroupInv, StopEnd \/ SuspendEnd \/ DetachEnd
  PROVE  GoodStep
<1>1. EvidenceStep /\ EnergyStep /\ AllSound' /\ amp' \in [Member -> Lifecycle] /\ UNCHANGED amp
  BY SameMembers DEF StopEnd, SuspendEnd, DetachEnd
<1>2. PICK s \in {"Ready", "Suspended", "Detached"} :
        /\ Passed(s) /\ cursor = 0
        /\ \/ phase \in {"Stop", "SuspendStop"} /\ s = "Ready"
           \/ phase = "Suspend" /\ s = "Suspended"
           \/ phase = "Detach" /\ s = "Detached"
  BY DEF StopEnd, SuspendEnd, DetachEnd, GroupInv, LoopInv
<1>3. CASE result = "Success"
  <2>1. \A m \in Member : amp[m].stage = s
    BY <1>2, <1>3, NIsNatural DEF Passed, StagesIn, Member
  <2>2. stage' = s /\ firstFailure' = firstFailure /\ resumePlayback' \in BOOLEAN
        /\ \/ phase' = "Idle" /\ cursor' = 0 /\ result' = "Success"
           \/ phase' = "Suspend" /\ cursor' = N /\ result' = "Success" /\ s = "Ready"
    BY <1>2, <1>3 DEF StopEnd, SuspendEnd, DetachEnd, Return, Loop, GroupInv, GroupTypeOK
  <2>3. GroupTypeOK'
    BY <1>1, <2>2, NIsNatural DEF GroupInv, GroupTypeOK, Phase, Ret, Stage
  <2>4. StageAgrees'
    BY <1>1, <2>1, <2>2 DEF StageAgrees
  <2>5. LoopInv'
    BY <1>1, <2>1, <2>2, NIsNatural DEF LoopInv, Passed, StagesIn, Member
  <2> QED BY <1>1, <2>3, <2>4, <2>5 DEF GoodStep, GroupInv
<1>4. CASE result # "Success"
  <2>1. SomeFaulted' /\ \A m \in Member : amp'[m].stage \in {s, "Faulted"}
    BY <1>1, <1>2, <1>4, NIsNatural DEF Passed, StagesIn, Member, SomeFaulted
  <2>2. /\ phase' = "Rollback" /\ result' = result /\ UNCHANGED <<stage, resumePlayback>>
        /\ firstFailure' \in {"Success", "Error"} /\ cursor' \in 0..N
        /\ cursor' = N \/ (cursor' = 0 /\ s = "Detached")
    BY <1>2, <1>4, NIsNatural DEF StopEnd, SuspendEnd, DetachEnd, FailGroup, GroupInv, GroupTypeOK
  <2>3. GroupTypeOK' /\ StageAgrees'
    BY <1>1, <2>2 DEF GroupInv, GroupTypeOK, StageAgrees, Phase, Ret
  <2>4. LoopInv'
    BY <2>1, <2>2, NIsNatural DEF LoopInv, StagesIn, Member
  <2> QED BY <1>1, <2>3, <2>4 DEF GoodStep, GroupInv
<1> QED BY <1>3, <1>4

\* A member rolled back is detached, or faulted as it was or by the attempt.
LEMMA RollbackMemberStep ==
  ASSUME GroupInv, RollbackMember
  PROVE  GoodStep
<1>1. /\ amp \in [Member -> Lifecycle] /\ AllSound /\ cursor \in Member /\ cursor \in 1..N
      /\ phase = "Rollback" /\ phase' = phase /\ cursor' = cursor - 1
      /\ UNCHANGED <<stage, firstFailure, resumePlayback, result>>
      /\ SomeFaulted /\ StagesIn(cursor + 1, N, {"Detached", "Suspended", "Faulted"})
  BY NIsNatural DEF RollbackMember, StepTo, GroupInv, GroupTypeOK, LoopInv, Member
<1>2. PICK b : /\ amp' = [amp EXCEPT ![cursor] = b]
               /\ Succeeds(amp[cursor], b) /\ ~Energized(amp[cursor], b)
               /\ b.stage \in {"Detached", "Faulted"}
  <2>1. amp[cursor] \in Lifecycle /\ Sound(amp[cursor])
    BY <1>1 DEF AllSound
  <2>2. CASE amp[cursor].stage = "Faulted" /\ UNCHANGED amp
    BY <1>1, <2>1, <2>2 DEF Succeeds, Kept, Energized
  <2>3. CASE \E o \in Detach(amp[cursor]) : amp' = [amp EXCEPT ![cursor] = o.amp]
    BY <2>1, <2>3, DetachOutcome
  <2> QED BY <2>2, <2>3 DEF RollbackMember
<1>3. /\ amp' \in [Member -> Lifecycle] /\ AllSound' /\ EvidenceStep
      /\ amp'[cursor] = b /\ \A k \in Member \ {cursor} : amp'[k] = amp[k]
      /\ \A k \in Member \ {cursor} : ~Energized(amp[k], amp'[k])
  BY <1>1, <1>2, OneMember
<1>4. EnergyStep
  BY <1>2, <1>3 DEF EnergyStep
<1>5. GroupTypeOK' /\ StageAgrees'
  BY <1>1, <1>3, NIsNatural DEF GroupInv, GroupTypeOK, StageAgrees
<1>6. SomeFaulted'
  <2>1. PICK m \in Member : amp[m].stage = "Faulted"
    BY <1>1 DEF SomeFaulted
  <2>2. amp'[m].stage = "Faulted"
    BY <1>1, <1>2, <1>3, <2>1 DEF Succeeds, Kept
  <2> QED BY <2>2 DEF SomeFaulted
<1>7. \A m \in Member : cursor <= m /\ m <= N => amp'[m].stage \in {"Detached", "Suspended", "Faulted"}
  <2>1. \A m \in Member : cursor <= m /\ m <= N => m = cursor \/ (cursor + 1 <= m /\ m <= N)
    BY <1>1, NIsNatural DEF Member
  <2> QED BY <1>1, <1>2, <1>3, <2>1 DEF StagesIn
<1>8. LoopInv'
  BY <1>1, <1>6, <1>7, NIsNatural DEF LoopInv, StagesIn
<1> QED BY <1>3, <1>4, <1>5, <1>8 DEF GoodStep, GroupInv

\* The end of a rollback: the group is faulted, and nobody is running.
LEMMA RollbackEndStep ==
  ASSUME GroupInv, RollbackEnd
  PROVE  GoodStep
<1>1. EvidenceStep /\ EnergyStep /\ AllSound' /\ amp' \in [Member -> Lifecycle]
  BY SameMembers DEF RollbackEnd
<1>2. SomeFaulted' /\ \A m \in Member : amp'[m].stage \in {"Detached", "Suspended", "Faulted"}
  BY NIsNatural DEF RollbackEnd, GroupInv, LoopInv, StagesIn, Member, SomeFaulted
<1>3. GroupTypeOK' /\ StageAgrees' /\ LoopInv'
  BY <1>1, <1>2 DEF RollbackEnd, Return, GroupInv, GroupTypeOK, StageAgrees, LoopInv, SomeFaulted,
     Phase, Stage
<1> QED BY <1>1, <1>3 DEF GoodStep, GroupInv

\* A power loss detaches every member.
LEMMA PowerLostStep ==
  ASSUME GroupInv, PowerLostCall
  PROVE  GoodStep
<1>1. \A m \in Member : amp'[m] = PowerLost(amp[m]) /\ amp[m] \in Lifecycle
  BY DEF PowerLostCall, GroupInv, GroupTypeOK
<1>2. amp' \in [Member -> Lifecycle]
  BY <1>1, PowerLostOutcome DEF PowerLostCall
<1>3. AllSound' /\ EvidenceStep /\ EnergyStep
  BY <1>1, PowerLostOutcome DEF AllSound, EvidenceStep, EnergyStep
<1>4. \A m \in Member : amp'[m].stage = "Detached"
  BY <1>1, PowerLostOutcome
<1>5. GroupTypeOK' /\ StageAgrees' /\ LoopInv'
  BY <1>2, <1>4 DEF PowerLostCall, GroupInv, GroupTypeOK, StageAgrees, LoopInv, Stage
<1> QED BY <1>3, <1>5 DEF GoodStep, GroupInv

\* Every step inside a group call.
LEMMA GroupStepGood ==
  ASSUME GroupInv, GroupStep
  PROVE  GoodStep
BY BringUpMemberStep, BringUpEndStep, StartMemberStep, StartEndStep, QuietMemberStep, QuietEndStep,
   RollbackMemberStep, RollbackEndStep DEF GroupStep

-----------------------------------------------------------------------------
(* Steps of the manager. *)

\* What a chip that settles does to its lifecycle.
LEMMA SettledMember ==
  ASSUME GroupInv, NEW m \in Member, amp[m].stage # "Faulted", NEW a \in Settled(m)
  PROVE  Succeeds(amp[m], a) /\ ~Energized(amp[m], a) /\ a.stage = amp[m].stage
<1>1. amp[m] \in Lifecycle /\ Sound(amp[m])
  BY DEF GroupInv, GroupTypeOK, AllSound
<1>2. \/ a = amp[m]
      \/ amp[m].hardware = "Audible" /\ a = [amp[m] EXCEPT !.hardware = "Muted"]
  BY <1>1 DEF Settled, Lifecycle
<1>3. CASE a = amp[m]
  BY <1>1, <1>3 DEF Succeeds, Kept, Energized
<1>4. CASE amp[m].hardware = "Audible" /\ a = [amp[m] EXCEPT !.hardware = "Muted"]
  BY <1>1, <1>4 DEF Succeeds, Sound, Kept, Energized, Lifecycle, Hardware
<1> QED BY <1>2, <1>3, <1>4

\* A member that is monitored and does not fail leaves the group's stage right.
LEMMA MonitoredStep ==
  ASSUME GroupInv, NEW m \in Member, NEW a, phase = "Idle", Monitored(m, a),
         Succeeds(amp[m], a), ~Energized(amp[m], a),
         amp[m].stage \in {"Ready", "Playing"}, a.stage \in {amp[m].stage, "Ready"}
  PROVE  GoodStep
<1>1. /\ amp' \in [Member -> Lifecycle] /\ AllSound' /\ EvidenceStep
      /\ amp'[m] = a /\ \A k \in Member \ {m} : amp'[k] = amp[k]
      /\ \A k \in Member \ {m} : ~Energized(amp[k], amp'[k])
  BY OneMember DEF Monitored
<1>2. EnergyStep
  BY <1>1 DEF EnergyStep
<1>3. GroupTypeOK' /\ LoopInv' /\ stage \in Stage
  BY <1>1 DEF Monitored, GroupInv, GroupTypeOK, LoopInv
<1>4. StageAgrees'
  <2>1. CASE stage \in {"Ready", "Playing"}
    BY <1>1, <2>1 DEF Monitored, GroupInv, StageAgrees
  <2>2. CASE stage \in {"Suspended", "Detached", "Faulted"}
    BY <2>2 DEF GroupInv, StageAgrees
  <2>3. CASE stage \in {"Waiting", "DebugHalted"}
    <3>1. PICK w \in Member :
            /\ amp[w].stage = stage
            /\ \A k \in 1..(w - 1) : amp[k].stage = "Ready"
            /\ \A k \in (w + 1)..N : amp[k].stage \in {"Detached", "Suspended"}
      BY <2>3 DEF GroupInv, StageAgrees
    <3>2. w # m /\ ~(m \in (w + 1)..N)
      BY <2>3, <3>1
    <3>3. /\ amp'[w].stage = stage'
          /\ \A k \in 1..(w - 1) : amp'[k].stage = "Ready"
          /\ \A k \in (w + 1)..N : amp'[k].stage \in {"Detached", "Suspended"}
      BY <1>1, <3>1, <3>2, NIsNatural DEF Monitored, Member
    <3> QED BY <2>3, <3>3 DEF Monitored, StageAgrees
  <2> QED BY <1>3, <2>1, <2>2, <2>3 DEF Stage
<1> QED BY <1>1, <1>2, <1>3, <1>4 DEF GoodStep, GroupInv

\* A runtime failure begins the rollback of every member.
LEMMA FailRuntimeStep ==
  ASSUME GroupInv, NEW m \in Member, NEW a, phase = "Idle", FailRuntime(m, a),
         Succeeds(amp[m], a), ~Energized(amp[m], a), amp[m].stage # "Faulted"
  PROVE  GoodStep
<1>1. PICK o \in ReportRuntimeFailure(a) : /\ amp' = [amp EXCEPT ![m] = o.amp]
                                          /\ FailGroup(o.ret, N)
                                          /\ UNCHANGED <<stage, resumePlayback>>
  BY DEF FailRuntime
<1>2. /\ Succeeds(amp[m], o.amp) /\ ~Energized(amp[m], o.amp)
      /\ o.ret = "Error" /\ o.amp.stage = "Faulted"
  <2>1. CASE a.stage = "Faulted"
    <3>1. o = [amp |-> a, ret |-> "Error"]
      BY <1>1, <2>1 DEF ReportRuntimeFailure, Done
    <3> QED BY <2>1, <3>1
  <2>2. CASE a.stage # "Faulted"
    <3>1. Failed(a, o) /\ Succeeds(a, o.amp) /\ amp[m] \in Lifecycle
      BY <1>1, <2>2, RuntimeFailureOutcome DEF Succeeds, GroupInv, GroupTypeOK
    <3> QED BY <3>1 DEF Failed, Succeeds, Kept, Energized, Lifecycle, Hardware
  <2> QED BY <2>1, <2>2
<1>3. /\ amp' \in [Member -> Lifecycle] /\ AllSound' /\ EvidenceStep
      /\ amp'[m] = o.amp /\ \A k \in Member \ {m} : amp'[k] = amp[k]
      /\ \A k \in Member \ {m} : ~Energized(amp[k], amp'[k])
  BY <1>1, <1>2, OneMember
<1>4. EnergyStep
  BY <1>2, <1>3 DEF EnergyStep
<1>5. GroupTypeOK' /\ StageAgrees'
  BY <1>1, <1>2, <1>3, NIsNatural
  DEF GroupInv, GroupTypeOK, StageAgrees, FailGroup, Phase, Ret
<1>6. LoopInv'
  BY <1>1, <1>2, <1>3, NIsNatural DEF LoopInv, FailGroup, StagesIn, SomeFaulted, Member
<1> QED BY <1>3, <1>4, <1>5, <1>6 DEF GoodStep, GroupInv

\* Monitoring, cancelling or retrying one member.
LEMMA MemberCallStep ==
  ASSUME GroupInv, NEW m \in Member, RuntimeTick(m) \/ CancelPlayback(m) \/ RetryFailed(m)
  PROVE  GoodStep /\ UNCHANGED managerVars /\ bound
<1>1. amp[m] \in Lifecycle /\ Sound(amp[m])
  BY DEF GroupInv, GroupTypeOK, AllSound
<1>2. CASE RuntimeTick(m)
  <2>1. phase = "Idle" /\ bound /\ UNCHANGED managerVars /\ amp[m].stage \in {"Ready", "Playing"}
    BY <1>2 DEF RuntimeTick, MayCall, GroupInv, StageAgrees
  <2>2. PICK a \in Settled(m), hasAudio \in BOOLEAN :
         LET stops == m \notin Managed /\ ~hasAudio /\ a.stage = "Playing"
         IN \/ FailRuntime(m, a)
            \/ \E o \in IF stops THEN StopPlayback(a) ELSE Done(a, "Success") :
                 IF o.ret = "Success" THEN Monitored(m, o.amp) ELSE FailRuntime(m, o.amp)
    BY <1>2 DEF RuntimeTick
  <2>3. Succeeds(amp[m], a) /\ ~Energized(amp[m], a) /\ a.stage = amp[m].stage
    BY <2>1, SettledMember
  <2>4. CASE FailRuntime(m, a)
    BY <2>1, <2>3, <2>4, FailRuntimeStep
  <2>5. ASSUME NEW o \in StopPlayback(a) \union Done(a, "Success"),
               IF o.ret = "Success" THEN Monitored(m, o.amp) ELSE FailRuntime(m, o.amp)
        PROVE  GoodStep
    <3>1. /\ Succeeds(a, o.amp) /\ ~Energized(a, o.amp)
          /\ o.ret = "Success" => o.amp.stage \in {a.stage, "Ready"}
      <4>1. CASE o \in StopPlayback(a)
        BY <2>1, <2>3, <4>1, StopOutcome DEF Succeeds
      <4>2. CASE o = [amp |-> a, ret |-> "Success"]
        BY <2>3, <4>2 DEF Succeeds, Kept, Energized
      <4> QED BY <2>5, <4>1, <4>2 DEF Done
    <3>2. Succeeds(amp[m], o.amp) /\ ~Energized(amp[m], o.amp)
      BY <1>1, <2>1, <2>3, <3>1 DEF Succeeds, Kept, Energized, Lifecycle, Hardware
    <3> QED BY <2>1, <2>3, <2>5, <3>1, <3>2, MonitoredStep, FailRuntimeStep
  <2> QED BY <2>1, <2>2, <2>4, <2>5
<1>3. CASE CancelPlayback(m)
  <2>1. phase = "Idle" /\ bound /\ UNCHANGED managerVars /\ amp[m].stage \in {"Ready", "Playing"}
    BY <1>3 DEF CancelPlayback, MayCall
  <2>2. CASE m \in Managed
    <3>1. PICK a \in Settled(m) : Monitored(m, a) \/ FailRuntime(m, a)
      BY <1>3, <2>2 DEF CancelPlayback
    <3>2. Succeeds(amp[m], a) /\ ~Energized(amp[m], a) /\ a.stage = amp[m].stage
      BY <2>1, SettledMember
    <3> QED BY <2>1, <3>1, <3>2, MonitoredStep, FailRuntimeStep
  <2>3. CASE m \notin Managed
    <3>1. PICK o \in StopPlayback(amp[m]) :
            IF o.ret = "Success" THEN Monitored(m, o.amp) ELSE FailRuntime(m, o.amp)
      BY <1>3, <2>3 DEF CancelPlayback
    <3>2. /\ Succeeds(amp[m], o.amp) /\ ~Energized(amp[m], o.amp)
          /\ o.ret = "Success" => o.amp.stage = "Ready"
      BY <1>1, <2>1, StopOutcome
    <3> QED BY <2>1, <3>1, <3>2, MonitoredStep, FailRuntimeStep
  <2> QED BY <2>2, <2>3
<1>4. CASE RetryFailed(m)
  <2>1. Succeeds(amp[m], amp[m]) /\ ~Energized(amp[m], amp[m])
    BY <1>1 DEF Succeeds, Kept, Energized
  <2> QED BY <1>4, <2>1, FailRuntimeStep DEF RetryFailed, MayCall, Waiting
<1> QED BY <1>2, <1>3, <1>4

\* Destroying the lifecycles and creating new ones over the same chips.
LEMMA ReleaseStep ==
  ASSUME IInv, Release
  PROVE  GroupInv' /\ EnergyStep
<1>1. \A m \in Member : amp[m].hardware \in Hardware /\ amp'[m] = NewLifecycle(amp[m].hardware)
  BY DEF Release, IInv, GroupInv, GroupTypeOK, Lifecycle
<1>2. \A m \in Member : /\ amp'[m] \in Lifecycle /\ Sound(amp'[m]) /\ amp'[m].stage = "Detached"
                        /\ ~Energized(amp[m], amp'[m])
  BY <1>1, NewLifecycleOutcome DEF Energized
<1>3. amp' \in [Member -> Lifecycle]
  BY <1>1, <1>2 DEF Release
<1>4. GroupTypeOK' /\ StageAgrees' /\ LoopInv'
  BY <1>2, <1>3 DEF Release, IInv, GroupInv, GroupTypeOK, StageAgrees, LoopInv, Stage
<1>5. AllSound' /\ EnergyStep
  BY <1>2 DEF AllSound, EnergyStep
<1> QED BY <1>4, <1>5 DEF GroupInv

LEMMA InitHolds ==
  ASSUME Init
  PROVE  IInv
<1>1. \A m \in Member : /\ amp[m] \in Lifecycle /\ Sound(amp[m]) /\ amp[m].stage = "Detached"
  BY NewLifecycleOutcome DEF Init, GroupInit, Hardware
<1>2. GroupTypeOK /\ AllSound /\ StageAgrees /\ LoopInv
  BY <1>1 DEF Init, GroupInit, GroupTypeOK, AllSound, StageAgrees, LoopInv, Stage, Phase, Ret
<1> QED BY <1>2 DEF IInv, GroupInv, TypeOK, AtRest, Init

\* Every step keeps the invariant, energizes members only in order and keeps
\* the evidence unless the lifecycles are released.
LEMMA NextHolds ==
  ASSUME IInv, [Next]_vars
  PROVE  IInv' /\ EnergyStep /\ (bound /\ bound' => EvidenceStep)
<1>1. GroupInv /\ TypeOK /\ AtRest
  BY DEF IInv
<1>2. CASE Forward
  <2>1. bound /\ UNCHANGED managerVars
    BY <1>2 DEF Forward, MayCall
  <2>2. GoodStep
    BY <1>1, <1>2, CallStep, RefreshStep, PowerLostStep DEF Forward
  <2> QED BY <1>1, <2>1, <2>2 DEF GoodStep, IInv, GroupInv, TypeOK, AtRest, managerVars
<1>3. ASSUME NEW m \in Member, RuntimeTick(m) \/ CancelPlayback(m) \/ RetryFailed(m)
      PROVE  IInv' /\ EnergyStep /\ (bound /\ bound' => EvidenceStep)
  <2>1. GoodStep /\ UNCHANGED managerVars /\ bound
    BY <1>1, <1>3, MemberCallStep
  <2> QED BY <1>1, <2>1 DEF GoodStep, IInv, GroupInv, TypeOK, AtRest, managerVars
<1>4. CASE RetryBringUp \/ Unbind
  <2>1. DetachCall /\ bound /\ bound' = bound /\ released' = released /\ then' \in {"BringUp", "Release"}
    BY <1>4 DEF RetryBringUp, Unbind, MayCall
  <2>2. GoodStep
    BY <1>1, <2>1, CallStep
  <2> QED BY <1>1, <2>1, <2>2 DEF GoodStep, IInv, GroupInv, TypeOK, AtRest
<1>5. CASE RetryDetached
  <2>1. bound /\ bound' = bound /\ released' = released /\ then' = "None"
    BY <1>1, <1>5 DEF RetryDetached, AtRest
  <2>2. GoodStep
    <3>1. CASE BringUpCall
      BY <1>1, <3>1, CallStep
    <3>2. CASE UNCHANGED groupVars
      <4>1. EvidenceStep /\ EnergyStep /\ AllSound'
        BY <1>1, <3>2, SameMembers DEF groupVars
      <4> QED BY <1>1, <3>2, <4>1
          DEF groupVars, GoodStep, GroupInv, GroupTypeOK, StageAgrees, LoopInv, Passed, StagesIn, SomeFaulted
    <3> QED BY <1>5, <3>1, <3>2 DEF RetryDetached
  <2> QED BY <1>1, <2>1, <2>2 DEF GoodStep, IInv, GroupInv, TypeOK, AtRest
<1>6. CASE Release
  <2>1. GroupInv' /\ EnergyStep
    BY <1>6, ReleaseStep
  <2>2. released' \in [Member -> {"Success", "Error"}]
    BY <1>1, <1>6 DEF Release, GroupInv, GroupTypeOK, Lifecycle
  <2> QED BY <1>1, <1>6, <2>1, <2>2 DEF Release, IInv, GroupInv, TypeOK, AtRest
<1>7. CASE Bind \/ UNCHANGED vars
  <2>1. UNCHANGED <<groupVars, then, released>> /\ bound' \in BOOLEAN /\ (bound' = bound \/ bound')
    BY <1>1, <1>7 DEF Bind, vars, managerVars, TypeOK
  <2>2. EvidenceStep /\ EnergyStep /\ AllSound'
    BY <1>1, <2>1, SameMembers DEF groupVars
  <2>3. GroupInv'
    BY <1>1, <2>1, <2>2
    DEF groupVars, GroupInv, GroupTypeOK, StageAgrees, LoopInv, Passed, StagesIn, SomeFaulted
  <2> QED BY <1>1, <2>1, <2>2, <2>3 DEF groupVars, IInv, GroupInv, TypeOK, AtRest
<1>8. CASE GroupStep /\ UNCHANGED managerVars
  <2>1. GoodStep
    BY <1>1, <1>8, GroupStepGood
  <2>2. bound
    BY <1>1, <1>8 DEF AtRest, GroupStep, BringUpMember, BringUpEnd, StartMember, StartEnd, QuietMember,
       StopEnd, SuspendEnd, DetachEnd, RollbackMember, RollbackEnd
  <2> QED BY <1>1, <1>8, <2>1, <2>2 DEF GoodStep, IInv, GroupInv, TypeOK, AtRest, managerVars
<1> QED BY <1>2, <1>3, <1>4, <1>5, <1>6, <1>7, <1>8 DEF Next

\* The inductive invariant holds in every reachable state.
THEOREM Invariance == Spec => []IInv
<1>1. Init => IInv
  BY InitHolds
<1>2. IInv /\ [Next]_vars => IInv'
  BY NextHolds
<1> QED BY <1>1, <1>2, PTL DEF Spec

\* Every variable keeps its type, and the cursor the range of its loop.
THEOREM TypeCorrect == Spec => []TypeOK
<1>1. IInv => TypeOK
  BY DEF IInv
<1> QED BY <1>1, Invariance, PTL

\* Between calls the stage AmplifierGroup reports is the stage of its members.
THEOREM StageAgreesAlways == Spec => []StageAgrees
<1>1. IInv => StageAgrees
  BY DEF IInv, GroupInv
<1> QED BY <1>1, Invariance, PTL

\* Between calls every audible amplifier is playing in a playing group, or is
\* faulted with a failed cleanup on record.
THEOREM AudibleIsAlwaysAccounted == Spec => []AudibleIsAccounted
<1>1. IInv => AudibleIsAccounted
  <2> SUFFICES ASSUME IInv, phase = "Idle", NEW m \in Member, amp[m].hardware = "Audible"
               PROVE  \/ stage = "Playing" /\ amp[m].stage = "Playing"
                      \/ stage = "Faulted" /\ amp[m].stage = "Faulted" /\ amp[m].cleanup = "Error"
    BY DEF AudibleIsAccounted
  <2>1. Sound(amp[m]) /\ amp[m] \in Lifecycle /\ StageAgrees /\ stage \in Stage
    BY DEF IInv, GroupInv, AllSound, GroupTypeOK
  <2>2. amp[m].stage \in {"Playing", "Faulted"}
    BY <2>1 DEF Sound, Lifecycle, Stage
  <2>3. CASE stage \in {"Waiting", "DebugHalted"}
    <3>1. PICK w \in Member :
            /\ amp[w].stage = stage
            /\ \A k \in 1..(w - 1) : amp[k].stage = "Ready"
            /\ \A k \in (w + 1)..N : amp[k].stage \in {"Detached", "Suspended"}
      BY <2>1, <2>3 DEF StageAgrees
    <3>2. m = w \/ m \in 1..(w - 1) \/ m \in (w + 1)..N
      BY NIsNatural DEF Member
    <3> QED BY <2>2, <2>3, <3>1, <3>2
  <2>4. CASE stage \in {"Detached", "Ready", "Playing", "Suspended", "Faulted"}
    BY <2>1, <2>2, <2>4 DEF StageAgrees, Sound
  <2> QED BY <2>1, <2>3, <2>4 DEF Stage
<1> QED BY <1>1, Invariance, PTL

\* No lifecycle tries a failed safe shutdown again.
THEOREM ShutdownIsNeverRepeated == Spec => []ShutdownNeverRepeated
<1>1. IInv => ShutdownNeverRepeated
  BY DEF IInv, GroupInv, AllSound, Sound, ShutdownNeverRepeated
<1> QED BY <1>1, Invariance, PTL

\* Every chip that was written to and not made safe is remembered as touched.
THEOREM UnsafeIsAlwaysTouched == Spec => []UnsafeIsTouched
<1>1. IInv => UnsafeIsTouched
  BY DEF IInv, GroupInv, AllSound, Sound, UnsafeIsTouched
<1> QED BY <1>1, Invariance, PTL

\* Members are powered and unmuted in order, and never past one that is down.
THEOREM NoLateStartEver == Spec => NoLateStart
<1>1. IInv /\ [Next]_vars =>
        [\A m \in Member : Energized(amp[m], amp'[m]) =>
           /\ \A k \in Member : k < m => amp[k].stage \in {"Ready", "Playing"}
           /\ \A k \in Member : amp[k].stage \notin {"Faulted", "Waiting", "DebugHalted"}]_vars
  BY NextHolds DEF EnergyStep
<1> QED BY <1>1, Invariance, PTL DEF Spec, NoLateStart

\* The first failure and a faulted lifecycle survive until power is lost or
\* the lifecycles are released.
THEOREM EvidenceIsKept == Spec => EvidenceKept
<1>1. IInv /\ [Next]_vars =>
        [bound /\ bound' =>
           \A m \in Member :
             /\ amp[m].firstFailure # "None" => amp'[m].firstFailure = amp[m].firstFailure
             /\ amp[m].stage = "Faulted" =>
                  amp'[m] = amp[m] \/ amp'[m] = PowerLost(amp[m])]_vars
  BY NextHolds DEF EvidenceStep
<1> QED BY <1>1, Invariance, PTL DEF Spec, EvidenceKept

=============================================================================
