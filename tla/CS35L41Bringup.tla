--------------------------- MODULE CS35L41Bringup ---------------------------
(***************************************************************************)
(* The routines that the hooks of CS35L41Driver are made of: power and     *)
(* playback down, the DSP halted, reset, errata and configuration, upload  *)
(* and boot of the firmware.                                               *)
(***************************************************************************)
EXTENDS CS35L41Chip

\* Readiness is withdrawn first, halt and reset are both tried, and the core
\* is read back.
StopDSP(w) ==
    {[v EXCEPT !.ok = v.ok /\ v.chip.core = "Off"] :
        v \in Onward({[w EXCEPT !.amp.alive = FALSE]} ++ [core |-> "Off"] ++ Nothing,
                     Read)}

\* The mailbox takes the command, and answers.
Pause(w) == {w} && Nothing && Nothing

\* A DSP that does not pause is stopped, and its firmware no longer trusted.
PauseOrStop(w) ==
    UNION {IF v.ok THEN {v}
           ELSE Regardless({[v EXCEPT !.amp.validated = FALSE]}, StopDSP) :
              v \in Pause(w)}

\* Mute, power and supply are all tried.
Silence(w) ==
    LET muted == {w} ++ [muted |-> TRUE] ++ Nothing
        unpowered == IF Internal THEN muted ++ [power |-> FALSE] ++ Nothing
                     ELSE muted ++ Unlock ++ [power |-> FALSE] ++ Nothing ++ Lock
                                ++ [supply |-> "Off"]
    IN  unpowered ++ [output |-> FALSE]

\* Then the DSP pauses, and the chip is read back.
StopPlayback(w) ==
    LET paused == UNION {IF v.amp.alive THEN Anyway({v}, PauseOrStop) ELSE {v} :
                            v \in Silence(w)}
        checked == Onward(paused ++ [output |-> FALSE], Read)
    IN  {LET safe == v.ok /\ ~v.chip.power /\ ~v.chip.output /\ v.chip.muted
         IN  [v EXCEPT !.ok = safe, !.amp.active = ~safe,
                       !.amp.faulted = v.amp.faulted \/ ~safe] : v \in checked}

\* VSPK is disconnected and the boost put to its defaults; both writes of the
\* lock are tried in any case.
SafeReset(w) ==
    IF ~Switched THEN {w}
    ELSE ({w} && [supply |-> "Off"] && Unlock && Nothing && Nothing) ++ Lock

-----------------------------------------------------------------------------
(* initialize *)

\* The silicon is reset, which no key protects.  A switch that is closed then
\* lets the supply through to a boost that does not regulate.
SiliconReset(c) ==
    [Fresh EXCEPT !.mem = c.mem,
        !.abused = c.abused \/ (Switched /\ c.supply = "On")]

\* A mutant: boards with a switch are reset like the others.
ResetDeviceAsOthers(w) ==
    UNION {Transfer(v, SiliconReset(v.chip)) :
              v \in Onward(Read([w EXCEPT !.amp.present = TRUE]), Read)}

\* The chip is identified; the supply disconnected; the silicon reset, its
\* interrupts masked, its OTP booted; and the chip identified again.
ResetDevice(w) ==
    LET found == {[v EXCEPT !.amp.present = v.ok] : v \in Read(w)}
        isolated == IF Switched THEN Onward(Onward(found, StopPlayback), SafeReset)
                    ELSE found
        reset == Onward(isolated, LAMBDA v : Transfer(v, SiliconReset(v.chip)))
        masked == Onward(reset, LAMBDA v : {v} ++ Nothing ++ Nothing)
        booted == Onward(masked, Read)
    \* an answer that is not this chip's is no transfer error
    IN  Onward(booted, LAMBDA v :
            UNION {{u} \cup IF u.ok \/ u.down THEN {}
                            ELSE {[u EXCEPT !.amp.present = FALSE]} : u \in Read(v)})

\* The patch of the revision, which also stops the core.
ApplyErrataPatch(w) == {w} && [errata |-> TRUE] && [core |-> "Off"]

\* The trims are read from the OTP and put where they belong.
UnpackOTP(w) == {w} && Nothing && [trim |-> TRUE]

\* The key is open for the patch and the trims; whatever fails, it is locked
\* again, and a key that stays open is a fault.
InitializeErrata(w) ==
    LET patched == Onward({w} && Unlock, ApplyErrataPatch)
        trimmed == Onward(patched, LAMBDA v :
            UNION {IF u.ok THEN {u} ELSE Write(u, Lock) : u \in UnpackOTP(v)})
        locked == trimmed && Lock
        Relock(v) == {[u EXCEPT !.ok = FALSE, !.amp.faulted = u.amp.faulted \/ ~u.ok] :
                         u \in Write([v EXCEPT !.ok = TRUE], Lock)}
    IN  UNION {IF v.ok THEN {v} ELSE Relock(v) : v \in locked}

\* A PLL that is not locked is no failure.
ApplyPLL(w) == ({w} ++ [clock |-> TRUE]) && Nothing

ApplyASP(w) ==
    LET route == IF w.amp.validated THEN "Dsp" ELSE "Bypass"
    IN  {w} ++ [port |-> TRUE, route |-> route] ++ Nothing

ApplyGPIO(w) == {w} ++ [pins |-> TRUE]

\* The boost is configured while the chip is down, and an internal one is read
\* back.
ConfigurePower(w) ==
    LET idle == {[v EXCEPT !.ok = v.ok /\ ~v.chip.power] : v \in Read(w)}
    IN  CASE board.topology = "Fixed" -> {w}
          [] Internal -> idle && [boost |-> TRUE] && Nothing
          [] Switched ->
                Onward(idle, LAMBDA v :
                    ({v} && [supply |-> "Off"] && Unlock && [boost |-> TRUE]) ++ Lock)
                && Nothing

ConfigureHardware(w) == Anyway({w} ++ Nothing ++ Nothing, ConfigurePower)

InitializeHardware(w) ==
    LET cleared == [w EXCEPT !.amp.initialized = FALSE, !.amp.validated = FALSE,
                             !.amp.alive = FALSE, !.amp.present = FALSE]
        patched == Onward(ResetDevice(cleared), InitializeErrata)
        clocked == Onward(Onward(patched, ApplyPLL), ApplyASP)
    IN  Onward(Onward(clocked, ApplyGPIO), ConfigureHardware)

-----------------------------------------------------------------------------
(* loadFirmware, after the upload *)

\* A table of calibration records is the sequence of the chips they are for:
\* "Mine", "Other", or "Any" for a record without a target.  <<"Bad">> is a
\* table that is shorter than it says.
RecordCount == IF board.records = <<"Bad">> THEN 0 ELSE Len(board.records)

\* The first record for this chip; else the one at the amplifier's index, the
\* first here, if it has no target.  0: there is none.
SelectRecord ==
    LET own == {i \in 1 .. RecordCount : board.records[i] = "Mine"}
    IN  CASE own # {} -> CHOOSE i \in own : \A j \in own : i <= j
          [] own = {} /\ RecordCount > 0 /\ board.records[1] = "Any" -> 1
          [] OTHER -> 0

\* The chip's identity is read only for a record with a target.
ReadSiliconUid(w) ==
    IF \E i \in 1 .. RecordCount : board.records[i] # "Any" THEN Read(w) ELSE {w}

\* A table that is invalid is refused, a missing record is not; the values are
\* written and read back.
ApplyCalibration(w) ==
    LET Applied(v) == {v} && Nothing
                && Loaded(v.chip, Calibration, board.records[SelectRecord]) && Nothing
    IN  CASE board.records = <<"Bad">> -> {[w EXCEPT !.ok = FALSE]}
          [] board.records # <<"Bad">> /\ SelectRecord = 0 -> ReadSiliconUid(w)
          [] SelectRecord # 0 -> Onward(ReadSiliconUid(w), Applied)

\* The state before the start is read, the sample rates are written, and the
\* window into the memory is opened and locked again.
PrepareDSP(w) == {w} && Nothing && Nothing && Nothing

\* The core is reset, started, and identifies itself.
StartCore(w) == {w} && [core |-> "On"] && Nothing

\* The firmware reaches its run state, within a deadline, and pauses.
AwaitRun(w) == Onward(Onward(Read(w), LAMBDA v : {v} \cup Fails(v)), Pause)

\* A boot that fails halts the core; a core that cannot be halted is a fault.
BringUpDSP(w) ==
    LET tried == Onward(Onward(PrepareDSP(w), StartCore), AwaitRun)
        FailBoot(v) == {[u EXCEPT !.ok = FALSE, !.amp.faulted = u.amp.faulted \/ ~u.ok] :
                           u \in StopDSP([v EXCEPT !.ok = TRUE])}
    IN  UNION {IF v.ok THEN {v} ELSE FailBoot(v) : v \in tried}

\* The core, its mailbox, its memory and its firmware are looked at again.
VerifyDSPAlive(w) ==
    {[v EXCEPT !.ok = v.ok /\ v.chip.core = "On"] : v \in Read(w)}

\* Only an image that is complete and calibrated is booted, and only a DSP that
\* answers is alive.
StartFirmware(w) ==
    LET calibrated == UNION {IF v.ok THEN {[v EXCEPT !.amp.validated = TRUE]}
                             ELSE Regardless({v}, StopDSP) : v \in ApplyCalibration(w)}
        booted == Onward(Onward(calibrated, BringUpDSP), VerifyDSPAlive)
        Withdrawn(v) == [v EXCEPT !.amp.validated = FALSE, !.amp.alive = FALSE]
    IN  UNION {IF v.ok THEN {[v EXCEPT !.amp.alive = TRUE]}
               ELSE IF v.amp.validated THEN Regardless({Withdrawn(v)}, StopDSP)
               ELSE {v} : v \in booted}

-----------------------------------------------------------------------------
(* verifyReady, safeShutdown *)

\* The output stays muted while the routes are set; any failure is a fault.
PowerUp(w) ==
    LET muted == ({w} ++ [muted |-> TRUE]) && Nothing
        route == IF w.amp.alive THEN "Dsp" ELSE "Bypass"
        Routed(v) == {v} ++ [route |-> route] ++ [output |-> FALSE]
        Unpowered(v) == IF Internal THEN Routed(v) ++ [power |-> FALSE]
                        ELSE Routed(v) ++ Unlock ++ [power |-> FALSE]
                                       ++ [boost |-> TRUE] ++ Lock
        routed == Onward(muted, LAMBDA v : Unpowered(v) ++ Nothing ++ [muted |-> TRUE])
    IN  UNION {IF v.ok THEN {v}
               ELSE Regardless({[v EXCEPT !.amp.faulted = TRUE]}, StopPlayback) :
                  v \in routed}

VerifyIdle(w) ==
    {[v EXCEPT !.ok = v.ok /\ ~v.chip.power /\ ~v.chip.output /\ v.chip.muted
                           /\ v.chip.port
                           /\ v.chip.route = IF v.amp.alive THEN "Dsp" ELSE "Bypass"] :
        v \in Read(w)}

VerifyReady(w) ==
    LET ready == Onward(Onward(PowerUp(w), VerifyIdle), VerifyDSPAlive)
    IN  {[v EXCEPT !.amp.initialized = v.amp.initialized \/ v.ok] : v \in ready}

\* A mutant: the halt of the DSP does not count.
ShutdownHalting(w) ==
    LET withdrawn == [w EXCEPT !.amp.initialized = FALSE, !.amp.validated = FALSE]
        silent == Anyway({withdrawn}, StopPlayback)
    IN  IF ~w.amp.present THEN {[withdrawn EXCEPT !.amp.alive = FALSE]}
        ELSE {[v EXCEPT !.amp.alive = FALSE] :
                 v \in Anyway(Regardless(silent, StopDSP), SafeReset)}

\* A chip that was found is silenced, its DSP halted and its supply cut, each
\* whatever became of the others.
Shutdown(w) ==
    LET withdrawn == [w EXCEPT !.amp.initialized = FALSE, !.amp.validated = FALSE]
        stopped == Anyway(Anyway({withdrawn}, StopPlayback), StopDSP)
    IN  {[v EXCEPT !.amp.alive = FALSE] :
            v \in IF w.amp.present THEN Anyway(stopped, SafeReset) ELSE {withdrawn}}
=============================================================================
