--------------------------- MODULE SpeakerBringUp ---------------------------
(***************************************************************************)
(* One CS35L41 from its discovery to playback and back: the hooks of       *)
(* CS35L41Driver in the order in which AmplifierLifecycle calls them, over *)
(* a chip in whatever state it was left, with transfers that fail, memory  *)
(* that comes out wrong, and an identity that arrives late.                *)
(***************************************************************************)
EXTENDS CS35L41Bringup, WMFWUpload

VARIABLES
    stage,    \* the amplifier's AmplifierStage
    touched,  \* mHardwareTouched
    cleanup   \* the result of the last safeShutdown of this bring-up

vars == <<board, chip, amp, down, faults, up, stage, touched, cleanup>>

\* What the driver works on, and what becomes of it.
World == [chip |-> chip, amp |-> amp, down |-> down, faults |-> faults, ok |-> TRUE]

Becomes(w) ==
    /\ chip' = w.chip /\ amp' = w.amp /\ down' = w.down /\ faults' = w.faults
    /\ UNCHANGED board

\* What may be wrong with the resources of the board.
Defects == {<<"None", "None">>} \cup {"Resource", "Parse", "Plan"} \X {"Firmware", "Tuning"}

\* The subsystem identities: of the binding, of the HDA controller, and of the
\* codec, which may be published late.  "Alias" is one that the driver translates.
Identities ==
    {<<"None", "None", "None">>, <<"None", "Alias", "None">>, <<"None", "Other", "None">>,
     <<"None", "Alias", "Other">>, <<"Board", "Other", "None">>}

Boards ==
    [binding: {"None", "Board"}, controller: {"None", "Alias", "Other"},
     codec: {"None", "Other"}, topology: {"Fixed", "Internal", "Switched"},
     records: {<<>>, <<"Any">>, <<"Other", "Mine">>, <<"Other">>, <<"Bad">>},
     permitted: BOOLEAN, speaker: BOOLEAN, defect: Defects]

Init ==
    /\ board \in Boards /\ <<board.binding, board.controller, board.codec>> \in Identities
    \* what is wrong with a resource is found before any of the others matters
    /\ \/ board.defect = <<"None", "None">>
       \/ board.speaker /\ board.permitted /\ board.records = <<"Any">>
    /\ chip \in {Fresh, Inherited}
    /\ amp = [present |-> TRUE, initialized |-> FALSE, validated |-> FALSE,
              alive |-> FALSE, active |-> FALSE, faulted |-> FALSE,
              pending |-> FALSE]
    /\ down = FALSE /\ faults = 0 /\ up = Begin(1, chip.mem)
    /\ stage = "Detached" /\ touched = FALSE /\ cleanup = "None"

-----------------------------------------------------------------------------
(* The hooks.  One that fails after the hardware was touched leads to a safe *)
(* shutdown, once.                                                           *)

\* Success, and what a failure of a hook comes to.
Step(w, next) ==
    /\ Becomes(w)
    /\ stage' = IF w.ok THEN next ELSE IF touched THEN "Failing" ELSE "Faulted"
    /\ UNCHANGED <<touched, cleanup>>

Latched(ws) == {[w EXCEPT !.amp.faulted = w.amp.faulted \/ ~w.ok] : w \in ws}

Identify ==
    /\ stage = "Detached"
    /\ \E w \in Latched(Read(World)) : Step(w, "Authorize")
    /\ UNCHANGED up

AuthorizeBoard ==
    /\ stage = "Authorize"
    /\ Step([World EXCEPT !.ok = board.permitted], "Initialize")
    /\ UNCHANGED up

Initialize ==
    /\ stage = "Initialize"
    /\ \E w \in Latched(InitializeHardware(World)) :
          /\ Becomes(w)
          /\ stage' = IF w.ok THEN "Firmware" ELSE "Failing"
    /\ touched' = TRUE /\ cleanup' = "None"
    /\ UNCHANGED up

\* The identity the resources are chosen by: the binding's, else the codec's,
\* else the controller's.  Only the last two are translated.
SubsystemId ==
    IF board.binding # "None" THEN board.binding
    ELSE LET id == IF board.codec # "None" THEN board.codec ELSE board.controller
         IN  IF id = "Alias" THEN "Board" ELSE id

IdentityPending == SubsystemId = "None"

\* The table has one resource for the board that fits the speaker.
SelectFirmwareResource == SubsystemId = "Board" /\ board.speaker

\* Its firmware, and the tuning of the amplifier's channel, are in order.
ResourceUsable == board.defect # <<"Resource", "Firmware">>
CoefficientsUsable == board.defect # <<"Resource", "Tuning">>

\* An identity that is not published is waited for; a board without a usable
\* resource is not supported.
DiscoverFirmware ==
    [World EXCEPT
        !.amp.validated = FALSE, !.amp.pending = IdentityPending,
        !.ok = IdentityPending \/ (SelectFirmwareResource /\ ResourceUsable
                                   /\ CoefficientsUsable)]

\* The DSP is stopped before its image is parsed, mapped and uploaded.
Halted(w) ==
    {[v EXCEPT !.ok = v.ok /\ <<"Parse", "Firmware">> # board.defect
                           /\ Planned("Firmware")] :
        v \in StopDSP([w EXCEPT !.amp.validated = FALSE, !.amp.alive = FALSE])}

LoadFirmware ==
    /\ stage = "Firmware"
    /\ IF DiscoverFirmware.amp.pending THEN Step(DiscoverFirmware, "Waiting")
       ELSE \E w \in Latched(Onward({DiscoverFirmware}, Halted)) : Step(w, "Upload")
    /\ up' = Begin(1, chip.mem)

\* The algorithms are read from the firmware before the tuning is mapped, and
\* a tuning that fails stops the DSP once more.
Tuned(w) ==
    IF Image = "Firmware" THEN Transaction(w)
    ELSE LET ready == {[v EXCEPT !.ok = v.ok /\ <<"Parse", "Tuning">> # board.defect
                                         /\ Planned("Tuning")] : v \in Read(w)}
         IN  UNION {IF v.ok THEN {v} ELSE Regardless({v}, StopDSP) :
                       v \in Onward(ready, Transaction)}

Upload ==
    /\ stage = "Upload"
    /\ \E w \in Latched(Tuned(World)) :
          /\ Step(w, IF up.region = 3 THEN "Boot" ELSE "Upload")
          /\ up' = IF w.ok /\ up.region < 3 THEN Advanced(w.chip.mem) ELSE up

Boot ==
    /\ stage = "Boot"
    /\ \E w \in Latched(StartFirmware(World)) :
          Step([w EXCEPT !.ok = w.ok /\ ~w.amp.faulted], "Verify")
    /\ UNCHANGED up

Verify ==
    /\ stage = "Verify"
    /\ \E w \in Latched(VerifyReady(World)) : Step(w, "Ready")
    /\ UNCHANGED up

\* fail of AmplifierLifecycle: the result of the shutdown is kept.
Fail ==
    /\ stage = "Failing" /\ stage' = "Faulted"
    /\ \E w \in Latched(Shutdown(World)) :
          /\ Becomes(w) /\ touched' = ~w.ok
          /\ cleanup' = IF w.ok THEN "Success" ELSE "Failed"
    /\ UNCHANGED up

\* Playback was prepared, all but the mute, and is committed.
Start ==
    /\ stage = "Ready" /\ ~amp.faulted
    /\ LET prepared == [World EXCEPT !.chip.power = TRUE, !.chip.output = TRUE,
                                     !.chip.supply = "On"]
       IN  \E w \in Latched({prepared} && [muted |-> FALSE] && Nothing) :
              Step([w EXCEPT !.amp.active = w.ok], "Playing")
    /\ UNCHANGED up

Stop ==
    /\ stage = "Playing"
    /\ \E w \in Latched(StopPlayback(World)) : Step(w, "Ready")
    /\ UNCHANGED up

\* A protection fault that the interrupt reports.
HandleInterrupt ==
    /\ stage \in {"Ready", "Playing"} /\ faults < MaxFaults
    /\ Step([World EXCEPT !.amp.faulted = TRUE, !.faults = faults + 1, !.ok = FALSE], stage)
    /\ UNCHANGED up

\* suspend, and detach from where it may be called: playback has been stopped.
LeaveTo(next) ==
    /\ \E w \in Latched(Shutdown(World)) :
          /\ Becomes(w) /\ touched' = ~w.ok
          /\ cleanup' = IF w.ok THEN "Success" ELSE "Failed"
          /\ stage' = IF w.ok THEN next ELSE "Faulted"
    /\ UNCHANGED up

Suspend == stage = "Ready" /\ LeaveTo("Suspended")

Detach == stage \in {"Ready", "Waiting"} /\ LeaveTo("Detached")

Resume ==
    /\ stage = "Suspended" /\ stage' = "Detached"
    /\ UNCHANGED <<board, chip, amp, down, faults, up, touched, cleanup>>

\* The machine's sleep takes the chip's power away.
PowerCut ==
    /\ stage = "Suspended" /\ chip' = [Fresh EXCEPT !.abused = chip.abused]
    /\ UNCHANGED <<board, amp, down, faults, up, stage, touched, cleanup>>

\* prepareBringUpRetry: nothing while the identity is not there, unless the
\* deadline is over; then the amplifier is detached and brought up again.
RetryBringUp ==
    /\ stage = "Waiting"
    /\ \/ ~IdentityPending /\ DiscoverFirmware.ok
          /\ \E w \in Latched(Shutdown(DiscoverFirmware)) :
                /\ Becomes(w) /\ touched' = ~w.ok
                /\ cleanup' = IF w.ok THEN "Success" ELSE "Failed"
                /\ stage' = IF w.ok THEN "Detached" ELSE "Faulted"
       \/ (IdentityPending \/ ~DiscoverFirmware.ok)
          /\ \E w \in Latched({[DiscoverFirmware EXCEPT !.amp.pending = FALSE,
                                                       !.ok = FALSE]}) :
                Step(w, "Waiting")
    /\ UNCHANGED up

\* The codec publishes itself, as one of this board or of another.
Publish ==
    /\ board.codec = "None"
    /\ \E id \in {"Board", "Other"} : board' = [board EXCEPT !.codec = id]
    /\ UNCHANGED <<chip, amp, down, faults, up, stage, touched, cleanup>>

Next ==
    \/ Identify \/ AuthorizeBoard \/ Initialize \/ LoadFirmware \/ Upload
    \/ Boot \/ Verify \/ Fail \/ Start \/ Stop \/ HandleInterrupt
    \/ Suspend \/ Detach \/ Resume \/ PowerCut \/ RetryBringUp \/ Publish

Spec == Init /\ [][Next]_vars

-----------------------------------------------------------------------------
\* A DSP that is reported READY_DSP runs what was uploaded, all of it verified,
\* with the calibration record of its chip, if the board has one, and never with
\* that of another (initializeFirmware, CS35L41Firmware.cpp:18-236;
\* DSPControl.hpp:14-16, "Invalidate cached readiness before touching
\* hardware"); and an amplifier that is initialized and not faulted went
\* through every step of its bring-up and has its key locked
\* (verifyReadyFlow, CS35L41Driver.cpp:130-153).
ReadyIsTrue ==
    /\ amp.alive /\ amp.validated =>
          /\ chip.core = "On"
          /\ \A b \in Blocks : chip.mem[b] = "New"
          /\ chip.mem[Calibration] # "Other"
          /\ \A i \in DOMAIN board.records :
                board.records[i] = "Mine" => chip.mem[Calibration] = "Mine"
          /\ board.records = <<"Any">> => chip.mem[Calibration] = "Any"
    /\ amp.initialized /\ ~amp.faulted =>
          /\ chip.errata /\ chip.trim /\ chip.clock /\ chip.port /\ chip.pins
          /\ chip.boost
          /\ chip.route = "Dsp" /\ chip.key = "Locked"

\* Whatever fails, the amplifier is quiet where it rests, or a fault or an
\* unclean shutdown is reported: without a fault its key is locked, its core
\* halted unless it is alive, and nothing is powered unless it plays; and a
\* shutdown that reports success has halted the core, powered everything down
\* and cut the supply of a chip that was found (shutdownFlow,
\* CS35L41Driver.cpp:155-183; stopPlayback, CS35L41Playback.cpp:52-143).
QuietOrReported ==
    /\ stage \in {"Firmware", "Upload", "Boot", "Waiting", "Verify", "Ready", "Playing"}
       /\ ~amp.faulted =>
          /\ chip.key = "Locked" /\ (chip.core = "On" => amp.alive)
          /\ stage # "Playing" => Quiet(chip)
          /\ stage = "Ready" => chip.muted
    /\ stage \in {"Suspended", "Faulted", "Detached"} /\ cleanup = "Success"
       /\ amp.present => chip.core = "Off" /\ Quiet(chip)

\* The supply is disconnected before the silicon is reset
\* (PowerConfiguration.hpp:24, CS35L41Hardware.cpp:38-42), and the memory of
\* the DSP is written only while its core is stopped
\* (CS35L41Firmware.cpp:33-37).
SiliconOrder == ~chip.abused
=============================================================================
