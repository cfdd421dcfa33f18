----------------------------- MODULE SPIFrames -----------------------------
(***************************************************************************)
(* What the two SPI engines have in common: the request of a caller, taken *)
(* under the controller's lock, its frames one after the other, and the    *)
(* switches of the engine (SPIController.hpp, writeSequence and exchange   *)
(* of IntelLPSSSPIController.cpp, command of AMDSPIController.cpp).        *)
(***************************************************************************)
EXTENDS Integers, Sequences

CONSTANTS
    Devices,    \* the devices on the bus
    MaxBytes,   \* bound on the bytes a request sends, and receives, per frame
    PollSlack,  \* 256 polls and more, what a frame may take beyond two a byte
    MaxFaults   \* bound on the failures of the hardware in a behaviour

ASSUME FramesAssumption ==
    /\ Devices # {} /\ MaxFaults \in Nat
    /\ MaxBytes \in Nat \ {0} /\ PollSlack \in Nat \ {0}

VARIABLES
    kind,       \* the engine of this machine, "LPSS" or "AMD"
    eng,        \* mInitialized, mOnline, mTouched
    pc,         \* where the engine is in a frame; "Idle": no request
    request, left, ret,
    result,     \* of this frame
    polls,      \* pollsRemaining
    got,        \* the bytes read so far in this frame
    buffer,     \* the caller's rx
    stuck,      \* the selects that were active when the last frame ended
    framed,     \* the device was selected in this frame
    wire,       \* the bytes the device has seen in this frame
    gone,       \* the function has disappeared: all its registers read ones
    faults

frame == <<pc, request, left, ret, result, polls, got, buffer, stuck, framed, wire>>
frames == <<kind, eng, frame, gone, faults>>

\* A command writes tx bytes and receives rx; a sequence only writes.
Requests == {r \in [dev: Devices, tx: 1 .. MaxBytes, rx: 0 .. MaxBytes,
                    frames: 1 .. 2] : r.frames = 1 \/ r.rx = 0}

NoRequest == [dev |-> "None", tx |-> 0, rx |-> 0, frames |-> 0]

Length == request.tx + request.rx

Faulty == faults < MaxFaults /\ faults' = faults + 1

FramesInit ==
    /\ kind \in {"LPSS", "AMD"}
    /\ eng = [initialized |-> FALSE, online |-> FALSE, touched |-> FALSE]
    /\ pc = "Idle" /\ request = NoRequest /\ left = 0 /\ ret = "Success"
    /\ result = "Success" /\ polls = 0 /\ got = <<>>
    /\ buffer = <<>> /\ stuck = {}
    /\ framed = FALSE /\ wire = <<>> /\ gone = FALSE /\ faults = 0

Ask ==
    /\ pc = "Idle" /\ request' \in Requests
    /\ left' = request'.frames /\ ret' = "Success" /\ buffer' = <<>>
    /\ pc' = "Begin"
    /\ UNCHANGED <<kind, eng, result, polls, got, stuck, framed, wire, gone, faults>>

\* The provider is not in D0, its memory off, or a GPIO unusable: no frame is
\* begun.  An AMD controller has no sequences.
Refuse ==
    /\ pc = "Begin" /\ left = request.frames
    /\ ret' \in IF kind = "AMD" /\ request.frames > 1 THEN {"Unsupported"}
                ELSE {"NotReady"}
    /\ request' = NoRequest /\ left' = 0 /\ pc' = "Idle"
    /\ UNCHANGED <<kind, eng, result, polls, got, buffer, stuck, framed, wire,
                   gone, faults>>

\* The frame is over with result r, while the devices of active are selected.
\* A sequence goes on even if the frame failed, keeps the bus, and answers
\* with its first error.
EndFrame(r, active) ==
    /\ left' = left - 1
    /\ ret' = IF ret = "Success" THEN r ELSE ret
    /\ pc' = IF left' = 0 THEN "Idle" ELSE "Begin"
    /\ request' = IF left' = 0 THEN NoRequest ELSE request
    /\ result' = "Success" /\ polls' = 0 /\ got' = <<>>
    /\ framed' = FALSE /\ wire' = <<>> /\ stuck' = active

\* Two mutants: an iteration costs two polls, so the counter misses zero, and
\* one that costs none.
SpendTwo == polls - 2
SpendNothing == polls

\* What is left of the budget after one more iteration.
Spend == polls - 1

First(r, next) == IF r = "Success" THEN next ELSE r

Offline == eng' = [eng EXCEPT !.online = FALSE]

\* The function leaves the bus, at any time.
Vanish ==
    /\ ~gone /\ gone' = TRUE /\ Faulty
    /\ UNCHANGED <<kind, eng, frame>>
=============================================================================
