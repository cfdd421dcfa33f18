----------------------------- MODULE SPIEngines -----------------------------
(***************************************************************************)
(* The two SPI engines against what SPIController.hpp promises of either:  *)
(* a machine has one of them, its hardware runs beside the polling engine, *)
(* and its owner suspends, resumes and shuts it down between requests.     *)
(***************************************************************************)
EXTENDS LPSSSPIEngine, AMDSPIEngine

vars == <<frames, lpss, am>>

Init == FramesInit /\ LPSSInit /\ AMDInit

Next ==
    \/ Ask /\ UNCHANGED <<lpss, am>>
    \/ Refuse /\ UNCHANGED <<lpss, am>>
    \/ Vanish /\ UNCHANGED <<lpss, am>>
    \/ LPSSNext /\ UNCHANGED am
    \/ AMDNext /\ UNCHANGED lpss

\* The caller's thread runs on: it waits for nothing but its polls.
Spec ==
    /\ Init /\ [][Next]_vars
    /\ WF_vars(LPSSStep /\ UNCHANGED am)
    /\ WF_vars((AMDStep /\ UNCHANGED lpss) \/ (Refuse /\ UNCHANGED <<lpss, am>>))

\* What a controller promises, over the variables of the engines.
Contract == INSTANCE SPIContract WITH
    selected <- IF kind = "LPSS" THEN LPSSSelected ELSE AMDSelected,
    online <- eng.online

-----------------------------------------------------------------------------
TypeOK ==
    /\ kind \in {"LPSS", "AMD"}
    /\ eng \in [initialized: BOOLEAN, online: BOOLEAN, touched: BOOLEAN]
    /\ pc \in {"Idle", "Begin", "Configure", "Program", "Assert", "Transfer",
               "Fill", "WaitIdle", "Stop", "Release", "Drain", "Start", "Poll"}
    /\ request \in Requests \cup {NoRequest} /\ left \in 0 .. 2
    /\ ret \in {"Success"} \cup Contract!Errors
    /\ result \in {"Success"} \cup Contract!Errors
    /\ polls \in 0 .. 4 * MaxBytes + PollSlack
    /\ framed \in BOOLEAN /\ gone \in BOOLEAN /\ faults \in 0 .. MaxFaults
    /\ stuck \subseteq Devices
    /\ {Len(got), Len(wire), Len(buffer), sent} \subseteq 0 .. 2 * MaxBytes
    /\ status \in Status /\ lines \in [External -> BOOLEAN] /\ asserted \in BOOLEAN
    /\ lp.mux \in Devices \cup {"None"}
    /\ Len(lp.tx) \in 0 .. FifoDepth + 1 /\ Len(lp.rx) \in 0 .. FifoDepth
    /\ am.cs \in Devices \cup {"None"} /\ am.busy \in BOOLEAN
    /\ am.fifo \in [Positions -> 0 .. 2 * MaxBytes]

\* At most Outstanding bytes are in flight, so the receiver never loses one,
\* however late the polls are (LPSSSPIEngine.hpp:358-374).
NoOverrun == ~lp.overrun

\* Both engines implement the contract of SPIController.hpp:12-13 and 26-58: a
\* frame that succeeds has moved its bytes in order, to its device alone, under
\* one assertion of its select, and brought back the answers to the bytes of
\* the receive part; a select that a frame asserted is released, or the engine
\* is offline; every frame of a sequence is tried and the first error answers
\* (finish, LPSSSPIEngine.hpp:449-501; AMDSPIEngine.hpp:97-115;
\* writeSequence, IntelLPSSSPIController.cpp:609-625).
Implements == Contract!Spec

\* A request comes to an end whatever the hardware does, and even if the clock
\* stands still: the polls are counted (LPSSSPIEngine.hpp:293-296, 349, 384;
\* AMDSPIEngine.hpp:91-92, 105).
RequestEnds == request # NoRequest ~> request = NoRequest
=============================================================================
