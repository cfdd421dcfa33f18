---------------------------- MODULE AMDSPIEngine ----------------------------
(***************************************************************************)
(* The command engine of the AMD SPI (AMDSPIEngine.hpp): the first byte    *)
(* goes to the opcode register, the rest share one FIFO with the answers,  *)
(* and the hardware, once started, owns the chip select until it is done.  *)
(***************************************************************************)
EXTENDS SPIFrames

VARIABLE am   \* the registers, the FIFO and the bytes of the running command

Positions == 1 .. 2 * MaxBytes

Idle == [cs |-> "None", fifo |-> [i \in Positions |-> 0], opcode |-> 0,
         tx |-> 0, rx |-> 0, busy |-> FALSE, done |-> 0]

AMDInit == am = Idle

AMDSelected == IF am.busy THEN {am.cs} ELSE {}

\* One status read, and the checks before anything is written.
AMDBegin ==
    /\ kind = "AMD" /\ pc = "Begin" /\ request.frames = 1
    /\ \/ ~eng.online /\ UNCHANGED eng /\ EndFrame("NotReady", AMDSelected)
       \/ eng.online /\ gone /\ Offline /\ EndFrame("NoDevice", AMDSelected)
       \/ /\ eng.online /\ ~gone /\ UNCHANGED eng
          /\ EndFrame(IF am.busy THEN "Busy" ELSE "Unsupported", AMDSelected)
       \/ /\ eng.online /\ ~gone /\ ~am.busy
          /\ pc' = "Start" /\ polls' = PollSlack
          /\ eng' = [eng EXCEPT !.touched = TRUE]
          /\ UNCHANGED <<request, left, ret, result, got, stuck, framed, wire>>
    /\ UNCHANGED <<kind, buffer, am, gone, faults>>

\* The registers are written and the command is triggered.
AMDStart ==
    /\ kind = "AMD" /\ pc = "Start"
    /\ IF gone THEN UNCHANGED <<am, framed>>
       ELSE /\ framed' = TRUE
            /\ am' = [cs |-> request.dev, opcode |-> 1,
                      fifo |-> [i \in Positions |-> IF i < request.tx THEN i + 1
                                                    ELSE am.fifo[i]],
                      tx |-> request.tx - 1, rx |-> request.rx,
                      busy |-> TRUE, done |-> 0]
    /\ pc' = "Poll"
    /\ UNCHANGED <<kind, eng, request, left, ret, result, polls, got, buffer,
                   stuck, wire, gone, faults>>

\* The status is polled until the command is done.  After a timeout the
\* hardware still owns the bus, so the engine goes offline.
AMDPoll ==
    /\ kind = "AMD" /\ pc = "Poll"
    /\ \/ gone /\ Offline /\ EndFrame("NoDevice", AMDSelected)
          /\ UNCHANGED buffer
       \/ /\ ~gone /\ am.busy /\ Offline /\ EndFrame("Timeout", AMDSelected)
          /\ UNCHANGED buffer
       \/ /\ ~gone /\ am.busy /\ Spend # 0 /\ polls' = Spend
          /\ UNCHANGED <<eng, pc, request, left, ret, result, got, buffer,
                         stuck, framed, wire>>
       \/ /\ ~gone /\ ~am.busy /\ UNCHANGED eng
          /\ EndFrame("Success", AMDSelected)
          /\ buffer' = [i \in 1 .. request.rx |-> am.fifo[request.tx - 1 + i]]
    /\ UNCHANGED <<kind, am, gone, faults>>

-----------------------------------------------------------------------------
AMDOwner == kind = "AMD" /\ pc = "Idle" /\ UNCHANGED <<kind, frame, faults>>

AMDSuspend == AMDOwner /\ eng.online /\ Offline /\ UNCHANGED <<am, gone>>

\* initialize and resume: a command that still runs keeps the engine offline.
AMDResume ==
    /\ AMDOwner /\ ~eng.online /\ ~gone /\ ~am.busy
    /\ eng' = [eng EXCEPT !.initialized = TRUE, !.online = TRUE]
    /\ UNCHANGED <<am, gone>>

\* The saved select is written back where a quiet function can be reached.
AMDShutdown ==
    /\ AMDOwner /\ eng.initialized
    /\ am' = IF eng.online /\ eng.touched /\ ~gone /\ ~am.busy
             THEN [am EXCEPT !.cs = "None"] ELSE am
    /\ eng' = [initialized |-> FALSE, online |-> FALSE, touched |-> FALSE]
    /\ UNCHANGED gone

-----------------------------------------------------------------------------
(* The hardware *)

\* The opcode, the bytes sent, then the answers, which follow them in the FIFO;
\* at last the select goes with the busy bit.
AMDClock ==
    /\ kind = "AMD" /\ am.busy /\ ~gone
    /\ LET n == am.done + 1
           sends == 1 + am.tx
           out == IF n = 1 THEN am.opcode
                  ELSE IF n <= sends THEN am.fifo[n - 1] ELSE n
       IN  \/ /\ n <= sends + am.rx
              /\ wire' = IF pc = "Poll" THEN Append(wire, out) ELSE wire
              /\ am' = [am EXCEPT !.done = n,
                                  !.fifo = IF n > sends
                                           THEN [@ EXCEPT ![n - 1] = n] ELSE @]
           \/ /\ n > sends + am.rx
              /\ am' = [am EXCEPT !.busy = FALSE] /\ UNCHANGED wire
    /\ UNCHANGED <<kind, eng, pc, request, left, ret, result, polls, got, buffer,
                   stuck, framed, gone, faults>>

AMDCycle ==
    /\ AMDOwner /\ ~eng.online
    /\ gone' = FALSE /\ am' = Idle /\ UNCHANGED eng

AMDStep == AMDBegin \/ AMDStart \/ AMDPoll

AMDNext == AMDStep \/ AMDSuspend \/ AMDResume \/ AMDShutdown \/ AMDClock \/ AMDCycle
=============================================================================
