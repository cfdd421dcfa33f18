--------------------------- MODULE LPSSSPIEngine ---------------------------
(***************************************************************************)
(* The polled transfer engine of the Intel LPSS SPI (LPSSSPIEngine.hpp)    *)
(* with its chip selects, native or GPIO (IntelGPIOOutput.hpp), and the    *)
(* shift register it polls: the engine and the hardware interleave.        *)
(***************************************************************************)
EXTENDS SPIFrames

CONSTANTS
    External,     \* the devices whose chip select is a GPIO line
    Outstanding,  \* eight: the bytes the engine keeps in flight
    FifoDepth     \* entries of each FIFO

ASSUME LPSSAssumption ==
    /\ External \subseteq Devices
    /\ FifoDepth \in Nat /\ Outstanding \in 1 .. FifoDepth

VARIABLES
    lp,         \* the registers and FIFOs of the function
    lines,      \* the GPIO chip selects, TRUE: active
    asserted,   \* finish() is to release the GPIO line of this frame
    sent,       \* bytes written to the FIFO in this frame
    status      \* what the last poll of this frame has read

lpss == <<lp, lines, asserted, sent, status>>

\* kRxReady and kTxReady.
Status == [rx: BOOLEAN, tx: BOOLEAN]
Quiet == [rx |-> FALSE, tx |-> FALSE]

\* The registers after a reset.
Reset == [ready |-> FALSE, enabled |-> FALSE, native |-> FALSE,
          mux |-> "None", err |-> FALSE, overrun |-> FALSE,
          tx |-> <<>>, rx |-> <<>>]

\* The firmware has used the function, and left a byte unread.
LPSSInit ==
    /\ lp = [Reset EXCEPT !.ready = TRUE, !.rx = <<0>>]
    /\ lines = [d \in External |-> FALSE]
    /\ asserted = FALSE /\ sent = 0 /\ status = Quiet

\* The devices that are addressed now.
LPSSSelected == {d \in Devices : IF d \in External THEN lines[d]
                                 ELSE lp.native /\ lp.mux = d}

HardwareReady == ~gone /\ lp.ready

Engine(place) == kind = "LPSS" /\ pc = place

\* The next place of the engine inside the same frame.
Goto(place) ==
    /\ pc' = place
    /\ UNCHANGED <<kind, request, left, ret, buffer, stuck, wire, gone>>

-----------------------------------------------------------------------------
(* exchange *)

\* A pad that the host does not own, is locked, or is no output is not driven.
Declined == IF request.dev \in External THEN {"NoDevice", "NotPermitted"} ELSE {}

\* The checks of exchangeImpl, and the outputs' before it: what fails here
\* ends the frame with nothing touched.
LPSSBegin ==
    /\ Engine("Begin")
    /\ \/ /\ ~(eng.online /\ HardwareReady)
          /\ Offline /\ EndFrame("NotReady", LPSSSelected)
          /\ UNCHANGED <<kind, buffer, gone>>
       \* a GPIO out of order, a clock that cannot be divided, a busy function
       \/ /\ eng.online /\ HardwareReady
          /\ \E r \in Declined \cup {"NotReady", "Busy", "Unsupported"} :
                EndFrame(r, LPSSSelected)
          /\ UNCHANGED <<kind, eng, buffer, gone>>
       \/ /\ eng.online /\ HardwareReady
          /\ eng' = [eng EXCEPT !.touched = TRUE]
          /\ polls' = 2 * Length + PollSlack
          /\ Goto("Configure") /\ UNCHANGED <<result, got, framed>>
    /\ UNCHANGED <<lpss, faults>>

\* The engine is disabled, the native selects are inactive and point at the
\* device, and whatever is left in the receiver is read away.
Configure ==
    /\ Engine("Configure")
    /\ LET stopped == [lp EXCEPT !.enabled = FALSE, !.native = FALSE,
                                 !.tx = <<>>,
                                 !.mux = IF request.dev \in External
                                         THEN "None" ELSE request.dev]
       IN  \/ ~gone /\ lp' = [stopped EXCEPT !.rx = <<>>, !.err = FALSE]
              /\ Goto("Program") /\ UNCHANGED <<faults, result>>
           \/ ~gone /\ lp' = stopped /\ Faulty
              /\ Goto("Stop") /\ result' = "IOError"
           \/ gone /\ UNCHANGED <<lp, faults>>
              /\ Goto("Stop") /\ result' = "NoDevice"
    /\ asserted' = FALSE /\ sent' = 0
    /\ UNCHANGED <<eng, polls, got, framed, lines, status>>

\* Mode, divider and word size are read back before a byte goes.
Program ==
    /\ Engine("Program")
    /\ IF gone THEN UNCHANGED lp ELSE lp' = [lp EXCEPT !.enabled = TRUE]
    /\ \/ ~gone /\ Goto("Assert") /\ UNCHANGED <<faults, result>>
       \/ ~gone /\ Faulty /\ Goto("Stop") /\ result' = "IOError"
       \/ gone /\ Goto("Stop") /\ result' = "IOError" /\ UNCHANGED faults
    /\ UNCHANGED <<eng, polls, framed, got, lines, asserted, sent, status>>

\* One select, the GPIO line or the native one, which is read back.  A failed
\* assertion may have had its effect.
Assert ==
    /\ Engine("Assert")
    /\ asserted' = (request.dev \in External)
    /\ IF asserted'
       THEN \E on \in BOOLEAN :
               /\ lines' = [lines EXCEPT ![request.dev] = on]
               /\ framed' = on /\ UNCHANGED lp
       ELSE \E on \in IF gone THEN {lp.native} ELSE BOOLEAN :
               /\ lp' = [lp EXCEPT !.native = on]
               /\ framed' = on /\ UNCHANGED lines
    /\ \/ ~gone /\ framed' /\ Goto("Transfer") /\ UNCHANGED <<faults, result>>
       \/ ~gone /\ Faulty /\ Goto("Stop") /\ result' = "IOError"
       \/ gone /\ Goto("Stop") /\ result' = "IOError" /\ UNCHANGED faults
    /\ UNCHANGED <<eng, polls, got, sent, status>>

\* What one poll finds wrong, if anything: the budget is over, the function
\* has left, the receiver reports an error or has a byte nobody asked for.
Wrong ==
    IF polls = 0 THEN {"Timeout"}
    ELSE IF gone THEN {"NoDevice"}
    ELSE IF lp.err \/ (pc = "Transfer" /\ lp.rx # <<>> /\ Len(got) = sent)
         THEN {"IOError"} ELSE {}

\* One poll of the status.  The first byte of lp.tx is in the shift register.
Poll ==
    /\ Engine("Transfer")
    /\ \/ /\ result' \in Wrong
          /\ Goto("Stop") /\ UNCHANGED <<status, polls>>
       \/ /\ Wrong = {}
          /\ status' = [rx |-> lp.rx # <<>>, tx |-> Len(lp.tx) <= FifoDepth]
          /\ polls' = Spend
          /\ Goto("Fill") /\ UNCHANGED result
    /\ UNCHANGED <<eng, framed, faults, lp, lines, asserted, sent, got>>

\* A mutant: nothing limits what is in flight.
MaySendAll(received) == TRUE

MaySend(received) == sent - received < Outstanding

\* One byte is read and one written, as far as the status that was read allows
\* it; the hardware has moved on.  The deadline may pass at any poll.
Transfer ==
    /\ Engine("Fill")
    /\ LET received == IF status.rx THEN Len(got) + 1 ELSE Len(got)
           puts == sent < Length /\ MaySend(received) /\ status.tx
       IN  /\ got' = IF ~status.rx THEN got
                     ELSE Append(got, IF gone THEN 0 ELSE Head(lp.rx))
           /\ sent' = IF puts THEN sent + 1 ELSE sent
           /\ lp' = IF gone THEN lp
                    ELSE [lp EXCEPT !.rx = IF status.rx THEN Tail(@) ELSE @,
                                    !.tx = IF puts THEN Append(@, sent + 1)
                                           ELSE @]
           /\ \/ Goto(IF received = Length THEN "WaitIdle" ELSE "Transfer")
                 /\ UNCHANGED result
              \/ Goto("Stop") /\ result' = "Timeout"
    /\ status' = Quiet
    /\ UNCHANGED <<eng, framed, faults, lines, asserted, polls>>

\* The last byte is in; the function stays busy for a while.
WaitIdle ==
    /\ Engine("WaitIdle")
    /\ \/ result' \in Wrong /\ Goto("Stop") /\ UNCHANGED polls
       \/ /\ Wrong = {} /\ polls' = Spend
          /\ \/ Goto("Stop") /\ result' \in {"Success", "Timeout"}
             \/ Goto("WaitIdle") /\ UNCHANGED result
    /\ UNCHANGED <<eng, framed, faults, lpss, got>>

-----------------------------------------------------------------------------
(* finish *)

\* The engine is stopped before the native select goes; a select that does
\* not read back inactive takes the engine offline.
Stop ==
    /\ Engine("Stop")
    /\ \/ /\ ~gone /\ UNCHANGED <<eng, faults, result>>
          /\ lp' = [lp EXCEPT !.enabled = FALSE, !.tx = <<>>, !.native = FALSE]
       \/ /\ ~gone /\ Faulty
          /\ lp' = [lp EXCEPT !.enabled = FALSE, !.tx = <<>>]
          /\ Offline /\ result' = First(result, "IOError")
       \/ /\ gone /\ UNCHANGED <<lp, faults>>
          /\ Offline /\ result' = First(result, "NoDevice")
    /\ Goto("Release")
    /\ UNCHANGED <<polls, framed, got, lines, asserted, sent, status>>

\* A mutant: the line of a frame that failed is left as it is.
ReleaseOnSuccess ==
    /\ Engine("Release")
    /\ lines' = IF asserted /\ result = "Success"
                THEN [lines EXCEPT ![request.dev] = FALSE] ELSE lines
    /\ Goto("Drain")
    /\ UNCHANGED <<eng, faults, result, polls, framed, got, lp, sent, asserted, status>>

\* A GPIO line that was borrowed is released, whatever became of the rest; one
\* that cannot be takes the engine offline.
Release ==
    /\ Engine("Release")
    /\ \/ /\ asserted /\ lines' = [lines EXCEPT ![request.dev] = FALSE]
          /\ UNCHANGED <<eng, faults, result>>
       \/ /\ asserted /\ Faulty /\ UNCHANGED lines
          /\ Offline /\ result' = First(result, "IOError")
       \/ ~asserted /\ UNCHANGED <<lines, eng, faults, result>>
    /\ Goto("Drain")
    /\ UNCHANGED <<polls, framed, got, lp, sent, asserted, status>>

\* The frame ends with r; a command copies the answers only of a success.
Finished(r) ==
    /\ EndFrame(r, LPSSSelected)
    /\ buffer' = IF r = "Success" THEN SubSeq(got, request.tx + 1, Length)
                 ELSE buffer
    /\ asserted' = FALSE /\ sent' = 0
    /\ UNCHANGED <<kind, gone, lines, status>>

\* drainRx: the receiver is read empty, or after 256 reads it is not.
Drain ==
    /\ Engine("Drain")
    /\ \/ ~gone /\ lp' = [lp EXCEPT !.rx = <<>>, !.err = FALSE]
          /\ Finished(result) /\ UNCHANGED <<eng, faults>>
       \/ ~gone /\ Faulty /\ lp' = [lp EXCEPT !.err = FALSE]
          /\ Finished(First(result, "IOError")) /\ UNCHANGED eng
       \/ gone /\ Offline /\ UNCHANGED <<lp, faults>>
          /\ Finished(First(result, "NoDevice"))

-----------------------------------------------------------------------------
(* The owner's calls, which the controller's lock keeps out of a request *)

\* quiesce, where the function can be reached.
Quiesced == IF eng.online /\ eng.touched /\ HardwareReady
            THEN [lp EXCEPT !.enabled = FALSE, !.native = FALSE,
                            !.tx = <<>>, !.rx = <<>>]
            ELSE lp

Owner == kind = "LPSS" /\ pc = "Idle"
         /\ UNCHANGED <<kind, frame, faults, lines, asserted, sent, status>>

LPSSSuspend == Owner /\ eng.online /\ lp' = Quiesced /\ Offline /\ UNCHANGED gone

\* initialize and resume: reset and clock are prepared where they are not.
LPSSResume ==
    /\ Owner /\ ~eng.online /\ ~gone /\ UNCHANGED gone
    /\ lp' = [lp EXCEPT !.ready = TRUE]
    /\ eng' = [eng EXCEPT !.initialized = TRUE, !.online = TRUE]

\* shutdown restores what it prepared; abandon only forgets.
LPSSShutdown ==
    /\ Owner /\ eng.initialized /\ UNCHANGED gone
    /\ lp' \in {lp, Quiesced, [Quiesced EXCEPT !.ready = FALSE]}
    /\ eng' = [initialized |-> FALSE, online |-> FALSE, touched |-> FALSE]

-----------------------------------------------------------------------------
(* The hardware *)

\* A byte is shifted out to whoever is selected, and one in.  A receiver that
\* is full loses it.
LPSSClock ==
    /\ kind = "LPSS" /\ ~gone /\ lp.enabled /\ lp.tx # <<>>
    /\ LET heard == request.dev \in LPSSSelected
           full == Len(lp.rx) = FifoDepth
       IN  /\ wire' = IF heard THEN Append(wire, Head(lp.tx)) ELSE wire
           /\ lp' = [lp EXCEPT
                !.tx = Tail(@),
                !.rx = IF full THEN @
                       ELSE Append(@, IF heard THEN Head(lp.tx) ELSE 0),
                !.overrun = @ \/ full, !.err = @ \/ full]
    /\ UNCHANGED <<kind, eng, pc, request, left, ret, result, polls, got, buffer,
                   stuck, framed, gone, faults, lines, asserted, sent, status>>

\* A receiver may report an error of its own.
BitError ==
    /\ kind = "LPSS" /\ ~gone /\ lp.enabled /\ ~lp.err /\ Faulty
    /\ lp' = [lp EXCEPT !.err = TRUE]
    /\ UNCHANGED <<kind, eng, frame, gone, lines, asserted, sent, status>>

\* While the owner keeps it offline the function may lose its power, or come
\* back.  The GPIO lines belong to another function.
LPSSCycle ==
    /\ Owner /\ ~eng.online /\ UNCHANGED eng
    /\ gone' = FALSE /\ lp' = Reset

LPSSStep == LPSSBegin \/ Configure \/ Program \/ Assert \/ Poll \/ Transfer
            \/ WaitIdle \/ Stop \/ Release \/ Drain

LPSSNext == LPSSStep \/ LPSSSuspend \/ LPSSResume \/ LPSSShutdown
            \/ LPSSClock \/ BitError \/ LPSSCycle
=============================================================================
