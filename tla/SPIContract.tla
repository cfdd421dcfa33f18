---------------------------- MODULE SPIContract ----------------------------
(***************************************************************************)
(* What a controller promises to its caller (SPIController.hpp): a request *)
(* of one or more frames to one device.  A frame that succeeds has moved   *)
(* every byte, in order and under one assertion of the device's chip       *)
(* select, and brought back the device's answers; the select is released   *)
(* on success and on failure, or the controller takes itself offline.  All *)
(* frames of a request are tried, and its first error is its answer.       *)
(*                                                                         *)
(* Bytes are numbered: byte i of a frame is i, and so is its answer.       *)
(***************************************************************************)
EXTENDS Integers, Sequences

CONSTANTS Devices, Requests  \* [dev: Devices, tx: Nat, rx: Nat, frames: Nat]

VARIABLES
    request,   \* the request being served, or NoRequest
    left,      \* its frames that have not ended
    framed,    \* the select was asserted in this frame
    wire,      \* the bytes the device has seen in this frame
    buffer,    \* the answers the caller has got
    selected,  \* the devices whose chip select is active
    stuck,     \* those whose select was active when the last frame ended
    online, ret

vars == <<request, left, framed, wire, buffer, selected, stuck, online, ret>>

NoRequest == [dev |-> "None", tx |-> 0, rx |-> 0, frames |-> 0]

Errors == {"NotReady", "NoDevice", "NotPermitted", "Timeout", "IOError", "Busy",
           "Unsupported"}

Numbered(n, from) == [i \in 1 .. n |-> from + i]

Init ==
    /\ request = NoRequest /\ left = 0 /\ framed = FALSE
    /\ wire = <<>> /\ buffer = <<>> /\ selected = {} /\ stuck = {}
    /\ online = FALSE /\ ret = "Success"

Ask ==
    /\ request = NoRequest /\ request' \in Requests
    /\ left' = request'.frames /\ ret' = "Success" /\ buffer' = <<>>
    /\ UNCHANGED <<framed, wire, selected, stuck, online>>

\* A request that is refused reaches no device.
Refuse ==
    /\ request # NoRequest /\ left = request.frames /\ ~framed
    /\ request' = NoRequest /\ left' = 0 /\ ret' \in Errors
    /\ UNCHANGED <<framed, wire, buffer, selected, stuck, online>>

\* The select is asserted at most once in a frame.
Select ==
    /\ request # NoRequest /\ ~framed /\ framed' = TRUE
    /\ selected' = selected \cup {request.dev}
    /\ UNCHANGED <<request, left, wire, buffer, stuck, online, ret>>

\* A byte reaches the device it is for, and no other one that was released.
Move ==
    /\ request # NoRequest /\ framed /\ request.dev \in selected
    /\ selected \subseteq {request.dev} \cup stuck
    /\ wire' = Append(wire, Len(wire) + 1)
    /\ UNCHANGED <<request, left, framed, buffer, selected, stuck, online, ret>>

\* Selects are released at any time.  The controller takes itself offline, and
\* its owner wakes it between two requests.
Release ==
    /\ selected' \subseteq selected
    /\ online' => online \/ request = NoRequest
    /\ UNCHANGED <<request, left, framed, wire, buffer, stuck, ret>>

Complete ==
    /\ framed /\ wire = Numbered(request.tx + request.rx, 0)
    /\ request.dev \notin selected

EndFrame ==
    /\ request # NoRequest /\ left' = left - 1
    /\ \E r \in {"Success"} \cup Errors :
          /\ ret' = IF ret = "Success" THEN r ELSE ret
          /\ IF r = "Success"
             THEN Complete /\ buffer' = Numbered(request.rx, request.tx)
             ELSE /\ request.dev \in selected \ stuck => ~online'
                  /\ UNCHANGED buffer
    /\ request' = IF left' = 0 THEN NoRequest ELSE request
    /\ framed' = FALSE /\ wire' = <<>> /\ stuck' = selected
    /\ online' => online
    /\ UNCHANGED selected

Next == Ask \/ Refuse \/ Select \/ Move \/ Release \/ EndFrame

Spec == Init /\ [][Next]_vars
=============================================================================
