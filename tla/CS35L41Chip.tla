---------------------------- MODULE CS35L41Chip ----------------------------
(***************************************************************************)
(* A CS35L41 as the bring-up sees it, and transfers that fail.  A write is *)
(* a record of the fields it sets.  A routine of the driver maps a world,  *)
(* the chip with the driver's flags, to the set of worlds it may end in;   *)
(* ok tells whether it returned success.                                   *)
(***************************************************************************)
EXTENDS Integers, Sequences

CONSTANT MaxFaults  \* bound on the failures of the hardware in a behaviour

ASSUME FaultsAssumption == MaxFaults \in Nat

VARIABLES
    board,   \* what the machine is: boost topology, calibration, identity
    chip, amp,
    down,    \* the bus has failed for good
    faults

Internal == board.topology = "Internal"
Switched == board.topology = "Switched"

\* The transactions of the two images: program memory, then X memory in two
\* parts, then the tuning.  Calibration is a part of X memory.
Blocks == {"PM", "XM1", "XM2", "Tuning"}
Calibration == "Calibration"

\* A chip without power or after a reset.  Its memories are of no use, and the
\* switch of its supply, if the board has one, is off.
Fresh ==
    [key |-> "Locked", errata |-> FALSE, trim |-> FALSE, clock |-> FALSE,
     port |-> FALSE, route |-> "None", pins |-> FALSE, boost |-> FALSE,
     supply |-> "Off",
     mem |-> [b \in Blocks \cup {Calibration} |-> "Old"], core |-> "Off",
     muted |-> TRUE, output |-> FALSE, power |-> FALSE, abused |-> FALSE]

\* What another system may have left behind: it plays, and its key is open.
Inherited == [Fresh EXCEPT !.key = "Unlocked", !.supply = "On", !.core = "On",
                           !.muted = FALSE, !.output = TRUE, !.power = TRUE]

Quiet(c) == ~c.power /\ ~c.output /\ (Switched => c.supply = "Off")

-----------------------------------------------------------------------------
(* Transfers *)

\* The registers behind the test key.
Protected == {"errata", "trim"} \cup IF Internal THEN {} ELSE {"boost"}

\* A write to a protected register has no effect while the key is locked.
Effect(c, r) ==
    IF c.key = "Locked" /\ DOMAIN r \cap Protected # {} THEN c
    ELSE [f \in DOMAIN c |-> IF f \in DOMAIN r THEN r[f] ELSE c[f]]

\* The transfer does not come back, once or for good.
Fails(w) ==
    IF w.faults < MaxFaults
    THEN {[w EXCEPT !.ok = FALSE, !.faults = w.faults + 1, !.down = d] : d \in BOOLEAN}
    ELSE {}

\* A transfer that leaves c behind, if it gets there: one that failed may have.
Transfer(w, c) ==
    LET done == [w EXCEPT !.chip = c]
    IN  IF w.down THEN {[w EXCEPT !.ok = FALSE]}
        ELSE {done} \cup Fails(done) \cup Fails(w)

Write(w, r) == Transfer(w, Effect(w.chip, r))

\* A transfer that changes nothing the model shows.
Nothing == [f \in {} |-> FALSE]

\* One write more, where all succeeded so far, and one more in any case:
\* {w} && r && s stops at the first failure, {w} ++ r ++ s tries both.
InOrder(ws, r) == UNION {IF v.ok THEN Write(v, r) ELSE {v} : v \in ws}
AllTried(ws, r) == UNION {Write(v, r) : v \in ws}

ws && r == InOrder(ws, r)
ws ++ r == AllTried(ws, r)

Read(w) == {w} && Nothing

Unlock == [key |-> "Unlocked"]
Lock == [key |-> "Locked"]

\* A block of the DSP's memory is written, which its core must not see happen.
\* The calibration lies in the second part of X memory.
Loaded(c, b, x) ==
    [mem |-> [d \in DOMAIN c.mem |->
                IF d = b THEN x
                ELSE IF d = Calibration /\ b = "XM2" THEN "Old" ELSE c.mem[d]],
     abused |-> c.abused \/ c.core = "On"]

-----------------------------------------------------------------------------
(* How routines are put together *)

\* The next routine, if the ones before it succeeded.
Onward(ws, R(_)) == UNION {IF w.ok THEN R(w) ELSE {w} : w \in ws}

\* The next routine in any case: success is that of all.
Anyway(ws, R(_)) ==
    UNION {{[v EXCEPT !.ok = v.ok /\ w.ok] : v \in R([w EXCEPT !.ok = TRUE])} : w \in ws}

\* The next routine in any case, and its result is ignored.
Regardless(ws, R(_)) ==
    UNION {{[v EXCEPT !.ok = w.ok] : v \in R([w EXCEPT !.ok = TRUE])} : w \in ws}
=============================================================================
