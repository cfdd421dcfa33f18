------------------------- MODULE IntelSPIController -------------------------
(***************************************************************************)
(* One Intel LPSS SPI controller as the service owns it: the exclusive     *)
(* open of the PCI function, the power request, the mapped registers, the  *)
(* chip selects behind the ACPI interpreter, sleep, wake and shutdown      *)
(* (IntelLPSSSPIController.cpp and IntelSPIControllerOwner.hpp).           *)
(*                                                                         *)
(* A controller is a record: what the driver remembers and what the        *)
(* hardware and the power manager hold for it.  An operation is the SET of *)
(* its outcomes, each the controller it leaves behind and its return code: *)
(* the choices are the answers of PCI, power manager, mapping and ACPI.    *)
(***************************************************************************)
EXTENDS Integers

CONSTANTS
    PowerDeadline,       \* clock ticks in the 30 s an acquisition may wait
    InterpreterDeadline  \* clock ticks in the 60 s the ACPI interpreter may take

ASSUME DeadlinesAssumption == /\ PowerDeadline \in Nat \ {0}
                              /\ InterpreterDeadline \in Nat \ {0}

Phases == {"None", "Open", "Mapped"}        \* no lock; opened; registers mapped
Clients == {"None", "Unjoined", "Joined"}   \* the power client of the function

Controller ==
    [phase: Phases, client: Clients,
     pending: BOOLEAN,                      \* mPowerPending
     waited: 0 .. PowerDeadline,            \* since mPowerStartedNs
     memWas: BOOLEAN, memChanged: BOOLEAN,  \* mMemoryWasEnabled, mMemoryChanged
     online: BOOLEAN,                       \* the engine accepts transfers
     selects: BOOLEAN,                      \* mChipSelectsReady
     acpi: BOOLEAN,                         \* mACPIPending
     acpiWaited: -1 .. InterpreterDeadline, \* -1: no mACPIDeadlineNs yet
     \* the hardware and the power manager
     vote: BOOLEAN, granted: BOOLEAN, d0: BOOLEAN, mem: BOOLEAN]

\* A function nobody has opened, in D0 or not, its memory space on or off.
Unopened(d0, mem) ==
    [phase |-> "None", client |-> "None", pending |-> FALSE, waited |-> 0,
     memWas |-> FALSE, memChanged |-> FALSE, online |-> FALSE,
     selects |-> FALSE, acpi |-> FALSE, acpiWaited |-> -1,
     vote |-> FALSE, granted |-> FALSE, d0 |-> d0, mem |-> mem]

Outcome(c, ret) == [c |-> c, ret |-> ret]

\* Go on with Next where the previous call succeeded; its failures stand.
Then(outcomes, Next(_)) ==
    UNION {IF o.ret = "Success" THEN Next(o.c) ELSE {o} : o \in outcomes}

-----------------------------------------------------------------------------
(* acquirePower *)

\* The client is created once: it may fail to be allocated, to attach or to
\* register, and a client whose registration failed is kept without joining.
PowerClient(c) ==
    IF c.client # "None" THEN {Outcome(c, "Success")}
    ELSE {Outcome(c, "NoMemory"), Outcome(c, "NotReady"),
          Outcome([c EXCEPT !.client = "Unjoined"], "Error"),
          Outcome([c EXCEPT !.client = "Joined"], "Success")}

\* Only a new request votes; a pending one is only looked at again.
Vote(c) ==
    IF c.pending THEN {Outcome(c, "Success")}
    ELSE {Outcome(c, "Error"),
          Outcome([c EXCEPT !.vote = TRUE, !.pending = TRUE], "Success")}

\* One look at the pending request.  A granted function in D0 is ready; one
\* the firmware left elsewhere is refused where leaving D3hot would reset it,
\* and is otherwise asked for D0 once.  Without a grant it waits out 30 s.
Sample(c) ==
    LET answered == [c EXCEPT !.pending = FALSE]
    IN  CASE c.granted /\ c.d0 -> {Outcome(answered, "Success")}
          [] c.granted /\ ~c.d0 ->
                {Outcome(answered, "NotReady"),
                 Outcome([answered EXCEPT !.d0 = TRUE], "Success")}
          [] ~c.granted /\ c.waited < PowerDeadline -> {Outcome(c, "NotReady")}
          [] OTHER -> {Outcome(answered, "Timeout")}

\* A mutant: every look at a pending request starts its 30 s anew.
AcquirePowerAnew(c0) ==
    LET c == [c0 EXCEPT !.waited = 0]
    IN  {Outcome([c EXCEPT !.pending = FALSE], "NoDevice")}
            \cup Then(Then(PowerClient(c), Vote), Sample)

\* The PCI function may have gone or changed its identity at any look.
AcquirePower(c0) ==
    LET c == IF c0.pending THEN c0 ELSE [c0 EXCEPT !.waited = 0]
    IN  {Outcome([c EXCEPT !.pending = FALSE], "NoDevice")}
            \cup Then(Then(PowerClient(c), Vote), Sample)

\* The client is cancelled, stopped and detached: its vote goes with it.
ReleasePower(c) ==
    [c EXCEPT !.client = "None", !.vote = FALSE, !.granted = FALSE]

-----------------------------------------------------------------------------
(* bind, continueBind, shutdown *)

\* The engine is shut down or, out of D0, abandoned; the memory enable is
\* put back only where registers can be reached; then power and the open go.
IntelShutdown(c) ==
    LET released == ReleasePower(c)
        closed == [released EXCEPT
                      !.phase = "None", !.pending = FALSE, !.online = FALSE,
                      !.mem = IF c.phase # "None" /\ c.memChanged /\ c.d0
                              THEN c.memWas ELSE c.mem]
    IN  [closed EXCEPT !.memChanged = FALSE, !.selects = FALSE,
                       !.acpi = FALSE, !.acpiWaited = -1]

\* A mutant: the memory enable is remembered after it was set.
MapRegistersLate(c) ==
    LET enabled == [c EXCEPT !.memWas = TRUE, !.memChanged = TRUE, !.mem = TRUE]
    IN  {Outcome(IntelShutdown(enabled), "NoResources"),
         Outcome([enabled EXCEPT !.phase = "Mapped", !.online = TRUE],
                 "Success")}

\* Memory space is enabled and remembered, the registers are mapped and the
\* engine initialised; whatever fails shuts the controller down.
MapRegisters(c) ==
    LET enabled == [c EXCEPT !.memWas = c.mem, !.memChanged = TRUE,
                             !.mem = TRUE]
    IN  {Outcome(IntelShutdown([enabled EXCEPT !.mem = c.mem]), "NotReady"),
         Outcome(IntelShutdown(enabled), "NoResources"),
         Outcome([enabled EXCEPT !.phase = "Mapped", !.online = TRUE],
                 "Success")}

ControllerContinueBind(c) ==
    CASE c.phase = "None" -> {Outcome(c, "NotReady")}
      [] c.phase = "Mapped" -> {Outcome(c, "Success")}
      [] OTHER ->
            UNION {CASE o.ret = "Success" -> MapRegisters(o.c)
                     [] o.ret # "Success" /\ o.c.pending -> {o}
                     [] OTHER -> {Outcome(IntelShutdown(o.c), o.ret)}
                   : o \in AcquirePower(c)}

\* The owner goes on to the chip selects, which need the ACPI interpreter:
\* Lilu's callback may publish it late, and 60 s are allowed for that.
ChipSelects(c) ==
    {Outcome([c EXCEPT !.acpi = FALSE, !.selects = TRUE], "Success"),
     Outcome([c EXCEPT !.acpi = FALSE], "Error")}

\* A mutant: the deadline for the interpreter is set again by every poll.
AwaitInterpreterAnew(c, interpreter) ==
    LET waits == interpreter \in {"CallbackNotReached", "Ready"}
    IN  {Outcome([c EXCEPT !.acpi = waits, !.acpiWaited = 0],
                 IF waits THEN "NotReady" ELSE "Unsupported")}

AwaitInterpreter(c, interpreter) ==
    LET since == IF c.acpiWaited = -1 THEN 0 ELSE c.acpiWaited
        awaiting == interpreter \in {"CallbackNotReached", "Ready"}
        waits == awaiting /\ since < InterpreterDeadline
    IN  {Outcome([c EXCEPT !.acpi = waits, !.acpiWaited = since],
                 CASE waits -> "NotReady"
                   [] awaiting /\ ~waits -> "Timeout"
                   [] OTHER -> "Unsupported")}

IntelContinueBind(c0, interpreter) ==
    Then(ControllerContinueBind(c0), LAMBDA c:
        IF c.selects THEN {Outcome(c, "Success")}
        ELSE (IF interpreter = "Published" THEN {}
              ELSE AwaitInterpreter(c, interpreter))
             \cup (IF interpreter # "Published" /\ c.acpi THEN {}
                   ELSE ChipSelects(c)))

\* Waiting for power or for the interpreter.
PowerPending(c) == c.acpi \/ c.pending

\* A function that is not a known one, or that somebody else has open.
IntelBind(c) == {Outcome(c, "Unsupported"), Outcome(c, "ExclusiveAccess"),
                 Outcome([c EXCEPT !.phase = "Open"], "Success")}

\* The factory: the exclusive open, then the bind as far as it goes now.  An
\* owner that fails without anything pending is deleted, which shuts it down.
IntelCreate(c, interpreter) ==
    {IF o.ret # "Success" /\ ~PowerPending(o.c)
     THEN Outcome(IntelShutdown(o.c), o.ret) ELSE o
     : o \in Then(IntelBind(c), LAMBDA x: IntelContinueBind(x, interpreter))}

-----------------------------------------------------------------------------
(* suspend, resume *)

\* Offline before the vote is withdrawn.  A wait for the interpreter stays.
IntelSuspend(c) ==
    [c EXCEPT !.online = FALSE, !.pending = FALSE, !.vote = FALSE]

\* After power: the firmware's power resources, the memory enable, the engine
\* and the chip select outputs; any of them failing leaves it offline.
IntelResume(c) ==
    LET Offline(x) == [x EXCEPT !.online = FALSE]
        powered == {Outcome(Offline(o.c), o.ret) : o \in AcquirePower(c)}
    IN  IF c.phase = "None" THEN {Outcome(c, "NotReady")}
        ELSE Then(powered, LAMBDA x:
                {Outcome(x, "Error")} \cup
                (IF x.phase = "Mapped" /\ x.d0
                 THEN {Outcome([x EXCEPT !.mem = TRUE], "NotReady"),
                       Outcome([x EXCEPT !.mem = TRUE, !.online = TRUE],
                               "Success")}
                 ELSE {Outcome(x, "NotReady")}))

-----------------------------------------------------------------------------
(* The power manager and the clock, outside the driver *)

CanGrant(c) == c.client = "Joined" /\ c.vote /\ ~c.granted

\* The domain is granted some time after the vote, in D0 or still in D3.
Granted(c) == {[c EXCEPT !.granted = TRUE, !.d0 = d] : d \in {c.d0, TRUE}}

CanDrop(c) == c.client = "Joined" /\ ~c.vote /\ c.granted

\* Without a vote the domain goes, the function to D3 and its memory off.
Dropped(c) == [c EXCEPT !.granted = FALSE, !.d0 = FALSE, !.mem = FALSE]

\* A tick of the clock for whatever is waited for.
TickController(c) ==
    [c EXCEPT !.waited = IF c.pending /\ @ < PowerDeadline THEN @ + 1 ELSE @,
              !.acpiWaited = IF @ \in 0 .. InterpreterDeadline - 1
                             THEN @ + 1 ELSE @]
=============================================================================
