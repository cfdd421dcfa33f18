--------------------------- MODULE NativeSPIHost ---------------------------
(***************************************************************************)
(* The SPI attachment of the service (NativeSPIHost.hpp): the controllers  *)
(* the board's resources name, bound, continued, resumed and shut down one *)
(* slot after the other, and the authorisation and reset of the amplifiers *)
(* behind them.  The host runs under the service's command gate.           *)
(*                                                                         *)
(* A host is a record; an operation is the set of its outcomes, each the   *)
(* host it leaves behind and its return code.                              *)
(***************************************************************************)
EXTENDS AMDSPIController

CONSTANT Controllers  \* number of controllers the board's resources name

ASSUME ControllersAssumption == Controllers \in Nat \ {0}

Slots == 1 .. Controllers

Kinds == {"Intel", "AMD"}

Host == [kind: Kinds, slot: [Slots -> Controller],
         resumeSlot: Slots,       \* mResumeSlot
         authorized: BOOLEAN,     \* mAuthorized and mWritable
         \* the amplifiers' reset; "None": mResetSequence asks for none
         resetLine: {"None", "Idle", "Held", "Released"}]

HostOutcome(h, ret) == [h |-> h, ret |-> ret]

Bound(h) == \E s \in Slots : h.slot[s].phase # "None"

\* A mutant: only the first controller is asked.
HostPendingFirst(h) == PowerPending(h.slot[1])

HostPending(h) == \E s \in Slots : PowerPending(h.slot[s])

\* Every controller can transfer: registers mapped, engine online, in D0.
AllOnline(h) == \A s \in Slots : h.slot[s].online

Shutdown(h, c) == IF h.kind = "Intel" THEN IntelShutdown(c) ELSE AMDShutdown(c)

HostShutdown(h) ==
    [h EXCEPT !.slot = [s \in Slots |-> Shutdown(h, h.slot[s])],
              !.resumeSlot = 1, !.authorized = FALSE]

HostSuspend(h) ==
    [h EXCEPT !.resumeSlot = 1,
              !.slot = [s \in Slots |->
                            IF h.kind = "Intel" THEN IntelSuspend(h.slot[s])
                            ELSE AMDSuspend(h.slot[s])]]

\* Ask the slots from "first" on, in their order, for one of the answers each
\* may give, and stop at the first that does not succeed: "at" is the slot
\* where it stopped, "done" holds those that succeeded before it.
InOrder(h0, first, answers) ==
    LET Succeeds(s) == {o.c : o \in {x \in answers[s] : x.ret = "Success"}}
        Before(at) == {done \in [first .. at - 1 ->
                                    UNION {Succeeds(s) : s \in first .. at - 1}]
                       : \A s \in first .. at - 1 : done[s] \in Succeeds(s)}
        Last(at) == {o \in answers[at] : o.ret = "Success" => at = Controllers}
        Slot(done, o, at) ==
            [s \in Slots |-> IF s \in DOMAIN done THEN done[s]
                             ELSE IF s = at THEN o.c ELSE h0.slot[s]]
    IN  UNION {{[h |-> [h0 EXCEPT !.slot = Slot(done, o, at)], ret |-> o.ret, at |-> at]
                : done \in Before(at), o \in Last(at)} : at \in first .. Controllers}

\* The source of an endpoint must name one ACPI device, and that device one
\* PCI function, which may be published up to 30 s late.
Resolve(c) == {Outcome(c, "Success"), Outcome(c, "NotFound")}

FindPCI(c) == {Outcome(c, "Success"), Outcome(c, "NotFound")}

\* The factory: a PCI function makes an Intel owner, a known ACPI identity
\* without one an AMD owner.
CreateController(h, c0, interpreter) ==
    Then(Resolve(c0), LAMBDA c:
        IF h.kind = "AMD" THEN AMDCreate(c)
        ELSE Then(FindPCI(c), LAMBDA x: IntelCreate(x, interpreter)))

\* To a bind a pending owner is as good as a ready one.
Created(h, c, interpreter) ==
    {IF PowerPending(o.c) THEN Outcome(o.c, "Success") ELSE o
     : o \in CreateController(h, c, interpreter)}

\* bindImpl: the endpoints of the resources are checked, and each controller
\* gets an owner; anything that fails takes the whole host down.
HostBind(h0, interpreter) ==
    LET runs == InOrder(h0, 1, [s \in Slots |-> Created(h0, h0.slot[s], interpreter)])
    IN  IF Bound(h0) THEN {HostOutcome(h0, "BadArgument")}
        ELSE {HostOutcome(h0, "Unsupported")} \cup
             {HostOutcome(IF r.ret = "Success" THEN r.h ELSE HostShutdown(r.h),
                          r.ret) : r \in runs}

\* An AMD owner has nothing to wait for.
Continue(h, c, interpreter) ==
    IF h.kind = "AMD" \/ c.phase = "None" THEN {Outcome(c, "Success")}
    ELSE IntelContinueBind(c, interpreter)

\* A mutant: a failing owner leaves its peers bound.
HostContinueBindAlone(h0, interpreter) ==
    {HostOutcome(r.h, r.ret)
     : r \in InOrder(h0, 1, [s \in Slots |-> Continue(h0, h0.slot[s], interpreter)])}

\* The first pending owner ends the round; a failing one cancels its peers.
HostContinueBind(h0, interpreter) ==
    {HostOutcome(IF r.ret = "Success" \/ PowerPending(r.h.slot[r.at])
                 THEN r.h ELSE HostShutdown(r.h), r.ret)
     : r \in InOrder(h0, 1, [s \in Slots |-> Continue(h0, h0.slot[s], interpreter)])}

Woken(h) ==
    [s \in Slots |-> IF h.kind = "Intel" THEN IntelResume(h.slot[s]) ELSE AMDResume(h.slot[s])]

\* Two mutants: a resume goes on after the slot that was pending, and a
\* failed one leaves the slots before it awake.
HostResumePast(h0) ==
    IF ~Bound(h0) THEN {HostOutcome(h0, "Success")}
    ELSE {HostOutcome(CASE r.ret = "Success" -> r.h
                        [] r.ret # "Success" /\ HostPending(r.h) ->
                              [r.h EXCEPT !.resumeSlot = r.at + 1]
                        [] OTHER -> HostSuspend(r.h), r.ret)
          : r \in InOrder(h0, h0.resumeSlot, Woken(h0))}

HostResumeHalf(h0) ==
    IF ~Bound(h0) THEN {HostOutcome(h0, "Success")}
    ELSE {HostOutcome([r.h EXCEPT !.resumeSlot =
                          IF r.ret # "Success" THEN r.at ELSE 1], r.ret)
          : r \in InOrder(h0, h0.resumeSlot, Woken(h0))}

\* Resume goes on at the slot that was pending; a failure puts all to sleep.
HostResume(h0) ==
    LET Answer(r) ==
            CASE r.ret = "Success" -> [r.h EXCEPT !.resumeSlot = 1]
              [] r.ret # "Success" /\ PowerPending(r.h.slot[r.at]) ->
                    [r.h EXCEPT !.resumeSlot = r.at]
              [] OTHER -> HostSuspend(r.h)
    IN  IF ~Bound(h0) THEN {HostOutcome(h0, "Success")}
        ELSE {HostOutcome(Answer(r), r.ret) : r \in InOrder(h0, h0.resumeSlot, Woken(h0))}

\* The read-only maps give way to the authorised ones all at once, when every
\* endpoint matches the board and has a driver; a second time is refused.
ConfigureAuthorized(h) ==
    IF HostPending(h) THEN {HostOutcome(h, "NotReady")}
    ELSE {HostOutcome(h, "NotPermitted")} \cup
         (IF ~Bound(h) \/ h.authorized THEN {}
          ELSE {HostOutcome([h EXCEPT !.authorized = TRUE], "Success")})

\* The GPIO group holds the amplifiers in reset and lets them go.  The release
\* is tried even where the assertion failed part of the way; each may fail.  A
\* GPIO write wants the registers mapped and the function in D0.
PrepareHardware(h) ==
    LET reachable == \E s \in Slots : /\ h.slot[s].phase = "Mapped"
                                      /\ h.slot[s].d0
    IN  CASE HostPending(h) -> {HostOutcome(h, "NotReady")}
          [] ~HostPending(h) /\ ~h.authorized ->
                {HostOutcome(h, "NotPermitted")}
          [] ~HostPending(h) /\ h.authorized /\ h.resetLine = "None" ->
                {HostOutcome(h, "Success")}
          [] OTHER ->
                {HostOutcome(h, "Unsupported")}
                \cup (IF reachable
                      THEN {HostOutcome([h EXCEPT !.resetLine = "Released"],
                                        ret) : ret \in {"Success", "Error"}}
                           \cup {HostOutcome([h EXCEPT !.resetLine = "Held"],
                                             "Error")}
                      ELSE {HostOutcome(h, "NotReady")})
=============================================================================
