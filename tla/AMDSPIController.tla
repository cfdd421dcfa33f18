-------------------------- MODULE AMDSPIController --------------------------
(***************************************************************************)
(* One AMD SPI controller (AMDSPIController.cpp, AMDSPIControllerOwner.hpp *)
(* and the choice of owner in NativeSPIControllerSelection.hpp).  It has   *)
(* no power request of its own: the provider must be seen in D0 before it  *)
(* is bound and on every resume, so it is never pending.                   *)
(*                                                                         *)
(* It uses the controller records of IntelSPIController; "granted" is its  *)
(* mPowerAvailable.                                                        *)
(***************************************************************************)
EXTENDS IntelSPIController

\* isD0: _PSC reads zero, while the driver counts on its power.
IsD0(c) == c.granted /\ c.d0

\* The engine is shut down in D0 and abandoned elsewhere; then all is freed.
AMDShutdown(c) ==
    [c EXCEPT !.phase = "None", !.online = FALSE, !.granted = FALSE]

\* The open, the D0 check, the mapping and the engine; a failure shuts down.
AMDBind(c) ==
    LET opened == [c EXCEPT !.phase = "Open", !.granted = TRUE]
    IN  {Outcome(c, "ExclusiveAccess"), Outcome(AMDShutdown(opened), "NotReady")}
        \cup (IF IsD0(opened)
              THEN {Outcome([opened EXCEPT !.phase = "Mapped",
                                           !.online = TRUE], "Success")}
              ELSE {})

\* The owner wants D0 verified before it binds.
AMDCreate(c) == IF c.d0 THEN AMDBind(c) ELSE {Outcome(c, "NotReady")}

AMDSuspend(c) == [c EXCEPT !.online = FALSE, !.granted = FALSE]

\* A resume that fails takes the power for absent again.
AMDResume(c) ==
    IF ~c.d0 \/ c.phase = "None" THEN {Outcome(c, "NotReady")}
    ELSE {Outcome([c EXCEPT !.online = TRUE, !.granted = TRUE], "Success"),
          Outcome([c EXCEPT !.online = FALSE, !.granted = FALSE], "Error")}
=============================================================================
